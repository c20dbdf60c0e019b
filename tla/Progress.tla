------------------------------- MODULE Progress -------------------------------
(***************************************************************************)
(* What must happen in the end, part by part on a small instance: the      *)
(* flippers and the keyboard's queue, the one-shot timer, keyboard calls,  *)
(* the music, a replay and a submission.  A behaviour is one part's,       *)
(* `which' says whose, and the others stand still; so one condition of     *)
(* fairness can be several parts' at once, and each part has its own.      *)
(***************************************************************************)
EXTENDS Integers, Sequences

CONSTANTS None, a1, r1

VARIABLES
  which,
  kbd_buf, kbd_held, irr, handler, pfx, flip, fix_on, phys, call, whole, made,
  ch, pic, left, takes, stack, short, inside, owed,
  head, tail, buf, shift, waits, enabled, iflag, halted, oa_active, line, pos, screen,
  started, given, typed,
  card, out, driver, isr, got, since, own, busy, hdr_i, dropped,
  lines, strict, reading, file, cycles, ev_idx, pressed, ended,
  st, login, ask, jobs, server, windows, losses

keyboard    == <<kbd_buf, kbd_held, irr, handler, pfx, flip, fix_on, phys, call, whole, made>>
interrupts  == <<ch, pic, left, takes, stack, short, inside, owed>>
bios        == <<head, tail, buf, shift, waits, enabled, iflag, halted, oa_active, line, pos,
                 screen, started, given, typed>>
sound       == <<card, out, driver, isr, got, since, own, busy, hdr_i, dropped>>
replay      == <<lines, strict, reading, file, cycles, ev_idx, pressed, ended>>
leaderboard == <<st, login, ask, jobs, server, windows, losses>>
vars        == <<which, keyboard, interrupts, bios, sound, replay, leaderboard>>

-----------------------------------------------------------------------------
\* One key of either flipper.
Kb == INSTANCE Keyboard WITH Keys <- {42, 184}, Cap <- 3

\* Counts of two digits of two values, and no other device.
Ir == INSTANCE Interrupts WITH
  Radix <- 2, MaxPast <- 4, Batch <- 3, Unarmed <- 2, Resync <- 3, Modes <- {0}, Others <- {},
  iflag <- takes

\* A ring of two words and three keys.
Bs == INSTANCE Bios WITH
  Slots <- 3, MaxLine <- 1, Cols <- 3, Rows <- 1, MaxTyped <- 3, prog <- waits

\* Two programs and two host buffers.
Sd == INSTANCE Sound WITH
  Programs <- {1, 2}, Start <- <<2, 5>>, Length <- <<2, 3>>, Half <- 4, Transfer <- 6, Due <- {1, 2},
  NBUF <- 2, prog <- driver

\* Files of a line behind a sound header, and longer ones that are closed.
Rf == INSTANCE ReplayFile WITH
  Last_ <- 2, LIM_EVENTS <- 2, HashedLines <- 5, MaxLines <- 1, pc <- reading, f <- file

\* One account, and two requests at a time, one of which is lost.
Le == INSTANCE Leaderboard WITH
  Accounts <- {a1}, Files <- {r1}, MaxLogins <- 1, MaxWindows <- 1, MaxJobs <- 2, MaxLosses <- 1

-----------------------------------------------------------------------------
Only(part) ==
  /\ which = part /\ UNCHANGED which
  /\ IF part = "keyboard"    THEN TRUE ELSE UNCHANGED keyboard
  /\ IF part = "interrupts"  THEN TRUE ELSE UNCHANGED interrupts
  /\ IF part = "bios"        THEN TRUE ELSE UNCHANGED bios
  /\ IF part = "sound"       THEN TRUE ELSE UNCHANGED sound
  /\ IF part = "replay"      THEN TRUE ELSE UNCHANGED replay
  /\ IF part = "leaderboard" THEN TRUE ELSE UNCHANGED leaderboard

NoReplay ==
  /\ lines = None /\ strict = None /\ reading = None /\ file = None /\ cycles = None
  /\ ev_idx = None /\ pressed = None /\ ended = None

Init ==
  /\ which \in {"keyboard", "interrupts", "bios", "sound", "replay", "leaderboard"}
  /\ Kb!Init /\ Ir!Init /\ Bs!Init /\ Sd!Init /\ Le!Init
  /\ IF which = "replay" THEN Rf!Init ELSE NoReplay

Next ==
  \/ Only("keyboard") /\ Kb!Next
  \/ Only("interrupts") /\ Ir!Next
  \/ Only("bios") /\ Bs!Next
  \/ Only("sound") /\ Sd!Next
  \/ Only("replay") /\ Rf!Next
  \/ Only("leaderboard") /\ Le!Next

\* The conditions of each part's own fairness, side by side.
Fair1 ==
  \/ Only("keyboard") /\ Kb!ReleaseKey
  \/ Only("interrupts") /\ Ir!Turn
  \/ Only("bios") /\ Bs!Reads
  \/ Only("sound") /\ Sd!Outs
  \/ Only("replay") /\ Rf!Turn
  \/ Only("leaderboard") /\ Le!PollTick
Fair2 ==
  \/ Only("keyboard") /\ Kb!ReconcileKey
  \/ Only("interrupts") /\ Ir!Guest
  \/ Only("bios") /\ Bs!Timer
  \/ Only("sound") /\ Sd!Handler
  \/ Only("leaderboard") /\ \E k \in DOMAIN server.subs : Le!Verified(k)
Fair3 ==
  \/ Only("sound") /\ \E n \in {1, 2} : Sd!Tick(n)
  \/ Only("leaderboard") /\ Le!Serve(1)

Spec ==
  /\ Init /\ [][Next]_vars
  /\ WF_vars(Fair1) /\ WF_vars(Fair2) /\ WF_vars(Fair3)
  /\ WF_vars(Only("leaderboard") /\ Le!Serve(2))
  /\ \A i \in 1 .. 2 : WF_vars(Only("leaderboard") /\ Le!Deliver(i))
  /\ SF_vars(Only("keyboard") /\ Kb!TakeIrq)
  /\ SF_vars(Only("keyboard") /\ Kb!ReadPort)
  /\ SF_vars(Only("keyboard") /\ Kb!Eoi)

-----------------------------------------------------------------------------
\* A flipper whose keys are all up comes down, and a queue that holds bytes is
\* read on.
KeysArrive == Kb!FlipperComesDown /\ Kb!QueueMoves
\* An armed one-shot fires.
OneShotFires == Ir!OneShotFires
\* A keyboard call is served once something was typed.
CallsServed == Bs!CallsServed
\* The music goes on.
KeepsPlaying == Sd!KeepsPlaying
\* A replay that was accepted ends.
AcceptedEnds == Rf!AcceptedEnds
\* A submission that is followed is followed to its end.
FollowedSettles == Le!FollowedSettles
=============================================================================
