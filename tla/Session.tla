------------------------------ MODULE Session -------------------------------
(***************************************************************************)
(* A recorded session and its replay (src/run.c, src/replay.c).  One run   *)
(* of the emulator loop is recorded: the host presses and releases keys    *)
(* whenever the loop comes round to plat_pump(), and every kbd_key() is    *)
(* logged with cpu.cycles and emu_now().  The file is then replayed from   *)
(* boot: each event is injected when its stamp comes due, batches and idle *)
(* jumps are cut short so that they end on a stamp, and the footer says    *)
(* where to stop.  A loop over keys or events takes one step for each, and *)
(* nothing else moves until it is over.                                    *)
(*                                                                         *)
(* The guest is a small deterministic program: it halts, wakes on IRQ0 and *)
(* IRQ1, reads port 60h, re-arms its one-shot timer.  `seen' is all it     *)
(* ever observes, each item with the cycle it was observed on.             *)
(*                                                                         *)
(* Time is an integer: one cycle is Sub units of emulated time and one     *)
(* microsecond - the last digit of a printed stamp - is Micro units.       *)
(***************************************************************************)
EXTENDS KbdBytes, SequencesExt

CONSTANTS
  Batch,      \* instructions run between two looks at the devices (256)
  Unarmed,    \* the same while the one-shot is spent (PIT0_UNARMED_BATCH, 32)
  IdleJump,   \* cycles a halted guest skips at a time (emu_ips / 10000)
  Delay,      \* cycles from arming the one-shot to its terminal count
  Spin,       \* instructions the guest's main loop runs before each HLT
  Sub, Micro, \* the clock's grain, see above
  Legacy,     \* the file predates cycle stamps: events and footer carry time only
  MaxCycle,   \* bound: the host closes the window by then
  MaxEvents   \* bound: keys the host sends

ASSUME SessionAssumption ==
  /\ {Batch, Unarmed, IdleJump, Delay, Spin, Sub, Micro} \subseteq Nat \ {0}
  /\ Legacy \in BOOLEAN /\ MaxCycle \in Nat /\ MaxEvents \in Nat

VARIABLES
  mode,     \* "record", "release" (a focus loss in it), "replay" or "done"
  m,        \* the emulated machine
  file,     \* the .pfr: its events and its footer
  ev_idx,   \* events injected so far
  trace,    \* history: the machine after each step recorded, and the events then logged
  overlap   \* history: a focus loss let go of two keys of one side at once

vars == <<mode, m, file, ev_idx, trace, overlap>>

Events == file.events
orig   == trace[Len(trace)].g    \* how the recording ended

Boot == [cycles |-> 0, halted |-> FALSE, iflag |-> TRUE, ctx |-> "main", pc |-> 0,
         next_irq |-> Delay, armed |-> TRUE, irr |-> {}, isr |-> {},
         buf |-> <<>>, held |-> {}, seen |-> <<>>]

Init ==
  /\ mode = "record" /\ m = Boot /\ ev_idx = 0 /\ overlap = FALSE
  /\ trace = <<[g |-> Boot, n |-> 0]>>
  /\ file = [events |-> <<>>, end_cycles |-> 0, end_emu |-> 0]

-----------------------------------------------------------------------------
(***************************************************************************)
(* The guest: one instruction (cpu_step), one cycle.  HLT only sets a flag *)
(* that the loop looks at after the batch; the instructions behind it run  *)
(* in the same batch.                                                      *)
(***************************************************************************)
Irq0 == 256    \* in seen, where a byte would be

Observe(g, what) == [g EXCEPT !.seen = Append(@, <<g.cycles, what>>)]

Read60(g) ==   \* kbd_read60
  LET rest == IF g.buf = <<>> THEN <<>> ELSE Tail(g.buf)
      byte == IF g.buf = <<>> THEN 0 ELSE Head(g.buf)
  IN  [Observe(g, byte) EXCEPT
         !.buf = rest,
         !.irr = IF rest = <<>> THEN @ \ {1} ELSE @ \cup {1}]

EndOfInterrupt(g, irq) ==   \* EOI and IRET
  [g EXCEPT !.isr = @ \ {irq}, !.iflag = TRUE, !.ctx = "main", !.pc = 0]

Instruction(g) ==
  CASE g.ctx = "main" ->
         [g EXCEPT !.pc = (@ + 1) % Spin, !.halted = @ \/ g.pc + 1 = Spin]
    [] g.ctx = "kbd" /\ g.pc = 0 -> [Read60(g) EXCEPT !.pc = 1]
    [] g.ctx = "kbd" /\ g.pc = 1 -> EndOfInterrupt(g, 1)
    [] g.ctx = "timer" /\ g.pc = 0 ->
         [Observe(g, Irq0) EXCEPT !.pc = 1, !.armed = TRUE,
                                     !.next_irq = g.cycles + Delay]
    [] g.ctx = "timer" /\ g.pc = 1 -> EndOfInterrupt(g, 0)

cpu_step(g) == [Instruction(g) EXCEPT !.cycles = @ + 1]

\* The state lim instructions on, as a set of one.
RunBatch(g, lim) ==
  LET ran[k \in 0 .. lim] == IF k = 0 THEN {g} ELSE {cpu_step(h) : h \in ran[k - 1]}
  IN  ran[lim]

-----------------------------------------------------------------------------
(***************************************************************************)
(* The clock, the timer and the interrupt controller.                      *)
(***************************************************************************)
emu_now(g) == g.cycles * Sub

\* "%.6f": a time printed to the nearest microsecond.
Printed(t) == ((2 * t + Micro) \div (2 * Micro)) * Micro

dev_next_deadline(g) ==
  IF ~ g.armed THEN g.cycles + Unarmed
  ELSE IF g.next_irq <= g.cycles THEN g.cycles
  ELSE g.next_irq

\* Channel 0 in mode 0: one IRQ0 per count written.
dev_tick(g) ==
  IF g.armed /\ g.cycles >= g.next_irq
  THEN [g EXCEPT !.armed = FALSE, !.irr = @ \cup {0}]
  ELSE g

\* pic_pending and cpu_interrupt, once per batch, when interrupts are on.
Deliver(g) ==
  IF ~ g.iflag THEN g
  ELSE IF 0 \notin g.isr /\ 0 \in g.irr
  THEN [g EXCEPT !.irr = @ \ {0}, !.isr = @ \cup {0}, !.iflag = FALSE,
                 !.halted = FALSE, !.ctx = "timer", !.pc = 0]
  ELSE IF g.isr = {} /\ 1 \in g.irr
  THEN [g EXCEPT !.irr = @ \ {1}, !.isr = @ \cup {1}, !.iflag = FALSE,
                 !.halted = FALSE, !.ctx = "kbd", !.pc = 0]
  ELSE g

-----------------------------------------------------------------------------
(***************************************************************************)
(* kbd_key() on a machine in a table, flipper fix on.                      *)
(***************************************************************************)
kbd_key(g, idx, down) ==
  [g EXCEPT
     !.buf  = IF down THEN AfterMake(g.buf, g.held, idx, TRUE)
                      ELSE AfterBreak(g.buf, g.held, idx, TRUE),
     !.held = HeldAfter(@, idx, down),
     !.irr  = IF ~ down \/ MakeRaises(g.buf, g.held, idx, TRUE) THEN @ \cup {1} ELSE @]

\* One key of kbd_release_all(): a break and no repair.  (IRQ1 is raised when
\* the loop is over; nothing looks at it before.)
kbd_release(g, idx) ==
  [g EXCEPT
     !.buf  = kbd_push(@, BreakBytes(idx), TRUE),
     !.held = @ \ {idx},
     !.irr  = @ \cup {1}]

-----------------------------------------------------------------------------
(***************************************************************************)
(* The replay side (src/replay.c).                                         *)
(***************************************************************************)
Pending == ev_idx < Len(Events)

\* Mutant: an event is due only after its stamp.
DueAfter(e, g) == IF Legacy THEN e.t < emu_now(g) ELSE e.cyc < g.cycles

event_due(e, g) == IF Legacy THEN e.t <= emu_now(g) ELSE e.cyc <= g.cycles

\* replay_inject_due: the events that are due, in file order.
NextDue == Pending /\ event_due(Events[ev_idx + 1], m)

\* replay_next_deadline, asked after the due events are in; `none' is past
\* every bound.
None == MaxCycle + Batch + IdleJump + 1
TimeDeadline(g, t) == g.cycles + ((t - emu_now(g)) \div Sub)

replay_next_deadline(g, idx) ==
  IF idx < Len(Events)
  THEN IF Legacy
       THEN IF Events[idx + 1].t <= emu_now(g) THEN g.cycles
            ELSE TimeDeadline(g, Events[idx + 1].t)
       ELSE IF Events[idx + 1].cyc <= g.cycles THEN g.cycles ELSE Events[idx + 1].cyc
  ELSE IF file.end_cycles > g.cycles THEN file.end_cycles
  ELSE IF file.end_emu > emu_now(g) THEN TimeDeadline(g, file.end_emu)
  ELSE None

replay_should_stop(g, idx) ==
  /\ idx = Len(Events)
  /\ \/ file.end_cycles > 0 /\ g.cycles >= file.end_cycles
     \/ emu_now(g) >= file.end_emu

replay_completed(g, idx) ==
  /\ idx = Len(Events)
  /\ IF file.end_cycles > 0 THEN g.cycles >= file.end_cycles
                            ELSE emu_now(g) >= file.end_emu

-----------------------------------------------------------------------------
(***************************************************************************)
(* One turn of the inner loop: a batch, or an idle jump when the guest has *)
(* halted; the devices; at most one interrupt.  `deadline' is the replay's.*)
(***************************************************************************)
Lesser(a, b) == IF a < b THEN a ELSE b

IdleStep(g, deadline) ==
  IF deadline < g.cycles + IdleJump
  THEN IF deadline > g.cycles THEN deadline - g.cycles ELSE 0
  ELSE IdleJump

BatchLimit(g, deadline) ==
  LET dl == Lesser(dev_next_deadline(g), deadline) IN
  IF dl <= g.cycles THEN 1 ELSE Lesser(Batch, dl - g.cycles)

Turn(g, deadline) ==
  {Deliver(dev_tick(h)) :
     h \in IF g.halted THEN {[g EXCEPT !.cycles = @ + IdleStep(g, deadline)]}
                       ELSE RunBatch(g, BatchLimit(g, deadline))}

Recorded(g, n) == trace' = Append(trace, [g |-> g, n |-> n])

RecordTurn ==
  /\ mode = "record" /\ m.cycles < MaxCycle
  /\ m' \in Turn(m, None)
  /\ Recorded(m', Len(Events))
  /\ UNCHANGED <<mode, file, ev_idx, overlap>>

Inject ==
  /\ mode = "replay" /\ NextDue
  /\ m' = kbd_key(m, Events[ev_idx + 1].idx, Events[ev_idx + 1].down)
  /\ ev_idx' = ev_idx + 1
  /\ UNCHANGED <<mode, file, trace, overlap>>

ReplayTurn ==
  /\ mode = "replay" /\ ~ NextDue
  /\ m' \in Turn(m, replay_next_deadline(m, ev_idx))
  /\ mode' = IF replay_should_stop(m', ev_idx) THEN "done" ELSE "replay"
  /\ UNCHANGED <<file, ev_idx, trace, overlap>>

-----------------------------------------------------------------------------
(***************************************************************************)
(* The host, between two turns.  Live keys, reconciliation and focus loss  *)
(* reach the guest only while it is not replaying.                         *)
(***************************************************************************)
\* Mutant: live keys are not shut out while a file is replayed.
LiveInReplay == mode # "done"

Live == mode = "record"

\* replay_log_key
Stamped(idx, down) == [cyc |-> m.cycles, t |-> Printed(emu_now(m)), idx |-> idx, down |-> down]

replay_log_key(idx, down) ==
  IF mode \in {"record", "release"}
  THEN /\ file' = [file EXCEPT !.events = Append(@, Stamped(idx, down))]
       /\ Recorded(m', Len(Events) + 1)
  ELSE UNCHANGED <<file, trace>>

HostKey(idx, down) ==
  /\ Live /\ Len(Events) < MaxEvents
  /\ m' = kbd_key(m, idx, down)
  /\ replay_log_key(idx, down)
  /\ UNCHANGED <<mode, ev_idx, overlap>>

\* The held keys in index order.
FocusLost ==
  /\ mode = "record" /\ m.held # {} /\ Len(Events) < MaxEvents
  /\ mode' = "release"
  /\ UNCHANGED <<m, file, ev_idx, trace, overlap>>

ReleaseKey ==
  /\ mode = "release"
  /\ \E idx \in m.held :
       /\ \A other \in m.held : idx <= other
       /\ m' = kbd_release(m, idx)
       /\ replay_log_key(idx, FALSE)
       /\ overlap' = (overlap \/ Sibling(idx, m.held \ {idx}) # <<>>)
       /\ mode' = IF m.held = {idx} THEN "record" ELSE "release"
  /\ UNCHANGED ev_idx

\* The window is closed: replay_end_record writes the footer, and the file
\* is replayed from boot.
EndRecord ==
  /\ mode = "record" /\ m.cycles > 0
  /\ mode' = "replay"
  /\ file' = [file EXCEPT !.end_cycles = IF Legacy THEN 0 ELSE m.cycles,
                          !.end_emu = Printed(emu_now(m))]
  /\ m' = Boot
  /\ UNCHANGED <<ev_idx, trace, overlap>>

Done == mode = "done" /\ UNCHANGED vars

Next ==
  \/ RecordTurn \/ Inject \/ ReplayTurn \/ EndRecord \/ FocusLost \/ ReleaseKey \/ Done
  \/ \E idx \in Keys, down \in BOOLEAN : HostKey(idx, down)

\* The loop keeps turning; nothing else is promised.
Spec     == Init /\ [][Next]_vars
FairSpec == Spec /\ WF_vars(Inject \/ ReplayTurn)

-----------------------------------------------------------------------------
Machine ==
  [cycles : Nat, halted : BOOLEAN, iflag : BOOLEAN, ctx : {"main", "kbd", "timer"}, pc : Nat,
   next_irq : Nat, armed : BOOLEAN, irr : SUBSET {0, 1}, isr : SUBSET {0, 1},
   buf : Seq(Byte), held : SUBSET Keys, seen : Seq(Nat \X (0 .. Irq0))]

Event == [cyc : Nat, t : Int, idx : Keys, down : BOOLEAN]

\* A handler is at one of its two instructions.
TypeOK ==
  /\ mode \in {"record", "release", "replay", "done"}
  /\ m \in Machine /\ (m.ctx # "main" => m.pc \in {0, 1})
  /\ file \in [events : Seq(Event), end_cycles : Nat, end_emu : Int]
  /\ ev_idx \in 0 .. Len(Events) /\ overlap \in BOOLEAN
  /\ trace \in Seq([g : Machine, n : Nat]) /\ trace # <<>>

Replayed == mode \in {"replay", "done"}

\* The window was closed in the same pump that delivered the last key: its
\* stamp is the footer's.
LateEvent == Events # <<>> /\ Last(Events).cyc = file.end_cycles

\* A replay shows the guest what it saw when it was recorded: the same
\* bytes and the same timer interrupts, each on the same cycle.
ReplayFaithful ==
  Replayed /\ ~ overlap /\ ~ LateEvent => IsPrefix(m.seen, orig.seen)

\* A replay that stops counts as completed, and stands where the recording
\* stood when it was closed, machine state included.
ReplayEndsExact ==
  mode = "done" /\ ~ overlap /\ ~ LateEvent => replay_completed(m, ev_idx) /\ m = orig

\* The replay loop never carries the clock past an event that is due or
\* past the footer: batches and idle jumps end on them.
NeverPastDeadline ==
  Replayed /\ ~ Legacy =>
    /\ Pending => m.cycles <= Events[ev_idx + 1].cyc
    /\ ~ LateEvent => m.cycles <= file.end_cycles

\* What a recording promises: the guest sees what it saw, on the same cycles,
\* every event goes in on its own, and the end is the recorded end.
ReplayIsExact == ReplayFaithful /\ NeverPastDeadline /\ ReplayEndsExact

\* A replay comes to its end: no event and no footer is waited for for ever.
ReplayEnds == (mode = "replay") ~> (mode = "done")

\* dev.c on kbd_release_all: its breaks are "recorded like any other break
\* so a replay injects what the guest actually saw".
FocusLossReplays == Replayed => IsPrefix(m.seen, orig.seen)
=============================================================================
