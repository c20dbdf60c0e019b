------------------------------ MODULE Keyboard ------------------------------
(***************************************************************************)
(* The emulated keyboard of pfemu: the host calls that put scan codes into *)
(* the controller's queue (kbd_key, kbd_release_all, plat_kbd_reconcile),  *)
(* the IRQ1 request they raise, the guest's INT 9 handler that takes them  *)
(* out through port 60h, and the gating of the flipper fix by the program  *)
(* the guest EXECs (src/dev.c, src/main.c, src/fantasies.c).               *)
(*                                                                         *)
(* The emulator is one thread: host calls and guest instructions alternate *)
(* and never overlap.  A host call that loops over keys takes one step per *)
(* key; `call' keeps everything else from moving until it has returned.    *)
(*                                                                         *)
(* The guest's handler is the game's (KEYINT): one port read per           *)
(* interrupt, one level bit per flipper that three keys share, set by any  *)
(* make and cleared by any break.                                          *)
(***************************************************************************)
EXTENDS KbdBytes, FiniteSets

VARIABLES
  kbd_buf,    \* bytes queued for the guest, oldest first
  kbd_held,   \* keys whose make has been seen and whose break has not
  fix_on,     \* fantasies_fix_active(): a table of a known release is running
  irr,        \* IRQ1 requested at the PIC
  handler,    \* the guest's INT 9: "idle", "entered" (port not read), "read"
  pfx,        \* the handler's last byte was the E0 prefix
  flip,       \* the table's level bit of each flipper
  phys,       \* keys physically down at the host
  call,       \* the looping host call in progress, "none" when there is none
  whole,      \* history: the bytes queued or read tell the running program which
              \* keys are held - none was lost, none outlived a clearing of kbd_held
  made        \* history: held keys whose make the running program was sent

kbdVars   == <<kbd_buf, kbd_held, irr>>
guestVars == <<handler, pfx, flip>>
vars == <<kbdVars, guestVars, fix_on, phys, call, whole, made>>

Sides == {"left", "right"}
KeysOf(side) == {i \in Keys : SideOf(i) = IF side = "left" THEN LeftKeys ELSE RightKeys}

\* plat_kbd_reconcile()'s table, in its order.
\* Mutant: the keys behind an E0 prefix are forgotten.
UnprefixedKeys == <<42, 54, 29, 56>>

ReconcileKeys == <<42, 54, 29, 157, 56, 184>>

Init ==
  /\ kbd_buf = <<>> /\ kbd_held = {} /\ irr = FALSE
  /\ handler = "idle" /\ pfx = FALSE /\ flip = [s \in Sides |-> FALSE]
  /\ fix_on = FALSE /\ phys = {} /\ call = "none" /\ whole = TRUE /\ made = {}

-----------------------------------------------------------------------------
(***************************************************************************)
(* Host calls.                                                             *)
(***************************************************************************)
\* kbd_key(idx, 1): a press, or a typematic repeat of a key that is down.
Make(idx) ==
  /\ call = "none"
  /\ kbd_buf'  = AfterMake(kbd_buf, kbd_held, idx, fix_on)
  /\ kbd_held' = HeldAfter(kbd_held, idx, TRUE)
  /\ irr' = (irr \/ MakeRaises(kbd_buf, kbd_held, idx, fix_on))
  /\ whole' = (whole /\ (Coalesced(kbd_held, idx, fix_on)
                           \/ ~ Overflows(kbd_buf, MakeBytes(idx))))
  /\ made' = IF MakeRaises(kbd_buf, kbd_held, idx, fix_on)
             THEN made \cup {idx} ELSE made
  /\ phys' = phys \cup {idx}
  /\ UNCHANGED <<guestVars, fix_on, call>>

\* The bytes of the make that repairs the flipper after idx's break.
RepairBytes(idx) ==
  LET sib == Sibling(idx, kbd_held \ {idx}) IN
  IF fix_on /\ sib # <<>> THEN Len(MakeBytes(sib[1])) ELSE 0

\* kbd_key(idx, 0), wherever it is called from.
KeyBreak(idx) ==
  /\ kbd_buf'  = AfterBreak(kbd_buf, kbd_held, idx, fix_on)
  /\ kbd_held' = HeldAfter(kbd_held, idx, FALSE)
  /\ irr' = (irr \/ BreakRaises(kbd_buf, idx, fix_on))
  /\ whole' = (whole /\ kbd_free(kbd_buf) >= Len(BreakBytes(idx)) + RepairBytes(idx))
  /\ made' = made \ {idx}
  /\ UNCHANGED <<guestVars, fix_on>>

Break(idx) ==
  /\ call = "none"
  /\ KeyBreak(idx)
  /\ phys' = phys \ {idx}
  /\ UNCHANGED call

\* The operating system swallows a key-up: no call is made at all.
LoseKeyUp(idx) ==
  /\ call = "none" /\ idx \in phys
  /\ phys' = phys \ {idx}
  /\ UNCHANGED <<kbdVars, guestVars, fix_on, call, whole, made>>

\* Focus loss, kbd_release_all(): every held key, lowest index first.  The
\* loop ends early at a key whose break finds no room; IRQ1 is raised once,
\* when the loop is over.
FocusLost ==
  /\ call = "none" /\ kbd_held # {}
  /\ call' = "release"
  /\ UNCHANGED <<kbdVars, guestVars, fix_on, phys, whole, made>>

ReleaseKey ==
  /\ call = "release"
  /\ \E idx \in kbd_held :
       /\ \A other \in kbd_held : idx <= other
       /\ LET room == kbd_ensure(kbd_buf, Len(BreakBytes(idx)), fix_on)
              over == ~ room \/ kbd_held = {idx}
          IN  /\ kbd_buf' = kbd_push(kbd_buf, BreakBytes(idx), fix_on)
              /\ kbd_held' = kbd_held \ {idx}
              /\ irr' = (irr \/ over)
              /\ call' = IF over THEN "none" ELSE "release"
              /\ whole' = (whole /\ ~ Overflows(kbd_buf, BreakBytes(idx)))
              /\ made' = made \ {idx}
  /\ UNCHANGED <<guestVars, fix_on, phys>>

\* plat_kbd_reconcile(), once per turn of the outer loop: a break for every
\* flipper key that is held here and up at the host.
Stale == {n \in DOMAIN ReconcileKeys : ReconcileKeys[n] \in kbd_held \ phys}

ReconcileKey ==
  /\ call \in {"none", "reconcile"}
  /\ \E n \in Stale :
       /\ \A m \in Stale : n <= m
       /\ KeyBreak(ReconcileKeys[n])
       /\ call' = IF Stale = {n} THEN "none" ELSE "reconcile"
  /\ UNCHANGED phys

-----------------------------------------------------------------------------
(***************************************************************************)
(* The guest.                                                              *)
(***************************************************************************)
\* The PIC hands IRQ1 to the CPU: request and service bits change hands.
TakeIrq ==
  /\ call = "none" /\ irr /\ handler = "idle"
  /\ irr' = FALSE
  /\ handler' = "entered"
  /\ UNCHANGED <<kbd_buf, kbd_held, pfx, flip, fix_on, phys, call, whole, made>>

\* The key a code stands for, given whether the E0 prefix came before it.
KeyOfCode(code) == (code % 128) + (IF pfx THEN 128 ELSE 0)

FlipAfter(byte) ==
  [s \in Sides |->
     IF fix_on /\ byte # PrefixE0 /\ KeyOfCode(byte) \in KeysOf(s)
     THEN byte \in 0 .. 127
     ELSE flip[s]]

\* kbd_read60() as the handler calls it, and what the handler does with the
\* byte.  More bytes waiting request the next interrupt; none withdraw it.
ReadPort ==
  /\ call = "none" /\ handler = "entered"
  /\ handler' = "read"
  /\ IF kbd_buf # <<>>
     THEN /\ kbd_buf' = Tail(kbd_buf)
          /\ pfx' = (Head(kbd_buf) = PrefixE0)
          /\ flip' = FlipAfter(Head(kbd_buf))
     ELSE UNCHANGED <<kbd_buf, pfx, flip>>       \* the stale last byte again
  /\ irr' = IrqAfterRead(kbd_buf')
  /\ UNCHANGED <<kbd_held, fix_on, phys, call, whole, made>>

Eoi ==
  /\ call = "none" /\ handler = "read"
  /\ handler' = "idle"
  /\ UNCHANGED <<kbdVars, pfx, flip, fix_on, phys, call, whole, made>>

\* fantasies_on_exec(): a table program turns the fix on, another program
\* turns it off and forgets the held keys.  The new program starts with its
\* flippers down; bytes still queued are its to read.
Exec(table) ==
  /\ call = "none" /\ handler = "idle"
  /\ fix_on' = table
  /\ kbd_held' = IF table THEN kbd_held ELSE {}
  /\ flip' = [s \in Sides |-> FALSE]
  /\ pfx' = FALSE
  /\ whole' = (kbd_buf = <<>> \/ (table /\ whole /\ ~ pfx))
  /\ made' = {}
  /\ UNCHANGED <<kbd_buf, irr, handler, phys, call>>

-----------------------------------------------------------------------------
Host  == FocusLost \/ ReleaseKey \/ ReconcileKey \/ \E idx \in Keys : Make(idx) \/ Break(idx) \/ LoseKeyUp(idx)
Guest == TakeIrq \/ ReadPort \/ Eoi \/ \E table \in BOOLEAN : Exec(table)

Next == Host \/ Guest

\* A started host call returns; the outer loop reconciles on every turn; and
\* it runs the guest between host calls, so an interrupt that is requested
\* again and again is taken and its handler runs to the end.
Fairness ==
  /\ WF_vars(ReleaseKey)
  /\ WF_vars(ReconcileKey)
  /\ SF_vars(TakeIrq) /\ SF_vars(ReadPort) /\ SF_vars(Eoi)

Spec     == Init /\ [][Next]_vars
FairSpec == Spec /\ Fairness

-----------------------------------------------------------------------------
TypeOK ==
  /\ kbd_buf \in Seq(Byte) /\ Len(kbd_buf) <= Cap
  /\ kbd_held \in SUBSET Keys /\ phys \in SUBSET Keys /\ made \in SUBSET Keys
  /\ fix_on \in BOOLEAN /\ irr \in BOOLEAN /\ pfx \in BOOLEAN /\ whole \in BOOLEAN
  /\ handler \in {"idle", "entered", "read"}
  /\ flip \in [Sides -> BOOLEAN]
  /\ call \in {"none", "release", "reconcile"}

\* No byte is stranded: while the queue holds bytes, an interrupt that will
\* read one is requested or has been taken and has not read yet.  (The only
\* place that raises IRQ1 again after a read is kbd_read60 itself.)
NoStrandedByte ==
  call # "release" /\ kbd_buf # <<>> => irr \/ handler = "entered"

\* The guest never reads the controller with the queue empty, so kbd_read60
\* never hands it the last byte a second time: an interrupt is only ever
\* requested or being entered while there is a byte for it.
NoStaleRead == irr \/ handler = "entered" => kbd_buf # <<>>

\* IRQ1 is on its way exactly when there is something to read: the two above
\* together, which no step of the host or the guest disturbs.
IrqMatchesQueue == NoStrandedByte /\ NoStaleRead

Drained == call = "none" /\ kbd_buf = <<>> /\ handler # "entered"

\* While the fix is on, a flipper is up only if one of its keys is held,
\* once the queue is drained and if it never overflowed: the overlap repair
\* never re-asserts a key that is up.
NoStuckFlipper ==
  fix_on /\ whole /\ Drained =>
    \A s \in Sides : flip[s] => kbd_held \cap KeysOf(s) # {}

\* While the fix is on, a flipper whose key the table was sent and is still
\* held stays up whatever other keys of its side are pressed and released
\* (the overlap repair of kbd_key), unless the queue overflowed.
HeldFlipperUp ==
  fix_on /\ whole /\ Drained =>
    \A s \in Sides : made \cap KeysOf(s) # {} => flip[s]

\* With the fix on and nothing lost, a table sees a flipper as its keys are:
\* up for one it was sent and that is still held, and down with none.
FlippersFollowKeys == NoStuckFlipper /\ HeldFlipperUp

\* Once no key of a side is physically down - its key-up delivered, lost to
\* the operating system or lost with the focus - the flipper comes down, or
\* a key of the side goes down again, or a byte was lost to a full queue.
FlipperComesDown ==
  \A s \in Sides :
    (phys \cap KeysOf(s) = {}) ~> (~ flip[s] \/ phys \cap KeysOf(s) # {} \/ ~ whole)

\* A queue that holds bytes is read from again and again, whether or not the
\* host ever presses another key: every read asks for the next one.
QueueMoves == (kbd_buf # <<>>) ~> (kbd_buf = <<>> \/ handler = "read")

\* dev.c: "Break-loss repair ... breaks always win by discarding the oldest
\* byte": with the fix on, no flipper is left up with all its keys released,
\* full queue or not.
BreaksAlwaysWin ==
  fix_on /\ Drained => \A s \in Sides : flip[s] => kbd_held \cap KeysOf(s) # {}
=============================================================================
