----------------------------- MODULE PitChannel -----------------------------
(***************************************************************************)
(* Channel 0 of the 8253 timer (src/dev.c) as operators on its record: the *)
(* control word, the count that is written a byte at a time, the latch and *)
(* the two-byte read.                                                      *)
(*                                                                         *)
(* A byte has Radix values (256 in the code) and a count two bytes.  Time  *)
(* is in timer ticks and relative: `due' is next_irq - emu_now(), which is *)
(* how far away the next IRQ0 is, negative once it is past.                *)
(***************************************************************************)
EXTENDS Integers

CONSTANTS
  Radix,    \* values of a byte
  MaxPast   \* bound: an event further in the past than this is not told apart

\* What the proofs assume of them.
Counting == Radix \in Nat \ {0} /\ MaxPast \in Nat

Byte == 0 .. Radix - 1
Wrap == Radix * Radix

Lo(n) == n % Radix
Hi(n) == n \div Radix

\* A count of zero stands for the whole range.
Period(n) == IF n = 0 THEN Wrap ELSE n

Channel ==
  [reload : 0 .. Wrap - 1, mode : {0, 3}, rw : 1 .. 3, wr_hi : BOOLEAN,
   wr_tmp : Byte, latch : 0 .. Wrap - 1, latched : BOOLEAN, rd_hi : BOOLEAN,
   due : - MaxPast .. Wrap, armed : BOOLEAN]

\* pit_init: mode 3, a whole range away, nothing armed.
pit_init ==
  [reload |-> 0, mode |-> 3, rw |-> 3, wr_hi |-> FALSE, wr_tmp |-> 0, latch |-> 0,
   latched |-> FALSE, rd_hi |-> FALSE, due |-> Wrap, armed |-> FALSE]

Elapse(c) == [c EXCEPT !.due = IF @ > - MaxPast THEN @ - 1 ELSE @]

(***************************************************************************)
(* pit_count, as the set of values it can return.  A one-shot runs down    *)
(* from the count written and on below zero; a periodic channel returns a  *)
(* phase of absolute time, which is not tracked here.                      *)
(***************************************************************************)

\* Mutant: the count below zero is not cut to its width.
NoWrapAround(c) ==
  IF c.mode = 0 THEN {IF c.due >= Period(c.reload) THEN Period(c.reload) % Wrap ELSE c.due}
  ELSE {n % Wrap : n \in 0 .. Period(c.reload)}

pit_count(c) ==
  IF c.mode = 0 THEN {IF c.due >= Period(c.reload) THEN Period(c.reload) % Wrap
                      ELSE c.due % Wrap}
  ELSE {n % Wrap : n \in 0 .. Period(c.reload)}

(***************************************************************************)
(* pit_write.  Port 43h carries either the latch command or a control      *)
(* word; port 40h a byte of the count, which takes effect when it is whole.*)
(***************************************************************************)

LatchCommand(c, n) == [c EXCEPT !.latch = n, !.latched = TRUE, !.rd_hi = FALSE]

\* Mutant: half a count left over from before is not forgotten.
ControlKeepsPhase(c, mode, rw) == [c EXCEPT !.rw = rw, !.mode = mode]

ControlWord(c, mode, rw) == [c EXCEPT !.rw = rw, !.mode = mode, !.wr_hi = FALSE]

LoadCount(c, n) == [c EXCEPT !.reload = n, !.due = Period(n), !.armed = TRUE, !.wr_hi = FALSE]

CountWhole(c) == c.rw # 3 \/ c.wr_hi

WriteCount(c, v) ==
  CASE c.rw = 1 -> LoadCount(c, v)
    [] c.rw = 2 -> LoadCount(c, v * Radix)
    [] c.rw = 3 /\ ~ c.wr_hi -> [c EXCEPT !.wr_tmp = v, !.wr_hi = TRUE]
    [] c.rw = 3 /\ c.wr_hi -> LoadCount(c, c.wr_tmp + v * Radix)

(***************************************************************************)
(* pit_read: the byte of n, and the channel afterwards.  n is the latch if *)
(* there is one and a fresh count otherwise.                               *)
(***************************************************************************)
ReadValues(c) == IF c.latched THEN {c.latch} ELSE pit_count(c)

ReadByte(c, n) == IF c.rw = 1 \/ (c.rw = 3 /\ ~ c.rd_hi) THEN Lo(n) ELSE Hi(n)

AfterRead(c) ==
  IF c.rw = 3 THEN [c EXCEPT !.rd_hi = ~ @, !.latched = @ /\ ~ c.rd_hi]
              ELSE [c EXCEPT !.latched = FALSE]
=============================================================================
