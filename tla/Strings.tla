------------------------------- MODULE Strings --------------------------------
(***************************************************************************)
(* The processor's string instructions under a repeat prefix (strop in     *)
(* src/cpu.c).  A forward copy or fill of plain memory is done in one      *)
(* piece; everything else goes element by element.  Memory ends in the     *)
(* display's window, which only the element loop may reach, and offsets    *)
(* wrap within their segment.                                              *)
(***************************************************************************)
EXTENDS Integers, FiniteSets, Sequences

CONSTANTS
  Top,       \* the first address of the window, 0A0000h
  Size,      \* addresses in all
  Segment,   \* offsets of a segment
  Bases,     \* where the two segments may start
  Bulk,      \* elements from which the piecewise path is tried (16)
  MaxCount

\* What the proofs assume of them.
Constants ==
  /\ Top \in Nat /\ Size \in Nat /\ Top <= Size
  /\ Segment \in Nat \ {0} /\ Bases \subseteq Nat
  /\ Bulk \in Nat /\ MaxCount \in Nat

VARIABLES
  op, el, df, dsb, esb, cnt,  \* the instruction: MOVS, CMPS, STOS or SCAS, of
                              \* one or two bytes, its direction and segments
  s,                          \* memory and registers it runs on
  start                       \* history: those it started with

vars == <<op, el, df, dsb, esb, cnt, s, start>>

Ops == {"movs", "cmps", "stos", "scas"}
Al == 9     \* what AL holds, and no address to begin with

-----------------------------------------------------------------------------
\* cpu_ld8 and cpu_st8: the window is the display's, not memory's.
Load(t, a) == IF a >= Top THEN t.win[a] ELSE t.ram[a]
Store(t, a, v) == IF a >= Top THEN [t EXCEPT !.win[a] = v] ELSE [t EXCEPT !.ram[a] = v]
\* An element's bytes, the low one first.
Element(t, a) == [k \in 0 .. el - 1 |-> Load(t, a + k)]
Stored(t, a, v) == IF el = 1 THEN Store(t, a, v[0]) ELSE Store(Store(t, a, v[0]), a + 1, v[1])
Fill == [k \in 0 .. el - 1 |-> Al]
\* Offsets wrap.
Moved(off, by) == (off + by + Segment) % Segment
Step == IF df THEN -el ELSE el

\* One turn of the element loop.
One(t) ==
  LET a == dsb + t.si
      b == esb + t.di
      u == CASE op = "movs" -> Stored(t, b, Element(t, a))
             [] op = "stos" -> Stored(t, b, Fill)
             [] op = "cmps" -> [t EXCEPT !.zf = Element(t, a) = Element(t, b)]
             [] op = "scas" -> [t EXCEPT !.zf = Fill = Element(t, b)]
  IN  [u EXCEPT !.cx = @ - 1,
                !.si = IF op \in {"movs", "cmps"} THEN Moved(@, Step) ELSE @,
                !.di = Moved(@, Step)]
\* REPE goes on while the two are equal.
Stops(t) == op \in {"cmps", "scas"} /\ ~t.zf

\* The loop: after so many turns, unless it stopped before.
Slow(t) ==
  LET after[k \in 0 .. t.cx] ==
        IF k = 0 THEN t
        ELSE LET u == after[k - 1] IN IF k > 1 /\ Stops(u) THEN u ELSE One(u)
  IN  after[t.cx]

\* The piecewise path's conditions.
Last == (cnt - 1) * el
Bulky ==
  /\ op \in {"movs", "stos"} /\ ~df /\ cnt >= Bulk
  /\ s.si + Last < Segment /\ s.di + Last < Segment
  /\ dsb + s.si + Last < Top /\ esb + s.di + Last < Top
  /\ ~(op = "movs" /\ esb + s.di > dsb + s.si /\ esb + s.di - (dsb + s.si) < cnt * el)

\* memmove, memset and the word fill on ram[] itself, and the registers after.
Piece(t) ==
  [t EXCEPT !.ram = [a \in DOMAIN @ |->
                       IF a \in esb + t.di .. esb + t.di + cnt * el - 1
                       THEN IF op = "movs" THEN @[dsb + t.si + a - (esb + t.di)] ELSE Al
                       ELSE @[a]],
            !.si = Moved(@, cnt * el), !.di = Moved(@, cnt * el), !.cx = 0]

strop ==
  /\ s = start /\ cnt > 0
  /\ s' = IF Bulky THEN Piece(s) ELSE Slow(s)
  /\ UNCHANGED <<op, el, df, dsb, esb, cnt, start>>

\* Memory to copy holds its addresses; memory to compare is all alike but for
\* one byte; memory to scan is AL up to there.
Contents(o) ==
  CASE o \in {"movs", "stos"} -> {[a \in 0 .. Size - 1 |-> a]}
    [] OTHER -> {[a \in 0 .. Size - 1 |-> IF a = x THEN 1 ELSE Al] : x \in 0 .. Size - 1}
Init ==
  /\ op \in Ops /\ el \in {1, 2} /\ df \in BOOLEAN /\ dsb \in Bases /\ esb \in Bases
  /\ cnt \in 0 .. MaxCount
  /\ \E m \in Contents(op), i, d \in 0 .. Segment - 1 :
       s = [ram |-> m, win |-> m, si |-> i, di |-> d, cx |-> cnt, zf |-> TRUE]
  /\ start = s
Next == strop
Spec == Init /\ [][Next]_vars

-----------------------------------------------------------------------------
\* Every variable has its type.
TypeOK ==
  /\ op \in Ops /\ el \in {1, 2} /\ df \in BOOLEAN
  /\ s.si \in 0 .. Segment - 1 /\ s.di \in 0 .. Segment - 1 /\ s.cx \in 0 .. cnt
  /\ DOMAIN s.ram = 0 .. Size - 1 /\ DOMAIN s.win = 0 .. Size - 1

Ran == s # start
\* A word at the last address of plain memory ends in the window.
Straddles ==
  el = 2 /\ \E i \in 0 .. cnt - 1 : \/ esb + start.di + i * el = Top - 1
                                    \/ dsb + start.si + i * el = Top - 1

\* A repeated copy leaves memory and registers as its elements one at a time do,
\* where the two runs overlap, where an offset wraps, in either direction.
CopyIsElementwise == Ran /\ op = "movs" /\ ~Straddles => s = Slow(start)

\* So does a repeated fill, its source register apart.
FillIsElementwise ==
  Ran /\ op = "stos" /\ ~Straddles => s = [Slow(start) EXCEPT !.si = s.si]

\* A repeated comparison ends on the first element that differs: counted, both
\* pointers past it, and the flag telling which way it ended.
Same(i) ==
  LET Off(o) == (o + i * Step + cnt * 2 * Segment) % Segment
      b == Element(start, esb + Off(start.di))
  IN  IF op = "cmps" THEN Element(start, dsb + Off(start.si)) = b ELSE Fill = b
ScanStopsThere ==
  Ran /\ op \in {"cmps", "scas"} =>
    LET n == cnt - s.cx
    IN  /\ \A i \in 0 .. n - 2 : Same(i)
        /\ s.zf = Same(n - 1)
        /\ s.cx > 0 => ~s.zf
        /\ s.di = (start.di + n * Step + cnt * 2 * Segment) % Segment

\* A fill does not read from SI, and SI is where it was: the quick path and the
\* loop it stands in for leave the same registers.
FillKeepsSource == op = "stos" => s.si = start.si
===============================================================================
