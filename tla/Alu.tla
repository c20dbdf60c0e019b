--------------------------------- MODULE Alu ----------------------------------
(***************************************************************************)
(* The processor's arithmetic (src/cpu.c), at any width: what each         *)
(* operation leaves in its register and in the flags the next one reads.   *)
(* The flags are what is easy to get wrong, and no single operation shows  *)
(* it: the programs below are the idioms 16-bit code is made of, sums,     *)
(* differences, shifts and negations carried from one word to the next,    *)
(* decimal sums, products divided back and shifts by a count.              *)
(***************************************************************************)
EXTENDS Integers, Sequences

CONSTANTS
  W,         \* bits of a word
  Digits     \* decimal digits the BCD programs use

VARIABLES
  prog, pc,
  lo, hi, y, z,  \* the registers: a double word, and the operand's two halves
  si,            \* a pointer stepped between two words
  fl,            \* the flags
  start          \* history: the registers at the start

regs == <<lo, hi, si, fl>>
vars == <<prog, pc, lo, hi, y, z, si, fl, start>>

MASK(w) == 2 ^ w
Bit(v, i) == (v \div 2 ^ i) % 2
Flag(p) == IF p THEN 1 ELSE 0
Signed(v, w) == IF Bit(v, w - 1) = 1 THEN v - MASK(w) ELSE v
Flags == [cf : {0, 1}, of : {0, 1}, zf : {0, 1}, sf : {0, 1}, af : {0, 1}]
Clear == [cf |-> 0, of |-> 0, zf |-> 0, sf |-> 0, af |-> 0]
With(r, f, w) == [r |-> r, fl |-> [f EXCEPT !.zf = Flag(r = 0), !.sf = Bit(r, w - 1)]]

-----------------------------------------------------------------------------
\* alu: op 0 is ADD, 2 ADC, 3 SBB, 5 SUB and CMP.
Sub(op, a, b, f, w) ==
  LET c == IF op = 3 THEN f.cf ELSE 0
      r == (a - b - c + 2 * MASK(w)) % MASK(w)
  IN  With(r, [f EXCEPT !.cf = Flag(a - b - c < 0),
                        !.af = (Bit(a, 4) + Bit(b, 4) + Bit(r, 4)) % 2,
                        !.of = Flag(Bit(a, w - 1) # Bit(b, w - 1) /\ Bit(a, w - 1) # Bit(r, w - 1))], w)
Add(op, a, b, f, w) ==
  LET c == IF op = 2 THEN f.cf ELSE 0
      r == (a + b + c) % MASK(w)
  IN  With(r, [f EXCEPT !.cf = Flag(a + b + c >= MASK(w)),
                        !.af = (Bit(a, 4) + Bit(b, 4) + Bit(r, 4)) % 2,
                        !.of = Flag(Bit(a, w - 1) = Bit(b, w - 1) /\ Bit(a, w - 1) # Bit(r, w - 1))], w)
alu(op, a, b, f, w) == IF op \in {0, 2} THEN Add(op, a, b, f, w) ELSE Sub(op, a, b, f, w)

\* do_inc and do_dec keep the carry.  Mutant: INC is ADD 1.
IncAsAdd(a, f, w) == Add(0, a, 1, f, w)
do_inc(a, f, w) ==
  LET r == (a + 1) % MASK(w) IN With(r, [f EXCEPT !.of = Flag(r = 2 ^ (w - 1))], w)
do_dec(a, f, w) ==
  LET r == (a - 1 + MASK(w)) % MASK(w) IN With(r, [f EXCEPT !.of = Flag(r = 2 ^ (w - 1) - 1)], w)

\* One bit round, with the carry or without: the loops of ops 2 and 3.
Rcl1(s, w) == [r |-> (2 * s.r + s.cf) % MASK(w), cf |-> Bit(s.r, w - 1)]
Rcr1(s, w) == [r |-> (s.r \div 2) + s.cf * 2 ^ (w - 1), cf |-> Bit(s.r, 0)]

Times(n, op, s, w) ==
  LET after[k \in 0 .. n] ==
        IF k = 0 THEN s
        ELSE IF op = 2 THEN Rcl1(after[k - 1], w) ELSE Rcr1(after[k - 1], w)
  IN  after[n]

\* do_shift: 0 ROL, 1 ROR, 2 RCL, 3 RCR, 4 SHL, 5 SHR, 7 SAR, by a count of
\* five bits.
ThroughCarry(op, v, n, f, w) ==
  LET s == Times(n % (w + 1), op, [r |-> v, cf |-> f.cf], w)
  IN  [r |-> s.r, fl |-> [f EXCEPT !.cf = s.cf]]
Rotate(op, v, n, f, w) ==
  LET k == n % w
      r == IF op = 0 THEN (v * 2 ^ k + (v \div 2 ^ (w - k))) % MASK(w)
                     ELSE (v \div 2 ^ k) + ((v * 2 ^ (w - k)) % MASK(w))
  IN  [r |-> r, fl |-> [f EXCEPT !.cf = IF op = 0 THEN Bit(r, 0) ELSE Bit(r, w - 1)]]
Shift(op, v, n, f, w) ==
  CASE op = 4 -> With(IF n < w THEN (v * 2 ^ n) % MASK(w) ELSE 0,
                      [f EXCEPT !.cf = IF n <= w THEN Bit(v, w - n) ELSE 0], w)
    [] op = 5 -> With(IF n < w THEN v \div 2 ^ n ELSE 0,
                      [f EXCEPT !.cf = IF n <= w THEN Bit(v, n - 1) ELSE 0], w)
    [] op = 7 -> LET s == Signed(v, w)
                 IN  With(IF n < w THEN (s \div 2 ^ n) % MASK(w) ELSE (IF s < 0 THEN MASK(w) - 1 ELSE 0),
                          [f EXCEPT !.cf = IF n < w THEN (s \div 2 ^ (n - 1)) % 2 ELSE Flag(s < 0)], w)
do_shift(op, v, cnt, f, w) ==
  LET n == cnt % 32
  IN  CASE n = 0 -> [r |-> v, fl |-> f]
        [] n > 0 /\ op \in {0, 1} -> Rotate(op, v, n, f, w)
        [] n > 0 /\ op \in {2, 3} -> ThroughCarry(op, v, n, f, w)
        [] n > 0 /\ op > 3 -> Shift(op, v, n, f, w)

\* DAA and DAS, of a byte.
Adjust(al, by, half, full) == (al + (IF half THEN by * 6 ELSE 0) + (IF full THEN by * 96 ELSE 0)) % 256
Decimal(al, f, by) ==
  LET half == al % 16 > 9 \/ f.af = 1
      wraps == half /\ al + by * 6 \notin 0 .. 255
      full == al > 153 \/ f.cf = 1
  IN  With(Adjust(al, by, half, full),
           [f EXCEPT !.cf = Flag(full \/ wraps), !.af = Flag(half)], 8)

\* MUL and IMUL of a word: the product, and whether its high half says anything.
Mul(a, b, w) ==
  [lo |-> (a * b) % MASK(w), hi |-> (a * b) \div MASK(w), cf |-> Flag(a * b >= MASK(w))]
Imul(a, b, w) ==
  LET p == Signed(a, w) * Signed(b, w)
      l == p % MASK(w)
  IN  [lo |-> l, hi |-> (p \div MASK(w)) % MASK(w), cf |-> Flag(Signed(l, w) # p)]
\* DIV and IDIV: the quotient toward zero, or interrupt 0.
Quotient(n, d) == IF (n < 0) = (d < 0) THEN (IF n < 0 THEN (-n) \div (-d) ELSE n \div d)
                  ELSE -((IF n < 0 THEN -n ELSE n) \div (IF d < 0 THEN -d ELSE d))
Fault == [fault |-> TRUE, q |-> 0, r |-> 0]
Div(n, d, w) ==
  IF d = 0 \/ n \div d >= MASK(w) THEN Fault ELSE [fault |-> FALSE, q |-> n \div d, r |-> n % d]
Idiv(n, d, w) ==
  IF d = 0 \/ Quotient(n, d) \notin -(2 ^ (w - 1)) .. 2 ^ (w - 1) - 1 THEN Fault
  ELSE [fault |-> FALSE, q |-> Quotient(n, d) % MASK(w), r |-> (n - d * Quotient(n, d)) % MASK(w)]

\* cond: the sixteen conditions, without the parity pair.
cond(c, f) ==
  LET t == CASE c \div 2 = 0 -> f.of = 1 [] c \div 2 = 1 -> f.cf = 1
             [] c \div 2 = 2 -> f.zf = 1 [] c \div 2 = 3 -> f.cf = 1 \/ f.zf = 1
             [] c \div 2 = 4 -> f.sf = 1 [] c \div 2 = 6 -> f.sf # f.of
             [] c \div 2 = 7 -> f.zf = 1 \/ f.sf # f.of
  IN  IF c % 2 = 0 THEN t ELSE ~t

-----------------------------------------------------------------------------
\* The programs: each is the instructions it runs.
LO(x) == lo' = x.r /\ fl' = x.fl /\ UNCHANGED <<hi, si>>
HI(x) == hi' = x.r /\ fl' = x.fl /\ UNCHANGED <<lo, si>>
SI(x) == si' = x.r /\ fl' = x.fl /\ UNCHANGED <<lo, hi>>
Wide == {"add", "sub", "shl", "sar", "neg"}

Instruction ==
  CASE <<prog, pc>> = <<"add", 1>> -> LO(alu(0, lo, y, fl, W))
    [] <<prog, pc>> = <<"add", 2>> -> SI(do_inc(si, fl, W))
    [] <<prog, pc>> = <<"add", 3>> -> HI(alu(2, hi, z, fl, W))
    [] <<prog, pc>> = <<"sub", 1>> -> LO(alu(5, lo, y, fl, W))
    [] <<prog, pc>> = <<"sub", 2>> -> SI(do_dec(si, fl, W))
    [] <<prog, pc>> = <<"sub", 3>> -> HI(alu(3, hi, z, fl, W))
    [] <<prog, pc>> = <<"shl", 1>> -> LO(do_shift(4, lo, 1, fl, W))
    [] <<prog, pc>> = <<"shl", 2>> -> HI(do_shift(2, hi, 1, fl, W))
    [] <<prog, pc>> = <<"sar", 1>> -> HI(do_shift(7, hi, 1, fl, W))
    [] <<prog, pc>> = <<"sar", 2>> -> LO(do_shift(3, lo, 1, fl, W))
    [] <<prog, pc>> = <<"neg", 1>> -> HI(alu(5, 0, hi, fl, W))
    [] <<prog, pc>> = <<"neg", 2>> -> LO(alu(5, 0, lo, fl, W))
    [] <<prog, pc>> = <<"neg", 3>> -> HI(alu(3, hi, 0, fl, W))
    [] <<prog, pc>> = <<"shift", 1>> -> LO(do_shift(y, lo, z, fl, W))
    [] <<prog, pc>> = <<"daa", 1>> -> LO(alu(0, lo, y, fl, 8))
    [] <<prog, pc>> = <<"daa", 2>> -> LO(Decimal(lo, fl, 1))
    [] <<prog, pc>> = <<"das", 1>> -> LO(alu(5, lo, y, fl, 8))
    [] <<prog, pc>> = <<"das", 2>> -> LO(Decimal(lo, fl, -1))
    [] <<prog, pc>> \in {<<"mul", 1>>, <<"imul", 1>>} ->
         LET p == IF prog = "mul" THEN Mul(lo, y, W) ELSE Imul(lo, y, W)
         IN  lo' = p.lo /\ hi' = p.hi /\ fl' = [fl EXCEPT !.cf = p.cf, !.of = p.cf] /\ UNCHANGED si
    \* Interrupt 0 is told by the pointer.
    [] <<prog, pc>> \in {<<"mul", 2>>, <<"imul", 2>>} ->
         LET n == hi * MASK(W) + lo
             d == IF prog = "mul" THEN Div(n, y, W) ELSE Idiv(Signed(n, 2 * W), Signed(y, W), W)
         IN  IF d.fault THEN si' = 1 /\ UNCHANGED <<lo, hi, fl>>
             ELSE lo' = d.q /\ hi' = d.r /\ UNCHANGED <<si, fl>>

Length == [p \in Wide \cup {"shift", "daa", "das", "mul", "imul"} |->
             CASE p \in {"add", "sub", "neg"} -> 3 [] p = "shift" -> 1 [] OTHER -> 2]

Bcd(n) == 16 * (n \div 10) + (n % 10)
Words == 0 .. MASK(W) - 1
Operands(p) ==
  CASE p \in {"add", "sub"} -> Words \X Words \X Words \X Words
    [] p \in {"shl", "sar", "neg"} -> Words \X Words \X {0} \X {0}
    [] p = "shift" -> Words \X {0} \X {0, 1, 2, 3, 4, 5, 7} \X (0 .. 33)
    [] p \in {"daa", "das"} -> {Bcd(n) : n \in 0 .. Digits} \X {0} \X {Bcd(n) : n \in 0 .. Digits} \X {0}
    [] p \in {"mul", "imul"} -> Words \X {0} \X Words \X {0}

Init ==
  /\ prog \in DOMAIN Length /\ pc = 1
  /\ \E o \in Operands(prog) :
       /\ lo = o[1] /\ hi = o[2] /\ y = o[3] /\ z = o[4]
  /\ si = 0
  /\ \E c \in IF prog = "shift" THEN {0, 1} ELSE {0} : fl = [Clear EXCEPT !.cf = c]
  /\ start = <<lo, hi, fl.cf>>
Run ==
  /\ pc <= Length[prog]
  /\ Instruction
  /\ pc' = pc + 1
  /\ UNCHANGED <<prog, y, z, start>>
Next == Run
Spec == Init /\ [][Next]_vars

-----------------------------------------------------------------------------
Done == pc > Length[prog]
Value == hi * MASK(W) + lo
Was == start[2] * MASK(W) + start[1]
By == z * MASK(W) + y
WW == MASK(2 * W)

\* Every variable has its type: no result is wider than its register.
TypeOK ==
  /\ prog \in DOMAIN Length /\ pc \in 1 .. 4
  /\ lo \in 0 .. (IF prog \in {"daa", "das"} THEN 255 ELSE MASK(W) - 1)
  /\ hi \in Words /\ si \in Words /\ fl \in Flags

\* Two words taken one after the other, with a pointer stepped between them, add,
\* subtract, shift and negate as the double word they make, and leave its carry.
WideArithmetic ==
  Done =>
    /\ prog = "add" => Value = (Was + By) % WW /\ fl.cf = Flag(Was + By >= WW)
    /\ prog = "sub" => Value = (Was - By + WW) % WW /\ fl.cf = Flag(Was < By)
    /\ prog = "shl" => Value = (2 * Was) % WW /\ fl.cf = Bit(Was, 2 * W - 1)
    /\ prog = "sar" => Signed(Value, 2 * W) = Signed(Was, 2 * W) \div 2 /\ fl.cf = Was % 2
    /\ prog = "neg" => Value = (WW - Was) % WW

\* What a jump after a comparison takes is the order of what was compared, signed
\* and unsigned, of words and of double words.
JumpsMean ==
  /\ prog = "sub" /\ pc = 2 =>
       /\ cond(2, fl) = (start[1] < y) /\ cond(6, fl) = (start[1] <= y)
       /\ cond(4, fl) = (start[1] = y) /\ cond(7, fl) = (start[1] > y)
       /\ cond(12, fl) = (Signed(start[1], W) < Signed(y, W))
       /\ cond(14, fl) = (Signed(start[1], W) <= Signed(y, W))
       /\ cond(0, fl) = (Signed(start[1], W) - Signed(y, W) \notin -(2 ^ (W - 1)) .. 2 ^ (W - 1) - 1)
  /\ prog = "sub" /\ Done =>
       /\ cond(2, fl) = (Was < By)
       /\ cond(13, fl) = (Signed(Was, 2 * W) >= Signed(By, 2 * W))

\* A shift or rotation by a count is the one by one less and then by one, value
\* and carry, up to counts past the width: so it is that many by one.
ShiftIsRepeated ==
  prog = "shift" /\ Done =>
    LET n == z % 32
        before == do_shift(y, start[1], n - 1, [Clear EXCEPT !.cf = start[3]], W)
        once == do_shift(y, before.r, 1, before.fl, W)
    IN  IF n = 0 THEN lo = start[1] /\ fl.cf = start[3]
                 ELSE lo = once.r /\ fl.cf = once.fl.cf

\* Two decimal numbers add and subtract in decimal.
DecimalRight ==
  Done =>
    LET Dec(b) == 10 * (b \div 16) + (b % 16) IN
    /\ prog = "daa" => Dec(lo) + 100 * fl.cf = Dec(start[1]) + Dec(y)
    /\ prog = "das" => Dec(lo) - 100 * fl.cf = Dec(start[1]) - Dec(y)

\* A product divides back with nothing over and no fault, unless by nought; and
\* its carry says whether the high half holds more than the sign.
DivideUndoes ==
  prog \in {"mul", "imul"} =>
    /\ pc = 2 /\ fl.cf = 0 => hi = 0 \/ (prog = "imul" /\ hi = MASK(W) - 1)
    /\ Done => IF y = 0 THEN si = 1 ELSE si = 0 /\ lo = start[1] /\ hi = 0
===============================================================================
