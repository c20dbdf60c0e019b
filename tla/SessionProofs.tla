---------------------------- MODULE SessionProofs ----------------------------
(***************************************************************************)
(* Proofs about recording and replaying a session, for every guest (batch  *)
(* sizes, timer delay, loop length), every set of keys and every session:  *)
(* a replay shows the guest what it saw, never carries the clock past an   *)
(* event, and ends where the recording ended.                              *)
(***************************************************************************)
EXTENDS Session, NaturalsInduction, WellFoundedInduction, TLAPS

\* Every nonempty set of numbers has a least one.
LEMMA LeastElement ==
  ASSUME NEW T \in SUBSET Nat, T # {}
  PROVE  \E x \in T : \A y \in T : x <= y
<1>1. PICK x \in T : \A y \in T : ~ (<<y, x>> \in OpToRel(<, Nat))
  BY NatLessThanWellFounded, WFMin
<1>2. \A y \in T : ~ (y < x)
  BY <1>1 DEF OpToRel
<1> QED
  BY <1>2

-----------------------------------------------------------------------------
(***************************************************************************)
(* Prefixes of what the guest saw.                                         *)
(***************************************************************************)
Sights == Seq(Nat \X (0 .. Irq0))

\* A prefix is no longer and agrees wherever it reaches.
LEMMA PrefixIs ==
  ASSUME NEW s \in Sights, NEW t \in Sights
  PROVE  IsPrefix(s, t) <=> Len(s) <= Len(t) /\ \A i \in 1 .. Len(s) : s[i] = t[i]
<1>1. SubSeq(s, 1, Len(s)) = [i \in 1 .. Len(s) |-> s[i]]
  BY DEF Sights
<1>2. Len(s) <= Len(t) => SubSeq(t, 1, Len(s)) = [i \in 1 .. Len(s) |-> t[i]]
  BY DEF Sights
<1> QED
  BY <1>1, <1>2 DEF IsPrefix

\* Every sequence is a prefix of itself, and of itself with one item more.
LEMMA PrefixGrows ==
  ASSUME NEW s \in Sights, NEW x \in Nat \X (0 .. Irq0)
  PROVE  IsPrefix(s, s) /\ Append(s, x) \in Sights /\ IsPrefix(s, Append(s, x))
<1>1. Append(s, x) \in Sights /\ Len(Append(s, x)) = Len(s) + 1
      /\ \A i \in 1 .. Len(s) : Append(s, x)[i] = s[i]
  BY DEF Sights
<1>2. Len(s) \in Nat
  BY DEF Sights
<1>3. IsPrefix(s, s)
  BY <1>2, PrefixIs
<1>4. ASSUME NEW t \in Sights, Len(t) = Len(s) + 1, \A i \in 1 .. Len(s) : t[i] = s[i]
      PROVE  IsPrefix(s, t)
  <2>1. Len(s) <= Len(t) /\ \A i \in 1 .. Len(s) : s[i] = t[i]
    BY <1>2, <1>4
  <2> QED
    BY <2>1, PrefixIs
<1> QED
  BY <1>1, <1>3, <1>4

\* Prefixes compose.
LEMMA PrefixOfPrefix ==
  ASSUME NEW s \in Sights, NEW t \in Sights, NEW u \in Sights,
         IsPrefix(s, t), IsPrefix(t, u)
  PROVE  IsPrefix(s, u)
<1>1. Len(s) \in Nat /\ Len(t) \in Nat /\ Len(u) \in Nat
  BY DEF Sights
<1>2. Len(s) <= Len(t) /\ \A i \in 1 .. Len(s) : s[i] = t[i]
  BY PrefixIs
<1>3. Len(t) <= Len(u) /\ \A i \in 1 .. Len(t) : t[i] = u[i]
  BY PrefixIs
<1>4. Len(s) <= Len(u) /\ \A i \in 1 .. Len(s) : s[i] = u[i]
  BY <1>1, <1>2, <1>3
<1> QED
  BY <1>4, PrefixIs

-----------------------------------------------------------------------------
(***************************************************************************)
(* The guest.                                                              *)
(***************************************************************************)
\* A machine whose handler, if one runs, is at one of its two instructions.
Sound(g) == g \in Machine /\ (g.ctx # "main" => g.pc \in {0, 1})

\* h is g some cycles on, and what it saw begins with what g saw.
Carries(g, h, cycles) ==
  Sound(h) /\ h.cycles = g.cycles + cycles /\ IsPrefix(g.seen, h.seen)

\* The fields of a machine that have to do with its type.
LEMMA MachineIs ==
  ASSUME NEW g \in Machine
  PROVE  /\ g.cycles \in Nat /\ g.halted \in BOOLEAN /\ g.iflag \in BOOLEAN
         /\ g.ctx \in {"main", "kbd", "timer"} /\ g.pc \in Nat /\ g.next_irq \in Nat
         /\ g.armed \in BOOLEAN /\ g.irr \in SUBSET {0, 1} /\ g.isr \in SUBSET {0, 1}
         /\ g.buf \in Seq(Byte) /\ g.held \in SUBSET Keys /\ g.seen \in Sights
BY DEF Machine, Sights

\* Looking at something adds it to what was seen.
LEMMA ObserveIs ==
  ASSUME NEW g, Sound(g), NEW what \in 0 .. Irq0
  PROVE  Carries(g, Observe(g, what), 0)
<1>1. g \in Machine
  BY DEF Sound
<1>2. <<g.cycles, what>> \in Nat \X (0 .. Irq0)
  BY <1>1, MachineIs
<1>3. Append(g.seen, <<g.cycles, what>>) \in Sights /\ IsPrefix(g.seen, Append(g.seen, <<g.cycles, what>>))
  BY <1>1, <1>2, MachineIs, PrefixGrows
<1>4. ASSUME NEW q \in Sights
      PROVE  LET h == [g EXCEPT !.seen = q] IN Sound(h) /\ h.cycles = g.cycles /\ h.seen = q
  BY <1>1, <1>4 DEF Sound, Machine, Sights
<1>5. g.cycles + 0 = g.cycles
  BY <1>1, MachineIs
<1> QED
  BY <1>3, <1>4, <1>5 DEF Carries, Observe

\* Reading port 60h takes a byte out of the queue, or sees 0.
LEMMA ReadCarries ==
  ASSUME NEW g, Sound(g)
  PROVE  Carries(g, Read60(g), 0)
<1> DEFINE rest == IF g.buf = <<>> THEN <<>> ELSE Tail(g.buf)
           byte == IF g.buf = <<>> THEN 0 ELSE Head(g.buf)
           h == Observe(g, byte)
<1>1. g \in Machine /\ g.buf \in Seq(Byte)
  BY MachineIs DEF Sound
<1>2. rest \in Seq(Byte)
  BY <1>1
<1>3. byte \in 0 .. Irq0
  <2>1. g.buf # <<>> => Head(g.buf) \in Byte
    BY <1>1
  <2> QED
    BY <2>1 DEF Byte, Irq0
<1>4. Carries(g, h, 0)
  BY <1>3, ObserveIs
<1>5. Read60(g) = [h EXCEPT !.buf = rest, !.irr = IF rest = <<>> THEN h.irr \ {1} ELSE h.irr \cup {1}]
  BY DEF Read60
<1> HIDE DEF h, rest, byte
<1>6. h \in Machine
  BY <1>4 DEF Carries, Sound
<1>7. ASSUME NEW i \in SUBSET {0, 1}
      PROVE  LET k == [h EXCEPT !.buf = rest, !.irr = i] IN
             Sound(k) /\ k.cycles = h.cycles /\ k.seen = h.seen
  BY <1>2, <1>4, <1>6, <1>7 DEF Carries, Sound, Machine
<1>8. (IF rest = <<>> THEN h.irr \ {1} ELSE h.irr \cup {1}) \in SUBSET {0, 1}
  BY <1>6, MachineIs
<1> QED
  BY <1>4, <1>5, <1>7, <1>8 DEF Carries

\* The end of a handler.
LEMMA EndCarries ==
  ASSUME NEW g, Sound(g), NEW irq
  PROVE  Carries(g, EndOfInterrupt(g, irq), 0)
<1>1. g \in Machine /\ g.isr \ {irq} \in SUBSET {0, 1} /\ g.cycles + 0 = g.cycles /\ g.seen \in Sights
  BY MachineIs DEF Sound
<1>2. LET h == EndOfInterrupt(g, irq) IN Sound(h) /\ h.cycles = g.cycles /\ h.seen = g.seen
  BY <1>1 DEF EndOfInterrupt, Sound, Machine
<1>3. IsPrefix(g.seen, g.seen)
  <2>1. <<0, 0>> \in Nat \X (0 .. Irq0)
    BY DEF Irq0
  <2> QED
    BY <1>1, <2>1, PrefixGrows
<1> QED
  BY <1>1, <1>2, <1>3 DEF Carries

\* One instruction, whichever it is, sees in order and keeps no time of its own.
LEMMA InstructionCarries ==
  ASSUME NEW g, Sound(g)
  PROVE  Carries(g, Instruction(g), 0)
<1>1. g \in Machine /\ g.cycles + 0 = g.cycles /\ g.cycles \in Nat /\ g.seen \in Sights
  BY MachineIs DEF Sound
<1>2. IsPrefix(g.seen, g.seen)
  <2>1. <<0, 0>> \in Nat \X (0 .. Irq0)
    BY DEF Irq0
  <2> QED
    BY <1>1, <2>1, PrefixGrows
<1>3. CASE g.ctx = "main"
  <2> DEFINE h == [g EXCEPT !.pc = (g.pc + 1) % Spin, !.halted = g.halted \/ g.pc + 1 = Spin]
  <2>1. Instruction(g) = h
    BY <1>3 DEF Instruction
  <2>2. (g.pc + 1) % Spin \in Nat
    BY <1>1, MachineIs, SessionAssumption DEF SessionAssumption
  <2>3. (g.halted \/ g.pc + 1 = Spin) \in BOOLEAN
    OBVIOUS
  <2>4. ASSUME NEW p \in Nat, NEW b \in BOOLEAN
        PROVE  LET k == [g EXCEPT !.pc = p, !.halted = b] IN
               Sound(k) /\ k.cycles = g.cycles /\ k.seen = g.seen
    BY <1>1, <1>3 DEF Sound, Machine
  <2>5. ASSUME NEW p, p = (g.pc + 1) % Spin, NEW b, b = (g.halted \/ g.pc + 1 = Spin)
        PROVE  Sound(h) /\ h.cycles = g.cycles /\ h.seen = g.seen
    <3>1. p \in Nat /\ b \in BOOLEAN
      BY <2>2, <2>3, <2>5
    <3>2. h = [g EXCEPT !.pc = p, !.halted = b]
      BY <2>5
    <3> HIDE DEF h
    <3> QED
      BY <2>4, <3>1, <3>2
  <2> QED
    BY <1>1, <1>2, <2>1, <2>5 DEF Carries
<1>4. ASSUME NEW h, Carries(g, h, 0)
      PROVE  Carries(g, [h EXCEPT !.pc = 1], 0)
  <2>1. h \in Machine
    BY <1>4 DEF Carries, Sound
  <2> QED
    BY <1>4, <2>1 DEF Carries, Sound, Machine
<1>5. CASE g.ctx = "kbd" /\ g.pc = 0
  <2>1. Instruction(g) = [Read60(g) EXCEPT !.pc = 1]
    BY <1>5 DEF Instruction
  <2> QED
    BY <1>4, <2>1, ReadCarries
<1>6. CASE g.ctx = "kbd" /\ g.pc = 1
  <2>1. Instruction(g) = EndOfInterrupt(g, 1)
    BY <1>6 DEF Instruction
  <2> QED
    BY <2>1, EndCarries
<1>7. CASE g.ctx = "timer" /\ g.pc = 0
  <2> DEFINE h == Observe(g, Irq0)
  <2>1. Instruction(g) = [h EXCEPT !.pc = 1, !.armed = TRUE, !.next_irq = g.cycles + Delay]
    BY <1>7 DEF Instruction
  <2>2. Carries(g, h, 0)
    <3>1. Irq0 \in 0 .. Irq0
      BY DEF Irq0
    <3> QED
      BY <3>1, ObserveIs
  <2> HIDE DEF h
  <2>3. g.cycles + Delay \in Nat
    BY <1>1, SessionAssumption DEF SessionAssumption
  <2>4. ASSUME NEW c \in Nat
        PROVE  Carries(g, [h EXCEPT !.pc = 1, !.armed = TRUE, !.next_irq = c], 0)
    <3>1. h \in Machine
      BY <2>2 DEF Carries, Sound
    <3> QED
      BY <2>2, <3>1 DEF Carries, Sound, Machine
  <2> QED
    BY <2>1, <2>3, <2>4
<1>8. CASE g.ctx = "timer" /\ g.pc = 1
  <2>1. Instruction(g) = EndOfInterrupt(g, 0)
    BY <1>8 DEF Instruction
  <2> QED
    BY <2>1, EndCarries
<1> QED
  BY <1>1, <1>3, <1>5, <1>6, <1>7, <1>8, MachineIs DEF Sound

\* One instruction takes one cycle.
LEMMA StepCarries ==
  ASSUME NEW g, Sound(g)
  PROVE  Carries(g, cpu_step(g), 1)
<1> DEFINE h == Instruction(g)
<1>1. Carries(g, h, 0)
  BY InstructionCarries
<1>2. cpu_step(g) = [h EXCEPT !.cycles = h.cycles + 1]
  BY DEF cpu_step
<1> HIDE DEF h
<1>3. h \in Machine /\ g.cycles \in Nat /\ h.cycles = g.cycles
  BY <1>1, MachineIs DEF Carries, Sound
<1>4. ASSUME NEW c \in Nat
      PROVE  LET k == [h EXCEPT !.cycles = c] IN Sound(k) /\ k.cycles = c /\ k.seen = h.seen
  BY <1>1, <1>3 DEF Carries, Sound, Machine
<1> QED
  BY <1>1, <1>2, <1>3, <1>4 DEF Carries

\* What is carried on twice is carried on.
LEMMA CarriesOn ==
  ASSUME NEW g, Sound(g), NEW a \in Nat, NEW b \in Nat, NEW h, Carries(g, h, a),
         NEW k, Carries(h, k, b)
  PROVE  Carries(g, k, a + b)
<1>1. g \in Machine /\ h \in Machine /\ k \in Machine
  BY DEF Carries, Sound
<1>2. k.cycles = g.cycles + (a + b)
  <2>1. g.cycles \in Nat /\ h.cycles = g.cycles + a /\ k.cycles = h.cycles + b
    BY <1>1, MachineIs DEF Carries
  <2> QED
    BY <2>1
<1>3. IsPrefix(g.seen, k.seen)
  BY <1>1, MachineIs, PrefixOfPrefix DEF Carries
<1> QED
  BY <1>2, <1>3 DEF Carries

(***************************************************************************)
(* A batch.  The recursive function is what its definition says - there is *)
(* such a function up to each instruction, by one more at a time - and it  *)
(* leaves exactly one machine.                                             *)
(***************************************************************************)
StepAll(hs) == {cpu_step(h) : h \in hs}
Ran(g, f, n) == f = [k \in 0 .. n |-> IF k = 0 THEN {g} ELSE StepAll(f[k - 1])]

\* One instruction more.
LEMMA RanOneMore ==
  ASSUME NEW g, NEW n \in Nat, NEW f, Ran(g, f, n)
  PROVE  \E e : Ran(g, e, n + 1)
<1> DEFINE e == [k \in 0 .. n + 1 |-> IF k = n + 1 THEN StepAll(f[n]) ELSE f[k]]
<1>1. ASSUME NEW k \in 0 .. n + 1
      PROVE  e[k] = IF k = 0 THEN {g} ELSE StepAll(e[k - 1])
  <2>1. CASE k = n + 1
    <3>1. k # 0 /\ k - 1 = n /\ n \in 0 .. n + 1 /\ n # n + 1
      BY <2>1
    <3>2. e[n] = f[n] /\ e[k] = StepAll(f[n])
      BY <2>1, <3>1
    <3> QED
      BY <2>1, <3>1, <3>2
  <2>2. CASE k # n + 1
    <3>1. k \in 0 .. n
      BY <2>2
    <3>2. e[k] = f[k]
      BY <2>2
    <3>3. f[k] = IF k = 0 THEN {g} ELSE StepAll(f[k - 1])
      BY <3>1 DEF Ran
    <3>4. k # 0 => e[k - 1] = f[k - 1]
      BY <3>1
    <3> QED
      BY <3>2, <3>3, <3>4
  <2> QED
    BY <2>1, <2>2
<1>2. e = [k \in 0 .. n + 1 |-> IF k = 0 THEN {g} ELSE StepAll(e[k - 1])]
  BY <1>1
<1> QED
  BY <1>2 DEF Ran

\* As many as it takes.
LEMMA RanExists ==
  ASSUME NEW g, NEW lim \in Nat
  PROVE  \E f : Ran(g, f, lim)
<1> DEFINE T == {n \in Nat : ~ \E f : Ran(g, f, n)}
<1>1. \E f : Ran(g, f, 0)
  <2> DEFINE f == [k \in 0 .. 0 |-> {g}]
  <2>1. f = [k \in 0 .. 0 |-> IF k = 0 THEN {g} ELSE StepAll(f[k - 1])]
    OBVIOUS
  <2> QED
    BY <2>1 DEF Ran
<1>2. T = {}
  <2> SUFFICES ASSUME T # {} PROVE FALSE
    OBVIOUS
  <2>1. PICK n \in T : \A k \in T : n <= k
    BY LeastElement
  <2>2. n \in Nat /\ n # 0 /\ ~ \E f : Ran(g, f, n)
    BY <1>1
  <2>3. n - 1 \in Nat /\ (n - 1) + 1 = n /\ ~ (n <= n - 1)
    BY <2>2
  <2>4. PICK f : Ran(g, f, n - 1)
    BY <2>1, <2>3
  <2>5. ASSUME NEW k \in Nat, k + 1 = n, Ran(g, f, k) PROVE FALSE
    BY <2>2, <2>5, RanOneMore
  <2> QED
    BY <2>3, <2>4, <2>5
<1> QED
  BY <1>2

\* A batch of lim instructions leaves one machine, lim cycles on.
LEMMA BatchIs ==
  ASSUME NEW g, Sound(g), NEW lim \in Nat
  PROVE  \E h : RunBatch(g, lim) = {h} /\ Carries(g, h, lim)
<1> DEFINE f == CHOOSE e : Ran(g, e, lim)
           One(n) == \E h : f[n] = {h} /\ Carries(g, h, n)
           T == {n \in 0 .. lim : ~ One(n)}
<1>1. RunBatch(g, lim) = f[lim]
  BY DEF RunBatch, Ran, StepAll
<1>2. Ran(g, f, lim)
  BY RanExists
<1> HIDE DEF f
<1>3. f[0] = {g} /\ \A n \in 1 .. lim : f[n] = StepAll(f[n - 1])
  <2>1. \A n \in 0 .. lim : f[n] = IF n = 0 THEN {g} ELSE StepAll(f[n - 1])
    BY <1>2 DEF Ran
  <2>2. 0 \in 0 .. lim /\ \A n \in 1 .. lim : n \in 0 .. lim /\ n # 0
    OBVIOUS
  <2> QED
    BY <2>1, <2>2
<1>4. One(0)
  <2>1. g \in Machine /\ g.cycles = g.cycles + 0
    BY MachineIs DEF Sound
  <2>2. IsPrefix(g.seen, g.seen)
    <3>1. <<0, 0>> \in Nat \X (0 .. Irq0) /\ g.seen \in Sights
      BY <2>1, MachineIs DEF Irq0
    <3> QED
      BY <3>1, PrefixGrows
  <2> QED
    BY <1>3, <2>1, <2>2 DEF Carries
<1>5. ASSUME NEW n \in 1 .. lim, NEW k \in Nat, k + 1 = n, k = n - 1, One(k)
      PROVE  One(n)
  <2>1. PICK h : f[k] = {h} /\ Carries(g, h, k)
    BY <1>5
  <2>2. f[n] = StepAll({h})
    BY <1>3, <1>5, <2>1
  <2>3. StepAll({h}) = {cpu_step(h)}
    BY DEF StepAll
  <2>4. Carries(h, cpu_step(h), 1)
    BY <2>1, StepCarries DEF Carries
  <2>5. Carries(g, cpu_step(h), k + 1)
    BY <2>1, <2>4, CarriesOn
  <2> QED
    BY <1>5, <2>2, <2>3, <2>5
<1> HIDE DEF One
<1>6. T = {}
  <2> SUFFICES ASSUME T # {} PROVE FALSE
    OBVIOUS
  <2>5. T \in SUBSET Nat
    OBVIOUS
  <2>1. PICK n \in T : \A k \in T : n <= k
    BY <2>5, LeastElement
  <2>2. n \in 1 .. lim /\ ~ One(n)
    BY <1>4
  <2>3. n - 1 \in Nat /\ n - 1 \in 0 .. lim /\ (n - 1) + 1 = n /\ ~ (n <= n - 1)
    BY <2>2
  <2>4. One(n - 1)
    BY <2>1, <2>3
  <2> QED
    BY <1>5, <2>2, <2>3, <2>4
<1>7. One(lim)
  <2>1. lim \in 0 .. lim
    OBVIOUS
  <2> QED
    BY <1>6, <2>1
<1> QED
  BY <1>1, <1>7 DEF One

-----------------------------------------------------------------------------
(***************************************************************************)
(* A turn of the loop.                                                     *)
(***************************************************************************)
\* The devices and the interrupt controller take no time and show nothing.
LEMMA DevicesCarry ==
  ASSUME NEW g, Sound(g)
  PROVE  LET h == Deliver(dev_tick(g)) IN Sound(h) /\ h.cycles = g.cycles /\ h.seen = g.seen
<1>1. g \in Machine
  BY DEF Sound
<1> DEFINE h == dev_tick(g)
<1>2. Sound(h) /\ h.cycles = g.cycles /\ h.seen = g.seen
  BY <1>1 DEF dev_tick, Sound, Machine
<1> HIDE DEF h
<1>3. h \in Machine
  BY <1>2 DEF Sound
<1>4. CASE ~ h.iflag
  BY <1>2, <1>4 DEF Deliver, h
<1>5. ASSUME NEW i \in SUBSET {0, 1}, NEW s \in SUBSET {0, 1}, NEW c \in {"kbd", "timer"}
      PROVE  LET k == [h EXCEPT !.irr = i, !.isr = s, !.iflag = FALSE,
                                !.halted = FALSE, !.ctx = c, !.pc = 0] IN
             Sound(k) /\ k.cycles = h.cycles /\ k.seen = h.seen
  BY <1>2, <1>3, <1>5 DEF Sound, Machine
<1>6. /\ h.irr \ {0} \in SUBSET {0, 1} /\ h.isr \cup {0} \in SUBSET {0, 1}
      /\ h.irr \ {1} \in SUBSET {0, 1} /\ h.isr \cup {1} \in SUBSET {0, 1}
  BY <1>3, MachineIs
<1>7. LET k == Deliver(h) IN Sound(k) /\ k.cycles = h.cycles /\ k.seen = h.seen
  BY <1>2, <1>5, <1>6 DEF Deliver
<1> QED
  BY <1>2, <1>7 DEF h

\* How far a turn carries the clock.
TurnLength(g, deadline) == IF g.halted THEN IdleStep(g, deadline) ELSE BatchLimit(g, deadline)

\* A turn leaves one machine, its length on.
LEMMA TurnIs ==
  ASSUME NEW g, Sound(g), NEW deadline \in Nat
  PROVE  /\ TurnLength(g, deadline) \in Nat
         /\ \E h : Turn(g, deadline) = {h} /\ Carries(g, h, TurnLength(g, deadline))
<1>1. g \in Machine /\ g.cycles \in Nat /\ g.seen \in Sights
  BY MachineIs DEF Sound
<1>2. TurnLength(g, deadline) \in Nat
  <2>1. dev_next_deadline(g) \in Nat
    BY <1>1, MachineIs, SessionAssumption DEF dev_next_deadline, SessionAssumption
  <2>2. IdleStep(g, deadline) \in Nat
    BY <1>1, SessionAssumption DEF IdleStep, SessionAssumption
  <2>3. BatchLimit(g, deadline) \in Nat
    <3> DEFINE dl == Lesser(dev_next_deadline(g), deadline)
    <3>1. dl \in Nat
      BY <2>1 DEF Lesser
    <3> HIDE DEF dl
    <3>2. (IF dl <= g.cycles THEN 1 ELSE Lesser(Batch, dl - g.cycles)) \in Nat
      BY <1>1, <3>1, SessionAssumption DEF Lesser, SessionAssumption
    <3> QED
      BY <3>2 DEF BatchLimit, dl
  <2> QED
    BY <2>2, <2>3 DEF TurnLength
<1> DEFINE lim == TurnLength(g, deadline)
           from == IF g.halted THEN {[g EXCEPT !.cycles = @ + IdleStep(g, deadline)]}
                   ELSE RunBatch(g, BatchLimit(g, deadline))
<1>3. \E h : from = {h} /\ Carries(g, h, lim)
  <2>1. CASE g.halted
    <3>1. lim = IdleStep(g, deadline) /\ from = {[g EXCEPT !.cycles = @ + IdleStep(g, deadline)]}
      BY <2>1 DEF TurnLength
    <3> HIDE DEF from, lim
    <3>2. from = {[g EXCEPT !.cycles = g.cycles + lim]}
      BY <3>1
    <3>3. g.cycles + lim \in Nat
      BY <1>1, <1>2 DEF lim
    <3>4. IsPrefix(g.seen, g.seen)
      <4>1. <<0, 0>> \in Nat \X (0 .. Irq0)
        BY DEF Irq0
      <4> QED
        BY <1>1, <4>1, PrefixGrows
    <3>5. Carries(g, [g EXCEPT !.cycles = g.cycles + lim], lim)
      BY <1>1, <3>3, <3>4 DEF Carries, Sound, Machine
    <3> QED
      BY <3>2, <3>5
  <2>2. CASE ~ g.halted
    BY <1>2, <2>2, BatchIs DEF TurnLength
  <2> QED
    BY <2>1, <2>2
<1>4. Turn(g, deadline) = {Deliver(dev_tick(h)) : h \in from}
  BY DEF Turn
<1> HIDE DEF from, lim
<1>5. PICK h : from = {h} /\ Carries(g, h, lim)
  BY <1>3
<1>6. Turn(g, deadline) = {Deliver(dev_tick(h))}
  BY <1>4, <1>5
<1>7. Carries(g, Deliver(dev_tick(h)), lim)
  BY <1>5, DevicesCarry DEF Carries
<1> QED
  BY <1>2, <1>6, <1>7 DEF lim

\* A turn never carries the clock past a deadline ahead of it.
LEMMA TurnInTime ==
  ASSUME NEW g, Sound(g), NEW deadline \in Nat, g.cycles < deadline
  PROVE  g.cycles + TurnLength(g, deadline) <= deadline
<1>1. g.cycles \in Nat
  BY MachineIs DEF Sound
<1>2. CASE g.halted
  <2>1. g.cycles + IdleStep(g, deadline) <= deadline
    BY <1>1, SessionAssumption DEF IdleStep, SessionAssumption
  <2> QED
    BY <1>2, <2>1 DEF TurnLength
<1>3. CASE ~ g.halted
  <2> DEFINE next == dev_next_deadline(g)
             dl == Lesser(next, deadline)
  <2>1. next \in Nat
    BY <1>1, MachineIs, SessionAssumption DEF dev_next_deadline, SessionAssumption, Sound
  <2> HIDE DEF next
  <2>2. dl \in Nat /\ dl <= deadline
    BY <2>1 DEF Lesser
  <2>3. BatchLimit(g, deadline) = IF dl <= g.cycles THEN 1 ELSE Lesser(Batch, dl - g.cycles)
    BY DEF BatchLimit, next
  <2> HIDE DEF dl
  <2>4. g.cycles + BatchLimit(g, deadline) <= deadline
    BY <1>1, <2>2, <2>3, SessionAssumption DEF Lesser, SessionAssumption
  <2> QED
    BY <1>3, <2>4 DEF TurnLength
<1> QED
  BY <1>2, <1>3

\* The recorder's turn, which no deadline cuts short, moves the clock; and a
\* replay's is the same one whenever its deadline lies no nearer.
LEMMA SameTurn ==
  ASSUME NEW g, Sound(g), g.cycles < MaxCycle
  PROVE  /\ None \in Nat
         /\ TurnLength(g, None) \in Nat /\ TurnLength(g, None) > 0
         /\ \A deadline \in Nat : g.cycles + TurnLength(g, None) <= deadline
                                    => Turn(g, deadline) = Turn(g, None)
<1>1. g.cycles \in Nat
  BY MachineIs DEF Sound
<1>2. /\ Batch \in Nat /\ Batch > 0 /\ Unarmed \in Nat /\ Unarmed > 0
      /\ IdleJump \in Nat /\ IdleJump > 0 /\ MaxCycle \in Nat
  BY SessionAssumption DEF SessionAssumption
<1>3. None \in Nat /\ g.cycles + Batch < None /\ g.cycles + IdleJump < None
  BY <1>1, <1>2 DEF None
<1>4. CASE g.halted
  <2>1. IdleStep(g, None) = IdleJump
    BY <1>1, <1>2, <1>3 DEF IdleStep
  <2>2. \A deadline \in Nat : g.cycles + IdleJump <= deadline => IdleStep(g, deadline) = IdleJump
    BY <1>1, <1>2 DEF IdleStep
  <2> QED
    BY <1>2, <1>3, <1>4, <2>1, <2>2 DEF TurnLength, Turn
<1>5. CASE ~ g.halted
  <2> DEFINE next == dev_next_deadline(g)
             whole == IF next <= g.cycles THEN 1 ELSE Lesser(Batch, next - g.cycles)
  <2>1. next \in Nat
    BY <1>1, MachineIs, SessionAssumption DEF dev_next_deadline, SessionAssumption, Sound
  <2>2. \A deadline : BatchLimit(g, deadline) =
           IF Lesser(next, deadline) <= g.cycles THEN 1
           ELSE Lesser(Batch, Lesser(next, deadline) - g.cycles)
    BY DEF BatchLimit
  <2> HIDE DEF next
  <2>3. whole \in Nat /\ whole > 0
    BY <1>1, <1>2, <2>1 DEF Lesser
  <2>4. ASSUME NEW deadline \in Nat, g.cycles + whole <= deadline
        PROVE  BatchLimit(g, deadline) = whole
    <3>1. CASE next <= g.cycles
      BY <1>1, <2>1, <2>2, <2>4, <3>1 DEF Lesser
    <3>2. CASE ~ (next <= g.cycles)
      BY <1>1, <1>2, <2>1, <2>2, <2>4, <3>2 DEF Lesser
    <3> QED
      BY <3>1, <3>2
  <2>5. g.cycles + whole <= None
    BY <1>1, <1>2, <1>3, <2>1 DEF Lesser
  <2> HIDE DEF whole
  <2>6. BatchLimit(g, None) = whole
    BY <1>3, <2>4, <2>5
  <2> QED
    BY <1>3, <1>5, <2>3, <2>4, <2>6 DEF TurnLength, Turn
<1> QED
  BY <1>4, <1>5

\* A recorded turn leaves one machine, later than the one before.
LEMMA RecordedTurn ==
  ASSUME NEW g, Sound(g), g.cycles < MaxCycle, NEW h \in Turn(g, None)
  PROVE  /\ Turn(g, None) = {h}
         /\ \E c \in Nat : c > 0 /\ c = TurnLength(g, None) /\ Carries(g, h, c)
<1>1. None \in Nat /\ TurnLength(g, None) \in Nat /\ TurnLength(g, None) > 0
  BY SameTurn
<1>2. PICK k : Turn(g, None) = {k} /\ Carries(g, k, TurnLength(g, None))
  BY <1>1, TurnIs
<1> QED
  BY <1>1, <1>2

-----------------------------------------------------------------------------
(***************************************************************************)
(* A key takes no time, and the guest sees nothing until it reads.         *)
(***************************************************************************)
\* What a key sends is bytes.
LEMMA KeyBytes ==
  ASSUME NEW idx \in Keys
  PROVE  MakeBytes(idx) \in Seq(Byte) /\ BreakBytes(idx) \in Seq(Byte)
<1>1. Sc(idx) \in Byte /\ Sc(idx) + 128 \in Byte /\ PrefixE0 \in Byte
  BY KeysAssumption DEF Sc, Byte, PrefixE0, KeysAssumption
<1>2. ASSUME NEW c \in Byte PROVE Bytes(idx, c) \in Seq(Byte)
  BY <1>1, <1>2 DEF Bytes
<1> QED
  BY <1>1, <1>2 DEF MakeBytes, BreakBytes

\* A queue that made room for bytes is a queue of bytes.
LEMMA Pushed ==
  ASSUME NEW q \in Seq(Byte), NEW b \in Seq(Byte)
  PROVE  kbd_push(q, b, TRUE) \in Seq(Byte)
<1> DEFINE need == Len(b)
           k == need - kbd_free(q) + 1
<1>1. need \in Nat /\ kbd_free(q) \in Int
  BY CapAssumption DEF kbd_free, CapAssumption
<1>2. Evicted(q, need) \in Seq(Byte)
  <2>1. CASE kbd_free(q) >= need
    BY <2>1 DEF Evicted
  <2>2. CASE ~ (kbd_free(q) >= need)
    <3>1. k \in Int /\ 1 <= k
      BY <1>1, <2>2
    <3>2. Evicted(q, need) = SubSeq(q, k, Len(q))
      BY <2>2 DEF Evicted
    <3> HIDE DEF k
    <3>3. SubSeq(q, k, Len(q)) \in Seq(Byte)
      BY <3>1
    <3> QED
      BY <3>2, <3>3
  <2> QED
    BY <2>1, <2>2
<1>3. kbd_push(q, b, TRUE) = Evicted(q, need) \o b
  BY DEF kbd_push, kbd_ensure
<1> HIDE DEF need, k
<1>4. Evicted(q, need) \o b \in Seq(Byte)
  BY <1>2
<1> QED
  BY <1>3, <1>4

\* A key leaves time and what was seen alone.
LEMMA KeyCarries ==
  ASSUME NEW g, Sound(g), NEW idx \in Keys, NEW down \in BOOLEAN
  PROVE  Carries(g, kbd_key(g, idx, down), 0) /\ Carries(g, kbd_release(g, idx), 0)
<1>1. /\ g \in Machine /\ g.cycles + 0 = g.cycles /\ g.seen \in Sights
      /\ g.buf \in Seq(Byte) /\ g.held \in SUBSET Keys /\ g.irr \in SUBSET {0, 1}
  BY MachineIs DEF Sound
<1>2. AfterMake(g.buf, g.held, idx, TRUE) \in Seq(Byte)
  BY <1>1, KeyBytes, Pushed DEF AfterMake
<1>3. kbd_push(g.buf, BreakBytes(idx), TRUE) \in Seq(Byte)
  BY <1>1, KeyBytes, Pushed
<1>4. AfterBreak(g.buf, g.held, idx, TRUE) \in Seq(Byte)
  <2> DEFINE sib == Sibling(idx, g.held \ {idx})
  <2>1. sib # <<>> => sib[1] \in Keys
    BY <1>1 DEF Sibling
  <2>2. sib # <<>> => MakeBytes(sib[1]) \in Seq(Byte)
    BY <2>1, KeyBytes
  <2> HIDE DEF sib
  <2>3. AfterBreak(g.buf, g.held, idx, TRUE) =
          IF sib # <<>> THEN kbd_push(kbd_push(g.buf, BreakBytes(idx), TRUE), MakeBytes(sib[1]), TRUE)
          ELSE kbd_push(g.buf, BreakBytes(idx), TRUE)
    BY DEF AfterBreak, sib
  <2> QED
    BY <1>3, <2>2, <2>3, Pushed
<1>5. ASSUME NEW q \in Seq(Byte), NEW held \in SUBSET Keys, NEW i \in SUBSET {0, 1}
      PROVE  Carries(g, [g EXCEPT !.buf = q, !.held = held, !.irr = i], 0)
  <2>1. IsPrefix(g.seen, g.seen)
    <3>1. <<0, 0>> \in Nat \X (0 .. Irq0)
      BY DEF Irq0
    <3> QED
      BY <1>1, <3>1, PrefixGrows
  <2> QED
    BY <1>1, <1>5, <2>1 DEF Carries, Sound, Machine
<1>6. Carries(g, kbd_release(g, idx), 0)
  <2>1. g.held \ {idx} \in SUBSET Keys /\ g.irr \cup {1} \in SUBSET {0, 1}
    BY <1>1
  <2> QED
    BY <1>3, <1>5, <2>1 DEF kbd_release
<1>7. Carries(g, kbd_key(g, idx, down), 0)
  <2> DEFINE q == IF down THEN AfterMake(g.buf, g.held, idx, TRUE)
                  ELSE AfterBreak(g.buf, g.held, idx, TRUE)
             held == HeldAfter(g.held, idx, down)
             i == IF ~ down \/ MakeRaises(g.buf, g.held, idx, TRUE) THEN g.irr \cup {1} ELSE g.irr
  <2>1. q \in Seq(Byte)
    BY <1>2, <1>4
  <2>2. held \in SUBSET Keys
    BY <1>1 DEF HeldAfter
  <2>3. i \in SUBSET {0, 1}
    BY <1>1
  <2>4. kbd_key(g, idx, down) = [g EXCEPT !.buf = q, !.held = held, !.irr = i]
    BY DEF kbd_key
  <2> HIDE DEF q, held, i
  <2>5. Carries(g, [g EXCEPT !.buf = q, !.held = held, !.irr = i], 0)
    BY <1>5, <2>1, <2>2, <2>3
  <2> QED
    BY <2>4, <2>5
<1> QED
  BY <1>6, <1>7

\* Letting go of a key that no held key shares a flipper with is what kbd_key
\* does on its break.
LEMMA ReleaseIsBreak ==
  ASSUME NEW g, NEW idx, Sibling(idx, g.held \ {idx}) = <<>>
  PROVE  kbd_release(g, idx) = kbd_key(g, idx, FALSE)
BY DEF kbd_release, kbd_key, AfterBreak, HeldAfter

-----------------------------------------------------------------------------
(***************************************************************************)
(* What a recording leaves behind: the machines it went through, each with *)
(* the number of events logged by then.  From each to the next is either   *)
(* a turn of the loop or one logged key.                                   *)
(***************************************************************************)
Entry == [g : Machine, n : Nat]

Turned(a, b) == b.n = a.n /\ a.g.cycles < MaxCycle /\ b.g \in Turn(a.g, None)

Keyed(a, b, evs, ov) ==
  /\ b.n = a.n + 1 /\ evs[b.n].cyc = a.g.cycles
  /\ ~ ov => b.g = kbd_key(a.g, evs[b.n].idx, evs[b.n].down)

Steps(tr, evs, ov) ==
  \A i \in 1 .. Len(tr) - 1 : Turned(tr[i], tr[i + 1]) \/ Keyed(tr[i], tr[i + 1], evs, ov)

End(tr) == tr[Len(tr)].g

\* It starts at boot, ends with every event logged, and never goes back.
Monotone(tr, evs) ==
  /\ tr[1].g = Boot /\ tr[1].n = 0 /\ tr[Len(tr)].n = Len(evs)
  /\ \A i \in 1 .. Len(tr) :
       /\ Sound(tr[i].g) /\ tr[i].n <= Len(evs) /\ tr[i].g.cycles <= End(tr).cycles
       /\ IsPrefix(tr[i].g.seen, End(tr).seen)

\* The events logged after a machine are stamped no earlier than it, the
\* stamps are in order, and none is past the end.
Stamps(tr, evs) ==
  /\ \A i \in 1 .. Len(tr), k \in 1 .. Len(evs) : k > tr[i].n => tr[i].g.cycles <= evs[k].cyc
  /\ \A k \in 1 .. Len(evs) : evs[k].cyc <= End(tr).cycles
  /\ \A k \in 1 .. Len(evs), j \in 1 .. Len(evs) : j <= k => evs[j].cyc <= evs[k].cyc

\* Once the last event is in, the clock moves with every step.
Closing(tr, evs) ==
  \A i \in 1 .. Len(tr) - 1 : tr[i].n = Len(evs) => tr[i].g.cycles < End(tr).cycles

History(tr, evs, ov) ==
  Steps(tr, evs, ov) /\ Monotone(tr, evs) /\ Stamps(tr, evs) /\ Closing(tr, evs)

Kept(tr, evs) == tr \in Seq(Entry) /\ tr # <<>> /\ evs \in Seq(Event)

\* tr2 is tr with one machine more.
Longer(tr, tr2, h, n) ==
  /\ Len(tr2) = Len(tr) + 1 /\ tr2[Len(tr) + 1].g = h /\ tr2[Len(tr) + 1].n = n
  /\ \A i \in 1 .. Len(tr) : tr2[i] = tr[i]

\* The types of what is kept.
LEMMA KeptIs ==
  ASSUME NEW tr, NEW evs, Kept(tr, evs)
  PROVE  /\ Len(tr) \in Nat /\ Len(tr) >= 1 /\ Len(evs) \in Nat
         /\ \A i \in 1 .. Len(tr) : tr[i].g \in Machine /\ tr[i].n \in Nat /\ tr[i].g.cycles \in Nat
         /\ \A k \in 1 .. Len(evs) : evs[k].cyc \in Nat /\ evs[k].idx \in Keys /\ evs[k].down \in BOOLEAN
<1>1. Len(tr) \in Nat /\ Len(evs) \in Nat /\ Len(tr) >= 1
  BY DEF Kept
<1>2. ASSUME NEW i \in 1 .. Len(tr)
      PROVE  tr[i].g \in Machine /\ tr[i].n \in Nat /\ tr[i].g.cycles \in Nat
  <2>1. tr[i] \in Entry
    BY DEF Kept
  <2>2. tr[i].g \in Machine /\ tr[i].n \in Nat
    BY <2>1 DEF Entry
  <2> QED
    BY <2>2, MachineIs
<1>3. ASSUME NEW k \in 1 .. Len(evs)
      PROVE  evs[k].cyc \in Nat /\ evs[k].idx \in Keys /\ evs[k].down \in BOOLEAN
  <2>1. evs[k] \in Event
    BY DEF Kept
  <2> QED
    BY <2>1 DEF Event
<1> QED
  BY <1>1, <1>2, <1>3

\* One machine more, some cycles on.
LEMMA LongerMonotone ==
  ASSUME NEW tr, NEW evs, Kept(tr, evs), Monotone(tr, evs),
         NEW h, NEW c \in Nat, Carries(End(tr), h, c),
         NEW tr2, NEW evs2, Longer(tr, tr2, h, Len(evs2)), Len(evs2) \in Nat, Len(evs) <= Len(evs2)
  PROVE  Monotone(tr2, evs2) /\ End(tr2) = h /\ End(tr).cycles + c = h.cycles
<1>1. /\ Len(tr) \in Nat /\ Len(tr) >= 1 /\ Len(evs) \in Nat
      /\ \A i \in 1 .. Len(tr) : tr[i].g \in Machine /\ tr[i].n \in Nat /\ tr[i].g.cycles \in Nat
  BY KeptIs
<1>2. End(tr2) = h /\ Sound(h) /\ End(tr) \in Machine /\ End(tr).cycles \in Nat
      /\ h.cycles = End(tr).cycles + c /\ IsPrefix(End(tr).seen, h.seen) /\ h \in Machine
  BY <1>1 DEF End, Longer, Carries, Sound
<1>3. ASSUME NEW i \in 1 .. Len(tr2)
      PROVE  /\ Sound(tr2[i].g) /\ tr2[i].n <= Len(evs2) /\ tr2[i].g.cycles <= h.cycles
             /\ IsPrefix(tr2[i].g.seen, h.seen)
  <2>1. CASE i \in 1 .. Len(tr)
    <3>1. tr2[i] = tr[i]
      BY <2>1 DEF Longer
    <3>2. /\ Sound(tr[i].g) /\ tr[i].n <= Len(evs) /\ tr[i].g.cycles <= End(tr).cycles
          /\ IsPrefix(tr[i].g.seen, End(tr).seen)
      BY <2>1 DEF Monotone
    <3>3. IsPrefix(tr[i].g.seen, h.seen)
      <4>1. tr[i].g.seen \in Sights /\ End(tr).seen \in Sights /\ h.seen \in Sights
        BY <1>1, <1>2, <2>1, MachineIs
      <4> QED
        BY <1>2, <3>2, <4>1, PrefixOfPrefix
    <3>4. tr[i].n <= Len(evs2) /\ tr[i].g.cycles <= h.cycles
      BY <1>1, <1>2, <2>1, <3>2
    <3> QED
      BY <3>1, <3>2, <3>3, <3>4
  <2>2. CASE i = Len(tr) + 1
    <3>1. tr2[i].g = h /\ tr2[i].n = Len(evs2)
      BY <2>2 DEF Longer
    <3>2. IsPrefix(h.seen, h.seen)
      <4>1. h.seen \in Sights /\ <<0, 0>> \in Nat \X (0 .. Irq0)
        BY <1>2, MachineIs DEF Irq0
      <4> QED
        BY <4>1, PrefixGrows
    <3>3. h.cycles \in Nat
      BY <1>2
    <3> QED
      BY <1>2, <3>1, <3>2, <3>3
  <2> QED
    BY <1>1, <2>1, <2>2 DEF Longer
<1>4. tr2[1] = tr[1] /\ tr2[Len(tr2)].n = Len(evs2)
  BY <1>1 DEF Longer
<1> QED
  BY <1>2, <1>3, <1>4 DEF Monotone

\* A turn recorded.
LEMMA TurnKept ==
  ASSUME NEW tr, NEW evs, NEW ov, Kept(tr, evs), History(tr, evs, ov),
         End(tr).cycles < MaxCycle, NEW h \in Turn(End(tr), None),
         NEW tr2, Longer(tr, tr2, h, Len(evs))
  PROVE  History(tr2, evs, ov) /\ Sound(h)
<1>1. /\ Len(tr) \in Nat /\ Len(tr) >= 1 /\ Len(evs) \in Nat
      /\ \A i \in 1 .. Len(tr) : tr[i].g \in Machine /\ tr[i].n \in Nat /\ tr[i].g.cycles \in Nat
      /\ \A k \in 1 .. Len(evs) : evs[k].cyc \in Nat
  BY KeptIs
<1>2. Steps(tr, evs, ov) /\ Monotone(tr, evs) /\ Stamps(tr, evs) /\ Closing(tr, evs)
  BY DEF History
<1>3. Sound(End(tr)) /\ End(tr).cycles \in Nat /\ tr[Len(tr)].n = Len(evs)
  BY <1>1, <1>2 DEF Monotone, End
<1>4. PICK c \in Nat : c > 0 /\ Carries(End(tr), h, c)
  BY <1>3, TurnIs, SameTurn
<1>5. Monotone(tr2, evs) /\ End(tr2) = h /\ End(tr).cycles + c = h.cycles
  BY <1>1, <1>2, <1>4, LongerMonotone
<1>6. Steps(tr2, evs, ov)
  <2> SUFFICES ASSUME NEW i \in 1 .. Len(tr2) - 1
               PROVE  Turned(tr2[i], tr2[i + 1]) \/ Keyed(tr2[i], tr2[i + 1], evs, ov)
    BY DEF Steps
  <2>1. CASE i < Len(tr)
    <3>1. i \in 1 .. Len(tr) - 1 /\ tr2[i] = tr[i] /\ tr2[i + 1] = tr[i + 1]
      BY <1>1, <2>1 DEF Longer
    <3> QED
      BY <1>2, <3>1 DEF Steps
  <2>2. CASE ~ (i < Len(tr))
    <3>1. i = Len(tr) /\ tr2[i] = tr[i] /\ tr2[i + 1].g = h /\ tr2[i + 1].n = Len(evs)
      BY <1>1, <2>2 DEF Longer
    <3> QED
      BY <1>3, <3>1 DEF Turned, End
  <2> QED
    BY <2>1, <2>2
<1>7. Stamps(tr2, evs)
  <2>1. ASSUME NEW i \in 1 .. Len(tr2), NEW k \in 1 .. Len(evs), k > tr2[i].n
        PROVE  tr2[i].g.cycles <= evs[k].cyc
    <3>1. CASE i \in 1 .. Len(tr)
      BY <1>2, <2>1, <3>1 DEF Stamps, Longer
    <3>2. CASE i = Len(tr) + 1
      BY <1>1, <2>1, <3>2 DEF Longer
    <3> QED
      BY <1>1, <3>1, <3>2 DEF Longer
  <2>2. \A k \in 1 .. Len(evs) : evs[k].cyc <= h.cycles
    <3>1. End(tr).cycles <= h.cycles
      BY <1>3, <1>5
    <3>2. h.cycles \in Nat
      BY <1>3, <1>5
    <3> QED
      BY <1>1, <1>2, <1>3, <3>1, <3>2 DEF Stamps
  <2> QED
    BY <1>2, <1>5, <2>1, <2>2 DEF Stamps
<1>8. Closing(tr2, evs)
  <2> SUFFICES ASSUME NEW i \in 1 .. Len(tr2) - 1, tr2[i].n = Len(evs)
               PROVE  tr2[i].g.cycles < h.cycles
    BY <1>5 DEF Closing
  <2>1. i \in 1 .. Len(tr) /\ tr2[i] = tr[i]
    BY <1>1 DEF Longer
  <2>2. tr[i].g.cycles <= End(tr).cycles
    BY <1>2, <2>1 DEF Monotone
  <2> QED
    BY <1>1, <1>3, <1>4, <1>5, <2>1, <2>2
<1> QED
  BY <1>4, <1>5, <1>6, <1>7, <1>8 DEF History, Carries

\* A key recorded.
LEMMA KeyKept ==
  ASSUME NEW tr, NEW evs, NEW ov, NEW ov2, Kept(tr, evs), History(tr, evs, ov), ~ ov2 => ~ ov,
         NEW h, Carries(End(tr), h, 0), NEW e \in Event, e.cyc = End(tr).cycles,
         ~ ov2 => h = kbd_key(End(tr), e.idx, e.down),
         NEW tr2, Longer(tr, tr2, h, Len(evs) + 1)
  PROVE  History(tr2, Append(evs, e), ov2)
<1> DEFINE evs2 == Append(evs, e)
<1>1. /\ Len(tr) \in Nat /\ Len(tr) >= 1 /\ Len(evs) \in Nat
      /\ \A i \in 1 .. Len(tr) : tr[i].g \in Machine /\ tr[i].n \in Nat /\ tr[i].g.cycles \in Nat
      /\ \A k \in 1 .. Len(evs) : evs[k].cyc \in Nat
  BY KeptIs
<1>2. Steps(tr, evs, ov) /\ Monotone(tr, evs) /\ Stamps(tr, evs) /\ Closing(tr, evs)
  BY DEF History
<1>3. Sound(End(tr)) /\ End(tr).cycles \in Nat /\ tr[Len(tr)].n = Len(evs)
  BY <1>1, <1>2 DEF Monotone, End
<1>4. /\ Len(evs2) = Len(evs) + 1 /\ evs2[Len(evs) + 1] = e
      /\ \A k \in 1 .. Len(evs) : evs2[k] = evs[k]
  BY DEF Kept
<1> HIDE DEF evs2
<1>5. Monotone(tr2, evs2) /\ End(tr2) = h /\ End(tr).cycles + 0 = h.cycles
  <2>1. Longer(tr, tr2, h, Len(evs2)) /\ Len(evs2) \in Nat /\ Len(evs) <= Len(evs2)
    BY <1>1, <1>4
  <2> QED
    BY <1>2, <2>1, LongerMonotone
<1>6. Steps(tr2, evs2, ov2)
  <2> SUFFICES ASSUME NEW i \in 1 .. Len(tr2) - 1
               PROVE  Turned(tr2[i], tr2[i + 1]) \/ Keyed(tr2[i], tr2[i + 1], evs2, ov2)
    BY DEF Steps
  <2>1. CASE i < Len(tr)
    <3>1. i \in 1 .. Len(tr) - 1 /\ tr2[i] = tr[i] /\ tr2[i + 1] = tr[i + 1]
          /\ i \in 1 .. Len(tr) /\ i + 1 \in 1 .. Len(tr)
      BY <1>1, <2>1 DEF Longer
    <3>2. Turned(tr[i], tr[i + 1]) \/ Keyed(tr[i], tr[i + 1], evs, ov)
      BY <1>2, <3>1 DEF Steps
    <3>3. ASSUME Keyed(tr[i], tr[i + 1], evs, ov)
          PROVE  Keyed(tr[i], tr[i + 1], evs2, ov2)
      <4>1. tr[i + 1].n \in 1 .. Len(evs)
        BY <1>1, <1>2, <3>1, <3>3 DEF Keyed, Monotone
      <4>2. evs2[tr[i + 1].n] = evs[tr[i + 1].n]
        BY <1>4, <4>1
      <4> QED
        BY <3>3, <4>2 DEF Keyed
    <3> QED
      BY <3>1, <3>2, <3>3
  <2>2. CASE ~ (i < Len(tr))
    <3>1. i = Len(tr) /\ tr2[i] = tr[i] /\ tr2[i + 1].g = h /\ tr2[i + 1].n = Len(evs) + 1
      BY <1>1, <2>2 DEF Longer
    <3> QED
      BY <1>3, <1>4, <3>1 DEF Keyed, End
  <2> QED
    BY <2>1, <2>2
<1>7. Stamps(tr2, evs2)
  <2>0. h.cycles = End(tr).cycles /\ \A k \in 1 .. Len(evs) : evs[k].cyc <= End(tr).cycles
    BY <1>2, <1>3, <1>5 DEF Stamps
  <2>1. ASSUME NEW i \in 1 .. Len(tr2), NEW k \in 1 .. Len(evs2), k > tr2[i].n
        PROVE  tr2[i].g.cycles <= evs2[k].cyc
    <3>1. CASE i \in 1 .. Len(tr) /\ k \in 1 .. Len(evs)
      BY <1>2, <1>4, <2>1, <3>1 DEF Stamps, Longer
    <3>2. CASE i \in 1 .. Len(tr) /\ k = Len(evs) + 1
      BY <1>2, <1>4, <3>2 DEF Monotone, Longer
    <3>3. CASE i = Len(tr) + 1
      BY <1>1, <1>4, <2>1, <3>3 DEF Longer
    <3> QED
      BY <1>1, <1>4, <3>1, <3>2, <3>3 DEF Longer
  <2>2. \A k \in 1 .. Len(evs2) : evs2[k].cyc <= h.cycles
    BY <1>1, <1>3, <1>4, <2>0
  <2>3. \A k \in 1 .. Len(evs2), j \in 1 .. Len(evs2) : j <= k => evs2[j].cyc <= evs2[k].cyc
    <3> SUFFICES ASSUME NEW k \in 1 .. Len(evs2), NEW j \in 1 .. Len(evs2), j <= k
                 PROVE  evs2[j].cyc <= evs2[k].cyc
      OBVIOUS
    <3>1. CASE k \in 1 .. Len(evs)
      BY <1>1, <1>2, <1>4, <3>1 DEF Stamps
    <3>2. CASE k = Len(evs) + 1
      BY <1>4, <2>0, <2>2, <3>2
    <3> QED
      BY <1>1, <1>4, <3>1, <3>2
  <2> QED
    BY <1>5, <2>1, <2>2, <2>3 DEF Stamps
<1>8. Closing(tr2, evs2)
  <2> SUFFICES ASSUME NEW i \in 1 .. Len(tr2) - 1, tr2[i].n = Len(evs2)
               PROVE  FALSE
    BY <1>5 DEF Closing
  <2>1. i \in 1 .. Len(tr) /\ tr2[i] = tr[i]
    BY <1>1 DEF Longer
  <2>2. tr[i].n <= Len(evs)
    BY <1>2, <2>1 DEF Monotone
  <2> QED
    BY <1>1, <1>4, <2>1, <2>2
<1> QED
  BY <1>5, <1>6, <1>7, <1>8 DEF History, evs2

-----------------------------------------------------------------------------
(***************************************************************************)
(* Type correctness.                                                       *)
(***************************************************************************)
File == [events : Seq(Event), end_cycles : Nat, end_emu : Int]

\* What TypeOK says, by name.
LEMMA TypeIs ==
  TypeOK <=> /\ mode \in {"record", "release", "replay", "done"}
             /\ Sound(m) /\ file \in File /\ ev_idx \in 0 .. Len(Events)
             /\ overlap \in BOOLEAN /\ Kept(trace, Events)
<1>1. file \in File => Events \in Seq(Event)
  BY DEF File, Events
<1> QED
  BY <1>1 DEF TypeOK, Sound, File, Kept, Entry

\* A history one machine longer.
LEMMA AppendLonger ==
  ASSUME NEW tr \in Seq(Entry), NEW h \in Machine, NEW n \in Nat
  PROVE  LET tr2 == Append(tr, [g |-> h, n |-> n]) IN
         tr2 \in Seq(Entry) /\ tr2 # <<>> /\ Longer(tr, tr2, h, n)
<1> DEFINE x == [g |-> h, n |-> n]
           tr2 == Append(tr, x)
<1>1. x \in Entry /\ x.g = h /\ x.n = n
  BY DEF Entry
<1> HIDE DEF x
<1>2. tr2 \in Seq(Entry) /\ Len(tr2) = Len(tr) + 1 /\ tr2[Len(tr) + 1] = x
      /\ \A i \in 1 .. Len(tr) : tr2[i] = tr[i]
  BY <1>1
<1>3. tr2 # <<>>
  <2>1. Len(tr2) > 0 /\ Len(<<>>) = 0
    BY <1>2
  <2> HIDE DEF tr2
  <2> QED
    BY <2>1
<1> HIDE DEF tr2
<1>4. Longer(tr, tr2, h, n)
  BY <1>1, <1>2 DEF Longer
<1> QED
  BY <1>2, <1>3, <1>4 DEF x, tr2

\* The clock's arithmetic stays in the integers.
LEMMA Times ==
  ASSUME NEW c \in Nat
  PROVE  c * Sub \in Nat /\ Printed(c * Sub) \in Int
<1>1. c * Sub \in Nat
  BY SessionAssumption DEF SessionAssumption
<1>2. ASSUME NEW t \in Nat
      PROVE  Printed(t) \in Int
  <2>1. 2 * t + Micro \in Int /\ 2 * Micro \in Nat /\ 2 * Micro > 0 /\ Micro \in Int
    BY SessionAssumption DEF SessionAssumption
  <2>2. ASSUME NEW a \in Int, NEW b \in Nat, b > 0
        PROVE  a \div b \in Int
    BY <2>2
  <2>3. (2 * t + Micro) \div (2 * Micro) \in Int
    BY <2>1, <2>2
  <2>4. ASSUME NEW a \in Int, NEW b \in Int
        PROVE  a * b \in Int
    BY <2>4
  <2> QED
    BY <2>1, <2>3, <2>4 DEF Printed
<1> QED
  BY <1>1, <1>2

\* The replay's deadline is a cycle.
LEMMA DeadlineIs ==
  ASSUME TypeOK
  PROVE  replay_next_deadline(m, ev_idx) \in Nat
<1>1. /\ Sound(m) /\ file \in File /\ ev_idx \in 0 .. Len(Events) /\ Events \in Seq(Event)
      /\ m.cycles \in Nat
  BY TypeIs, MachineIs DEF Kept, Sound
<1>2. emu_now(m) \in Nat
  BY <1>1, Times DEF emu_now
<1>3. ASSUME NEW t \in Int, ~ (t <= emu_now(m))
      PROVE  TimeDeadline(m, t) \in Nat
  <2>1. t - emu_now(m) \in Nat
    BY <1>2, <1>3
  <2>2. ASSUME NEW a \in Nat
        PROVE  a \div Sub \in Nat
    BY SessionAssumption, <2>2 DEF SessionAssumption
  <2>3. (t - emu_now(m)) \div Sub \in Nat
    BY <2>1, <2>2
  <2> QED
    BY <1>1, <2>3 DEF TimeDeadline
<1>4. None \in Nat
  BY SessionAssumption DEF SessionAssumption, None
<1>5. file.end_cycles \in Nat /\ file.end_emu \in Int
  BY <1>1 DEF File
<1>6. CASE ev_idx < Len(Events)
  <2>1. Events[ev_idx + 1] \in Event
    BY <1>1, <1>6
  <2>2. Events[ev_idx + 1].cyc \in Nat /\ Events[ev_idx + 1].t \in Int
    BY <2>1 DEF Event
  <2>3. replay_next_deadline(m, ev_idx) =
          IF Legacy
          THEN IF Events[ev_idx + 1].t <= emu_now(m) THEN m.cycles
               ELSE TimeDeadline(m, Events[ev_idx + 1].t)
          ELSE IF Events[ev_idx + 1].cyc <= m.cycles THEN m.cycles ELSE Events[ev_idx + 1].cyc
    BY <1>6 DEF replay_next_deadline
  <2> QED
    BY <1>1, <1>3, <2>2, <2>3
<1>7. CASE ~ (ev_idx < Len(Events))
  <2>1. replay_next_deadline(m, ev_idx) =
          IF file.end_cycles > m.cycles THEN file.end_cycles
          ELSE IF file.end_emu > emu_now(m) THEN TimeDeadline(m, file.end_emu)
          ELSE None
    BY <1>7 DEF replay_next_deadline
  <2>2. file.end_emu > emu_now(m) => ~ (file.end_emu <= emu_now(m))
    BY <1>2, <1>5
  <2> QED
    BY <1>3, <1>4, <1>5, <2>1, <2>2
<1> QED
  BY <1>6, <1>7

\* A key logged: the file and the history grow by one.
LEMMA Logs ==
  ASSUME TypeOK, NEW idx \in Keys, NEW down \in BOOLEAN, mode \in {"record", "release"},
         m' \in Machine, replay_log_key(idx, down)
  PROVE  /\ file' \in File /\ Events' = Append(Events, Stamped(idx, down))
         /\ Stamped(idx, down) \in Event /\ Len(Events') = Len(Events) + 1
         /\ file'.end_cycles = file.end_cycles /\ file'.end_emu = file.end_emu
         /\ Kept(trace', Events') /\ Longer(trace, trace', m', Len(Events) + 1)
<1>1. /\ file' = [file EXCEPT !.events = Append(file.events, Stamped(idx, down))]
      /\ trace' = Append(trace, [g |-> m', n |-> Len(Events) + 1])
  BY DEF replay_log_key, Recorded, Events
<1>2. /\ Sound(m) /\ m.cycles \in Nat /\ file \in File /\ Events \in Seq(Event)
      /\ trace \in Seq(Entry)
  BY TypeIs, MachineIs DEF Kept, Sound
<1>3. Stamped(idx, down) \in Event
  <2>1. Printed(emu_now(m)) \in Int
    BY <1>2, Times DEF emu_now
  <2> QED
    BY <1>2, <2>1 DEF Stamped, Event
<1> DEFINE e == Stamped(idx, down)
<1> HIDE DEF e
<1>4. Append(Events, e) \in Seq(Event) /\ Len(Append(Events, e)) = Len(Events) + 1
      /\ Len(Events) + 1 \in Nat
  BY <1>2, <1>3 DEF e
<1>5. /\ file' \in File /\ Events' = Append(Events, e)
      /\ file'.end_cycles = file.end_cycles /\ file'.end_emu = file.end_emu
  BY <1>1, <1>2, <1>4 DEF File, Events, e
<1>6. trace' \in Seq(Entry) /\ trace' # <<>> /\ Longer(trace, trace', m', Len(Events) + 1)
  BY <1>1, <1>2, <1>4, AppendLonger
<1> QED
  BY <1>3, <1>4, <1>5, <1>6 DEF Kept, e

\* The machine at boot.
LEMMA BootIs == Sound(Boot) /\ Boot.cycles = 0 /\ Boot.seen = <<>>
<1>1. <<>> \in Seq(Nat \X (0 .. Irq0)) /\ <<>> \in Seq(Byte) /\ Delay \in Nat
  BY SessionAssumption DEF SessionAssumption
<1> QED
  BY <1>1 DEF Boot, Sound, Machine

\* A turn of the recording.
LEMMA RecordTurnIs ==
  ASSUME TypeOK, RecordTurn
  PROVE  /\ Sound(m') /\ Kept(trace', Events) /\ Events' = Events
         /\ Longer(trace, trace', m', Len(Events))
<1>1. Sound(m) /\ Kept(trace, Events) /\ Events \in Seq(Event) /\ trace \in Seq(Entry)
  BY TypeIs DEF Kept
<1>2. m.cycles < MaxCycle /\ m' \in Turn(m, None)
      /\ trace' = Append(trace, [g |-> m', n |-> Len(Events)]) /\ Events' = Events
  BY DEF RecordTurn, Recorded, Events
<1>3. None \in Nat
  BY <1>1, <1>2, SameTurn
<1>4. Sound(m')
  BY <1>1, <1>2, <1>3, TurnIs DEF Carries
<1>5. m' \in Machine /\ Len(Events) \in Nat
  BY <1>1, <1>4 DEF Sound
<1>6. trace' \in Seq(Entry) /\ trace' # <<>> /\ Longer(trace, trace', m', Len(Events))
  BY <1>1, <1>2, <1>5, AppendLonger
<1> QED
  BY <1>1, <1>2, <1>4, <1>6 DEF Kept

\* A key at the host.
LEMMA HostKeyIs ==
  ASSUME TypeOK, NEW idx \in Keys, NEW down \in BOOLEAN, HostKey(idx, down)
  PROVE  /\ mode = "record" /\ Carries(m, m', 0) /\ m' \in Machine
         /\ m' = kbd_key(m, idx, down) /\ replay_log_key(idx, down)
<1>1. mode = "record" /\ m' = kbd_key(m, idx, down) /\ replay_log_key(idx, down)
  BY DEF HostKey, Live
<1>2. Carries(m, m', 0)
  BY <1>1, TypeIs, KeyCarries
<1> QED
  BY <1>1, <1>2 DEF Carries, Sound

\* A key let go of when the focus is lost.
LEMMA ReleaseKeyIs ==
  ASSUME TypeOK, ReleaseKey
  PROVE  \E idx \in Keys :
           /\ mode = "release" /\ Carries(m, m', 0) /\ m' \in Machine
           /\ m' = kbd_release(m, idx) /\ replay_log_key(idx, FALSE)
           /\ overlap' = (overlap \/ Sibling(idx, m.held \ {idx}) # <<>>)
           /\ mode' \in {"record", "release"}
<1>1. PICK idx \in m.held :
        /\ mode = "release" /\ m' = kbd_release(m, idx) /\ replay_log_key(idx, FALSE)
        /\ overlap' = (overlap \/ Sibling(idx, m.held \ {idx}) # <<>>)
        /\ mode' \in {"record", "release"}
  BY DEF ReleaseKey
<1>2. Sound(m) /\ m.held \in SUBSET Keys
  BY TypeIs, MachineIs DEF Sound
<1>3. idx \in Keys /\ FALSE \in BOOLEAN
  BY <1>2
<1>4. Carries(m, m', 0)
  BY <1>1, <1>2, <1>3, KeyCarries
<1> QED
  BY <1>1, <1>3, <1>4 DEF Carries, Sound

\* An event injected.
LEMMA InjectIs ==
  ASSUME TypeOK, Inject
  PROVE  /\ mode = "replay" /\ ev_idx + 1 \in 1 .. Len(Events) /\ ev_idx' = ev_idx + 1
         /\ event_due(Events[ev_idx + 1], m) /\ Carries(m, m', 0)
         /\ m' = kbd_key(m, Events[ev_idx + 1].idx, Events[ev_idx + 1].down)
         /\ UNCHANGED <<mode, file, trace, overlap>> /\ Events' = Events
<1>1. /\ mode = "replay" /\ ev_idx < Len(Events) /\ ev_idx' = ev_idx + 1
      /\ event_due(Events[ev_idx + 1], m)
      /\ m' = kbd_key(m, Events[ev_idx + 1].idx, Events[ev_idx + 1].down)
      /\ UNCHANGED <<mode, file, trace, overlap>>
  BY DEF Inject, NextDue, Pending
<1>2. Sound(m) /\ Kept(trace, Events) /\ ev_idx \in 0 .. Len(Events) /\ Len(Events) \in Nat
  BY TypeIs, KeptIs
<1>3. ev_idx + 1 \in 1 .. Len(Events)
  BY <1>1, <1>2
<1>4. Events[ev_idx + 1].idx \in Keys /\ Events[ev_idx + 1].down \in BOOLEAN
  BY <1>2, <1>3, KeptIs
<1>5. Carries(m, m', 0)
  BY <1>1, <1>2, <1>4, KeyCarries
<1> QED
  BY <1>1, <1>3, <1>5 DEF Events

\* A turn of the replay.
LEMMA ReplayTurnIs ==
  ASSUME TypeOK, ReplayTurn
  PROVE  /\ mode = "replay" /\ ~ NextDue
         /\ m' \in Turn(m, replay_next_deadline(m, ev_idx))
         /\ replay_next_deadline(m, ev_idx) \in Nat
         /\ Carries(m, m', TurnLength(m, replay_next_deadline(m, ev_idx)))
         /\ mode' = (IF replay_should_stop(m', ev_idx) THEN "done" ELSE "replay")
         /\ UNCHANGED <<file, ev_idx, trace, overlap>> /\ Events' = Events
<1>1. /\ mode = "replay" /\ ~ NextDue
      /\ m' \in Turn(m, replay_next_deadline(m, ev_idx))
      /\ mode' = (IF replay_should_stop(m', ev_idx) THEN "done" ELSE "replay")
      /\ UNCHANGED <<file, ev_idx, trace, overlap>>
  BY DEF ReplayTurn
<1>2. Carries(m, m', TurnLength(m, replay_next_deadline(m, ev_idx)))
  BY <1>1, DeadlineIs, TypeIs, TurnIs
<1> QED
  BY <1>1, <1>2, DeadlineIs DEF Events

\* The window closed.
LEMMA EndRecordIs ==
  ASSUME TypeOK, EndRecord
  PROVE  /\ mode = "record" /\ mode' = "replay" /\ m.cycles > 0 /\ m' = Boot
         /\ file' \in File /\ Events' = Events
         /\ file'.end_cycles = (IF Legacy THEN 0 ELSE m.cycles)
         /\ file'.end_emu = Printed(emu_now(m))
         /\ UNCHANGED <<ev_idx, trace, overlap>>
<1>1. Sound(m) /\ m.cycles \in Nat /\ file \in File
  BY TypeIs, MachineIs DEF Sound
<1> DEFINE c == IF Legacy THEN 0 ELSE m.cycles
           t == Printed(emu_now(m))
<1>2. c \in Nat /\ t \in Int
  BY <1>1, Times DEF emu_now
<1>3. file' = [file EXCEPT !.end_cycles = c, !.end_emu = t]
  BY DEF EndRecord
<1>4. mode = "record" /\ mode' = "replay" /\ m.cycles > 0 /\ m' = Boot
      /\ UNCHANGED <<ev_idx, trace, overlap>>
  BY DEF EndRecord
<1> HIDE DEF c, t
<1>5. file' \in File /\ Events' = Events /\ file'.end_cycles = c /\ file'.end_emu = t
  BY <1>1, <1>2, <1>3 DEF File, Events
<1> QED
  BY <1>4, <1>5 DEF c, t

\* Every step keeps the types.
LEMMA TypeHolds ==
  ASSUME TypeOK, [Next]_vars
  PROVE  TypeOK'
<1> DEFINE Facts == /\ mode \in {"record", "release", "replay", "done"}
                    /\ Sound(m) /\ file \in File /\ ev_idx \in 0 .. Len(Events)
                    /\ overlap \in BOOLEAN /\ Kept(trace, Events)
<1>0. Facts /\ Len(Events) \in Nat
  BY TypeIs, KeptIs
<1>1. Facts'
  <2>1. CASE RecordTurn
    <3>1. UNCHANGED <<mode, file, ev_idx, overlap>>
      BY <2>1 DEF RecordTurn
    <3> QED
      BY <1>0, <2>1, <3>1, RecordTurnIs
  <2>2. ASSUME NEW idx \in Keys, NEW down \in BOOLEAN, HostKey(idx, down)
        PROVE  Facts'
    <3>1. UNCHANGED <<mode, ev_idx, overlap>>
      BY <2>2 DEF HostKey
    <3>2. Carries(m, m', 0)
      BY <2>2, HostKeyIs
    <3>3. file' \in File /\ Len(Events') = Len(Events) + 1 /\ Kept(trace', Events')
      BY <2>2, HostKeyIs, Logs
    <3>4. ev_idx' \in 0 .. Len(Events')
      BY <1>0, <3>1, <3>3
    <3> QED
      BY <1>0, <3>1, <3>2, <3>3, <3>4 DEF Carries
  <2>3. CASE ReleaseKey
    <3>1. PICK idx \in Keys :
            /\ mode = "release" /\ Carries(m, m', 0) /\ m' \in Machine
            /\ replay_log_key(idx, FALSE)
            /\ overlap' = (overlap \/ Sibling(idx, m.held \ {idx}) # <<>>)
            /\ mode' \in {"record", "release"}
      BY <2>3, ReleaseKeyIs
    <3>2. file' \in File /\ Len(Events') = Len(Events) + 1 /\ Kept(trace', Events')
      <4>1. FALSE \in BOOLEAN
        OBVIOUS
      <4> QED
        BY <3>1, <4>1, Logs
    <3>3. ev_idx' = ev_idx
      BY <2>3 DEF ReleaseKey
    <3>4. ev_idx' \in 0 .. Len(Events')
      BY <1>0, <3>2, <3>3
    <3>5. overlap' \in BOOLEAN
      BY <3>1
    <3> QED
      BY <3>1, <3>2, <3>4, <3>5 DEF Carries
  <2>4. CASE FocusLost
    BY <1>0, <2>4 DEF FocusLost, Events
  <2>5. CASE EndRecord
    BY <1>0, <2>5, EndRecordIs, BootIs
  <2>6. CASE Inject
    <3>1. ev_idx + 1 \in 0 .. Len(Events)
      BY <2>6, InjectIs
    <3> QED
      BY <1>0, <2>6, <3>1, InjectIs DEF Carries
  <2>7. CASE ReplayTurn
    BY <1>0, <2>7, ReplayTurnIs DEF Carries
  <2>8. CASE Done
    BY <1>0, <2>8 DEF Done, vars, Events
  <2>9. CASE UNCHANGED vars
    BY <1>0, <2>9 DEF vars, Events
  <2> QED
    BY <2>1, <2>2, <2>3, <2>4, <2>5, <2>6, <2>7, <2>8, <2>9 DEF Next
<1>2. file' \in File => Events' \in Seq(Event)
  BY DEF File, Events
<1> QED
  BY <1>1, <1>2 DEF TypeOK, Sound, File, Kept, Entry

\* The initial state.
LEMMA TypeInit ==
  ASSUME Init
  PROVE  TypeOK
<1>1. mode = "record" /\ m = Boot /\ ev_idx = 0 /\ overlap = FALSE
      /\ file = [events |-> <<>>, end_cycles |-> 0, end_emu |-> 0]
      /\ trace = <<[g |-> Boot, n |-> 0]>>
  BY DEF Init
<1>2. file \in File /\ Events = <<>> /\ Len(Events) = 0
  BY <1>1 DEF File, Events
<1>3. Boot \in Machine
  BY BootIs DEF Sound
<1>4. [g |-> Boot, n |-> 0] \in Entry
  BY <1>3 DEF Entry
<1>5. trace \in Seq(Entry) /\ trace # <<>>
  BY <1>1, <1>4
<1>6. Events \in Seq(Event)
  BY <1>2
<1>7. Sound(m)
  BY <1>1, BootIs
<1>8. ev_idx \in 0 .. Len(Events)
  <2>1. ev_idx = 0 /\ Len(Events) = 0
    BY <1>1, <1>2
  <2> QED
    BY <2>1
<1>10. overlap \in BOOLEAN
  BY <1>1
<1>9. Kept(trace, Events)
  BY <1>5, <1>6 DEF Kept
<1> QED
  BY <1>1, <1>2, <1>7, <1>8, <1>9, <1>10, TypeIs

\* Type correctness of recording and replay, for old files and new.
THEOREM TypeCorrect == Spec => []TypeOK
<1>1. Init => TypeOK
  BY TypeInit
<1>2. TypeOK /\ [Next]_vars => TypeOK'
  BY TypeHolds
<1> QED
  BY <1>1, <1>2, PTL DEF Spec

-----------------------------------------------------------------------------
(***************************************************************************)
(* The inductive invariant.  A recording stands at the end of its history; *)
(* a file holds how it ended; the replay is on time; and, unless a focus   *)
(* loss or a key at the very end spoilt the file, it stands on a machine   *)
(* of the history with exactly the events of that machine injected - the   *)
(* last one when it is done, unless the footer's time was rounded down.    *)
(***************************************************************************)
Closed ==
  IF Replayed
  THEN /\ file.end_cycles = End(trace).cycles /\ 0 < End(trace).cycles
       /\ file.end_emu = Printed(emu_now(End(trace)))
  ELSE m = End(trace) /\ ev_idx = 0

InTime ==
  Replayed =>
    /\ Pending => m.cycles <= Events[ev_idx + 1].cyc
    /\ ~ LateEvent => /\ m.cycles <= file.end_cycles
                      /\ mode = "replay" => m.cycles < file.end_cycles

\* "%.6f" printed an end before the end.
RoundedDown == file.end_emu < emu_now(orig)

Stands(j) ==
  /\ m = trace[j].g /\ ev_idx = trace[j].n
  /\ mode = "replay" => j < Len(trace)
  /\ mode = "done" /\ ~ RoundedDown => j = Len(trace)

OnTrace ==
  Replayed /\ ~ overlap /\ ~ LateEvent => \E j \in 1 .. Len(trace) : Stands(j)

EInv == TypeOK /\ History(trace, Events, overlap) /\ Closed /\ InTime /\ OnTrace

\* What the types and the history say of the file's events, by name.
LEMMA EInvIs ==
  ASSUME EInv
  PROVE  /\ Sound(m) /\ m.cycles \in Nat /\ ev_idx \in 0 .. Len(Events) /\ file \in File
         /\ file.end_cycles \in Nat /\ Kept(trace, Events)
         /\ Monotone(trace, Events) /\ Stamps(trace, Events) /\ Closing(trace, Events)
         /\ Steps(trace, Events, overlap)
         /\ Len(trace) \in Nat /\ Len(trace) >= 1 /\ Len(Events) \in Nat
         /\ \A i \in 1 .. Len(trace) : trace[i].g \in Machine /\ trace[i].n \in Nat /\ trace[i].g.cycles \in Nat
         /\ \A k \in 1 .. Len(Events) : Events[k].cyc \in Nat
<1>1. Sound(m) /\ file \in File /\ ev_idx \in 0 .. Len(Events) /\ Kept(trace, Events)
  BY TypeIs DEF EInv
<1>2. m.cycles \in Nat /\ file.end_cycles \in Nat
  BY <1>1, MachineIs DEF Sound, File
<1> QED
  BY <1>1, <1>2, KeptIs DEF EInv, History

\* While a session is recorded the file makes no promise.
LEMMA RecordHolds ==
  ASSUME EInv, [Next]_vars, RecordTurn
         \/ (\E idx \in Keys, down \in BOOLEAN : HostKey(idx, down)) \/ ReleaseKey
  PROVE  EInv'
<1>1. TypeOK' /\ TypeOK
  BY TypeHolds DEF EInv
<1>2. /\ mode \in {"record", "release"} /\ mode' \in {"record", "release"} /\ ev_idx' = ev_idx
  <2>1. CASE RecordTurn
    BY <2>1 DEF RecordTurn
  <2>2. CASE \E idx \in Keys, down \in BOOLEAN : HostKey(idx, down)
    BY <2>2 DEF HostKey, Live
  <2>3. CASE ReleaseKey
    BY <1>1, <2>3, ReleaseKeyIs DEF ReleaseKey
  <2> QED
    BY <2>1, <2>2, <2>3
<1>3. m = End(trace) /\ ev_idx = 0 /\ ~ Replayed'
  BY <1>2 DEF EInv, Closed, Replayed
<1>4. Kept(trace, Events) /\ History(trace, Events, overlap) /\ Len(trace) \in Nat
  BY EInvIs DEF EInv
<1>5. History(trace', Events', overlap') /\ \E n : Longer(trace, trace', m', n)
  <2>1. CASE RecordTurn
    <3>1. m.cycles < MaxCycle /\ m' \in Turn(m, None) /\ overlap' = overlap
      BY <2>1 DEF RecordTurn
    <3>2. Events' = Events /\ Longer(trace, trace', m', Len(Events))
      BY <1>1, <2>1, RecordTurnIs
    <3>3. History(trace', Events, overlap)
      BY <1>3, <1>4, <3>1, <3>2, TurnKept
    <3> QED
      BY <3>1, <3>2, <3>3
  <2>2. ASSUME NEW idx \in Keys, NEW down \in BOOLEAN, Carries(m, m', 0), m' \in Machine,
               replay_log_key(idx, down),
               overlap => overlap', ~ overlap' => m' = kbd_key(m, idx, down)
        PROVE  History(trace', Events', overlap') /\ \E n : Longer(trace, trace', m', n)
    <3> DEFINE e == Stamped(idx, down)
    <3>1. /\ Events' = Append(Events, e) /\ e \in Event
          /\ Longer(trace, trace', m', Len(Events) + 1)
      BY <1>1, <1>2, <2>2, Logs
    <3>2. e.cyc = End(trace).cycles /\ e.idx = idx /\ e.down = down
      BY <1>3 DEF Stamped
    <3> HIDE DEF e
    <3>3. Carries(End(trace), m', 0) /\ (~ overlap' => ~ overlap)
          /\ (~ overlap' => m' = kbd_key(End(trace), e.idx, e.down))
      BY <1>3, <2>2, <3>2
    <3>4. History(trace', Append(Events, e), overlap')
      BY <1>4, <3>1, <3>2, <3>3, KeyKept
    <3> QED
      BY <3>1, <3>4
  <2>3. CASE \E idx \in Keys, down \in BOOLEAN : HostKey(idx, down)
    <3>1. PICK idx \in Keys, down \in BOOLEAN : HostKey(idx, down)
      BY <2>3
    <3>2. overlap' = overlap
      BY <3>1 DEF HostKey
    <3>3. Carries(m, m', 0) /\ m' \in Machine /\ m' = kbd_key(m, idx, down) /\ replay_log_key(idx, down)
      BY <1>1, <3>1, HostKeyIs
    <3> QED
      BY <2>2, <3>2, <3>3
  <2>4. CASE ReleaseKey
    <3>1. PICK idx \in Keys :
            /\ Carries(m, m', 0) /\ m' \in Machine
            /\ m' = kbd_release(m, idx) /\ replay_log_key(idx, FALSE)
            /\ overlap' = (overlap \/ Sibling(idx, m.held \ {idx}) # <<>>)
      BY <1>1, <2>4, ReleaseKeyIs
    <3>2. ~ overlap' => m' = kbd_key(m, idx, FALSE)
      BY <3>1, ReleaseIsBreak
    <3>3. overlap => overlap'
      BY <3>1
    <3>4. FALSE \in BOOLEAN
      OBVIOUS
    <3> QED
      BY <2>2, <3>1, <3>2, <3>3, <3>4
  <2> QED
    BY <2>1, <2>3, <2>4
<1>6. m' = End(trace')
  BY <1>4, <1>5 DEF Longer, End
<1>7. Closed'
  BY <1>2, <1>3, <1>6 DEF Closed
<1>8. InTime' /\ OnTrace'
  BY <1>3 DEF InTime, OnTrace
<1> QED
  BY <1>1, <1>5, <1>7, <1>8 DEF EInv

\* The replay starts at boot, which is where the recording started.
LEMMA EndRecordHolds ==
  ASSUME ~ Legacy, EInv, [Next]_vars, EndRecord
  PROVE  EInv'
<1>1. TypeOK' /\ TypeOK
  BY TypeHolds DEF EInv
<1>2. /\ mode = "record" /\ mode' = "replay" /\ m.cycles > 0 /\ m' = Boot /\ Events' = Events
      /\ file'.end_cycles = m.cycles /\ file'.end_emu = Printed(emu_now(m))
      /\ UNCHANGED <<ev_idx, trace, overlap>>
  BY <1>1, EndRecordIs
<1>3. m = End(trace) /\ ev_idx = 0 /\ Replayed'
  BY <1>2 DEF EInv, Closed, Replayed
<1>4. m.cycles \in Nat /\ Monotone(trace, Events) /\ Len(trace) \in Nat /\ Len(trace) >= 1
      /\ Len(Events) \in Nat /\ \A k \in 1 .. Len(Events) : Events[k].cyc \in Nat
  BY EInvIs
<1>5. m'.cycles = 0
  BY <1>2, BootIs
<1>6. Closed'
  BY <1>2, <1>3, <1>4 DEF Closed
<1>7. InTime'
  <2>1. Pending' => Events'[ev_idx' + 1].cyc \in Nat
    BY <1>2, <1>3, <1>4 DEF Pending
  <2> QED
    BY <1>2, <1>4, <1>5, <2>1 DEF InTime
<1>8. OnTrace'
  <2>1. trace[1].g = Boot /\ trace[1].n = 0
    BY <1>4 DEF Monotone
  <2>2. Len(trace) # 1
    BY <1>2, <1>3, <2>1, BootIs DEF End
  <2>3. Stands(1)'
    <3>1. 1 < Len(trace)
      <4>1. ASSUME NEW l \in Nat, l >= 1, l # 1 PROVE 1 < l
        BY <4>1
      <4>2. Len(trace) \in Nat /\ Len(trace) >= 1
        BY <1>4
      <4> QED
        BY <2>2, <4>1, <4>2
    <3>2. trace' = trace /\ ev_idx' = ev_idx
      BY <1>2
    <3>3. m' = trace'[1].g
      BY <1>2, <2>1, <3>2
    <3>4. ev_idx' = trace'[1].n
      BY <1>3, <2>1, <3>2
    <3> QED
      BY <1>2, <3>1, <3>2, <3>3, <3>4 DEF Stands
  <2>4. 1 \in 1 .. Len(trace')
    BY <1>2, <1>4
  <2> QED
    BY <2>3, <2>4 DEF OnTrace
<1>9. History(trace', Events', overlap')
  BY <1>2 DEF EInv
<1> QED
  BY <1>1, <1>6, <1>7, <1>8, <1>9 DEF EInv

\* An event goes in on the machine it was logged on.
LEMMA InjectHolds ==
  ASSUME ~ Legacy, EInv, [Next]_vars, Inject
  PROVE  EInv'
<1>1. TypeOK' /\ TypeOK
  BY TypeHolds DEF EInv
<1> DEFINE n == ev_idx + 1
<1>2. /\ mode = "replay" /\ mode' = "replay" /\ n \in 1 .. Len(Events) /\ ev_idx' = n
      /\ event_due(Events[n], m) /\ Carries(m, m', 0)
      /\ m' = kbd_key(m, Events[n].idx, Events[n].down)
      /\ UNCHANGED <<file, trace, overlap>> /\ Events' = Events
  BY <1>1, InjectIs
<1>3. /\ m.cycles \in Nat /\ ev_idx \in 0 .. Len(Events) /\ file.end_cycles \in Nat
      /\ Monotone(trace, Events) /\ Stamps(trace, Events) /\ Steps(trace, Events, overlap)
      /\ Len(trace) \in Nat /\ Len(trace) >= 1 /\ Len(Events) \in Nat
      /\ \A i \in 1 .. Len(trace) : trace[i].n \in Nat /\ trace[i].g.cycles \in Nat /\ trace[i].g \in Machine
      /\ \A k \in 1 .. Len(Events) : Events[k].cyc \in Nat
  BY EInvIs
<1>4. m'.cycles = m.cycles /\ Events[n].cyc <= m.cycles
  BY <1>2, <1>3 DEF Carries, event_due
<1>5. Closed' /\ History(trace', Events', overlap')
  BY <1>2 DEF EInv, Closed, Replayed
<1>6. LateEvent' <=> LateEvent
  BY <1>2 DEF LateEvent
<1>7. Replayed /\ Replayed' /\ Pending
  BY <1>2, <1>3 DEF Replayed, Pending
<1>8. InTime'
  <2>1. m.cycles <= Events[n].cyc
    BY <1>7 DEF EInv, InTime
  <2>2. ASSUME n < Len(Events)
        PROVE  m'.cycles <= Events[n + 1].cyc
    <3>1. n + 1 \in 1 .. Len(Events) /\ n <= n + 1
      BY <1>3, <2>2
    <3>2. Events[n].cyc <= Events[n + 1].cyc
      BY <1>2, <1>3, <3>1 DEF Stamps
    <3> QED
      BY <1>2, <1>3, <1>4, <2>1, <3>1, <3>2
  <2>3. ~ LateEvent' => m'.cycles < file'.end_cycles /\ m'.cycles <= file'.end_cycles
    <3>1. ~ LateEvent => m.cycles < file.end_cycles
      BY <1>2, <1>7 DEF EInv, InTime
    <3> QED
      BY <1>2, <1>3, <1>4, <1>6, <3>1
  <2>4. Pending' => n < Len(Events)
    BY <1>2 DEF Pending
  <2>5. ~ LateEvent' => m'.cycles <= file'.end_cycles /\ (mode' = "replay" => m'.cycles < file'.end_cycles)
    BY <2>3
  <2>6. Pending' => m'.cycles <= Events'[ev_idx' + 1].cyc
    BY <1>2, <2>2, <2>4
  <2> HIDE DEF n
  <2> QED
    BY <2>5, <2>6 DEF InTime
<1>9. OnTrace'
  <2> SUFFICES ASSUME ~ overlap, ~ LateEvent
               PROVE  \E j \in 1 .. Len(trace') : Stands(j)'
    BY <1>2, <1>6 DEF OnTrace
  <2>1. PICK j \in 1 .. Len(trace) : Stands(j)
    BY <1>7 DEF EInv, OnTrace
  <2>2. m = trace[j].g /\ ev_idx = trace[j].n /\ j \in 1 .. Len(trace) - 1 /\ j + 1 \in 1 .. Len(trace)
    BY <1>2, <1>3, <2>1 DEF Stands
  <2>3. Turned(trace[j], trace[j + 1]) \/ Keyed(trace[j], trace[j + 1], Events, overlap)
    BY <1>3, <2>2 DEF Steps
  <2>4. ~ Turned(trace[j], trace[j + 1])
    <3> SUFFICES ASSUME Turned(trace[j], trace[j + 1]) PROVE FALSE
      OBVIOUS
    <3>1. trace[j + 1].n = ev_idx /\ m.cycles < MaxCycle /\ trace[j + 1].g \in Turn(m, None)
      BY <2>2 DEF Turned
    <3>2. Sound(m)
      BY EInvIs
    <3>3. PICK c \in Nat : c > 0 /\ Carries(m, trace[j + 1].g, c)
      BY <3>1, <3>2, RecordedTurn
    <3>4. m.cycles < trace[j + 1].g.cycles
      BY <1>3, <3>3 DEF Carries
    <3>5. n > trace[j + 1].n
      BY <1>3, <3>1
    <3>6. trace[j + 1].g.cycles <= Events[n].cyc
      BY <1>2, <1>3, <2>2, <3>5 DEF Stamps
    <3> QED
      BY <1>2, <1>3, <1>4, <2>2, <3>4, <3>6
  <2>5. /\ trace[j + 1].n = n /\ Events[n].cyc = m.cycles
        /\ trace[j + 1].g = kbd_key(m, Events[n].idx, Events[n].down)
    BY <2>2, <2>3, <2>4 DEF Keyed
  <2>6. j + 1 # Len(trace)
    <3> SUFFICES ASSUME j + 1 = Len(trace) PROVE FALSE
      OBVIOUS
    <3>1. n = Len(Events) /\ End(trace) = m'
      BY <1>2, <1>3, <2>5 DEF Monotone, End
    <3>2. Events[n].cyc = file.end_cycles
      <4>1. file.end_cycles = End(trace).cycles
        BY <1>7 DEF EInv, Closed
      <4> QED
        BY <1>4, <2>5, <3>1, <4>1
    <3>3. Events # <<>>
      <4>1. Len(Events) # 0
        BY <1>2, <3>1
      <4>2. Len(<<>>) = 0
        OBVIOUS
      <4> QED
        BY <4>1, <4>2
    <3> QED
      BY <3>1, <3>2, <3>3 DEF LateEvent, Last
  <2>7. Stands(j + 1)'
    BY <1>2, <1>3, <2>2, <2>5, <2>6 DEF Stands
  <2> HIDE DEF n
  <2> QED
    BY <1>2, <2>2, <2>7
<1> HIDE DEF n
<1> QED
  BY <1>1, <1>5, <1>8, <1>9 DEF EInv

\* The arithmetic of a time not rounded down: no cycle short of the end has
\* its time.
LEMMA NotBefore ==
  ASSUME NEW a \in Nat, NEW b \in Nat, a * Sub >= b * Sub
  PROVE  a >= b
<1>1. Sub \in Nat /\ Sub > 0
  BY SessionAssumption DEF SessionAssumption
<1> SUFFICES ASSUME a < b PROVE FALSE
  OBVIOUS
<1>2. PICK d \in Nat : d > 0 /\ b = a + d
  <2>1. b - a \in Nat /\ b - a > 0 /\ b = a + (b - a)
    OBVIOUS
  <2> QED
    BY <2>1
<1>3. b * Sub = a * Sub + d * Sub
  BY <1>1, <1>2
<1>4. d * Sub > 0 /\ d * Sub \in Nat /\ a * Sub \in Nat
  BY <1>1, <1>2
<1>5. ASSUME NEW x \in Nat, NEW y \in Nat, NEW z, z = x + y, y > 0, x >= z
      PROVE  FALSE
  BY <1>5
<1> QED
  BY <1>3, <1>4, <1>5

\* A turn of the replay is the recording's turn, and ends on time.
LEMMA ReplayTurnHolds ==
  ASSUME ~ Legacy, EInv, [Next]_vars, ReplayTurn
  PROVE  EInv'
<1>1. TypeOK' /\ TypeOK
  BY TypeHolds DEF EInv
<1> DEFINE deadline == replay_next_deadline(m, ev_idx)
           n == ev_idx + 1
           end == End(trace)
<1>2. /\ mode = "replay" /\ ~ NextDue /\ m' \in Turn(m, deadline) /\ deadline \in Nat
      /\ Carries(m, m', TurnLength(m, deadline))
      /\ mode' = (IF replay_should_stop(m', ev_idx) THEN "done" ELSE "replay")
      /\ UNCHANGED <<file, ev_idx, trace, overlap>> /\ Events' = Events
  BY <1>1, ReplayTurnIs
<1>3. /\ m.cycles \in Nat /\ ev_idx \in 0 .. Len(Events) /\ file.end_cycles \in Nat /\ Sound(m)
      /\ Monotone(trace, Events) /\ Stamps(trace, Events) /\ Steps(trace, Events, overlap)
      /\ Closing(trace, Events)
      /\ Len(trace) \in Nat /\ Len(trace) >= 1 /\ Len(Events) \in Nat
      /\ \A i \in 1 .. Len(trace) : trace[i].n \in Nat /\ trace[i].g.cycles \in Nat /\ trace[i].g \in Machine
      /\ \A k \in 1 .. Len(Events) : Events[k].cyc \in Nat
  BY EInvIs
<1>4. Replayed /\ file.end_cycles = end.cycles /\ 0 < end.cycles /\ file.end_emu = Printed(emu_now(end))
      /\ end.cycles \in Nat /\ mode' \in {"replay", "done"} /\ Replayed'
  <2>1. Replayed /\ mode' \in {"replay", "done"} /\ Replayed'
    BY <1>2 DEF Replayed
  <2> QED
    BY <1>3, <2>1 DEF EInv, Closed
<1>5. Closed' /\ History(trace', Events', overlap')
  BY <1>2, <1>4 DEF EInv, Closed, Replayed
<1>6. (LateEvent' <=> LateEvent) /\ (Pending' <=> Pending) /\ (RoundedDown' <=> RoundedDown)
  BY <1>2 DEF LateEvent, Pending, RoundedDown, orig
<1> HIDE DEF deadline, n, end
<1>7. ASSUME Pending
      PROVE  n \in 1 .. Len(Events) /\ m.cycles < Events[n].cyc /\ deadline = Events[n].cyc
  <2>1. n \in 1 .. Len(Events) /\ ev_idx < Len(Events)
    BY <1>3, <1>7 DEF Pending, n
  <2>2. ~ (Events[n].cyc <= m.cycles)
    BY <1>2, <1>7 DEF NextDue, event_due, n
  <2> QED
    BY <1>3, <2>1, <2>2 DEF deadline, replay_next_deadline, n
<1>8. ASSUME ~ Pending, ~ LateEvent
      PROVE  ev_idx = Len(Events) /\ m.cycles < file.end_cycles /\ deadline = file.end_cycles
  <2>1. ev_idx = Len(Events) /\ ~ (ev_idx < Len(Events))
    BY <1>3, <1>8 DEF Pending
  <2>2. m.cycles < file.end_cycles
    BY <1>2, <1>4, <1>8 DEF EInv, InTime
  <2>3. file.end_cycles > m.cycles
    BY <1>3, <2>2
  <2> QED
    BY <2>1, <2>2, <2>3 DEF deadline, replay_next_deadline
<1>9. m'.cycles \in Nat /\ (m.cycles < deadline => m'.cycles <= deadline)
  <2>1. m' \in Machine /\ m'.cycles = m.cycles + TurnLength(m, deadline)
    BY <1>2 DEF Carries, Sound
  <2> QED
    BY <1>2, <1>3, <2>1, MachineIs, TurnInTime
<1>10. InTime'
  <2>1. Pending' => m'.cycles <= Events'[ev_idx' + 1].cyc
    BY <1>2, <1>6, <1>7, <1>9 DEF n
  <2>2. ASSUME ~ LateEvent
        PROVE  m'.cycles <= file.end_cycles /\ (mode' = "replay" => m'.cycles < file.end_cycles)
    <3>1. CASE Pending
      <4>1. Len(Events) \in 1 .. Len(Events) /\ n <= Len(Events) /\ Events # <<>>
        <5>1. Len(Events) >= 1
          BY <1>3, <1>7, <3>1
        <5> QED
          BY <1>3, <1>7, <3>1, <5>1
      <4>2. Events[n].cyc <= Events[Len(Events)].cyc /\ Events[Len(Events)].cyc <= file.end_cycles
        BY <1>3, <1>4, <1>7, <3>1, <4>1 DEF Stamps, end
      <4>3. Events[Len(Events)].cyc # file.end_cycles
        BY <2>2, <4>1 DEF LateEvent, Last
      <4> QED
        BY <1>3, <1>7, <1>9, <3>1, <4>1, <4>2, <4>3
    <3>2. CASE ~ Pending
      <4>1. m'.cycles <= file.end_cycles
        BY <1>3, <1>8, <1>9, <2>2, <3>2
      <4>2. mode' = "replay" => ~ (m'.cycles >= file.end_cycles)
        <5>1. file.end_cycles > 0
          BY <1>4
        <5> QED
          BY <1>2, <1>8, <2>2, <3>2, <5>1 DEF replay_should_stop
      <4> QED
        BY <1>3, <1>9, <4>1, <4>2
    <3> QED
      BY <3>1, <3>2
  <2> QED
    BY <1>2, <1>6, <2>1, <2>2 DEF InTime
<1>11. OnTrace'
  <2> SUFFICES ASSUME ~ overlap, ~ LateEvent
               PROVE  \E j \in 1 .. Len(trace') : Stands(j)'
    BY <1>2, <1>6 DEF OnTrace
  <2>1. PICK j \in 1 .. Len(trace) : Stands(j)
    BY <1>4 DEF EInv, OnTrace
  <2>2. m = trace[j].g /\ ev_idx = trace[j].n /\ j \in 1 .. Len(trace) - 1 /\ j + 1 \in 1 .. Len(trace)
    BY <1>2, <1>3, <2>1 DEF Stands
  <2> DEFINE h == trace[j + 1].g
  <2>3. Turned(trace[j], trace[j + 1]) \/ Keyed(trace[j], trace[j + 1], Events, overlap)
    BY <1>3, <2>2 DEF Steps
  <2>4. ~ Keyed(trace[j], trace[j + 1], Events, overlap)
    <3> SUFFICES ASSUME Keyed(trace[j], trace[j + 1], Events, overlap) PROVE FALSE
      OBVIOUS
    <3>1. trace[j + 1].n = n /\ Events[n].cyc = m.cycles
      BY <2>2 DEF Keyed, n
    <3>2. n <= Len(Events)
      BY <1>3, <2>2, <3>1 DEF Monotone
    <3>3. Pending
      BY <1>3, <3>2 DEF Pending, n
    <3> QED
      BY <1>3, <1>7, <3>1, <3>3
  <2>5. trace[j + 1].n = ev_idx /\ m.cycles < MaxCycle /\ h \in Turn(m, None)
    BY <2>2, <2>3, <2>4 DEF Turned
  <2>6. Turn(m, None) = {h} /\ h.cycles = m.cycles + TurnLength(m, None) /\ h.cycles \in Nat
    BY <1>3, <2>2, <2>5, RecordedTurn DEF Carries
  <2>7. h.cycles <= deadline
    <3>1. CASE Pending
      <4>1. n > trace[j + 1].n
        BY <1>3, <2>5 DEF n
      <4> QED
        BY <1>3, <1>7, <2>2, <3>1, <4>1 DEF Stamps
    <3>2. CASE ~ Pending
      <4>1. h.cycles <= end.cycles
        BY <1>3, <2>2 DEF Monotone, end
      <4> QED
        BY <1>4, <1>8, <3>2, <4>1
    <3> QED
      BY <3>1, <3>2
  <2>8. m' = h
    <3>1. m.cycles + TurnLength(m, None) <= deadline
      BY <2>6, <2>7
    <3>2. Turn(m, deadline) = Turn(m, None)
      BY <1>2, <1>3, <2>5, <3>1, SameTurn
    <3> QED
      BY <1>2, <2>6, <3>2
  <2>9. mode' = "replay" => j + 1 < Len(trace)
    <3> SUFFICES ASSUME mode' = "replay", j + 1 = Len(trace) PROVE FALSE
      BY <1>3, <2>2
    <3>1. h = end /\ ev_idx = Len(Events)
      BY <1>3, <2>5 DEF Monotone, End, end
    <3>2. m'.cycles >= file.end_cycles /\ file.end_cycles > 0
      BY <1>3, <1>4, <2>8, <3>1
    <3> QED
      BY <1>2, <3>1, <3>2 DEF replay_should_stop
  <2>10. ASSUME mode' = "done", ~ RoundedDown
         PROVE  j + 1 = Len(trace)
    <3> SUFFICES ASSUME j + 1 # Len(trace) PROVE FALSE
      OBVIOUS
    <3>1. /\ ev_idx = Len(Events)
          /\ \/ m'.cycles >= file.end_cycles
             \/ emu_now(m') >= file.end_emu
      BY <1>2, <2>10 DEF replay_should_stop
    <3>2. j + 1 \in 1 .. Len(trace) - 1
      BY <1>3, <2>2
    <3>3. h.cycles < end.cycles
      BY <1>3, <2>5, <3>1, <3>2 DEF Closing, end
    <3>4. ~ (m'.cycles >= file.end_cycles)
      BY <1>3, <1>4, <1>9, <2>8, <3>3
    <3>5. emu_now(m') >= emu_now(end)
      <4>1. emu_now(m') \in Nat /\ emu_now(end) \in Nat /\ file.end_emu \in Int
        BY <1>4, <1>9, Times DEF emu_now
      <4>2. ~ (file.end_emu < emu_now(end))
        BY <2>10 DEF RoundedDown, orig, End, end
      <4> QED
        BY <3>1, <3>4, <4>1, <4>2
    <3>6. m'.cycles >= end.cycles
      BY <1>4, <1>9, <3>5, NotBefore DEF emu_now
    <3> QED
      BY <1>4, <1>9, <2>8, <3>3, <3>6
  <2>11. Stands(j + 1)'
    BY <1>2, <1>6, <2>5, <2>8, <2>9, <2>10 DEF Stands
  <2> QED
    BY <1>2, <2>2, <2>11
<1> QED
  BY <1>1, <1>5, <1>10, <1>11 DEF EInv

\* Every step keeps the invariant.
LEMMA EInvHolds ==
  ASSUME ~ Legacy, EInv, [Next]_vars
  PROVE  EInv'
<1>1. TypeOK' /\ TypeOK
  BY TypeHolds DEF EInv
<1>2. CASE RecordTurn \/ (\E idx \in Keys, down \in BOOLEAN : HostKey(idx, down)) \/ ReleaseKey
  BY <1>2, RecordHolds
<1>3. CASE EndRecord
  BY <1>3, EndRecordHolds
<1>4. CASE Inject
  BY <1>4, InjectHolds
<1>5. CASE ReplayTurn
  BY <1>5, ReplayTurnHolds
<1>6. CASE FocusLost
  <2>1. UNCHANGED <<m, file, ev_idx, trace, overlap>> /\ mode = "record" /\ mode' = "release"
    BY <1>6 DEF FocusLost
  <2>2. Events' = Events
    BY <2>1 DEF Events
  <2>3. ~ Replayed /\ ~ Replayed'
    BY <2>1 DEF Replayed
  <2> QED
    BY <1>1, <2>1, <2>2, <2>3 DEF EInv, Closed, InTime, OnTrace
<1>7. CASE UNCHANGED vars
  <2>1. UNCHANGED <<mode, m, file, ev_idx, trace, overlap>> /\ Events' = Events
    BY <1>7 DEF vars, Events
  <2>2. /\ (Replayed' <=> Replayed) /\ (Pending' <=> Pending) /\ (LateEvent' <=> LateEvent)
        /\ \A j : Stands(j)' <=> Stands(j)
    BY <2>1 DEF Replayed, Pending, LateEvent, Stands, RoundedDown, orig
  <2> QED
    BY <1>1, <2>1, <2>2 DEF EInv, Closed, InTime, OnTrace
<1> QED
  BY <1>2, <1>3, <1>4, <1>5, <1>6, <1>7 DEF Next, Done

\* Nothing is recorded yet.
LEMMA EInvInit ==
  ASSUME Init
  PROVE  EInv
<1>1. mode = "record" /\ m = Boot /\ ev_idx = 0 /\ overlap = FALSE
      /\ file = [events |-> <<>>, end_cycles |-> 0, end_emu |-> 0]
      /\ trace = <<[g |-> Boot, n |-> 0]>>
  BY DEF Init
<1>2. Events = <<>> /\ Len(Events) = 0
  BY <1>1 DEF Events
<1>3. Len(trace) = 1 /\ trace[1].g = Boot /\ trace[1].n = 0
  BY <1>1
<1>4. IsPrefix(Boot.seen, Boot.seen)
  <2>1. Boot.seen \in Sights /\ <<0, 0>> \in Nat \X (0 .. Irq0)
    BY BootIs, MachineIs DEF Sound, Irq0
  <2> QED
    BY <2>1, PrefixGrows
<1>5. Monotone(trace, Events)
  BY <1>2, <1>3, <1>4, BootIs DEF Monotone, End
<1>6. Steps(trace, Events, overlap) /\ Stamps(trace, Events) /\ Closing(trace, Events)
  BY <1>2, <1>3 DEF Steps, Stamps, Closing
<1>7. ~ Replayed /\ m = End(trace) /\ ev_idx = 0
  BY <1>1, <1>3 DEF Replayed, End
<1> QED
  BY <1>5, <1>6, <1>7, TypeInit DEF EInv, History, Closed, InTime, OnTrace

\* What the invariant says of the property's parts.
LEMMA EInvGives ==
  ASSUME ~ Legacy, EInv
  PROVE  ReplayFaithful /\ NeverPastDeadline /\ (~ RoundedDown => ReplayEndsExact)
<1>1. /\ Monotone(trace, Events) /\ Len(trace) \in Nat /\ Len(trace) >= 1 /\ m.cycles \in Nat
      /\ file.end_cycles \in Nat /\ orig = End(trace)
  BY EInvIs DEF orig, End
<1>2. ReplayFaithful
  <2> SUFFICES ASSUME Replayed, ~ overlap, ~ LateEvent PROVE IsPrefix(m.seen, orig.seen)
    BY DEF ReplayFaithful
  <2>1. PICK j \in 1 .. Len(trace) : Stands(j)
    BY DEF EInv, OnTrace
  <2> QED
    BY <1>1, <2>1 DEF Stands, Monotone
<1>3. NeverPastDeadline
  BY DEF EInv, InTime, NeverPastDeadline
<1>4. ASSUME ~ RoundedDown
      PROVE  ReplayEndsExact
  <2> SUFFICES ASSUME mode = "done", ~ overlap, ~ LateEvent
               PROVE  replay_completed(m, ev_idx) /\ m = orig
    BY DEF ReplayEndsExact
  <2>1. Replayed
    BY DEF Replayed
  <2>2. PICK j \in 1 .. Len(trace) : Stands(j)
    BY <2>1 DEF EInv, OnTrace
  <2>3. m = trace[Len(trace)].g /\ ev_idx = trace[Len(trace)].n
    BY <1>4, <2>2 DEF Stands
  <2>4. m = End(trace) /\ ev_idx = Len(Events)
    BY <1>1, <2>3 DEF Monotone, End
  <2>5. file.end_cycles = End(trace).cycles /\ 0 < End(trace).cycles
    BY <2>1 DEF EInv, Closed
  <2>6. file.end_cycles > 0 /\ m.cycles >= file.end_cycles
    BY <1>1, <2>4, <2>5
  <2> QED
    BY <1>1, <2>4, <2>6 DEF replay_completed
<1> QED
  BY <1>2, <1>3, <1>4

\* A replay is exact.  Whatever was recorded - any keys, at any moment, with
\* any interrupts in flight - the replay of a file with cycle stamps shows
\* the guest the same bytes and interrupts on the same cycles, goes past no
\* event and no footer, and, unless the footer's time was rounded below the
\* true end, stops on the machine the recording stopped on.
THEOREM Exact ==
  ASSUME ~ Legacy
  PROVE  Spec => /\ [](ReplayFaithful /\ NeverPastDeadline)
                 /\ [](~ RoundedDown => ReplayIsExact)
<1>1. Init => EInv
  BY EInvInit
<1>2. EInv /\ [Next]_vars => EInv'
  BY EInvHolds
<1>3. EInv => ReplayFaithful /\ NeverPastDeadline
  BY EInvGives
<1>4. EInv => (~ RoundedDown => ReplayIsExact)
  BY EInvGives DEF ReplayIsExact
<1> QED
  BY <1>1, <1>2, <1>3, <1>4, PTL DEF Spec

\* On a clock whose cycle is a whole number of microseconds no footer is
\* rounded.
LEMMA WholeMicroseconds ==
  ASSUME Micro = 1, EInv, Replayed
  PROVE  ~ RoundedDown
<1>1. End(trace).cycles \in Nat
  BY EInvIs DEF End
<1>2. emu_now(End(trace)) \in Nat
  BY <1>1, Times DEF emu_now
<1>3. ASSUME NEW t \in Nat PROVE Printed(t) = t
  <2>1. (2 * t + 1) \div 2 = t
    OBVIOUS
  <2>2. (2 * t + Micro) \div (2 * Micro) = (2 * t + 1) \div 2
    OBVIOUS
  <2>3. Printed(t) = t * Micro
    BY <2>1, <2>2 DEF Printed
  <2> QED
    BY <2>3
<1>4. file.end_emu = emu_now(End(trace))
  BY <1>2, <1>3 DEF EInv, Closed
<1> QED
  BY <1>2, <1>4 DEF RoundedDown, orig, End

\* There a replay is exact without exception.
THEOREM ExactInMicroseconds ==
  ASSUME ~ Legacy, Micro = 1
  PROVE  Spec => []ReplayIsExact
<1>1. Init => EInv
  BY EInvInit
<1>2. EInv /\ [Next]_vars => EInv'
  BY EInvHolds
<1>3. EInv => ReplayIsExact
  <2>1. ASSUME EInv, Replayed PROVE ReplayIsExact
    BY <2>1, EInvGives, WholeMicroseconds DEF ReplayIsExact
  <2>2. ASSUME EInv, ~ Replayed PROVE ReplayIsExact
    BY <2>2, EInvGives DEF ReplayIsExact, ReplayEndsExact, Replayed
  <2> QED
    BY <2>1, <2>2
<1> QED
  BY <1>1, <1>2, <1>3, PTL DEF Spec
=============================================================================
