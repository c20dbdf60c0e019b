---------------------------- MODULE MachineProofs ----------------------------
(***************************************************************************)
(* Proofs about the machine's parts (module Machine), for every value of   *)
(* their constants.  A behaviour of the parts is, for each of them, one of *)
(* its own or a part that stands still.                                    *)
(***************************************************************************)
EXTENDS Machine, SequenceTheorems, WellFoundedInduction, TLAPS

-----------------------------------------------------------------------------
(***************************************************************************)
(* Numbers and sequences.                                                  *)
(***************************************************************************)
\* A sequence's indices and elements.
LEMMA Indexed ==
  ASSUME NEW S, NEW hs \in Seq(S)
  PROVE  /\ Len(hs) \in Nat /\ DOMAIN hs = 1 .. Len(hs)
         /\ hs # <<>> => Len(hs) > 0
         /\ \A n \in DOMAIN hs : hs[n] \in S
  OBVIOUS

\* Some natural numbers have a least one.
LEMMA LeastElement ==
  ASSUME NEW T \in SUBSET Nat, T # {}
  PROVE  \E x \in T : \A u \in T : x <= u
<1>1. PICK x \in T : \A u \in T : ~ (<<u, x>> \in OpToRel(<, Nat))
  BY NatLessThanWellFounded, WFMin
<1>2. \A u \in T : ~ (u < x)
  BY <1>1 DEF OpToRel
<1> QED
  BY <1>2

\* Division leaves a remainder, there is only one, and it is the same one turn
\* further on.
LEMMA Quotients ==
  ASSUME NEW W \in Nat \ {0}, NEW x \in Int
  PROVE  \E q \in Int : x - q * W \in 0 .. W - 1
<1> DEFINE T == {t \in Nat : \E q \in Int : t = x - q * W}
<1>1. T # {}
  <2>1. CASE x >= 0
    <3>1. x = x - 0 * W
      OBVIOUS
    <3>2. x \in T
      BY <2>1, <3>1
    <3> QED
      BY <3>2
  <2>2. CASE x < 0
    <3> DEFINE u == - x
    <3>0. u \in Nat /\ u * W >= u
      BY <2>2
    <3>1. x - x * W >= 0
      <4>1. x * W = - (u * W)
        OBVIOUS
      <4>2. u * W \in Nat
        BY <3>0
      <4> QED
        BY <3>0, <4>1, <4>2
    <3>2. x - x * W \in Nat
      BY <3>1
    <3>3. x - x * W \in T
      BY <3>2
    <3> QED
      BY <3>3
  <2> HIDE DEF T
  <2> QED
    BY <2>1, <2>2
<1>2. PICK r \in T : \A t \in T : r <= t
  <2>1. T \in SUBSET Nat
    OBVIOUS
  <2> HIDE DEF T
  <2> QED
    BY <1>1, <2>1, LeastElement
<1>3. PICK q \in Int : r = x - q * W
  BY <1>2
<1>4. r < W
  <2> SUFFICES ASSUME r >= W PROVE FALSE
    BY <1>2
  <2>1. r - W = x - (q + 1) * W
    <3>1. (q + 1) * W = q * W + W
      OBVIOUS
    <3>2. q * W \in Int
      OBVIOUS
    <3> QED
      BY <1>3, <3>1, <3>2
  <2>2. r - W \in T
    BY <1>2, <2>1
  <2>3. r \in Nat /\ r <= r - W
    BY <1>2, <2>2
  <2> QED
    BY <2>3
<1> QED
  BY <1>2, <1>3, <1>4

LEMMA Remainder ==
  ASSUME NEW W \in Nat \ {0}, NEW q \in Int, NEW r \in 0 .. W - 1
  PROVE  (q * W + r) % W = r
  OBVIOUS

LEMMA Around ==
  ASSUME NEW W \in Nat \ {0}, NEW x \in Int
  PROVE  (x + W) % W = x % W
<1>1. PICK q \in Int : x - q * W \in 0 .. W - 1
  BY Quotients
<1> DEFINE r == x - q * W
<1>2. q * W \in Int /\ (q + 1) * W = q * W + W
  OBVIOUS
<1>3. x = q * W + r /\ x + W = (q + 1) * W + r
  BY <1>2
<1>4. r \in 0 .. W - 1 /\ q + 1 \in Int
  BY <1>1
<1> HIDE DEF r
<1>5. (q * W + r) % W = r /\ ((q + 1) * W + r) % W = r
  BY <1>4, Remainder
<1> QED
  BY <1>3, <1>5

-----------------------------------------------------------------------------
(***************************************************************************)
(* Interrupts, for batches, byte ranges and sets of devices of any size    *)
(* and handlers nested to any depth.                                       *)
(*                                                                         *)
(* Three invariants carry the proofs.  TypeOK keeps the records' fields in *)
(* their ranges.  Nested says what EoiEndsOwn and ServiceIsStack need of   *)
(* the handlers: only the innermost can have sent its end of interrupt,    *)
(* and only with interrupts off.  OneShot ties a count that runs in mode 0 *)
(* to the batch that runs, so that neither can end much before the other.  *)
(***************************************************************************)

\* At most the innermost handler has sent its end of interrupt, and then
\* interrupts are off until it returns.
Nested ==
  /\ Ir!ServiceIsStack
  /\ \A n \in DOMAIN stack : stack[n].eoi => n = 1 /\ ~ takes

\* The longest the running batch can be.
Limit == IF short THEN Unarmed ELSE BatchSize

\* A count that runs in mode 0 is owed its interrupt, and is not due before
\* the batch ends, less the batch if it was written inside it.
OneShot ==
  /\ channel.mode \in {3} \cup Modes
  /\ left <= Limit
  /\ channel.armed => channel.mode \in Modes
  /\ channel.mode = 0 /\ channel.armed =>
       /\ owed
       /\ ~ inside => channel.due >= left
       /\ inside => channel.due + Limit > left

-----------------------------------------------------------------------------
\* A count of two bytes is below the number of two-byte counts.
LEMMA TwoBytes ==
  ASSUME Radix \in Nat \ {0}, NEW high \in Ir!Byte
  PROVE  /\ Ir!Wrap \in Nat \ {0} /\ Radix <= Ir!Wrap
         /\ high * Radix \in Nat
         /\ \A low \in Ir!Byte : low + high * Radix \in 0 .. Ir!Wrap - 1
<1>1. Ir!Wrap \in Nat \ {0} /\ Radix <= Ir!Wrap /\ high * Radix \in Nat
  BY DEF Ir!Wrap, Ir!Byte
<1>2. high * Radix <= (Radix - 1) * Radix
  BY DEF Ir!Byte
<1>3. (Radix - 1) * Radix = Ir!Wrap - Radix
  BY DEF Ir!Wrap
<1> QED
  BY <1>1, <1>2, <1>3 DEF Ir!Byte

\* What a handler that starts does to the stack of handlers.
LEMMA Pushed ==
  ASSUME NEW S, NEW hs \in Seq(S), NEW x \in S
  PROVE  /\ <<x>> \o hs \in Seq(S)
         /\ Len(<<x>> \o hs) = Len(hs) + 1
         /\ (<<x>> \o hs)[1] = x
         /\ \A n \in 1 .. Len(hs) : (<<x>> \o hs)[n + 1] = hs[n]
  OBVIOUS

\* What one that returns does.
LEMMA Popped ==
  ASSUME NEW S, NEW hs \in Seq(S), hs # <<>>
  PROVE  /\ Tail(hs) \in Seq(S)
         /\ Len(hs) > 0
         /\ Len(Tail(hs)) = Len(hs) - 1
         /\ \A n \in 1 .. Len(hs) - 1 : Tail(hs)[n] = hs[n + 1]
         /\ Head(hs) = hs[1] /\ Head(hs) \in S
  OBVIOUS

\* A channel stays one when a field is given a value of the field's type.
LEMMA FieldsTyped ==
  /\ \A c \in Ir!Channel, n \in 0 .. Ir!Wrap - 1 : [c EXCEPT !.reload = n] \in Ir!Channel
  /\ \A c \in Ir!Channel, n \in {0, 3} : [c EXCEPT !.mode = n] \in Ir!Channel
  /\ \A c \in Ir!Channel, n \in 1 .. 3 : [c EXCEPT !.rw = n] \in Ir!Channel
  /\ \A c \in Ir!Channel, n \in BOOLEAN : [c EXCEPT !.wr_hi = n] \in Ir!Channel
  /\ \A c \in Ir!Channel, n \in Ir!Byte : [c EXCEPT !.wr_tmp = n] \in Ir!Channel
  /\ \A c \in Ir!Channel, n \in - MaxPast .. Ir!Wrap : [c EXCEPT !.due = n] \in Ir!Channel
  /\ \A c \in Ir!Channel, n \in BOOLEAN : [c EXCEPT !.armed = n] \in Ir!Channel
<1> QED
  BY DEF Ir!Channel

\* The fields of a channel after one instruction.
LEMMA Elapsed ==
  ASSUME Ir!Constants, NEW c \in Ir!Channel
  PROVE  /\ Ir!Elapse(c) \in Ir!Channel
         /\ Ir!Elapse(c).mode = c.mode /\ Ir!Elapse(c).armed = c.armed
         /\ Ir!Elapse(c).due >= c.due - 1
<1>1. Ir!Wrap \in Nat \ {0}
  BY DEF Ir!Constants, Ir!Wrap
<1> QED
  BY <1>1 DEF Ir!Constants, Ir!Channel, Ir!Elapse

\* A control word selects the mode, and neither loads nor disarms a count.
LEMMA Controlled ==
  ASSUME Ir!Constants, NEW c \in Ir!Channel, NEW kind \in {0, 3}
  PROVE  /\ Ir!ControlWord(c, kind, 3) \in Ir!Channel
         /\ Ir!ControlWord(c, kind, 3).mode = kind
         /\ Ir!ControlWord(c, kind, 3).armed = c.armed
         /\ Ir!ControlWord(c, kind, 3).due = c.due
<1>1. Ir!ControlWord(c, kind, 3) \in Ir!Channel
  <2>1. \A d \in Ir!Channel : [d EXCEPT !.rw = 3] \in Ir!Channel
    BY DEF Ir!Channel
  <2>2. \A d \in Ir!Channel : [d EXCEPT !.mode = kind] \in Ir!Channel
    BY DEF Ir!Channel
  <2>3. \A d \in Ir!Channel : [d EXCEPT !.wr_hi = FALSE] \in Ir!Channel
    BY DEF Ir!Channel
  <2> QED
    BY <2>1, <2>2, <2>3 DEF Ir!ControlWord
<1> QED
  BY <1>1 DEF Ir!ControlWord, Ir!Channel

\* A byte of a count loads the channel when it is the last one, and then the
\* count is at least one tick away.
LEMMA Written ==
  ASSUME Ir!Constants, NEW c \in Ir!Channel, NEW v \in Ir!Byte
  PROVE  /\ Ir!WriteCount(c, v) \in Ir!Channel
         /\ Ir!WriteCount(c, v).mode = c.mode
         /\ Ir!CountWhole(c) => Ir!WriteCount(c, v).armed /\ Ir!WriteCount(c, v).due > 0
         /\ ~ Ir!CountWhole(c) => /\ Ir!WriteCount(c, v).armed = c.armed
                               /\ Ir!WriteCount(c, v).due = c.due
<1> DEFINE load(n) == Ir!LoadCount(c, n)
<1>1. /\ Ir!Wrap \in Nat \ {0} /\ Radix <= Ir!Wrap /\ v * Radix \in Nat
      /\ \A low \in Ir!Byte : low + v * Radix \in 0 .. Ir!Wrap - 1
  BY TwoBytes DEF Ir!Constants
<1>2. v \in 0 .. Ir!Wrap - 1 /\ v * Radix \in 0 .. Ir!Wrap - 1 /\ c.wr_tmp + v * Radix \in 0 .. Ir!Wrap - 1
  <2>1. 0 \in Ir!Byte /\ c.wr_tmp \in Ir!Byte
    BY DEF Ir!Constants, Ir!Byte, Ir!Channel
  <2>2. 0 + v * Radix = v * Radix
    BY <1>1
  <2> QED
    BY <1>1, <2>1, <2>2 DEF Ir!Byte, Ir!Constants
<1>3. ASSUME NEW n \in 0 .. Ir!Wrap - 1
      PROVE  /\ load(n) \in Ir!Channel
             /\ load(n).mode = c.mode /\ load(n).armed /\ load(n).due > 0
  <2>1. Ir!Period(n) \in 1 .. Ir!Wrap /\ Ir!Period(n) \in - MaxPast .. Ir!Wrap
    BY <1>1 DEF Ir!Period, Ir!Constants
  <2>2. load(n) \in Ir!Channel
    BY <2>1, FieldsTyped DEF Ir!LoadCount
  <2> QED
    BY <2>1, <2>2 DEF Ir!LoadCount, Ir!Channel
<1>4. CASE Ir!CountWhole(c)
  <2>1. \E n \in 0 .. Ir!Wrap - 1 : Ir!WriteCount(c, v) = load(n)
    <3>1. CASE c.rw = 1
      BY <1>2, <3>1 DEF Ir!WriteCount
    <3>2. CASE c.rw = 2
      BY <1>2, <3>2 DEF Ir!WriteCount
    <3>3. CASE c.rw = 3 /\ c.wr_hi
      BY <1>2, <3>3 DEF Ir!WriteCount
    <3> QED
      BY <1>4, <3>1, <3>2, <3>3 DEF Ir!CountWhole, Ir!Channel
  <2> QED
    BY <1>3, <1>4, <2>1
<1>5. CASE ~ Ir!CountWhole(c)
  <2>1. Ir!WriteCount(c, v) = [c EXCEPT !.wr_tmp = v, !.wr_hi = TRUE]
    BY <1>5 DEF Ir!WriteCount, Ir!CountWhole, Ir!Channel
  <2>2. Ir!WriteCount(c, v) \in Ir!Channel
    BY <2>1, FieldsTyped
  <2> QED
    BY <1>5, <2>1, <2>2 DEF Ir!Channel
<1> QED
  BY <1>4, <1>5

\* What the end of a batch does to the channel: a count that fires in mode 0
\* is disarmed, and one that does not fire stays as it is.
LEMMA Fired ==
  ASSUME Ir!Constants, NEW c \in Ir!Channel
  PROVE  /\ Ir!AfterFire(c) \in Ir!Channel
         /\ Ir!AfterFire(c).mode = c.mode
         /\ c.mode = 0 => /\ Ir!AfterFire(c).due = c.due
                          /\ (Ir!AfterFire(c).armed <=> c.armed /\ c.due > 0)
         /\ c.mode # 0 => Ir!AfterFire(c).armed = c.armed
<1>1. Ir!Wrap \in Nat \ {0} /\ Ir!Period(c.reload) \in 1 .. Ir!Wrap
  BY DEF Ir!Constants, Ir!Wrap, Ir!Period, Ir!Channel
<1>2. CASE ~ Ir!TimerFires(c)
  BY <1>2 DEF Ir!AfterFire, Ir!TimerFires, Ir!Channel
<1>3. CASE Ir!TimerFires(c) /\ c.mode = 0
  <2>1. Ir!AfterFire(c) = [c EXCEPT !.armed = FALSE] /\ c.due <= 0
    BY <1>3 DEF Ir!AfterFire, Ir!TimerFires
  <2>2. Ir!AfterFire(c) \in Ir!Channel
    BY <2>1, FieldsTyped
  <2>3. Ir!AfterFire(c).armed = FALSE /\ Ir!AfterFire(c).mode = c.mode /\ Ir!AfterFire(c).due = c.due
    BY <2>1, <2>2 DEF Ir!Channel
  <2>4. ~ (c.due > 0)
    BY <2>1 DEF Ir!Channel, Ir!Constants
  <2> QED
    BY <1>3, <2>2, <2>3, <2>4
<1>4. CASE Ir!TimerFires(c) /\ c.mode # 0
  <2>1. c.due \in - MaxPast .. 0
    BY <1>1, <1>4 DEF Ir!TimerFires, Ir!Channel, Ir!Constants
  <2>2. (IF - c.due > Resync THEN 0 ELSE c.due) + Ir!Period(c.reload) \in - MaxPast .. Ir!Wrap
    BY <1>1, <2>1 DEF Ir!Constants
  <2>3. Ir!AfterFire(c) = [c EXCEPT !.due = (IF - c.due > Resync THEN 0 ELSE c.due) + Ir!Period(c.reload)]
    BY <1>4 DEF Ir!AfterFire, Ir!Channel
  <2>4. Ir!AfterFire(c) \in Ir!Channel
    BY <2>2, <2>3, FieldsTyped
  <2> QED
    BY <1>4, <2>3, <2>4 DEF Ir!Channel
<1> QED
  BY <1>2, <1>3, <1>4

\* A batch is at least one instruction, and never longer than the time to a
\* count that has not fired.
LEMMA Limited ==
  ASSUME Ir!Constants, NEW c \in Ir!Channel
  PROVE  /\ Ir!BatchLimit(c) \in 1 .. BatchSize
         /\ c.mode = 0 /\ ~ c.armed => Ir!BatchLimit(c) <= Unarmed
         /\ c.mode = 0 /\ c.armed /\ c.due > 0 => Ir!BatchLimit(c) <= c.due
  BY DEF Ir!Constants, Ir!BatchLimit, Ir!dev_next_deadline, Ir!Channel

-----------------------------------------------------------------------------
(***************************************************************************)
(* The controller.                                                         *)
(***************************************************************************)
\* Every operation leaves three sets of IRQs.
LEMMA PicTyped ==
  ASSUME NEW p \in Ir!Pic
  PROVE  /\ \A irq \in Ir!Irq : Ir!pic_raise(p, irq) \in Ir!Pic /\ Ir!pic_lower(p, irq) \in Ir!Pic
         /\ \A irq \in Ir!Irq : Ir!Acknowledge(p, irq) \in Ir!Pic
         /\ Ir!EndOfInterrupt(p) \in Ir!Pic
         /\ \A mask \in SUBSET Ir!Irq : Ir!SetMask(p, mask) \in Ir!Pic
  BY DEF Ir!Pic, Ir!pic_raise, Ir!pic_lower, Ir!Acknowledge, Ir!EndOfInterrupt, Ir!SetMask

\* What each does to the interrupts in service: a request adds itself and is
\* more urgent than all of them, an end of interrupt ends the most urgent.
LEMMA InService ==
  ASSUME NEW p \in Ir!Pic
  PROVE  /\ \A irq \in Ir!Irq : Ir!pic_raise(p, irq).isr = p.isr /\ Ir!pic_lower(p, irq).isr = p.isr
         /\ \A mask \in SUBSET Ir!Irq : Ir!SetMask(p, mask).isr = p.isr
         /\ \A irq \in Ir!Irq : Ir!Acknowledge(p, irq).isr = p.isr \cup {irq}
         /\ \A irq \in Ir!Pending(p) : irq \in Ir!Irq /\ \A other \in p.isr : irq < other
         /\ Ir!EndOfInterrupt(p).isr = {irq \in p.isr : \E other \in p.isr : other < irq}
  BY DEF Ir!Pic, Ir!pic_raise, Ir!pic_lower, Ir!SetMask, Ir!Acknowledge, Ir!Pending, Ir!EndOfInterrupt

-----------------------------------------------------------------------------
(***************************************************************************)
(* Types.                                                                  *)
(***************************************************************************)
\* What an instruction leaves alone or keeps in range, whatever it does.
LEMMA InstructionTyped ==
  ASSUME Ir!Constants, Ir!TypeOK, NEW c \in Ir!Channel, Ir!Instruction(c)
  PROVE  channel' \in Ir!Channel /\ left' \in 0 .. BatchSize
  BY Elapsed DEF Ir!Instruction, Ir!TypeOK, Ir!Constants

\* The controller as the devices leave it at the end of a batch.
LEMMA TickedTyped ==
  ASSUME Ir!TypeOK
  PROVE  Ir!Ticked \in Ir!Pic /\ Ir!Ticked.isr = pic.isr
<1>1. 0 \in Ir!Irq
  BY DEF Ir!Irq
<1> QED
  BY <1>1, PicTyped, InService DEF Ir!TypeOK, Ir!Ticked

LEMMA TurnTyped ==
  ASSUME Ir!Constants, Ir!TypeOK, Ir!Turn
  PROVE  Ir!TypeOK'
<1>1. channel' \in Ir!Channel /\ left' \in 0 .. BatchSize
  BY Fired, Limited DEF Ir!Turn, Ir!TypeOK, Ir!Constants
<1>2. Ir!Ticked \in Ir!Pic
  BY TickedTyped
<1>3. CASE takes /\ Ir!Pending(Ir!Ticked) # {}
  <2>1. PICK irq \in Ir!Pending(Ir!Ticked) :
          /\ pic' = Ir!Acknowledge(Ir!Ticked, irq)
          /\ takes' = FALSE
          /\ stack' = <<[irq |-> irq, eoi |-> FALSE]>> \o stack
    BY <1>3 DEF Ir!Turn
  <2>2. irq \in Ir!Irq /\ pic' \in Ir!Pic
    BY <1>2, <2>1, PicTyped, InService
  <2>3. [irq |-> irq, eoi |-> FALSE] \in [irq : Ir!Irq, eoi : BOOLEAN]
    BY <2>2
  <2>4. stack' \in Seq([irq : Ir!Irq, eoi : BOOLEAN])
    BY <2>1, <2>3, Pushed DEF Ir!TypeOK
  <2> QED
    BY <1>1, <2>1, <2>2, <2>4 DEF Ir!TypeOK, Ir!Turn
<1>4. CASE ~ (takes /\ Ir!Pending(Ir!Ticked) # {})
  BY <1>1, <1>2, <1>4 DEF Ir!Turn, Ir!TypeOK
<1> QED
  BY <1>3, <1>4

\* Every step keeps the types.
LEMMA TypeStep ==
  ASSUME Ir!Constants, Ir!TypeOK, [Ir!Next]_(Ir!vars)
  PROVE  Ir!TypeOK'
<1>1. CASE Ir!Turn
  BY <1>1, TurnTyped
<1>2. ASSUME NEW irq \in Others, Ir!Raise(irq) \/ Ir!Lower(irq)
      PROVE  Ir!TypeOK'
  <2>1. irq \in Ir!Irq
    BY DEF Ir!Constants
  <2> QED
    BY <1>2, <2>1, PicTyped DEF Ir!Raise, Ir!Lower, Ir!TypeOK
<1>3. CASE Ir!Compute
  BY <1>3, InstructionTyped DEF Ir!Compute, Ir!TypeOK
<1>4. ASSUME NEW kind \in Modes, Ir!Control(kind)
      PROVE  Ir!TypeOK'
  <2>1. kind \in {0, 3}
    BY DEF Ir!Constants
  <2>2. Ir!ControlWord(channel, kind, 3) \in Ir!Channel
    BY <2>1, Controlled DEF Ir!TypeOK
  <2> QED
    BY <1>4, <2>2, InstructionTyped DEF Ir!Control, Ir!TypeOK
<1>5. ASSUME NEW v \in Ir!Byte, Ir!Write(v)
      PROVE  Ir!TypeOK'
  <2>1. Ir!WriteCount(channel, v) \in Ir!Channel
    BY Written DEF Ir!TypeOK
  <2>2. channel' \in Ir!Channel /\ left' \in 0 .. BatchSize
    BY <1>5, <2>1, InstructionTyped DEF Ir!Write
  <2>3. inside' \in BOOLEAN /\ owed' \in BOOLEAN
    BY <1>5 DEF Ir!Write, Ir!TypeOK
  <2> QED
    BY <1>5, <2>2, <2>3 DEF Ir!Write, Ir!TypeOK
<1>6. ASSUME NEW on \in BOOLEAN, Ir!InterruptsOn(on)
      PROVE  Ir!TypeOK'
  BY <1>6, InstructionTyped DEF Ir!InterruptsOn, Ir!TypeOK
<1>7. CASE Ir!Eoi
  <2>1. [Head(stack) EXCEPT !.eoi = TRUE] \in [irq : Ir!Irq, eoi : BOOLEAN]
    <3>1. Head(stack) \in [irq : Ir!Irq, eoi : BOOLEAN]
      BY <1>7, Popped DEF Ir!Eoi, Ir!TypeOK
    <3> QED
      BY <3>1
  <2>2. stack' \in Seq([irq : Ir!Irq, eoi : BOOLEAN])
    <3>1. Tail(stack) \in Seq([irq : Ir!Irq, eoi : BOOLEAN])
      BY <1>7, Popped DEF Ir!Eoi, Ir!TypeOK
    <3> QED
      BY <1>7, <2>1, <3>1, Pushed DEF Ir!Eoi
  <2> QED
    BY <1>7, <2>2, InstructionTyped, PicTyped DEF Ir!Eoi, Ir!TypeOK
<1>8. CASE Ir!Iret
  <2>1. Tail(stack) \in Seq([irq : Ir!Irq, eoi : BOOLEAN])
    BY <1>8, Popped DEF Ir!Iret, Ir!Returning, Ir!TypeOK
  <2> QED
    BY <1>8, <2>1, InstructionTyped DEF Ir!Iret, Ir!TypeOK
<1>9. ASSUME NEW mask \in SUBSET Others, Ir!Mask(mask)
      PROVE  Ir!TypeOK'
  <2>1. mask \in SUBSET Ir!Irq
    BY DEF Ir!Constants
  <2> QED
    BY <1>9, <2>1, InstructionTyped, PicTyped DEF Ir!Mask, Ir!TypeOK
<1>10. CASE UNCHANGED Ir!vars
  BY <1>10 DEF Ir!vars, Ir!TypeOK
<1> QED
  BY <1>1, <1>2, <1>3, <1>4, <1>5, <1>6, <1>7, <1>8, <1>9, <1>10 DEF Ir!Next, Ir!Guest

(***************************************************************************)
(* The timer's channel, the interrupt controller's registers, the rest of  *)
(* the batch and the handlers keep their types in every behaviour.         *)
(***************************************************************************)
THEOREM InterruptsTyped ==
  ASSUME Ir!Constants
  PROVE  Ir!Spec => []Ir!TypeOK
<1>1. Ir!Init => Ir!TypeOK
  <2>1. Ir!pit_init \in Ir!Channel
    <3>1. Ir!Wrap \in Nat \ {0} /\ 0 \in Ir!Byte
      BY DEF Ir!Constants, Ir!Wrap, Ir!Byte
    <3> QED
      BY <3>1 DEF Ir!Constants, Ir!pit_init, Ir!Channel
  <2>2. [Ir!pic_init EXCEPT !.imr = {}] \in Ir!Pic
    BY DEF Ir!pic_init, Ir!Pic, Ir!Irq
  <2>3. <<>> \in Seq([irq : Ir!Irq, eoi : BOOLEAN])
    OBVIOUS
  <2> QED
    <3>1. 0 \in 0 .. BatchSize
      BY DEF Ir!Constants
    <3> QED
      BY <2>1, <2>2, <2>3, <3>1 DEF Ir!Init, Ir!TypeOK
<1> QED
  BY <1>1, TypeStep, PTL DEF Ir!Spec

-----------------------------------------------------------------------------
(***************************************************************************)
(* Handlers.                                                               *)
(***************************************************************************)
\* A handler that sends its end of interrupt.
LEMMA Ended ==
  ASSUME NEW h \in [irq : Ir!Irq, eoi : BOOLEAN]
  PROVE  [h EXCEPT !.eoi = TRUE].irq = h.irq /\ [h EXCEPT !.eoi = TRUE].eoi
  OBVIOUS

\* The domain of the stack, and every handler on it.
LEMMA OnStack ==
  ASSUME Ir!TypeOK
  PROVE  /\ Len(stack) \in Nat /\ DOMAIN stack = 1 .. Len(stack)
         /\ \A n \in DOMAIN stack : stack[n].irq \in Ir!Irq /\ stack[n].eoi \in BOOLEAN
         /\ stack # <<>> => 1 \in DOMAIN stack
<1>1. \A n \in DOMAIN stack : stack[n] \in [irq : Ir!Irq, eoi : BOOLEAN]
  BY Indexed DEF Ir!TypeOK
<1>2. Len(stack) \in Nat /\ DOMAIN stack = 1 .. Len(stack) /\ (stack # <<>> => Len(stack) > 0)
  BY Indexed DEF Ir!TypeOK
<1> QED
  BY <1>1, <1>2

\* The end of a batch starts at most one handler, while the others are all
\* unfinished, and it is more urgent than each of them.
LEMMA TurnNests ==
  ASSUME Ir!Constants, Ir!TypeOK, Nested, Ir!Turn
  PROVE  Nested' /\ pic.isr \subseteq pic'.isr
<1>1. Ir!Ticked \in Ir!Pic /\ Ir!Ticked.isr = pic.isr
  BY TickedTyped
<1>2. CASE ~ (takes /\ Ir!Pending(Ir!Ticked) # {})
  BY <1>1, <1>2 DEF Ir!Turn, Nested, Ir!ServiceIsStack, Ir!Unfinished
<1>3. CASE takes /\ Ir!Pending(Ir!Ticked) # {}
  <2> DEFINE new(irq) == [irq |-> irq, eoi |-> FALSE]
  <2>1. PICK irq \in Ir!Pending(Ir!Ticked) :
          /\ pic' = Ir!Acknowledge(Ir!Ticked, irq)
          /\ takes' = FALSE
          /\ stack' = <<new(irq)>> \o stack
    BY <1>3 DEF Ir!Turn
  <2>2. /\ irq \in Ir!Irq /\ \A other \in pic.isr : irq < other
        /\ pic'.isr = pic.isr \cup {irq}
    BY <1>1, <2>1, InService
  <2>3. \A n \in DOMAIN stack : ~ stack[n].eoi
    BY <1>3 DEF Nested
  <2>4. pic.isr = {stack[n].irq : n \in DOMAIN stack}
    BY <2>3 DEF Nested, Ir!ServiceIsStack, Ir!Unfinished
  <2>5. /\ DOMAIN stack = 1 .. Len(stack) /\ Len(stack) \in Nat
        /\ DOMAIN stack' = 1 .. Len(stack) + 1
        /\ stack'[1] = new(irq)
        /\ \A n \in 1 .. Len(stack) : stack'[n + 1] = stack[n]
    <3>1. new(irq) \in [irq : Ir!Irq, eoi : BOOLEAN]
      BY <2>2
    <3>2. /\ stack' \in Seq([irq : Ir!Irq, eoi : BOOLEAN])
          /\ Len(stack') = Len(stack) + 1
          /\ stack'[1] = new(irq)
          /\ \A n \in 1 .. Len(stack) : stack'[n + 1] = stack[n]
      <4> HIDE DEF new
      <4> QED
        BY <2>1, <3>1, Pushed DEF Ir!TypeOK
    <3> QED
      BY <3>2, OnStack DEF Ir!TypeOK
  <2>6. \A n \in DOMAIN stack' : n = 1 \/ (n - 1 \in DOMAIN stack /\ stack'[n] = stack[n - 1])
    BY <2>5
  <2>7. \A n \in DOMAIN stack' : ~ stack'[n].eoi
    BY <2>3, <2>5, <2>6
  <2>8. {stack'[n].irq : n \in DOMAIN stack'} = {irq} \cup {stack[n].irq : n \in DOMAIN stack}
    <3>1. \A n \in DOMAIN stack' : stack'[n].irq = irq \/ \E m \in DOMAIN stack : stack'[n].irq = stack[m].irq
      BY <2>5, <2>6
    <3>2. 1 \in DOMAIN stack' /\ stack'[1].irq = irq
      BY <2>5
    <3>3. \A m \in DOMAIN stack : m + 1 \in DOMAIN stack' /\ stack'[m + 1].irq = stack[m].irq
      BY <2>5
    <3> QED
      BY <3>1, <3>2, <3>3
  <2>9. \A i, j \in DOMAIN stack' : i < j => stack'[i].irq < stack'[j].irq
    <3> SUFFICES ASSUME NEW i \in DOMAIN stack', NEW j \in DOMAIN stack', i < j
                 PROVE  stack'[i].irq < stack'[j].irq
      OBVIOUS
    <3>1. j - 1 \in DOMAIN stack /\ stack'[j] = stack[j - 1]
      BY <2>5, <2>6
    <3>2. CASE i = 1
      <4>1. stack[j - 1].irq \in pic.isr
        BY <2>4, <3>1
      <4> QED
        BY <2>2, <2>5, <3>1, <3>2, <4>1
    <3>3. CASE i # 1
      <4>1. i - 1 \in DOMAIN stack /\ stack'[i] = stack[i - 1] /\ i - 1 < j - 1
        BY <2>5, <2>6, <3>3
      <4> QED
        BY <3>1, <4>1 DEF Nested, Ir!ServiceIsStack
    <3> QED
      BY <3>2, <3>3
  <2>10. Ir!Unfinished' = DOMAIN stack'
    BY <2>7 DEF Ir!Unfinished
  <2>11. pic'.isr = {stack'[n].irq : n \in Ir!Unfinished'}
    BY <2>2, <2>4, <2>8, <2>10
  <2> QED
    BY <2>2, <2>7, <2>9, <2>11 DEF Nested, Ir!ServiceIsStack
<1> QED
  BY <1>2, <1>3

\* An end of interrupt ends the handler that sends it: every handler below it
\* is unfinished and less urgent.
LEMMA EoiNests ==
  ASSUME Ir!Constants, Ir!TypeOK, Nested, Ir!Eoi
  PROVE  Nested' /\ pic'.isr = pic.isr \ {Head(stack).irq}
<1> DEFINE done == [Head(stack) EXCEPT !.eoi = TRUE]
<1>1. /\ DOMAIN stack = 1 .. Len(stack) /\ Len(stack) \in Nat \ {0}
      /\ Head(stack) = stack[1] /\ Head(stack) \in [irq : Ir!Irq, eoi : BOOLEAN]
  <2>1. stack # <<>>
    BY DEF Ir!Eoi
  <2>2. Head(stack) = stack[1] /\ Head(stack) \in [irq : Ir!Irq, eoi : BOOLEAN] /\ Len(stack) > 0
    BY <2>1, Popped DEF Ir!TypeOK
  <2> QED
    BY <2>2, OnStack
<1>2. \A n \in DOMAIN stack : ~ stack[n].eoi
  <2>1. ~ stack[1].eoi
    BY <1>1 DEF Ir!Eoi, Ir!Returning
  <2> QED
    BY <2>1 DEF Nested
<1>3. pic.isr = {stack[n].irq : n \in DOMAIN stack}
  BY <1>2 DEF Nested, Ir!ServiceIsStack, Ir!Unfinished
<1>4. /\ DOMAIN stack' = DOMAIN stack
      /\ stack'[1] = done
      /\ \A n \in DOMAIN stack \ {1} : stack'[n] = stack[n]
  <2>1. done \in [irq : Ir!Irq, eoi : BOOLEAN]
    BY <1>1
  <2> HIDE DEF done
  <2>2. /\ Tail(stack) \in Seq([irq : Ir!Irq, eoi : BOOLEAN]) /\ Len(Tail(stack)) = Len(stack) - 1
        /\ \A n \in 1 .. Len(stack) - 1 : Tail(stack)[n] = stack[n + 1]
    BY Popped DEF Ir!TypeOK, Ir!Eoi
  <2>3. stack' = <<done>> \o Tail(stack)
    BY DEF Ir!Eoi, done
  <2>4. /\ stack' \in Seq([irq : Ir!Irq, eoi : BOOLEAN])
        /\ Len(stack') = Len(Tail(stack)) + 1
        /\ stack'[1] = done
        /\ \A n \in 1 .. Len(Tail(stack)) : stack'[n + 1] = Tail(stack)[n]
    BY <2>1, <2>2, <2>3, Pushed
  <2>5. DOMAIN stack' = DOMAIN stack
    BY <1>1, <2>2, <2>4
  <2>6. ASSUME NEW n \in DOMAIN stack \ {1}
        PROVE  stack'[n] = stack[n]
    <3>1. n - 1 \in 1 .. Len(stack) - 1 /\ (n - 1) + 1 = n
      BY <1>1
    <3> QED
      BY <2>2, <2>4, <3>1
  <2> QED
    BY <2>4, <2>5, <2>6
<1>5. done.irq = stack[1].irq /\ done.eoi
  <2>1. done.irq = Head(stack).irq /\ done.eoi
    BY <1>1, Ended
  <2> QED
    BY <1>1, <2>1
<1> HIDE DEF done
<1>6. \A n \in DOMAIN stack : stack'[n].irq = stack[n].irq /\ (stack'[n].eoi <=> n = 1)
  <2> SUFFICES ASSUME NEW n \in DOMAIN stack
               PROVE  stack'[n].irq = stack[n].irq /\ (stack'[n].eoi <=> n = 1)
    OBVIOUS
  <2>1. CASE n = 1
    BY <1>4, <1>5, <2>1
  <2>2. CASE n # 1
    <3>1. stack'[n] = stack[n]
      BY <1>4, <2>2
    <3> QED
      BY <1>2, <2>2, <3>1
  <2> QED
    BY <2>1, <2>2
<1>7. Ir!Unfinished' = DOMAIN stack \ {1}
  BY <1>4, <1>6 DEF Ir!Unfinished
<1>8. pic'.isr = {irq \in pic.isr : \E other \in pic.isr : other < irq}
  BY InService DEF Ir!TypeOK, Ir!Eoi
<1>9. pic'.isr = pic.isr \ {stack[1].irq}
  <2>1. \A n \in DOMAIN stack : stack[n].irq \in Int /\ (n # 1 => stack[1].irq < stack[n].irq)
    BY <1>1, OnStack DEF Nested, Ir!ServiceIsStack, Ir!Irq
  <2>2. stack[1].irq \in pic.isr
    BY <1>1, <1>3
  <2>3. \A irq \in pic.isr : irq = stack[1].irq \/ stack[1].irq < irq
    BY <1>3, <2>1
  <2>4. \A other \in pic.isr : ~ (other < stack[1].irq)
    BY <1>1, <1>3, <2>1
  <2> QED
    BY <1>8, <2>2, <2>3, <2>4
<1>10. pic.isr \ {stack[1].irq} = {stack[n].irq : n \in DOMAIN stack \ {1}}
  <2>1. \A n \in DOMAIN stack \ {1} : stack[n].irq # stack[1].irq
    BY <1>1, OnStack DEF Nested, Ir!ServiceIsStack, Ir!Irq
  <2> QED
    BY <1>3, <2>1
<1>11. pic'.isr = {stack'[n].irq : n \in Ir!Unfinished'}
  BY <1>6, <1>7, <1>9, <1>10
<1>12. \A i, j \in DOMAIN stack' : i < j => stack'[i].irq < stack'[j].irq
  BY <1>4, <1>6 DEF Nested, Ir!ServiceIsStack
<1>13. \A n \in DOMAIN stack' : stack'[n].eoi => n = 1 /\ ~ takes'
  BY <1>4, <1>6 DEF Ir!Eoi
<1> QED
  BY <1>1, <1>9, <1>11, <1>12, <1>13 DEF Nested, Ir!ServiceIsStack

\* A handler returns after its end of interrupt, and those it interrupted are
\* all unfinished.
LEMMA IretNests ==
  ASSUME Ir!Constants, Ir!TypeOK, Nested, Ir!Iret
  PROVE  Nested'
<1>1. /\ DOMAIN stack = 1 .. Len(stack) /\ Len(stack) \in Nat \ {0}
      /\ Head(stack) = stack[1]
      /\ stack' \in Seq([irq : Ir!Irq, eoi : BOOLEAN])
      /\ DOMAIN stack' = 1 .. Len(stack) - 1
      /\ \A n \in 1 .. Len(stack) - 1 : stack'[n] = stack[n + 1]
  <2>1. stack' = Tail(stack) /\ stack # <<>>
    BY DEF Ir!Iret, Ir!Returning
  <2>2. /\ stack' \in Seq([irq : Ir!Irq, eoi : BOOLEAN]) /\ Len(stack') = Len(stack) - 1 /\ Len(stack) > 0
        /\ \A n \in 1 .. Len(stack) - 1 : stack'[n] = stack[n + 1]
        /\ Head(stack) = stack[1]
    BY <2>1, Popped DEF Ir!TypeOK
  <2> QED
    BY <2>2, OnStack
<1>2. stack[1].eoi /\ \A n \in DOMAIN stack \ {1} : ~ stack[n].eoi
  BY <1>1 DEF Ir!Iret, Ir!Returning, Nested
<1>3. Ir!Unfinished = DOMAIN stack \ {1}
  BY <1>1, <1>2 DEF Ir!Unfinished
<1>4. \A n \in DOMAIN stack' : n + 1 \in Ir!Unfinished /\ stack'[n] = stack[n + 1] /\ ~ stack'[n].eoi
  BY <1>1, <1>2, <1>3
<1>5. Ir!Unfinished' = DOMAIN stack'
  BY <1>4 DEF Ir!Unfinished
<1>6. \A n \in Ir!Unfinished : n - 1 \in DOMAIN stack' /\ stack'[n - 1] = stack[n]
  BY <1>1, <1>3
<1>7. {stack[n].irq : n \in Ir!Unfinished} = {stack'[n].irq : n \in Ir!Unfinished'}
  BY <1>4, <1>5, <1>6
<1>8. pic' = pic
  BY DEF Ir!Iret
<1>9. pic'.isr = {stack'[n].irq : n \in Ir!Unfinished'}
  BY <1>7, <1>8 DEF Nested, Ir!ServiceIsStack
<1>10. \A i, j \in DOMAIN stack' : i < j => stack'[i].irq < stack'[j].irq
  <2> SUFFICES ASSUME NEW i \in DOMAIN stack', NEW j \in DOMAIN stack', i < j
               PROVE  stack'[i].irq < stack'[j].irq
    OBVIOUS
  <2>1. i + 1 \in DOMAIN stack /\ j + 1 \in DOMAIN stack /\ i + 1 < j + 1
    BY <1>1
  <2> QED
    BY <1>4, <2>1 DEF Nested, Ir!ServiceIsStack
<1> QED
  BY <1>4, <1>9, <1>10 DEF Nested, Ir!ServiceIsStack

\* The other steps leave the handlers and what is in service alone, and
\* interrupts are not turned on while a handler is only left to return.
LEMMA OtherStepsNest ==
  ASSUME Ir!Constants, Ir!TypeOK, Nested,
         \/ Ir!Compute \/ (\E kind \in Modes : Ir!Control(kind)) \/ (\E v \in Ir!Byte : Ir!Write(v))
         \/ (\E on \in BOOLEAN : Ir!InterruptsOn(on)) \/ (\E mask \in SUBSET Others : Ir!Mask(mask))
         \/ (\E irq \in Others : Ir!Raise(irq) \/ Ir!Lower(irq))
         \/ UNCHANGED Ir!vars
  PROVE  Nested' /\ pic'.isr = pic.isr
<1>1. pic'.isr = pic.isr
  <2>1. ASSUME NEW irq \in Others, Ir!Raise(irq) \/ Ir!Lower(irq)
        PROVE  pic'.isr = pic.isr
    <3>1. irq \in Ir!Irq
      BY DEF Ir!Constants
    <3> QED
      BY <2>1, <3>1, InService DEF Ir!Raise, Ir!Lower, Ir!TypeOK
  <2>2. ASSUME NEW mask \in SUBSET Others, Ir!Mask(mask)
        PROVE  pic'.isr = pic.isr
    <3>1. mask \in SUBSET Ir!Irq
      BY DEF Ir!Constants
    <3> QED
      BY <2>2, <3>1, InService DEF Ir!Mask, Ir!TypeOK
  <2> QED
    BY <2>1, <2>2 DEF Ir!Compute, Ir!Control, Ir!Write, Ir!InterruptsOn, Ir!vars
<1>2. stack' = stack
  BY DEF Ir!Compute, Ir!Control, Ir!Write, Ir!InterruptsOn, Ir!Mask, Ir!Raise, Ir!Lower, Ir!vars
<1>3. takes' = takes \/ ~ Ir!Returning
  BY DEF Ir!Compute, Ir!Control, Ir!Write, Ir!InterruptsOn, Ir!Mask, Ir!Raise, Ir!Lower, Ir!vars
<1>4. \A n \in DOMAIN stack : stack[n].eoi => n = 1 /\ ~ takes'
  <2> SUFFICES ASSUME NEW n \in DOMAIN stack, stack[n].eoi
               PROVE  n = 1 /\ ~ takes'
    OBVIOUS
  <2>1. n = 1 /\ ~ takes
    BY DEF Nested
  <2>2. stack # <<>> /\ Head(stack) = stack[1]
    <3>1. stack # <<>>
      BY OnStack, <2>1 DEF Ir!TypeOK
    <3> QED
      BY <3>1, Popped DEF Ir!TypeOK
  <2>3. Ir!Returning
    BY <2>1, <2>2 DEF Ir!Returning
  <2> QED
    BY <1>3, <2>1, <2>3
<1>5. Ir!ServiceIsStack'
  BY <1>1, <1>2 DEF Nested, Ir!ServiceIsStack, Ir!Unfinished
<1> QED
  BY <1>1, <1>2, <1>4, <1>5 DEF Nested

LEMMA NestedStep ==
  ASSUME Ir!Constants, Ir!TypeOK, Nested, [Ir!Next]_(Ir!vars)
  PROVE  /\ Nested'
         /\ pic.isr \subseteq pic'.isr \/ pic'.isr = pic.isr \ {Head(stack).irq}
<1>1. CASE Ir!Turn
  BY <1>1, TurnNests
<1>2. CASE Ir!Eoi
  BY <1>2, EoiNests
<1>3. CASE Ir!Iret
  <2>1. pic' = pic
    BY <1>3 DEF Ir!Iret
  <2> QED
    BY <1>3, <2>1, IretNests
<1>4. CASE \/ Ir!Compute \/ (\E kind \in Modes : Ir!Control(kind)) \/ (\E v \in Ir!Byte : Ir!Write(v))
           \/ (\E on \in BOOLEAN : Ir!InterruptsOn(on)) \/ (\E mask \in SUBSET Others : Ir!Mask(mask))
           \/ (\E irq \in Others : Ir!Raise(irq) \/ Ir!Lower(irq))
           \/ UNCHANGED Ir!vars
  BY <1>4, OtherStepsNest
<1> QED
  BY <1>1, <1>2, <1>3, <1>4 DEF Ir!Next, Ir!Guest

LEMMA NestedAlways ==
  ASSUME Ir!Constants
  PROVE  Ir!Spec => []Nested
<1>1. Ir!Init => Nested
  <2> SUFFICES ASSUME Ir!Init
               PROVE  Nested
    OBVIOUS
  <2>1. DOMAIN stack = {}
    BY DEF Ir!Init
  <2>2. pic.isr = {}
    BY DEF Ir!Init, Ir!pic_init
  <2> QED
    BY <2>1, <2>2 DEF Nested, Ir!ServiceIsStack, Ir!Unfinished
<1> QED
  BY <1>1, InterruptsTyped, NestedStep, PTL DEF Ir!Spec

(***************************************************************************)
(* What the controller has in service is what is being handled, and        *)
(* handlers only ever interrupt less urgent ones (pic_pending,             *)
(* cpu_interrupt).                                                         *)
(***************************************************************************)
THEOREM ServiceKept ==
  ASSUME Ir!Constants
  PROVE  Ir!Spec => []Ir!ServiceIsStack
<1>1. Nested => Ir!ServiceIsStack
  BY DEF Nested
<1> QED
  BY <1>1, NestedAlways, PTL

(***************************************************************************)
(* A non-specific end of interrupt (OCW2, pic_write) ends the handler that *)
(* sends it, however deeply handlers are nested.                           *)
(***************************************************************************)
THEOREM EndsOwn ==
  ASSUME Ir!Constants
  PROVE  Ir!Spec => Ir!EoiEndsOwn
<1>1. Ir!TypeOK /\ Nested /\ [Ir!Next]_(Ir!vars) =>
        [pic'.isr \subseteq pic.isr /\ pic'.isr # pic.isr
           => pic'.isr = pic.isr \ {Head(stack).irq}]_(Ir!vars)
  BY NestedStep
<1> QED
  BY <1>1, InterruptsTyped, NestedAlways, PTL DEF Ir!Spec, Ir!EoiEndsOwn

-----------------------------------------------------------------------------
(***************************************************************************)
(* One-shots.                                                              *)
(***************************************************************************)
\* A guest that uses the timer one way stays in mode 3 or its own mode, so a
\* count that runs in mode 0 was written in mode 0.
LEMMA ModeKept ==
  ASSUME Ir!Constants, Ir!OneUse
  PROVE  0 \notin Modes \/ Modes = {0}
  BY DEF Ir!Constants, Ir!OneUse

\* An instruction takes one tick and one instruction of the batch; unless it
\* loads a count it leaves the rest of OneShot alone.
LEMMA OneShotTicks ==
  ASSUME Ir!Constants, Ir!TypeOK, OneShot, NEW c \in Ir!Channel, Ir!Instruction(c),
         c.mode \in {3} \cup Modes, c.armed => c.mode \in Modes,
         c.mode = 0 /\ c.armed => channel.mode = 0 /\ channel.armed /\ c.due = channel.due,
         UNCHANGED <<short, inside, owed>>
  PROVE  OneShot'
<1>1. /\ channel'.mode = c.mode /\ channel'.armed = c.armed
      /\ channel'.due >= c.due - 1 /\ channel'.due \in Int /\ c.due \in Int
      /\ left' = left - 1 /\ left \in Int
  <2>1. c.due \in Int /\ Ir!Elapse(c).due \in Int
    BY Elapsed DEF Ir!Channel, Ir!Constants
  <2> QED
    BY <2>1, Elapsed DEF Ir!Instruction, Ir!TypeOK, Ir!Channel
<1>2. Limit' = Limit /\ Limit \in Nat \ {0}
  BY DEF Limit, Ir!Constants
<1> QED
  BY <1>1, <1>2 DEF OneShot

\* A count is written in the guest's own mode.  It is whole with its last
\* byte, and is then at least one tick away when the instruction has run.
LEMMA OneShotWrite ==
  ASSUME Ir!Constants, Ir!OneUse, Ir!TypeOK, OneShot, NEW v \in Ir!Byte, Ir!Write(v)
  PROVE  OneShot'
<1> DEFINE c == Ir!WriteCount(channel, v)
<1>1. /\ c \in Ir!Channel /\ c.mode = channel.mode
      /\ Ir!CountWhole(channel) => c.armed /\ c.due > 0
      /\ ~ Ir!CountWhole(channel) => c.armed = channel.armed /\ c.due = channel.due
  BY Written DEF Ir!TypeOK
<1>2. Ir!Instruction(c) /\ channel.mode \in Modes /\ short' = short
  BY DEF Ir!Write
<1>3. CASE ~ Ir!CountWhole(channel)
  <2>1. UNCHANGED <<short, inside, owed>>
    BY <1>3 DEF Ir!Write, Ir!TypeOK
  <2> HIDE DEF c
  <2> QED
    BY <1>1, <1>2, <1>3, <2>1, OneShotTicks DEF OneShot
<1>4. CASE Ir!CountWhole(channel)
  <2>1. inside' /\ (channel.mode = 0 => owed')
    BY <1>4 DEF Ir!Write
  <2>2. /\ channel'.mode = channel.mode /\ channel'.armed
        /\ channel'.due >= c.due - 1 /\ channel'.due \in Int /\ c.due \in Int /\ c.due > 0
    <3>1. c.due \in Int /\ Ir!Elapse(c).due \in Int
      BY <1>1, Elapsed DEF Ir!Channel, Ir!Constants
    <3> QED
      BY <1>1, <1>2, <1>4, <3>1, Elapsed DEF Ir!Instruction
  <2>3. left' = left - 1 /\ left \in Int /\ left <= Limit
    BY <1>2 DEF Ir!Instruction, Ir!TypeOK, OneShot
  <2>4. Limit' = Limit /\ Limit \in Nat \ {0}
    BY <1>2 DEF Limit, Ir!Constants
  <2> QED
    BY <1>2, <2>1, <2>2, <2>3, <2>4 DEF OneShot
<1> QED
  BY <1>3, <1>4

\* The next batch ends before a count that has not fired is due.
LEMMA OneShotTurn ==
  ASSUME Ir!Constants, Ir!TypeOK, OneShot, Ir!Turn
  PROVE  OneShot'
<1>1. /\ channel' \in Ir!Channel /\ channel'.mode = channel.mode
      /\ channel.mode = 0 => channel'.due = channel.due /\ (channel'.armed <=> channel.armed /\ channel.due > 0)
      /\ channel.mode # 0 => channel'.armed = channel.armed
  BY Fired DEF Ir!Turn, Ir!TypeOK
<1>2. /\ left' \in 1 .. BatchSize
      /\ channel'.mode = 0 /\ ~ channel'.armed => left' <= Unarmed
      /\ channel'.mode = 0 /\ channel'.armed /\ channel'.due > 0 => left' <= channel'.due
  BY <1>1, Limited DEF Ir!Turn
<1>3. (short' <=> channel'.mode = 0 /\ ~ channel'.armed) /\ ~ inside'
  BY DEF Ir!Turn
<1>4. channel'.mode \in {3} \cup Modes
  BY <1>1 DEF OneShot
<1>5. left' <= Limit'
  BY <1>2, <1>3 DEF Limit, Ir!Constants
<1>6. channel'.armed => channel'.mode \in Modes
  BY <1>1 DEF OneShot, Ir!TypeOK, Ir!Channel
<1>7. ASSUME channel'.mode = 0, channel'.armed
      PROVE  owed' /\ channel'.due >= left'
  <2>1. channel.mode = 0 /\ channel.armed /\ channel.due > 0 /\ channel.due = channel'.due /\ channel.due \in Int
    BY <1>1, <1>7 DEF Ir!TypeOK, Ir!Channel, Ir!Constants
  <2>2. owed /\ ~ Ir!TimerFires(channel)
    BY <2>1 DEF OneShot, Ir!TimerFires
  <2> QED
    BY <1>2, <1>7, <2>1, <2>2 DEF Ir!Turn
<1> QED
  BY <1>3, <1>4, <1>5, <1>6, <1>7 DEF OneShot

LEMMA OneShotStep ==
  ASSUME Ir!Constants, Ir!OneUse, Ir!TypeOK, OneShot, [Ir!Next]_(Ir!vars)
  PROVE  OneShot'
<1>1. CASE Ir!Turn
  BY <1>1, OneShotTurn
<1>2. ASSUME NEW v \in Ir!Byte, Ir!Write(v)
      PROVE  OneShot'
  BY <1>2, OneShotWrite
<1>3. ASSUME NEW kind \in Modes, Ir!Control(kind)
      PROVE  OneShot'
  <2> DEFINE c == Ir!ControlWord(channel, kind, 3)
  <2>1. kind \in {0, 3}
    BY DEF Ir!Constants
  <2>2. c \in Ir!Channel /\ c.mode = kind /\ c.armed = channel.armed /\ c.due = channel.due
    BY <2>1, Controlled DEF Ir!TypeOK
  <2>3. Ir!Instruction(c) /\ UNCHANGED <<short, inside, owed>>
    BY <1>3 DEF Ir!Control
  <2>4. channel.armed => channel.mode = kind
    BY <2>1 DEF OneShot, Ir!OneUse, Ir!Constants
  <2> HIDE DEF c
  <2> QED
    BY <2>2, <2>3, <2>4, OneShotTicks
<1>4. CASE \/ Ir!Compute \/ Ir!Eoi \/ Ir!Iret
           \/ (\E on \in BOOLEAN : Ir!InterruptsOn(on)) \/ (\E mask \in SUBSET Others : Ir!Mask(mask))
  <2>1. Ir!Instruction(channel) /\ UNCHANGED <<short, inside, owed>>
    BY <1>4 DEF Ir!Compute, Ir!Eoi, Ir!Iret, Ir!InterruptsOn, Ir!Mask
  <2> QED
    BY <2>1, OneShotTicks DEF OneShot, Ir!TypeOK
<1>5. CASE (\E irq \in Others : Ir!Raise(irq) \/ Ir!Lower(irq)) \/ UNCHANGED Ir!vars
  BY <1>5 DEF Ir!Raise, Ir!Lower, Ir!vars, OneShot, Limit
<1> QED
  BY <1>1, <1>2, <1>3, <1>4, <1>5 DEF Ir!Next, Ir!Guest

LEMMA OneShotAlways ==
  ASSUME Ir!Constants, Ir!OneUse
  PROVE  Ir!Spec => []OneShot
<1>1. Ir!Init => OneShot
  BY DEF Ir!Init, OneShot, Ir!pit_init, Limit, Ir!Constants
<1> QED
  BY <1>1, InterruptsTyped, OneShotStep, PTL DEF Ir!Spec

(***************************************************************************)
(* A one-shot interrupts once for each count written (dev_tick): IRQ0 is   *)
(* raised in mode 0 only for a count that has not had its interrupt.       *)
(***************************************************************************)
THEOREM OnePerCount ==
  ASSUME Ir!Constants, Ir!OneUse
  PROVE  Ir!Spec => Ir!OneIrqPerCount
<1>1. OneShot =>
        [left = 0 /\ left' > 0 /\ channel.mode = 0 /\ Ir!TimerFires(channel) => owed]_(Ir!vars)
  BY DEF OneShot, Ir!TimerFires
<1> QED
  BY <1>1, OneShotAlways, PTL DEF Ir!Spec, Ir!OneIrqPerCount

(***************************************************************************)
(* How late a one-shot is (dev_next_deadline and the batch cut to it): on  *)
(* time if its count was written before the batch, and otherwise by less   *)
(* than the batch, which is Unarmed long while the last one-shot is spent. *)
(***************************************************************************)
THEOREM OvershootIsBounded ==
  ASSUME Ir!Constants, Ir!OneUse
  PROVE  Ir!Spec => Ir!OvershootBounded
<1>1. ASSUME Ir!TypeOK, OneShot, left = 0, channel.mode = 0, Ir!TimerFires(channel)
      PROVE  /\ ~ inside => channel.due = 0
             /\ inside /\ short => - channel.due < Unarmed
             /\ inside /\ ~ short => - channel.due < BatchSize
  <2>1. channel.armed /\ channel.due <= 0 /\ channel.due \in Int
    BY <1>1 DEF Ir!TimerFires, Ir!TypeOK, Ir!Channel, Ir!Constants
  <2> QED
    BY <1>1, <2>1 DEF OneShot, Limit, Ir!Constants
<1>2. Ir!TypeOK /\ OneShot =>
        [left = 0 /\ left' > 0 /\ channel.mode = 0 /\ Ir!TimerFires(channel) =>
           CASE ~ inside           -> channel.due = 0
             [] inside /\ short   -> - channel.due < Unarmed
             [] inside /\ ~ short -> - channel.due < BatchSize]_(Ir!vars)
  BY <1>1
<1> QED
  BY <1>2, InterruptsTyped, OneShotAlways, PTL DEF Ir!Spec, Ir!OvershootBounded

(***************************************************************************)
(* All four together, as the run of the machine checks them.               *)
(***************************************************************************)
THEOREM InterruptsAreInOrder ==
  ASSUME Ir!Constants, Ir!OneUse
  PROVE  Ir!Spec => Ir!InterruptsInOrder
  BY ServiceKept, EndsOwn, OnePerCount, OvershootIsBounded, PTL DEF Ir!InterruptsInOrder

\* A behaviour of the parts is, for the interrupts, one of their own.
LEMMA InterruptsArePart ==
  Spec => Ir!Spec
<1>1. Init => Ir!Init
  BY DEF Init
<1>2. [Next]_vars => Ir!Next \/ UNCHANGED interrupts
  BY DEF Next, Only, vars
<1>3. UNCHANGED interrupts => UNCHANGED Ir!vars
  BY DEF interrupts, Ir!vars
<1> QED
  BY <1>1, <1>2, <1>3, PTL DEF Spec, Ir!Spec

\* InterruptsInOrder, the property of the run.
THEOREM InterruptsKeptInOrder ==
  Spec => InterruptsInOrder
<1>1. Ir!Constants /\ Ir!OneUse
  BY PartsAssumption
<1> QED
  BY <1>1, InterruptsArePart, InterruptsAreInOrder, PTL DEF InterruptsInOrder

-----------------------------------------------------------------------------
(***************************************************************************)
(* Snapshots, for any sections, any number of sessions and deaths at any   *)
(* write.  The slot is always one of three things: without a seal, cut off *)
(* somewhere; sealed by a save of this install, section for section a      *)
(* machine that was saved; or a file from elsewhere.  Only the second is   *)
(* both valid and without a section that fails half-way.                   *)
(***************************************************************************)

Machines == [Sn!Parts -> 0 .. MaxTime]
Pieces   == [tag : Sn!Range(Sections) \cup {"HASH", "none"}, rel : {Sn!Home, "other", "none"},
             at : 0 .. MaxTime, whole : BOOLEAN]

SnapshotTyped ==
  /\ saving \in {"down", "run", "save"} /\ broken \in BOOLEAN /\ full \in BOOLEAN
  /\ mode \in {"play", "record", "replay", "trainer"}
  /\ machine \in Machines /\ real \in 0 .. MaxTime + 1
  /\ wants \subseteq {"save", "load"} /\ ends \in Nat
  /\ slot \in Seq(Pieces) /\ Len(slot) <= Len(Sections) + 1
  /\ saved \subseteq Machines

\* A section as a save of machine m writes it.
SectionOf(x, t, m) ==
  x.tag = t /\ x.rel = Sn!Home /\ x.at = IF t \in Sn!Parts THEN m[t] ELSE 0

CutOff(f) == \A n \in DOMAIN f : f[n].tag # "HASH"

Sealed(f, m) ==
  /\ Len(f) = Len(Sections) + 1
  /\ \A n \in DOMAIN Sections : SectionOf(f[n], Sections[n], m) /\ f[n].whole
  /\ f[Len(Sections) + 1] = Sn!Seal(TRUE)

Foreign(f) ==
  \E rel \in {Sn!Home, "other"}, build \in Sn!Parts \cup {"this"}, intact \in BOOLEAN :
    /\ rel = Sn!Home => ~ intact \/ build # "this"
    /\ f = Sn!Elsewhere(rel, build, intact)

Ours(f) == CutOff(f) \/ \E m \in saved : Sealed(f, m)

\* The slot.  Until the first process ends, none of what it saved has been
\* exchanged for another file.
SlotKnown ==
  /\ Ours(slot) \/ Foreign(slot)
  /\ ends = 0 /\ saved # {} => saving # "down" /\ Ours(slot)

\* While a save is under way the slot holds the first sections of the machine,
\* which stands still.
Saving ==
  saving = "save" =>
    /\ Len(slot) <= Len(Sections)
    /\ \A n \in DOMAIN slot : SectionOf(slot[n], Sections[n], machine)

\* Until the player is told otherwise, the machine and what was saved of it are
\* of one moment, and not ahead of the wall clock.
Sound ==
  ~ broken =>
    /\ Sn!Whole(machine) /\ \A m \in saved : Sn!Whole(m)
    /\ saving # "down" => Sn!emu_time <= real

\* The inductive invariant.
SInv == SnapshotTyped /\ SlotKnown /\ Saving /\ Sound

-----------------------------------------------------------------------------
(***************************************************************************)
(* Finding a section in a file.                                            *)
(***************************************************************************)
\* The first of some places is one of them.
LEMMA LeastPlace ==
  ASSUME NEW n \in Nat, NEW I \in SUBSET (1 .. n), I # {}
  PROVE  Sn!Min(I) \in I
<1>1. I \in SUBSET Nat
  OBVIOUS
<1>2. \E x \in I : \A u \in I : x <= u
  BY <1>1, LeastElement
<1> QED
  BY <1>2 DEF Sn!Min

\* A section is found where it is.
LEMMA Found ==
  ASSUME NEW S, NEW file \in Seq(S), NEW t
  PROVE  /\ Sn!Has(file, t) <=> \E n \in DOMAIN file : file[n].tag = t
         /\ Sn!Has(file, t) => \E n \in DOMAIN file : file[n].tag = t /\ Sn!PieceOf(file, t) = file[n]
<1> DEFINE I == {n \in 1 .. Len(file) : file[n].tag = t}
<1>1. Sn!SelectInSeq(file, LAMBDA p : p.tag = t) = IF I # {} THEN Sn!Min(I) ELSE 0
  BY DEF Sn!SelectInSeq
<1>2. Len(file) \in Nat /\ DOMAIN file = 1 .. Len(file)
  BY Indexed
<1>3. I # {} => Sn!Min(I) \in I
  BY <1>2, LeastPlace
<1>4. Sn!Has(file, t) <=> I # {}
  BY <1>1, <1>2, <1>3 DEF Sn!Has
<1>5. I # {} => Sn!PieceOf(file, t) = file[Sn!Min(I)]
  BY <1>1 DEF Sn!PieceOf
<1> QED
  BY <1>2, <1>3, <1>4, <1>5

\* Nothing fails half-way in a file whose sections read.
LEMMA FirstBadIs ==
  ASSUME Sn!Constants, NEW file
  PROVE  /\ Sn!FirstBad(file) \in Nat
         /\ Sn!FirstBad(file) > Len(Sections) =>
              /\ Sn!FirstBad(file) = Len(Sections) + 1
              /\ \A t \in Sn!Parts : Sn!Has(file, t) => Sn!PieceOf(file, t).whole
<1> DEFINE Bad(t) == t \in Sn!Parts /\ Sn!Has(file, t) /\ ~Sn!PieceOf(file, t).whole
           I == {n \in 1 .. Len(Sections) : Bad(Sections[n])}
           n == Sn!SelectInSeq(Sections, LAMBDA t : Bad(t))
<1>1. Len(Sections) \in Nat /\ DOMAIN Sections = 1 .. Len(Sections)
  BY Indexed DEF Sn!Constants
<1>2. n = IF I # {} THEN Sn!Min(I) ELSE 0
  BY DEF Sn!SelectInSeq
<1>3. Sn!FirstBad(file) = IF n = 0 THEN Len(Sections) + 1 ELSE n
  BY DEF Sn!FirstBad
<1>4. I # {} => Sn!Min(I) \in I
  BY <1>1, LeastPlace
<1>5. I = {} => \A t \in Sn!Parts : ~ Bad(t)
  BY <1>1 DEF Sn!Parts, Sn!Range
<1> HIDE DEF I, n, Bad
<1>6. I \subseteq 1 .. Len(Sections)
  BY DEF I
<1>7. Sn!FirstBad(file) \in Nat /\ (Sn!FirstBad(file) > Len(Sections) => I = {})
  <2>1. CASE I = {}
    BY <1>1, <1>2, <1>3, <2>1
  <2>2. CASE I # {}
    <3>1. n \in 1 .. Len(Sections)
      BY <1>2, <1>4, <1>6, <2>2
    <3>2. Sn!FirstBad(file) = n
      BY <1>1, <1>3, <3>1
    <3> QED
      BY <1>1, <3>1, <3>2
  <2> QED
    BY <2>1, <2>2
<1>8. I = {} => Sn!FirstBad(file) = Len(Sections) + 1
  BY <1>2, <1>3
<1> QED
  BY <1>5, <1>7, <1>8 DEF Bad

\* A seal is a piece.
LEMMA SealIs ==
  ASSUME MaxTime \in Nat, NEW good \in BOOLEAN
  PROVE  Sn!Seal(good) \in Pieces /\ Sn!Seal(good).tag = "HASH" /\ Sn!Seal(good).whole = good
<1>1. Sn!Seal(good) = [tag |-> "HASH", rel |-> "none", at |-> 0, whole |-> good]
  BY DEF Sn!Seal, Sn!Piece
<1> QED
  BY <1>1 DEF Pieces

\* What a file from elsewhere holds.
LEMMA ElsewhereIs ==
  ASSUME Sn!Constants, NEW rel \in {Sn!Home, "other"}, NEW build, NEW intact \in BOOLEAN
  PROVE  LET f == Sn!Elsewhere(rel, build, intact) IN
         /\ f \in Seq(Pieces) /\ Len(f) = Len(Sections) + 1
         /\ \A n \in DOMAIN Sections :
              /\ f[n].tag = Sections[n] /\ f[n].rel = rel
              /\ f[n].whole <=> (build = "this" \/ Sections[n] # build)
         /\ f[Len(Sections) + 1] = Sn!Seal(intact)
<1> DEFINE f == Sn!Elsewhere(rel, build, intact)
           body == [n \in 1 .. Len(Sections) |->
                      Sn!Piece(Sections[n], rel, MaxTime, build = "this" \/ Sections[n] # build)]
<1>1. /\ Len(Sections) \in Nat /\ DOMAIN Sections = 1 .. Len(Sections)
      /\ \A n \in DOMAIN Sections : Sections[n] \in Sn!Range(Sections)
  BY Indexed DEF Sn!Constants, Sn!Range
<1>2. MaxTime \in Nat
  BY DEF Sn!Constants
<1>3. \A n \in 1 .. Len(Sections) : body[n] \in Pieces
  BY <1>1, <1>2 DEF Sn!Piece, Pieces
<1>4. body \in Seq(Pieces) /\ Len(body) = Len(Sections)
  BY <1>1, <1>3
<1>5. <<Sn!Seal(intact)>> \in Seq(Pieces)
  <2>1. Sn!Seal(intact) \in Pieces
    BY <1>2, SealIs
  <2> QED
    BY <2>1
<1>6. f = body \o <<Sn!Seal(intact)>>
  BY DEF Sn!Elsewhere
<1>7. \A n \in 1 .. Len(Sections) :
        /\ body[n].tag = Sections[n] /\ body[n].rel = rel
        /\ body[n].whole <=> (build = "this" \/ Sections[n] # build)
  BY DEF Sn!Piece
<1> HIDE DEF body, f
<1>8. /\ f \in Seq(Pieces) /\ Len(f) = Len(Sections) + 1
      /\ \A n \in 1 .. Len(Sections) : f[n] = body[n]
      /\ f[Len(Sections) + 1] = Sn!Seal(intact)
  BY <1>1, <1>4, <1>5, <1>6
<1>9. /\ \A n \in DOMAIN Sections :
              /\ f[n].tag = Sections[n] /\ f[n].rel = rel
              /\ f[n].whole <=> (build = "this" \/ Sections[n] # build)
  BY <1>1, <1>7, <1>8
<1> QED
  BY <1>8, <1>9 DEF f

\* In a file that has every section in its order and then the seal, each is
\* found there.
LEMMA InSectionOrder ==
  ASSUME Sn!Constants, NEW f \in Seq(Pieces), Len(f) = Len(Sections) + 1,
         f[Len(Sections) + 1].tag = "HASH",
         \A n \in DOMAIN Sections : f[n].tag = Sections[n]
  PROVE  /\ Sn!Has(f, "HASH") /\ Sn!PieceOf(f, "HASH") = f[Len(Sections) + 1]
         /\ \A t \in Sn!Range(Sections) :
              /\ Sn!Has(f, t)
              /\ \E n \in DOMAIN Sections : Sections[n] = t /\ Sn!PieceOf(f, t) = f[n]
<1>1. /\ Len(Sections) \in Nat /\ DOMAIN Sections = 1 .. Len(Sections)
      /\ DOMAIN f = 1 .. Len(Sections) + 1
  BY Indexed DEF Sn!Constants
<1>2. \A n \in DOMAIN f : n \in DOMAIN Sections \/ n = Len(Sections) + 1
  BY <1>1
<1>3. \A n \in DOMAIN Sections : n \in DOMAIN f /\ Sections[n] \in Sn!Range(Sections)
  BY <1>1 DEF Sn!Range
<1>4. Sn!Has(f, "HASH") /\ Sn!PieceOf(f, "HASH") = f[Len(Sections) + 1]
  <2>1. Len(Sections) + 1 \in DOMAIN f
    BY <1>1
  <2>2. Sn!Has(f, "HASH")
    BY <2>1, Found
  <2>3. PICK n \in DOMAIN f : f[n].tag = "HASH" /\ Sn!PieceOf(f, "HASH") = f[n]
    BY <2>2, Found
  <2> QED
    BY <1>2, <1>3, <2>2, <2>3 DEF Sn!Constants
<1>5. ASSUME NEW t \in Sn!Range(Sections)
      PROVE  /\ Sn!Has(f, t)
             /\ \E n \in DOMAIN Sections : Sections[n] = t /\ Sn!PieceOf(f, t) = f[n]
  <2>1. PICK k \in DOMAIN Sections : Sections[k] = t
    BY DEF Sn!Range
  <2>2. Sn!Has(f, t)
    BY <1>3, <2>1, Found
  <2>3. PICK n \in DOMAIN f : f[n].tag = t /\ Sn!PieceOf(f, t) = f[n]
    BY <2>2, Found
  <2>4. t # "HASH"
    BY DEF Sn!Constants
  <2> QED
    BY <1>2, <2>2, <2>3, <2>4
<1> QED
  BY <1>4, <1>5

-----------------------------------------------------------------------------
(***************************************************************************)
(* What a load makes of the three kinds of file.                           *)
(***************************************************************************)
\* A file without a seal is refused.
LEMMA CutOffInvalid ==
  ASSUME NEW f \in Seq(Pieces), CutOff(f)
  PROVE  ~ Sn!Valid(f)
<1>1. ~ Sn!Has(f, "HASH")
  BY Found DEF CutOff
<1> QED
  BY <1>1 DEF Sn!Valid, Sn!Has, Sn!SealAt

\* A file from elsewhere is refused, or fails half-way: its seal does not
\* match, or it is another install's, or one section is not as long as it should.
LEMMA ForeignBad ==
  ASSUME Sn!Constants, NEW f, Foreign(f), Sn!Valid(f)
  PROVE  Sn!FirstBad(f) <= Len(Sections)
<1>1. PICK rel \in {Sn!Home, "other"}, build \in Sn!Parts \cup {"this"}, intact \in BOOLEAN :
        (rel = Sn!Home => ~ intact \/ build # "this") /\ f = Sn!Elsewhere(rel, build, intact)
  BY DEF Foreign
<1>2. /\ f \in Seq(Pieces) /\ Len(f) = Len(Sections) + 1
      /\ \A n \in DOMAIN Sections :
           /\ f[n].tag = Sections[n] /\ f[n].rel = rel
           /\ f[n].whole <=> (build = "this" \/ Sections[n] # build)
      /\ f[Len(Sections) + 1] = Sn!Seal(intact)
  BY <1>1, ElsewhereIs
<1>3. f[Len(Sections) + 1].tag = "HASH" /\ (f[Len(Sections) + 1].whole <=> intact)
  BY <1>2, SealIs DEF Sn!Constants
<1>4. /\ Sn!Has(f, "HASH") /\ Sn!PieceOf(f, "HASH") = f[Len(Sections) + 1]
      /\ \A t \in Sn!Range(Sections) :
           /\ Sn!Has(f, t)
           /\ \E n \in DOMAIN Sections : Sections[n] = t /\ Sn!PieceOf(f, t) = f[n]
  BY <1>2, <1>3, InSectionOrder
<1>5. intact
  BY <1>3, <1>4 DEF Sn!Valid, Sn!SealAt, Sn!PieceOf
<1>6. rel = Sn!Home
  <2>1. "RELEASE" \in Sn!Range(Sections)
    BY DEF Sn!Constants
  <2> QED
    BY <1>2, <1>4, <2>1 DEF Sn!Valid
<1>7. build \in Sn!Parts /\ build # "this"
  BY <1>1, <1>5, <1>6
<1>8. Sn!Has(f, build) /\ ~ Sn!PieceOf(f, build).whole
  BY <1>2, <1>4, <1>7 DEF Sn!Parts
<1>9. Sn!FirstBad(f) \in Nat /\ Len(Sections) \in Nat /\ ~ (Sn!FirstBad(f) > Len(Sections))
  BY <1>7, <1>8, FirstBadIs, Indexed DEF Sn!Constants
<1> QED
  BY <1>9

\* What this install sealed loads as the machine that was saved.
LEMMA SealedLoads ==
  ASSUME Sn!Constants, NEW f \in Seq(Pieces), NEW m \in Machines, Sealed(f, m),
         Sn!FirstBad(f) > Len(Sections)
  PROVE  Sn!Applied(f) = m
<1>1. /\ Len(Sections) \in Nat /\ DOMAIN Sections = 1 .. Len(Sections)
      /\ Sn!FirstBad(f) = Len(Sections) + 1
  BY Indexed, FirstBadIs DEF Sn!Constants
<1>2. f[Len(Sections) + 1].tag = "HASH"
  BY DEF Sealed, Sn!Seal, Sn!Piece
<1>3. \A n \in DOMAIN Sections : SectionOf(f[n], Sections[n], m) /\ f[n].tag = Sections[n]
  BY DEF Sealed, SectionOf
<1>4. \A t \in Sn!Range(Sections) :
        /\ Sn!Has(f, t)
        /\ \E n \in DOMAIN Sections : Sections[n] = t /\ Sn!PieceOf(f, t) = f[n]
  BY <1>2, <1>3, InSectionOrder DEF Sealed
<1>5. ASSUME NEW t \in Sn!Parts
      PROVE  /\ Sn!Has(f, t) /\ Sn!PieceOf(f, t).at = m[t]
             /\ \E n \in 1 .. Sn!FirstBad(f) - 1 : Sections[n] = t
  <2>1. t \in Sn!Range(Sections)
    BY DEF Sn!Parts
  <2>2. PICK n \in DOMAIN Sections : Sections[n] = t /\ Sn!PieceOf(f, t) = f[n]
    BY <1>4, <2>1
  <2>3. Sn!PieceOf(f, t).at = m[t]
    BY <1>3, <2>2 DEF SectionOf
  <2>4. n \in 1 .. Sn!FirstBad(f) - 1
    BY <1>1
  <2> QED
    BY <1>4, <2>1, <2>2, <2>3, <2>4
<1>6. Sn!Applied(f) = [t \in Sn!Parts |-> m[t]]
  BY <1>5 DEF Sn!Applied
<1> QED
  BY <1>6 DEF Machines

\* Whatever is applied, every part stays within its type.
LEMMA AppliedTyped ==
  ASSUME Sn!Constants, machine \in Machines, NEW f \in Seq(Pieces)
  PROVE  Sn!Applied(f) \in Machines
<1>1. ASSUME NEW t, Sn!Has(f, t) PROVE Sn!PieceOf(f, t).at \in 0 .. MaxTime
  <2>1. PICK n \in DOMAIN f : Sn!PieceOf(f, t) = f[n]
    BY <1>1, Found
  <2>2. f[n] \in Pieces
    BY Indexed
  <2> QED
    BY <2>1, <2>2 DEF Pieces
<1> QED
  BY <1>1 DEF Sn!Applied, Machines

\* A load that does not fail half-way gives back a machine that was saved.
LEMMA CleanLoad ==
  ASSUME Sn!Constants, SnapshotTyped, SlotKnown, Sn!Valid(slot), Sn!FirstBad(slot) > Len(Sections)
  PROVE  Sn!Applied(slot) \in saved
<1>1. slot \in Seq(Pieces) /\ saved \subseteq Machines
  BY DEF SnapshotTyped
<1>2. Sn!FirstBad(slot) \in Nat /\ Len(Sections) \in Nat
  BY FirstBadIs, Indexed DEF Sn!Constants
<1>3. ~ CutOff(slot)
  BY <1>1, CutOffInvalid
<1>4. ~ Foreign(slot)
  BY <1>2, ForeignBad
<1>5. PICK m \in saved : Sealed(slot, m)
  BY <1>3, <1>4 DEF SlotKnown, Ours
<1> QED
  BY <1>1, <1>5, SealedLoads

-----------------------------------------------------------------------------
(***************************************************************************)
(* Each step keeps the invariant.                                          *)
(***************************************************************************)
\* The constants' consequences the steps use.
LEMMA Sized0 ==
  ASSUME Sn!Constants
  PROVE  /\ Len(Sections) \in Nat /\ DOMAIN Sections = 1 .. Len(Sections)
         /\ MaxTime \in Nat /\ "DEV" \in Sn!Parts
         /\ \A n \in DOMAIN Sections : Sections[n] \in Sn!Range(Sections) /\ Sections[n] # "HASH"
  BY Indexed DEF Sn!Constants, Sn!Parts, Sn!Range

\* A step that leaves the slot and what was saved leaves what is known of them,
\* unless a process ends that is the first.
LEMMA SlotStays ==
  ASSUME SlotKnown, slot' = slot, saved' = saved,
         ends' = ends, saving' = "down" => saving = "down"
  PROVE  SlotKnown'
<1>1. Ours(slot)' <=> Ours(slot)
  BY DEF Ours, CutOff, Sealed
<1>2. Foreign(slot)' <=> Foreign(slot)
  BY DEF Foreign, Sn!Elsewhere
<1> QED
  BY <1>1, <1>2 DEF SlotKnown

\* The guest runs, and the wall clock.
LEMMA TimeHolds == ASSUME Sn!Constants, SInv, Sn!Batch \/ Sn!Wall PROVE SInv'
<1>1. SnapshotTyped /\ SlotKnown /\ Sound /\ saving = "run" /\ saving' = "run" /\ machine \in Machines
      /\ UNCHANGED <<mode, broken, wants, slot, full, saved, ends>>
  BY DEF SInv, SnapshotTyped, Sn!Batch, Sn!Wall
<1>2. machine["DEV"] \in 0 .. MaxTime /\ real \in 0 .. MaxTime + 1 /\ MaxTime \in Nat
  BY <1>1, Sized0 DEF SnapshotTyped, Machines
<1>3. CASE Sn!Batch
  <2>1. /\ machine' = [p \in Sn!Parts |-> machine[p] + 1] /\ real' = real
        /\ machine["DEV"] < real /\ \A p \in Sn!Parts : machine[p] < MaxTime
    BY <1>3 DEF Sn!Batch, Sn!emu_time
  <2>2. machine' \in Machines
    BY <1>1, <1>2, <2>1 DEF Machines
  <2>3. ~ broken => Sn!Whole(machine')
    BY <1>1, <2>1 DEF Sound, Sn!Whole
  <2>4. machine'["DEV"] <= real'
    BY <1>2, <2>1, Sized0
  <2>5. Sound'
    BY <1>1, <2>3, <2>4 DEF Sound, Sn!Whole, Sn!emu_time
  <2> QED
    BY <1>1, <2>1, <2>2, <2>5, SlotStays DEF SInv, SnapshotTyped, Machines, Pieces, Saving
<1>4. CASE Sn!Wall
  <2>1. /\ machine' = machine /\ real <= MaxTime
        /\ real' = IF machine["DEV"] < real - 1 THEN machine["DEV"] ELSE real + 1
    BY <1>4 DEF Sn!Wall, Sn!emu_time
  <2>2. real' \in 0 .. MaxTime + 1 /\ (machine["DEV"] <= real => machine["DEV"] <= real')
    BY <1>2, <2>1
  <2>3. Sound'
    BY <1>1, <2>1, <2>2 DEF Sound, Sn!Whole, Sn!emu_time
  <2> QED
    BY <1>1, <2>1, <2>2, <2>3, SlotStays DEF SInv, SnapshotTyped, Machines, Pieces, Saving
<1> QED
  BY <1>3, <1>4

\* A key is pressed.
LEMMA KeyHolds ==
  ASSUME Sn!Constants, SInv, NEW want \in {"save", "load"}, Sn!Key(want)
  PROVE  SInv'
<1>1. /\ saving = "run" /\ saving' = saving /\ wants' = wants \cup {want} /\ SnapshotTyped /\ SlotKnown /\ Sound
      /\ UNCHANGED <<mode, machine, broken, real, slot, full, saved, ends>>
  BY DEF Sn!Key, SInv
<1> QED
  BY <1>1, SlotStays DEF SInv, SnapshotTyped, Machines, Pieces, Saving, Sound, Sn!Whole, Sn!emu_time

\* A save empties the slot.
LEMMA ServeSaveHolds == ASSUME Sn!Constants, SInv, Sn!ServeSave PROVE SInv'
<1>1. /\ saving = "run" /\ wants' = wants \ {"save"} /\ SnapshotTyped /\ SlotKnown /\ Sound
      /\ UNCHANGED <<mode, machine, broken, real, full, saved, ends>>
      /\ (saving' = "save" /\ slot' = <<>>) \/ (saving' = saving /\ slot' = slot)
  BY DEF Sn!ServeSave, Sn!Opened, SInv
<1>2. Sound'
  BY <1>1 DEF Sound, Sn!Whole, Sn!emu_time
<1>3. CASE saving' = saving /\ slot' = slot
  BY <1>1, <1>2, <1>3, SlotStays DEF SInv, SnapshotTyped, Machines, Pieces, Saving
<1>4. CASE saving' = "save" /\ slot' = <<>>
  <2>1. slot' \in Seq(Pieces) /\ Len(slot') = 0 /\ DOMAIN slot' = {}
    BY <1>4
  <2>2. SlotKnown' /\ Saving'
    BY <1>4, <2>1, Sized0 DEF SlotKnown, Saving, Ours, CutOff
  <2> QED
    BY <1>1, <1>2, <1>4, <2>1, <2>2, Sized0 DEF SInv, SnapshotTyped, Machines, Pieces
<1> QED
  BY <1>1, <1>3, <1>4

\* A load, of a valid file.
LEMMA LoadsClean ==
  ASSUME Sn!Constants, SInv, Sn!Valid(slot), Sn!Load(slot)
  PROVE  /\ machine' \in Machines /\ broken' \in BOOLEAN /\ real' \in 0 .. MaxTime + 1
         /\ ~ broken' => /\ ~ broken /\ machine' \in saved /\ Sn!Whole(machine')
                         /\ machine'["DEV"] <= real'
<1>1. SnapshotTyped /\ SlotKnown /\ Sound /\ machine \in Machines /\ slot \in Seq(Pieces)
  BY DEF SInv, SnapshotTyped
<1>2. machine' = Sn!Applied(slot) /\ machine' \in Machines
  BY <1>1, AppliedTyped DEF Sn!Load
<1>3. machine'["DEV"] \in 0 .. MaxTime /\ MaxTime \in Nat
  BY <1>2, Sized0 DEF Machines
<1>4. Sn!FirstBad(slot) \in Nat /\ Len(Sections) \in Nat
  BY FirstBadIs, Sized0
<1>5. CASE Sn!FirstBad(slot) <= Len(Sections)
  <2>1. broken' = TRUE /\ real' = real
    BY <1>5 DEF Sn!Load
  <2> QED
    BY <1>1, <1>2, <2>1 DEF SnapshotTyped
<1>6. CASE Sn!FirstBad(slot) > Len(Sections)
  <2>1. broken' = broken /\ real' = machine'["DEV"]
    BY <1>4, <1>6 DEF Sn!Load, Sn!Anchored
  <2>2. machine' \in saved
    BY <1>1, <1>2, <1>6, CleanLoad
  <2> QED
    BY <1>1, <1>2, <1>3, <2>1, <2>2 DEF SnapshotTyped, Sound
<1> QED
  BY <1>4, <1>5, <1>6

\* F8.
LEMMA ServeLoadHolds == ASSUME Sn!Constants, SInv, Sn!ServeLoad PROVE SInv'
<1>1. /\ saving = "run" /\ wants' = {} /\ SnapshotTyped /\ SlotKnown /\ Sound
      /\ UNCHANGED <<saving, mode, slot, full, saved, ends>>
      /\ UNCHANGED <<machine, broken, real>> \/ (Sn!Valid(slot) /\ Sn!Load(slot))
  BY DEF Sn!ServeLoad, SInv
<1>2. /\ machine' \in Machines /\ broken' \in BOOLEAN /\ real' \in 0 .. MaxTime + 1
      /\ Sound'
  <2>1. CASE UNCHANGED <<machine, broken, real>>
    BY <1>1, <2>1 DEF SnapshotTyped, Sound, Sn!Whole, Sn!emu_time
  <2>2. CASE Sn!Valid(slot) /\ Sn!Load(slot)
    BY <1>1, <2>2, LoadsClean DEF Sound, Sn!Whole, Sn!emu_time
  <2> QED
    BY <1>1, <2>1, <2>2
<1> QED
  BY <1>1, <1>2, SlotStays DEF SInv, SnapshotTyped, Machines, Pieces, Saving

\* The section that is written next.
LEMMA SaveSectionHolds == ASSUME Sn!Constants, SInv, Sn!SaveSection PROVE SInv'
<1>1. /\ saving = "save" /\ Len(slot) < Len(Sections) /\ full' \in {full, TRUE}
      /\ SnapshotTyped /\ Saving /\ Sound /\ slot \in Seq(Pieces) /\ full \in BOOLEAN
      /\ UNCHANGED <<saving, mode, machine, broken, real, wants, saved, ends>>
  BY DEF Sn!SaveSection, Sn!DiskFills, SInv, SnapshotTyped
<1>0. full' \in BOOLEAN
  BY <1>1
<1> DEFINE t == Sections[Len(slot) + 1]
           at == IF t \in Sn!Parts THEN machine[t] ELSE 0
<1>2. /\ Len(slot) \in Nat /\ DOMAIN slot = 1 .. Len(slot)
      /\ Len(Sections) \in Nat /\ DOMAIN Sections = 1 .. Len(Sections)
  BY <1>1, Indexed, Sized0
<1>3. t \in Sn!Range(Sections) /\ at \in 0 .. MaxTime
  BY <1>1, <1>2, Sized0 DEF SnapshotTyped, Machines
<1>4. PICK whole \in BOOLEAN : slot' = IF full' THEN slot ELSE Append(slot, Sn!Piece(t, Sn!Home, at, whole))
  BY DEF Sn!SaveSection, Sn!Written
<1>5. Sn!Piece(t, Sn!Home, at, whole) \in Pieces /\ SectionOf(Sn!Piece(t, Sn!Home, at, whole), t, machine)
  BY <1>3 DEF Sn!Piece, Pieces, SectionOf
<1> HIDE DEF at
<1>6. /\ slot' \in Seq(Pieces) /\ Len(slot') <= Len(Sections)
      /\ \A n \in DOMAIN slot' : SectionOf(slot'[n], Sections[n], machine)
  <2>1. CASE full'
    BY <1>1, <1>2, <1>4, <2>1 DEF Saving
  <2>2. CASE ~ full'
    <3> DEFINE x == Sn!Piece(t, Sn!Home, at, whole)
    <3>1. slot' = Append(slot, x) /\ x \in Pieces /\ SectionOf(x, t, machine)
      BY <1>4, <1>5, <2>2
    <3> HIDE DEF x, t
    <3>2. /\ slot' \in Seq(Pieces) /\ Len(slot') = Len(slot) + 1 /\ slot'[Len(slot) + 1] = x
          /\ \A n \in DOMAIN slot : slot'[n] = slot[n]
          /\ \A n \in DOMAIN slot' : n \in DOMAIN slot \/ n = Len(slot) + 1
      BY <1>1, <1>2, <3>1
    <3>3. \A n \in DOMAIN slot : SectionOf(slot[n], Sections[n], machine)
      BY <1>1 DEF Saving
    <3>4. SectionOf(x, Sections[Len(slot) + 1], machine)
      BY <3>1 DEF t
    <3> QED
      BY <1>1, <1>2, <3>2, <3>3, <3>4
  <2> QED
    BY <2>1, <2>2
<1>7. Saving'
  BY <1>1, <1>6 DEF Saving, SectionOf
<1>8. CutOff(slot')
  <2>1. \A n \in DOMAIN slot' : n \in DOMAIN Sections
    BY <1>2, <1>6, Indexed
  <2> QED
    BY <1>6, <2>1, Sized0 DEF CutOff, SectionOf
<1>9. SlotKnown'
  BY <1>1, <1>8 DEF SlotKnown, Ours
<1>10. Sound'
  BY <1>1 DEF Sound, Sn!Whole, Sn!emu_time
<1>11. SnapshotTyped'
  BY <1>0, <1>1, <1>2, <1>6 DEF SnapshotTyped, Machines, Pieces
<1> QED
  BY <1>7, <1>9, <1>10, <1>11 DEF SInv

\* The seal, over sections that are all whole and those of the machine, or no
\* file at all.
LEMMA SaveSealHolds == ASSUME Sn!Constants, SInv, Sn!SaveSeal PROVE SInv'
<1>1. /\ saving = "save" /\ saving' = "run" /\ (Len(slot) >= Len(Sections) \/ full)
      /\ SnapshotTyped /\ Saving /\ Sound /\ slot \in Seq(Pieces) /\ machine \in Machines
      /\ full \in BOOLEAN
      /\ UNCHANGED <<mode, machine, broken, real, wants, ends>>
  BY DEF Sn!SaveSeal, SInv, SnapshotTyped
<1>0. full' \in BOOLEAN
  BY <1>1 DEF Sn!SaveSeal, Sn!DiskFills
<1>2. /\ Len(slot) \in Nat /\ DOMAIN slot = 1 .. Len(slot) /\ Len(slot) <= Len(Sections)
      /\ Len(Sections) \in Nat /\ DOMAIN Sections = 1 .. Len(Sections) /\ MaxTime \in Nat
  BY <1>1, Indexed, Sized0 DEF Saving
<1>3. CutOff(slot)
  BY <1>1, <1>2, Sized0 DEF Saving, CutOff, SectionOf
<1>4. /\ slot' \in Seq(Pieces) /\ Len(slot') <= Len(Sections) + 1
      /\ saved' \subseteq saved \cup {machine}
      /\ CutOff(slot') \/ (machine \in saved' /\ Sealed(slot', machine))
  <2>1. CASE Sn!OutOfMemory
    <3> DEFINE x == Sn!Piece("none", "none", 0, FALSE)
    <3>1. slot' = <<x>> /\ saved' = saved
      BY <2>1 DEF Sn!SaveSeal, Sn!NoFile
    <3>2. x \in Pieces /\ x.tag # "HASH"
      BY <1>2 DEF Sn!Piece, Pieces
    <3> HIDE DEF x
    <3>3. <<x>> \in Seq(Pieces) /\ Len(<<x>>) = 1 /\ <<x>>[1] = x /\ DOMAIN <<x>> = {1}
      BY <3>2
    <3>4. CutOff(slot')
      BY <3>1, <3>2, <3>3 DEF CutOff
    <3> QED
      BY <1>2, <3>1, <3>3, <3>4
  <2>2. CASE ~ Sn!OutOfMemory
    <3>1. /\ slot' = IF full' THEN slot ELSE Append(slot, Sn!Seal(TRUE))
          /\ saved' = saved \cup {machine} /\ full' \in {full, TRUE}
      BY <2>2 DEF Sn!SaveSeal, Sn!Written, Sn!DiskFills
    <3>2. CASE full'
      BY <1>1, <1>2, <1>3, <3>1, <3>2
    <3>3. CASE ~ full'
      <4>1. Len(slot) >= Len(Sections)
        BY <1>1, <3>1, <3>3
      <4>2. Len(slot) = Len(Sections)
        <5>1. Len(slot) \in Nat /\ Len(Sections) \in Nat /\ Len(slot) <= Len(Sections)
          BY <1>2
        <5> QED
          BY <4>1, <5>1
      <4> DEFINE x == Sn!Seal(TRUE)
      <4>3. slot' = Append(slot, x) /\ x \in Pieces
        BY <1>2, <3>1, <3>3, SealIs
      <4> HIDE DEF x
      <4>4. /\ slot' \in Seq(Pieces) /\ Len(slot') = Len(Sections) + 1
            /\ slot'[Len(Sections) + 1] = x
            /\ \A n \in DOMAIN Sections : n \in DOMAIN slot /\ slot'[n] = slot[n]
        BY <1>1, <1>2, <4>2, <4>3
      <4>5. \A n \in DOMAIN slot : SectionOf(slot[n], Sections[n], machine) /\ slot[n].whole
        BY <1>1, <2>2 DEF Saving, Sn!OutOfMemory
      <4>6. Sealed(slot', machine)
        BY <4>4, <4>5 DEF Sealed, x
      <4>7. saved' \subseteq saved \cup {machine} /\ machine \in saved'
        BY <3>1
      <4>8. Len(slot') <= Len(Sections) + 1
        BY <1>2, <4>4
      <4> QED
        BY <4>4, <4>6, <4>7, <4>8
    <3> QED
      BY <3>2, <3>3
  <2> QED
    BY <2>1, <2>2
<1>5. SlotKnown'
  BY <1>1, <1>4 DEF SlotKnown, Ours, CutOff, Sealed
<1>6. Sound'
  BY <1>1, <1>4 DEF Sound, Sn!Whole, Sn!emu_time
<1>7. SnapshotTyped' /\ Saving'
  BY <1>0, <1>1, <1>4 DEF SnapshotTyped, Saving, Machines, Pieces
<1> QED
  BY <1>5, <1>6, <1>7 DEF SInv

\* The process ends, and the file may be exchanged before the next.
LEMMA BetweenHolds == ASSUME Sn!Constants, SInv, Sn!Die \/ Sn!Replace PROVE SInv'
<1>1. SnapshotTyped /\ SlotKnown /\ Sound /\ MaxTime \in Nat
  BY Sized0 DEF SInv
<1>2. CASE Sn!Die
  <2>1. /\ saving' = "down" /\ wants' = {} /\ ends' = ends + 1 /\ ends \in Nat
        /\ UNCHANGED <<mode, machine, broken, real, slot, full, saved>>
    BY <1>1, <1>2 DEF Sn!Die, SnapshotTyped
  <2>2. Ours(slot)' <=> Ours(slot)
    BY <2>1 DEF Ours, CutOff, Sealed
  <2>3. Foreign(slot)' <=> Foreign(slot)
    BY <2>1 DEF Foreign, Sn!Elsewhere
  <2>4. SlotKnown'
    BY <1>1, <2>1, <2>2, <2>3 DEF SlotKnown
  <2>5. SnapshotTyped' /\ Saving' /\ Sound'
    BY <1>1, <2>1 DEF SnapshotTyped, Machines, Pieces, Saving, Sound, Sn!Whole
  <2> QED
    BY <2>4, <2>5 DEF SInv
<1>3. CASE Sn!Replace
  <2>1. /\ saving = "down" /\ full' = FALSE
        /\ UNCHANGED <<saving, mode, machine, broken, real, wants, saved, ends>>
    BY <1>3 DEF Sn!Replace
  <2>2. PICK rel \in {Sn!Home, "other"}, build \in Sn!Parts \cup {"this"}, intact \in BOOLEAN :
          (rel = Sn!Home => ~ intact \/ build # "this") /\ slot' = Sn!Elsewhere(rel, build, intact)
    BY <1>3 DEF Sn!Replace
  <2>3. slot' \in Seq(Pieces) /\ Len(slot') = Len(Sections) + 1
    BY <2>2, ElsewhereIs
  <2>4. Foreign(slot')
    BY <2>2 DEF Foreign
  <2>5. SlotKnown'
    BY <1>1, <2>1, <2>4 DEF SlotKnown, Foreign, Sn!Elsewhere
  <2>6. Saving' /\ Sound'
    BY <1>1, <2>1 DEF Saving, Sound, Sn!Whole
  <2>7. Len(slot') <= Len(Sections) + 1
    BY <2>3, Sized0
  <2>8. SnapshotTyped'
    BY <1>1, <2>1, <2>3, <2>7 DEF SnapshotTyped, Machines, Pieces
  <2> QED
    BY <2>5, <2>6, <2>8 DEF SInv
<1> QED
  BY <1>2, <1>3

\* A session starts afresh, or from the slot.
LEMMA BootHolds == ASSUME Sn!Constants, SInv, Sn!Boot PROVE SInv'
<1>1. /\ saving = "down" /\ saving' = "run" /\ full' = FALSE
      /\ mode' \in {"play", "record", "replay", "trainer"}
      /\ UNCHANGED <<wants, slot, saved, ends>>
      /\ SnapshotTyped /\ SlotKnown /\ Sound /\ MaxTime \in Nat /\ "DEV" \in Sn!Parts
  BY Sized0 DEF Sn!Boot, SInv
<1>2. /\ machine' \in Machines /\ broken' \in BOOLEAN /\ real' \in 0 .. MaxTime + 1
      /\ Sound'
  <2>1. CASE machine' = [p \in Sn!Parts |-> 0] /\ real' = 0 /\ UNCHANGED broken
    <3>1. machine' \in Machines /\ Sn!Whole(machine') /\ machine'["DEV"] <= real' /\ 0 \in 0 .. MaxTime + 1
      BY <1>1, <2>1 DEF Machines, Sn!Whole
    <3> QED
      BY <1>1, <2>1, <3>1 DEF SnapshotTyped, Sound, Sn!Whole, Sn!emu_time
  <2>2. CASE Sn!Valid(slot) /\ Sn!Load(slot)
    BY <1>1, <2>2, LoadsClean DEF Sound, Sn!Whole, Sn!emu_time
  <2> QED
    BY <2>1, <2>2 DEF Sn!Boot
<1> QED
  BY <1>1, <1>2, SlotStays DEF SInv, SnapshotTyped, Machines, Pieces, Saving

-----------------------------------------------------------------------------
(***************************************************************************)
(* The theorems.                                                           *)
(***************************************************************************)
\* The first state.
LEMMA SnapshotInit == ASSUME Sn!Constants, Sn!Init PROVE SInv
<1>1. /\ saving = "down" /\ mode = "play" /\ machine = [p \in Sn!Parts |-> 0] /\ broken = FALSE
      /\ real = 0 /\ wants = {} /\ slot = Sn!NoFile /\ full = FALSE /\ saved = {} /\ ends = 0
  BY DEF Sn!Init
<1>2. /\ Len(Sections) \in Nat /\ MaxTime \in Nat /\ "DEV" \in Sn!Parts
  BY Sized0
<1> DEFINE x == Sn!Piece("none", "none", 0, FALSE)
<1>3. x \in Pieces /\ x.tag # "HASH" /\ slot = <<x>>
  BY <1>1, <1>2 DEF Sn!Piece, Pieces, Sn!NoFile
<1> HIDE DEF x
<1>4. <<x>> \in Seq(Pieces) /\ Len(<<x>>) = 1 /\ <<x>>[1] = x /\ DOMAIN <<x>> = {1}
  BY <1>3
<1>5. SlotKnown
  BY <1>1, <1>3, <1>4 DEF SlotKnown, Ours, CutOff
<1>6. machine \in Machines
  BY <1>1, <1>2 DEF Machines
<1>7. Saving /\ Sound
  BY <1>1 DEF Saving, Sound, Sn!Whole
<1>8. SnapshotTyped
  <2>1. 0 \in 0 .. MaxTime + 1 /\ Len(slot) <= Len(Sections) + 1 /\ slot \in Seq(Pieces)
    BY <1>2, <1>3, <1>4
  <2> QED
    BY <1>1, <1>6, <2>1 DEF SnapshotTyped
<1> QED
  BY <1>5, <1>7, <1>8 DEF SInv

\* Every step of a session, and what happens between two.
LEMMA SnapshotNext == ASSUME Sn!Constants, SInv, [Sn!Next]_(Sn!vars) PROVE SInv'
<1>1. CASE Sn!Batch \/ Sn!Wall \/ \E want \in {"save", "load"} : Sn!Key(want)
  BY <1>1, TimeHolds, KeyHolds
<1>2. CASE Sn!ServeSave \/ Sn!ServeLoad \/ Sn!SaveSection \/ Sn!SaveSeal
  BY <1>2, ServeSaveHolds, ServeLoadHolds, SaveSectionHolds, SaveSealHolds
<1>3. CASE Sn!Die \/ Sn!Replace \/ Sn!Boot
  BY <1>3, BetweenHolds, BootHolds
<1>4. CASE UNCHANGED Sn!vars
  BY <1>4, SlotStays DEF Sn!vars, SInv, SnapshotTyped, Machines, Pieces, Saving, Sound, Sn!Whole, Sn!emu_time
<1> QED
  BY <1>1, <1>2, <1>3, <1>4 DEF Sn!Next

\* The invariant holds in every state.
LEMMA SInvAlways ==
  ASSUME Sn!Constants
  PROVE  Sn!Spec => []SInv
<1>1. Sn!Init => SInv
  BY SnapshotInit
<1>2. SInv /\ [Sn!Next]_(Sn!vars) => SInv'
  BY SnapshotNext
<1> QED
  BY <1>1, <1>2, PTL DEF Sn!Spec

\* The parts of the machine, the slot and the session's flags have their types.
THEOREM SnapshotsTyped ==
  ASSUME Sn!Constants
  PROVE  Sn!Spec => []Sn!TypeOK
<1>1. SInv => Sn!TypeOK
  BY DEF SInv, SnapshotTyped, Machines, Sn!TypeOK
<1> QED
  BY <1>1, SInvAlways, PTL

\* Whatever the slot holds and wherever a save was cut off, the machine is never
\* made of two moments without the player being told.
THEOREM NeverMixed ==
  ASSUME Sn!Constants
  PROVE  Sn!Spec => []Sn!NoMixture
<1>1. SInv => Sn!NoMixture
  BY DEF SInv, Sound, Sn!NoMixture
<1> QED
  BY <1>1, SInvAlways, PTL

\* What a load puts the machine to was saved here: the only file that is valid
\* and reads to its end is one this install sealed.
THEOREM LoadsSaved ==
  ASSUME Sn!Constants
  PROVE  Sn!Spec => Sn!LoadsOnlySaved
<1>1. ASSUME SInv, Sn!ServeLoad, machine' # machine, ~ broken'
      PROVE  machine' \in saved
  <2>1. Sn!Valid(slot) /\ Sn!Load(slot)
    BY <1>1 DEF Sn!ServeLoad
  <2> QED
    BY <1>1, <2>1, LoadsClean
<1>2. SInv => [Sn!ServeLoad /\ machine' # machine /\ ~broken' => machine' \in saved]_(Sn!vars)
  BY <1>1
<1> QED
  BY <1>2, SInvAlways, PTL DEF Sn!LoadsOnlySaved

\* A recorded or replayed session's clock only goes forward.
THEOREM ClockForward ==
  ASSUME Sn!Constants
  PROVE  Sn!Spec => Sn!RecordedClockForward
<1>1. ASSUME SInv, [Sn!Next]_(Sn!vars), saving = "run", mode \in {"record", "replay"}, saving' = "run",
             NEW p \in Sn!Parts
      PROVE  machine'[p] >= machine[p]
  <2>1. machine[p] \in Nat /\ machine \in Machines
    BY <1>1, Sized0 DEF SInv, SnapshotTyped, Machines
  <2>2. machine' = machine \/ machine' = [q \in Sn!Parts |-> machine[q] + 1]
    BY <1>1 DEF Sn!Next, Sn!Batch, Sn!Wall, Sn!Key, Sn!ServeSave, Sn!ServeLoad, Sn!LoadRefused, Sn!Refused, Sn!SaveSection,
       Sn!SaveSeal, Sn!Die, Sn!Replace, Sn!Boot, Sn!vars
  <2> QED
    BY <2>1, <2>2
<1>2. SInv /\ [Sn!Next]_(Sn!vars) =>
        [saving = "run" /\ mode \in {"record", "replay"} /\ saving' = "run" =>
           \A p \in Sn!Parts : machine'[p] >= machine[p]]_(Sn!vars)
  BY <1>1
<1> QED
  BY <1>2, SInvAlways, PTL DEF Sn!Spec, Sn!RecordedClockForward

\* All that savestates promise.
THEOREM IsOneMoment ==
  ASSUME Sn!Constants
  PROVE  Sn!Spec => Sn!OneMoment
<1>1. SInv => Sn!NoMixture /\ Sn!NeverAhead
  BY DEF SInv, Sound, Sn!NoMixture, Sn!NeverAhead
<1>2. ASSUME SInv PROVE Sn!SealedIsWhole
  <2> SUFFICES ASSUME saved # {}, Sn!SealAt(slot) # 0, ends = 0, NEW n \in DOMAIN slot
               PROVE  slot[n].whole
    BY DEF Sn!SealedIsWhole
  <2>1. slot \in Seq(Pieces) /\ Ours(slot)
    BY <1>2 DEF SInv, SnapshotTyped, SlotKnown
  <2>2. ~ CutOff(slot)
    <3>1. Sn!Has(slot, "HASH")
      BY DEF Sn!Has, Sn!SealAt
    <3> QED
      BY <2>1, <3>1, Found DEF CutOff
  <2>3. PICK m \in saved : Sealed(slot, m)
    BY <2>1, <2>2 DEF Ours
  <2>4. n \in DOMAIN Sections \/ n = Len(Sections) + 1
    BY <2>1, <2>3, Indexed, Sized0 DEF Sealed
  <2>5. Sn!Seal(TRUE).whole
    BY Sized0, SealIs
  <2> QED
    BY <2>3, <2>4, <2>5 DEF Sealed
<1>3. SInv => Sn!SealedIsWhole
  BY <1>2
<1> QED
  BY <1>1, <1>3, SInvAlways, LoadsSaved, ClockForward, PTL DEF Sn!OneMoment

\* A behaviour of the parts is, for the snapshots, one of their own.
LEMMA SnapshotsArePart ==
  Spec => Sn!Spec
<1>1. Init => Sn!Init
  BY DEF Init
<1>2. [Next]_vars => Sn!Next \/ UNCHANGED snapshots
  BY DEF Next, Only, vars
<1>3. UNCHANGED snapshots => UNCHANGED Sn!vars
  BY DEF snapshots, Sn!vars
<1> QED
  BY <1>1, <1>2, <1>3, PTL DEF Spec, Sn!Spec

\* OneMoment, the property of the run.
THEOREM MachineIsOneMoment ==
  Spec => OneMoment
<1>1. Sn!Constants
  BY PartsAssumption
<1> QED
  BY <1>1, SnapshotsArePart, IsOneMoment, PTL DEF OneMoment

(***************************************************************************)
(* The timer's ports, for bytes of any range.  Ports says what the channel *)
(* is of the histories: the half-written count is the byte remembered, the *)
(* reload value the count that was meant, and a one-shot's next interrupt  *)
(* as far off as the time since it was loaded leaves.  Reading says what   *)
(* has been read of a latched count, and that the rest is still latched.   *)
(***************************************************************************)

Ports ==
  /\ ch \in Pt!Channel
  /\ wrote = IF ch.wr_hi THEN <<ch.wr_tmp>> ELSE <<>>
  /\ ch.wr_hi => ch.rw = 3
  /\ ch.reload = meant
  /\ elapsed = -1 \/ (elapsed \in Nat /\ ch.mode = 0 /\ ch.due = Pt!Period(ch.reload) - elapsed)

Reading ==
  /\ counted \in Seq(Pt!Byte) /\ Len(counted) <= 2 /\ value \in -1 .. Pt!Wrap - 1
  /\ IF value = -1 THEN Len(counted) = 0
     ELSE ch.rw = 3 =>
       /\ Len(counted) >= 1 => counted[1] = Pt!Lo(value)
       /\ Len(counted) = 2 => counted[2] = Pt!Hi(value)
       /\ Len(counted) < 2 => ch.latched /\ ch.latch = value /\ (ch.rd_hi <=> Len(counted) = 1)

LEMMA Bytes ==
  ASSUME Pt!Counting
  PROVE  /\ Pt!Wrap \in Nat \ {0} /\ Radix <= Pt!Wrap
         /\ \A x, v \in Pt!Byte : x + v * Radix \in 0 .. Pt!Wrap - 1
         /\ \A v \in Pt!Byte : v * Radix \in 0 .. Pt!Wrap - 1
         /\ \A v \in Pt!Byte : v \in 0 .. Pt!Wrap - 1
         /\ \A n \in 0 .. Pt!Wrap - 1 : Pt!Lo(n) \in Pt!Byte /\ Pt!Hi(n) \in Pt!Byte
<1>1. Pt!Wrap \in Nat \ {0} /\ Radix <= Pt!Wrap
  BY DEF Pt!Counting, Pt!Wrap
<1>2. ASSUME NEW v \in Pt!Byte
      PROVE  v * Radix \in Nat /\ v * Radix <= (Radix - 1) * Radix
  BY <1>2 DEF Pt!Counting, Pt!Byte
<1>3. (Radix - 1) * Radix = Pt!Wrap - Radix
  BY DEF Pt!Counting, Pt!Wrap
<1>4. ASSUME NEW x \in Pt!Byte, NEW v \in Pt!Byte
      PROVE  x + v * Radix \in 0 .. Pt!Wrap - 1
  BY <1>1, <1>2, <1>3 DEF Pt!Byte, Pt!Counting
<1>5. ASSUME NEW v \in Pt!Byte
      PROVE  v * Radix \in 0 .. Pt!Wrap - 1 /\ v \in 0 .. Pt!Wrap - 1
  BY <1>1, <1>2, <1>3 DEF Pt!Byte, Pt!Counting
<1>6. ASSUME NEW n \in 0 .. Pt!Wrap - 1
      PROVE  Pt!Lo(n) \in Pt!Byte /\ Pt!Hi(n) \in Pt!Byte
  BY DEF Pt!Byte, Pt!Counting, Pt!Wrap, Pt!Lo, Pt!Hi
<1> QED
  BY <1>1, <1>4, <1>5, <1>6

\* What is read of a count.
LEMMA Counts ==
  ASSUME Pt!Counting, NEW c \in Pt!Channel
  PROVE  /\ Pt!Period(c.reload) \in 1 .. Pt!Wrap
         /\ Pt!pit_count(c) \subseteq 0 .. Pt!Wrap - 1
         /\ Pt!ReadValues(c) \subseteq 0 .. Pt!Wrap - 1
<1>1. /\ Pt!Wrap \in Nat \ {0} /\ c.reload \in 0 .. Pt!Wrap - 1 /\ c.due \in Int
      /\ c.latch \in 0 .. Pt!Wrap - 1
  BY Bytes DEF Pt!Channel, Pt!Counting
<1>2. Pt!Period(c.reload) \in 1 .. Pt!Wrap
  BY <1>1 DEF Pt!Period
<1>3. \A n \in Int : n % Pt!Wrap \in 0 .. Pt!Wrap - 1
  BY <1>1
<1>4. Pt!pit_count(c) \subseteq 0 .. Pt!Wrap - 1
  BY <1>1, <1>2, <1>3 DEF Pt!pit_count
<1> QED
  BY <1>1, <1>2, <1>4 DEF Pt!ReadValues

\* What time, commands and bytes leave of a channel.
LEMMA Accessed ==
  ASSUME Pt!Counting, NEW c \in Pt!Channel
  PROVE  /\ c.due > - PortPast => [c EXCEPT !.due = c.due - 1] \in Pt!Channel
         /\ \A kind \in {0, 3}, rw \in 1 .. 3 : Pt!ControlWord(c, kind, rw) \in Pt!Channel
         /\ \A n \in 0 .. Pt!Wrap - 1 : /\ Pt!LatchCommand(c, n) \in Pt!Channel
                                       /\ Pt!LoadCount(c, n) \in Pt!Channel
         /\ Pt!AfterRead(c) \in Pt!Channel
         /\ \A v \in Pt!Byte : [c EXCEPT !.wr_tmp = v, !.wr_hi = TRUE] \in Pt!Channel
<1>1. Pt!Wrap \in Nat \ {0} /\ PortPast \in Nat
  BY Bytes DEF Pt!Counting
<1>2. c.due > - PortPast => [c EXCEPT !.due = c.due - 1] \in Pt!Channel
  <2>1. c.due > - PortPast => c.due - 1 \in - PortPast .. Pt!Wrap
    BY <1>1 DEF Pt!Channel
  <2> QED
    BY <2>1 DEF Pt!Channel
<1>7. \A v \in Pt!Byte : [c EXCEPT !.wr_tmp = v, !.wr_hi = TRUE] \in Pt!Channel
  BY DEF Pt!Channel
<1>3. \A kind \in {0, 3}, rw \in 1 .. 3 : Pt!ControlWord(c, kind, rw) \in Pt!Channel
  BY DEF Pt!Channel, Pt!ControlWord
<1>4. \A n \in 0 .. Pt!Wrap - 1 : Pt!LatchCommand(c, n) \in Pt!Channel
  BY DEF Pt!Channel, Pt!LatchCommand
<1>5. ASSUME NEW n \in 0 .. Pt!Wrap - 1 PROVE Pt!LoadCount(c, n) \in Pt!Channel
  <2>1. Pt!Period(n) \in - PortPast .. Pt!Wrap
    BY <1>1 DEF Pt!Period
  <2> QED
    BY <2>1 DEF Pt!Channel, Pt!LoadCount
<1>6. Pt!AfterRead(c) \in Pt!Channel
  BY DEF Pt!Channel, Pt!AfterRead
<1> QED
  BY <1>2, <1>3, <1>4, <1>5, <1>6, <1>7

LEMMA TimePassesHolds ==
  ASSUME Pt!Counting, Ports, Reading, Pt!TimePasses
  PROVE  Ports' /\ Reading'
<1>1. /\ ch.due > - PortPast /\ ch \in Pt!Channel /\ ch.due \in Int
      /\ ch' = [ch EXCEPT !.due = ch.due - 1]
  BY DEF Pt!TimePasses, Pt!Elapse, Ports, Pt!Channel, Pt!Counting
<1>2. /\ ch' \in Pt!Channel /\ ch'.due = ch.due - 1
      /\ ch'.reload = ch.reload /\ ch'.mode = ch.mode /\ ch'.rw = ch.rw /\ ch'.wr_hi = ch.wr_hi
      /\ ch'.wr_tmp = ch.wr_tmp /\ ch'.latch = ch.latch /\ ch'.latched = ch.latched
      /\ ch'.rd_hi = ch.rd_hi
  BY <1>1, Accessed DEF Pt!Channel
<1>3. Pt!Period(ch.reload) \in Int
  BY <1>1, Counts
<1> QED
  BY <1>1, <1>2, <1>3 DEF Ports, Reading, Pt!TimePasses, Pt!None

LEMMA ControlHolds ==
  ASSUME Pt!Counting, Ports, Reading, NEW kind \in {0, 3}, NEW rw \in 1 .. 3,
         Pt!Control(kind, rw)
  PROVE  Ports' /\ Reading'
<1>1. ch' \in Pt!Channel /\ ch' = [ch EXCEPT !.rw = rw, !.mode = kind, !.wr_hi = FALSE]
  BY Accessed DEF Ports, Pt!Control, Pt!ControlWord
<1>2. /\ ch'.reload = ch.reload /\ ch'.due = ch.due /\ ch'.mode = kind /\ ~ ch'.wr_hi
  BY <1>1 DEF Ports, Pt!Channel
<1>3. Ports'
  BY <1>1, <1>2 DEF Ports, Pt!Control, Pt!None
<1>4. counted' = <<>> /\ value' = -1
  BY DEF Pt!Control, Pt!None
<1>5. Pt!Wrap \in Nat \ {0}
  BY Bytes
<1> QED
  BY <1>3, <1>4, <1>5 DEF Reading

LEMMA LatchHolds ==
  ASSUME Pt!Counting, Ports, Reading, Pt!Latch
  PROVE  Ports' /\ Reading'
<1>1. PICK n \in Pt!pit_count(ch) :
        ch' = Pt!LatchCommand(ch, n) /\ counted' = <<>> /\ value' = n
  BY DEF Pt!Latch
<1>2. ch \in Pt!Channel /\ n \in 0 .. Pt!Wrap - 1 /\ Pt!Wrap \in Nat \ {0}
  BY Counts, Bytes DEF Ports
<1>3. ch' \in Pt!Channel /\ ch' = [ch EXCEPT !.latch = n, !.latched = TRUE, !.rd_hi = FALSE]
  BY <1>1, <1>2, Accessed DEF Pt!LatchCommand
<1>4. /\ ch'.latch = n /\ ch'.latched /\ ~ ch'.rd_hi
      /\ ch'.reload = ch.reload /\ ch'.mode = ch.mode /\ ch'.rw = ch.rw /\ ch'.wr_hi = ch.wr_hi
      /\ ch'.wr_tmp = ch.wr_tmp /\ ch'.due = ch.due
  BY <1>2, <1>3 DEF Pt!Channel
<1>5. Ports'
  BY <1>3, <1>4 DEF Ports, Pt!Latch
<1>6. Reading'
  BY <1>1, <1>2, <1>4 DEF Reading
<1> QED
  BY <1>5, <1>6

LEMMA WriteHolds ==
  ASSUME Pt!Counting, Ports, Reading, NEW v \in Pt!Byte, Pt!Write(v)
  PROVE  Ports' /\ Reading'
<1>1. /\ ch \in Pt!Channel /\ ch.wr_tmp \in Pt!Byte /\ ch.rw \in 1 .. 3 /\ ch.wr_hi \in BOOLEAN
      /\ ch.mode \in {0, 3}
  BY DEF Ports, Pt!Channel
<1>2. /\ v \in 0 .. Pt!Wrap - 1 /\ v * Radix \in 0 .. Pt!Wrap - 1
      /\ ch.wr_tmp + v * Radix \in 0 .. Pt!Wrap - 1
  BY <1>1, Bytes
<1>3. ASSUME NEW n \in 0 .. Pt!Wrap - 1, ch' = Pt!LoadCount(ch, n), wrote' = <<>>, meant' = n,
             elapsed' = IF ch.mode = 0 THEN 0 ELSE -1
      PROVE  /\ Ports'
             /\ ch'.rw = ch.rw /\ ch'.latch = ch.latch /\ ch'.latched = ch.latched /\ ch'.rd_hi = ch.rd_hi
  <2>1. ch' \in Pt!Channel
    BY <1>1, <1>3, Accessed
  <2>2. /\ ch'.reload = n /\ ch'.due = Pt!Period(n) /\ ~ ch'.wr_hi /\ ch'.mode = ch.mode
        /\ ch'.rw = ch.rw /\ ch'.latch = ch.latch /\ ch'.latched = ch.latched /\ ch'.rd_hi = ch.rd_hi
    BY <1>1, <1>3 DEF Pt!LoadCount, Pt!Channel
  <2>3. Pt!Period(n) - 0 = Pt!Period(n)
    BY <2>1, <2>2, Counts
  <2> QED
    BY <1>3, <2>1, <2>2, <2>3 DEF Ports
<1>4. CASE ch.rw # 3 \/ wrote # <<>>
  <2>1. /\ wrote' = <<>> /\ elapsed' = IF ch.mode = 0 THEN 0 ELSE -1
        /\ UNCHANGED <<counted, value>>
    BY <1>4 DEF Pt!Write, Pt!None
  <2>2. CASE ch.rw = 1
    <3>1. ch' = Pt!LoadCount(ch, v) /\ meant' = v
      BY <1>4, <2>2 DEF Pt!Write, Pt!WriteCount
    <3> QED
      BY <1>2, <1>3, <2>1, <3>1 DEF Reading
  <2>3. CASE ch.rw = 2
    <3>1. ch' = Pt!LoadCount(ch, v * Radix) /\ meant' = v * Radix
      BY <1>4, <2>3 DEF Pt!Write, Pt!WriteCount
    <3> QED
      BY <1>2, <1>3, <2>1, <3>1 DEF Reading
  <2>4. CASE ch.rw = 3
    <3>1. ch.wr_hi /\ wrote = <<ch.wr_tmp>>
      BY <1>4, <2>4 DEF Ports
    <3>2. ch' = Pt!LoadCount(ch, ch.wr_tmp + v * Radix) /\ meant' = ch.wr_tmp + v * Radix
      BY <1>4, <2>4, <3>1 DEF Pt!Write, Pt!WriteCount
    <3> QED
      BY <1>2, <1>3, <2>1, <3>2 DEF Reading
  <2> QED
    BY <1>1, <2>2, <2>3, <2>4
<1>5. CASE ch.rw = 3 /\ wrote = <<>>
  <2>1. ~ ch.wr_hi
    BY <1>5 DEF Ports
  <2>2. /\ ch' = [ch EXCEPT !.wr_tmp = v, !.wr_hi = TRUE] /\ wrote' = <<v>>
        /\ UNCHANGED <<meant, elapsed, counted, value>>
    BY <1>5, <2>1 DEF Pt!Write, Pt!WriteCount
  <2>3. /\ ch' \in Pt!Channel /\ ch'.wr_tmp = v /\ ch'.wr_hi /\ ch'.reload = ch.reload
        /\ ch'.due = ch.due /\ ch'.mode = ch.mode /\ ch'.rw = ch.rw /\ ch'.latch = ch.latch
        /\ ch'.latched = ch.latched /\ ch'.rd_hi = ch.rd_hi
    BY <1>1, <2>2, Accessed DEF Pt!Channel
  <2> QED
    BY <1>5, <2>2, <2>3 DEF Ports, Reading
<1> QED
  BY <1>4, <1>5

LEMMA ReadHolds ==
  ASSUME Pt!Counting, Ports, Reading, Pt!Read
  PROVE  Ports' /\ Reading'
<1>1. PICK n \in Pt!ReadValues(ch) :
        /\ ch' = Pt!AfterRead(ch)
        /\ counted' = IF value = -1 \/ Len(counted) = 2 THEN counted
                      ELSE Append(counted, Pt!ReadByte(ch, n))
        /\ UNCHANGED <<wrote, meant, elapsed, value>>
  BY DEF Pt!Read, Pt!None
<1>2. ch \in Pt!Channel /\ n \in 0 .. Pt!Wrap - 1 /\ Pt!Wrap \in Nat \ {0}
  BY Counts, Bytes DEF Ports
<1>3. /\ ch' \in Pt!Channel
      /\ ch'.reload = ch.reload /\ ch'.mode = ch.mode /\ ch'.rw = ch.rw /\ ch'.wr_hi = ch.wr_hi
      /\ ch'.wr_tmp = ch.wr_tmp /\ ch'.due = ch.due /\ ch'.latch = ch.latch
      /\ ch.rw = 3 => /\ ch'.rd_hi <=> ~ ch.rd_hi
                      /\ ch'.latched <=> ch.latched /\ ~ ch.rd_hi
  <2>1. ch' \in Pt!Channel
    BY <1>1, <1>2, Accessed
  <2>2. CASE ch.rw = 3
    <3>1. ch' = [ch EXCEPT !.rd_hi = ~ ch.rd_hi, !.latched = ch.latched /\ ~ ch.rd_hi]
      BY <1>1, <2>2 DEF Pt!AfterRead
    <3> QED
      BY <1>2, <2>1, <2>2, <3>1 DEF Pt!Channel
  <2>3. CASE ch.rw # 3
    <3>1. ch' = [ch EXCEPT !.latched = FALSE]
      BY <1>1, <2>3 DEF Pt!AfterRead
    <3> QED
      BY <1>2, <2>1, <2>3, <3>1 DEF Pt!Channel
  <2> QED
    BY <2>2, <2>3
<1>4. Ports'
  BY <1>1, <1>3 DEF Ports
<1> SUFFICES Reading'
  BY <1>4
<1>5. Pt!ReadByte(ch, n) \in Pt!Byte
  BY <1>2, Bytes DEF Pt!ReadByte
<1>6. /\ counted \in Seq(Pt!Byte) /\ Len(counted) \in 0 .. 2
      /\ Len(counted) # 2 => Len(counted) < 2
      /\ value \in -1 .. Pt!Wrap - 1
  <2>1. counted \in Seq(Pt!Byte) /\ Len(counted) <= 2 /\ value \in -1 .. Pt!Wrap - 1
    BY DEF Reading
  <2>2. Len(counted) \in Nat /\ Len(counted) <= 2
    BY <2>1, LenProperties
  <2>3. \A k \in Nat : k <= 2 => k \in 0 .. 2 /\ (k # 2 => k < 2)
    OBVIOUS
  <2> QED
    BY <2>1, <2>2, <2>3, Zenon
<1>7. CASE value = -1 \/ Len(counted) = 2
  <2>1. counted' = counted /\ value' = value
    BY <1>1, <1>7
  <2> QED
    BY <1>3, <1>7, <2>1 DEF Reading, Pt!Lo, Pt!Hi
<1>8. CASE value # -1 /\ Len(counted) # 2
  <2>1. counted' = Append(counted, Pt!ReadByte(ch, n)) /\ value' = value
    BY <1>1, <1>8
  <2>2. /\ counted' \in Seq(Pt!Byte) /\ Len(counted') = Len(counted) + 1
        /\ counted'[Len(counted) + 1] = Pt!ReadByte(ch, n)
        /\ Len(counted) = 1 => counted'[1] = counted[1]
    BY <1>5, <1>6, <1>8, <2>1
  <2>3. CASE ch.rw # 3
    BY <1>3, <1>6, <1>8, <2>1, <2>2, <2>3 DEF Reading
  <2>4. CASE ch.rw = 3
    <3>1. n = value /\ ch.latched /\ (ch.rd_hi <=> Len(counted) = 1)
      BY <1>1, <1>6, <1>8, <2>4 DEF Reading, Pt!ReadValues
    <3>2. Pt!ReadByte(ch, n) = IF Len(counted) = 1 THEN Pt!Hi(value) ELSE Pt!Lo(value)
      BY <2>4, <3>1 DEF Pt!ReadByte
    <3>3. Len(counted) = 1 => counted[1] = Pt!Lo(value)
      BY <1>8, <2>4 DEF Reading
    <3>4. ch'.rw = 3 /\ ch'.latch = value /\ (Len(counted) = 0 => ch'.latched /\ ch'.rd_hi)
      <4>1. ch.latch = value
        <5>1. Len(counted) < 2
          BY <1>6, <1>8
        <5> QED
          BY <1>8, <2>4, <5>1 DEF Reading
      <4>2. Len(counted) = 0 => ~ ch.rd_hi
        BY <3>1
      <4> QED
        BY <1>3, <2>4, <3>1, <4>1, <4>2
    <3> QED
      BY <1>6, <1>8, <2>1, <2>2, <3>2, <3>3, <3>4 DEF Reading, Pt!Lo, Pt!Hi
  <2> QED
    BY <2>3, <2>4
<1> QED
  BY <1>7, <1>8

LEMMA PortsAlways ==
  ASSUME Pt!Counting
  PROVE  Pt!Spec => [](Ports /\ Reading)
<1>1. Pt!Init => Ports /\ Reading
  <2> SUFFICES ASSUME Pt!Init PROVE Ports /\ Reading
    OBVIOUS
  <2>1. Pt!Wrap \in Nat \ {0} /\ Radix \in Nat \ {0} /\ PortPast \in Nat
    BY Bytes DEF Pt!Counting
  <2>2. ch \in Pt!Channel
    BY <2>1 DEF Pt!Init, Pt!pit_init, Pt!Channel, Pt!Byte
  <2>3. ~ ch.wr_hi /\ ch.reload = 0 /\ meant = 0 /\ wrote = <<>> /\ elapsed = -1
        /\ counted = <<>> /\ value = -1
    BY DEF Pt!Init, Pt!pit_init, Pt!None
  <2> QED
    BY <2>1, <2>2, <2>3 DEF Ports, Reading
<1>2. ASSUME Ports, Reading, [Pt!Next]_(Pt!vars) PROVE Ports' /\ Reading'
  <2>1. CASE UNCHANGED Pt!vars
    BY <1>2, <2>1 DEF Pt!vars, Ports, Reading
  <2>2. CASE Pt!Next
    BY <1>2, <2>2, TimePassesHolds, ControlHolds, LatchHolds, WriteHolds, ReadHolds DEF Pt!Next
  <2> QED
    BY <1>2, <2>1, <2>2
<1> QED
  BY <1>1, <1>2, PTL DEF Pt!Spec

\* The channel and the histories of the ports keep their types.
THEOREM PortsTyped ==
  ASSUME Pt!Counting
  PROVE  Pt!Spec => []Pt!TypeOK
<1>1. ASSUME Ports, Reading PROVE Pt!TypeOK
  <2>1. ch \in Pt!Channel /\ Pt!Wrap \in Nat \ {0} /\ PortPast \in Nat
    BY <1>1, Bytes DEF Ports, Pt!Counting
  <2>2. Pt!Period(ch.reload) \in 1 .. Pt!Wrap /\ ch.due \in - PortPast .. Pt!Wrap
    BY <2>1, Counts DEF Pt!Channel
  <2>3. elapsed \in -1 .. Pt!Wrap + PortPast
    BY <1>1, <2>1, <2>2 DEF Ports
  <2>4. Len(wrote) < 2
    BY <1>1 DEF Ports
  <2> QED
    BY <1>1, <2>1, <2>3, <2>4 DEF Pt!TypeOK, Reading, Pt!None
<1> QED
  BY <1>1, PortsAlways, PTL

\* What goes through the port is whole: a latched count is read as it was
\* frozen, a count that is loaded is the one that was meant, and a one-shot
\* that is read back tells, modulo its width, the time since it was loaded.
THEOREM PortsAreWhole ==
  ASSUME Pt!Counting
  PROVE  Pt!Spec => [](Pt!LatchReadsWhole /\ Pt!CountsWhatWasMeant /\ Pt!OneShotTellsTime)
<1>1. ASSUME Ports, Reading PROVE Pt!LatchReadsWhole
  <2> SUFFICES ASSUME ch.rw = 3, Len(counted) = 2
               PROVE  counted = <<Pt!Lo(value), Pt!Hi(value)>>
    BY DEF Pt!LatchReadsWhole
  <2>1. value # -1 /\ counted \in Seq(Pt!Byte)
    BY <1>1 DEF Reading
  <2>2. counted[1] = Pt!Lo(value) /\ counted[2] = Pt!Hi(value)
    BY <1>1, <2>1 DEF Reading
  <2> QED
    BY <2>1, <2>2
<1>2. ASSUME Ports, Reading PROVE Pt!CountsWhatWasMeant
  BY <1>2 DEF Ports, Pt!CountsWhatWasMeant
<1>3. ASSUME Ports, Reading PROVE Pt!OneShotTellsTime
  <2> SUFFICES ASSUME ch.mode = 0, elapsed # -1
               PROVE  \A n \in Pt!pit_count(ch) : n = (ch.reload - elapsed) % Pt!Wrap
    BY DEF Pt!OneShotTellsTime, Pt!None
  <2> DEFINE P == Pt!Period(ch.reload)
  <2>1. /\ Pt!Wrap \in Nat \ {0} /\ ch.reload \in 0 .. Pt!Wrap - 1 /\ P \in 1 .. Pt!Wrap
        /\ elapsed \in Nat /\ ch.due = P - elapsed
    BY <1>3, Bytes, Counts DEF Ports, Pt!Channel
  <2>2. P = ch.reload \/ (P = Pt!Wrap /\ ch.reload = 0)
    BY DEF Pt!Period
  <2>3. (P - elapsed) % Pt!Wrap = (ch.reload - elapsed) % Pt!Wrap
    <3>1. CASE P = ch.reload
      BY <3>1
    <3>2. CASE P = Pt!Wrap /\ ch.reload = 0
      <4>1. P - elapsed = (ch.reload - elapsed) + Pt!Wrap /\ ch.reload - elapsed \in Int
        BY <2>1, <3>2
      <4> QED
        BY <2>1, <4>1, Around
    <3> QED
      BY <2>2, <3>1, <3>2
  <2> HIDE DEF P
  <2>4. Pt!pit_count(ch) = {(P - elapsed) % Pt!Wrap}
    <3>1. Pt!pit_count(ch) = {IF ch.due >= P THEN P % Pt!Wrap ELSE ch.due % Pt!Wrap}
      BY DEF Pt!pit_count, P
    <3>2. ch.due >= P => ch.due = P
      BY <2>1
    <3> QED
      BY <2>1, <3>1, <3>2
  <2> QED
    BY <2>3, <2>4
<1> QED
  BY <1>1, <1>2, <1>3, PortsAlways, PTL

\* A behaviour of the parts is, for the timer's ports, one of their own.
LEMMA PortsArePart ==
  Spec => Pt!Spec
<1>1. Init => Pt!Init
  BY DEF Init
<1>2. [Next]_vars => Pt!Next \/ UNCHANGED timer
  BY DEF Next, Only, vars
<1>3. UNCHANGED timer => UNCHANGED Pt!vars
  BY DEF timer, Pt!vars
<1> QED
  BY <1>1, <1>2, <1>3, PTL DEF Spec, Pt!Spec

\* PortsTellTruth, the property of the run.
THEOREM PortsToldTruth ==
  Spec => []PortsTellTruth
<1>1. Pt!LatchReadsWhole /\ Pt!CountsWhatWasMeant /\ Pt!OneShotTellsTime => PortsTellTruth
  BY DEF PortsTellTruth
<1>2. Pt!Counting
  BY PartsAssumption
<1> QED
  BY <1>1, <1>2, PortsArePart, PortsAreWhole, PTL

(***************************************************************************)
(* The keyboard's services, for a ring, a screen and lines of any size.    *)
(* Ring says where the ring's indexes are; read as a queue, a put appends  *)
(* to it and a get takes its head, wrapped or not.  Shown says that the    *)
(* cursor stands behind the line that is read, on the row it began, and    *)
(* each of its characters is in its cell, as long as the line fits that    *)
(* row.                                                                    *)
(***************************************************************************)

\* Sequences that are one another's, but for an element at an end.
LEMMA IsAppend ==
  ASSUME NEW S, NEW q \in Seq(S), NEW k \in S, NEW r \in Seq(S), Len(r) = Len(q) + 1,
         \A i \in 1 .. Len(q) : r[i] = q[i], r[Len(q) + 1] = k
  PROVE  r = Append(q, k)
<1>1. /\ Append(q, k) \in Seq(S) /\ Len(Append(q, k)) = Len(q) + 1 /\ Len(q) \in Nat
      /\ \A i \in 1 .. Len(q) : Append(q, k)[i] = q[i]
      /\ Append(q, k)[Len(q) + 1] = k
  OBVIOUS
<1>2. \A i \in 1 .. Len(r) : i \in 1 .. Len(q) \/ i = Len(q) + 1
  BY <1>1
<1>3. \A i \in 1 .. Len(r) : r[i] = Append(q, k)[i]
  BY <1>1, <1>2
<1> QED
  BY <1>1, <1>3, SeqEqual

LEMMA IsTail ==
  ASSUME NEW S, NEW q \in Seq(S), q # <<>>, NEW r \in Seq(S), Len(r) = Len(q) - 1,
         \A i \in 1 .. Len(q) - 1 : r[i] = q[i + 1]
  PROVE  r = Tail(q)
  BY HeadTailProperties, SeqEqual

\* The services' steps; what is proved of them needs no fairness.
KeysSpec == Bs!Init /\ [][Bs!Next]_(Bs!vars)

Ring ==
  /\ head \in 0 .. Slots - 1 /\ tail \in 0 .. Slots - 1
  /\ buf \in [0 .. Slots - 1 -> Bs!Strokes]

\* How many words are queued, and which word the i-th of them is.
Fill(h, t) == IF t >= h THEN t - h ELSE t - h + Slots
Word(h, i) == IF h + i - 1 < Slots THEN h + i - 1 ELSE h + i - 1 - Slots

LEMMA Modulo ==
  ASSUME Bs!Sizes
  PROVE  /\ \A i \in 0 .. Slots - 1 : Bs!After(i) = IF i = Slots - 1 THEN 0 ELSE i + 1
         /\ \A h, t \in 0 .. Slots - 1 : (t - h + Slots) % Slots = Fill(h, t)
         /\ \A h \in 0 .. Slots - 1 : \A i \in 1 .. Slots : (h + i - 1) % Slots = Word(h, i)
<1>1. Slots \in Nat \ {0}
  BY DEF Bs!Sizes
<1>2. \A k \in 0 .. Slots - 1 : k % Slots = k
  <2> TAKE k \in 0 .. Slots - 1
  <2>1. 0 * Slots + k = k
    BY <1>1
  <2> QED
    BY <1>1, <2>1, Remainder
<1>3. \A k \in 0 .. Slots - 1 : (k + Slots) % Slots = k
  BY <1>1, <1>2, Around
<1>4. ASSUME NEW i \in 0 .. Slots - 1
      PROVE  Bs!After(i) = IF i = Slots - 1 THEN 0 ELSE i + 1
  <2>1. CASE i = Slots - 1
    <3>1. i + 1 = 0 + Slots /\ 0 \in 0 .. Slots - 1
      BY <1>1, <2>1
    <3> QED
      BY <1>3, <2>1, <3>1 DEF Bs!After
  <2>2. CASE i # Slots - 1
    <3>1. i + 1 \in 0 .. Slots - 1
      BY <1>1, <1>4, <2>2
    <3> QED
      BY <1>2, <2>2, <3>1 DEF Bs!After
  <2> QED
    BY <2>1, <2>2
<1>5. ASSUME NEW h \in 0 .. Slots - 1, NEW t \in 0 .. Slots - 1
      PROVE  (t - h + Slots) % Slots = Fill(h, t)
  <2>1. CASE t >= h
    <3>1. t - h \in 0 .. Slots - 1
      BY <1>1, <2>1
    <3> QED
      BY <1>3, <2>1, <3>1 DEF Fill
  <2>2. CASE ~ (t >= h)
    <3>1. t - h + Slots \in 0 .. Slots - 1
      BY <1>1, <2>2
    <3> QED
      BY <1>2, <2>2, <3>1 DEF Fill
  <2> QED
    BY <2>1, <2>2
<1>6. ASSUME NEW h \in 0 .. Slots - 1, NEW i \in 1 .. Slots
      PROVE  (h + i - 1) % Slots = Word(h, i)
  <2>1. CASE h + i - 1 < Slots
    <3>1. h + i - 1 \in 0 .. Slots - 1
      BY <1>1, <2>1
    <3> QED
      BY <1>2, <2>1, <3>1 DEF Word
  <2>2. CASE ~ (h + i - 1 < Slots)
    <3>1. h + i - 1 - Slots \in 0 .. Slots - 1 /\ h + i - 1 = (h + i - 1 - Slots) + Slots
      BY <1>1, <2>2
    <3> QED
      BY <1>3, <2>2, <3>1 DEF Word
  <2> QED
    BY <2>1, <2>2
<1> QED
  BY <1>4, <1>5, <1>6

\* The ring read as a queue.
QueueOf(h, t, words) == [i \in 1 .. Fill(h, t) |-> words[Word(h, i)]]

LEMMA RingQueue ==
  ASSUME Bs!Sizes, NEW h \in 0 .. Slots - 1, NEW t \in 0 .. Slots - 1,
         NEW words \in [0 .. Slots - 1 -> Bs!Strokes]
  PROVE  /\ [i \in 1 .. (t - h + Slots) % Slots |-> words[(h + i - 1) % Slots]]
              = QueueOf(h, t, words)
         /\ Fill(h, t) \in 0 .. Slots - 1
         /\ \A i \in 1 .. Fill(h, t) : Word(h, i) \in 0 .. Slots - 1
         /\ QueueOf(h, t, words) \in Seq(Bs!Strokes) /\ Len(QueueOf(h, t, words)) = Fill(h, t)
         /\ h = t <=> QueueOf(h, t, words) = <<>>
<1>1. Slots \in Nat \ {0}
  BY DEF Bs!Sizes
<1>2. Fill(h, t) \in 0 .. Slots - 1
  BY <1>1 DEF Fill
<1>3. \A i \in 1 .. Fill(h, t) : i \in 1 .. Slots /\ Word(h, i) \in 0 .. Slots - 1
  BY <1>1, <1>2 DEF Word
<1>4. [i \in 1 .. (t - h + Slots) % Slots |-> words[(h + i - 1) % Slots]] = QueueOf(h, t, words)
  BY <1>1, <1>3, Modulo DEF QueueOf
<1>5. \A i \in 1 .. Fill(h, t) : words[Word(h, i)] \in Bs!Strokes
  BY <1>3
<1>6. QueueOf(h, t, words) \in Seq(Bs!Strokes) /\ Len(QueueOf(h, t, words)) = Fill(h, t)
  BY <1>2, <1>5 DEF QueueOf
<1>7. Fill(h, t) = 0 <=> h = t
  BY <1>1 DEF Fill
<1>8. QueueOf(h, t, words) = <<>> <=> Len(QueueOf(h, t, words)) = 0
  BY <1>6, EmptySeq
<1> QED
  BY <1>2, <1>3, <1>4, <1>6, <1>7, <1>8

LEMMA QueuedIs ==
  ASSUME Bs!Sizes, Ring
  PROVE  Bs!Queued = QueueOf(head, tail, buf) /\ (Bs!Empty <=> Bs!Queued = <<>>)
<1>1. Bs!Queued = QueueOf(head, tail, buf)
  BY RingQueue DEF Ring, Bs!Queued
<1>2. head = tail <=> QueueOf(head, tail, buf) = <<>>
  BY RingQueue DEF Ring
<1> QED
  BY <1>1, <1>2 DEF Bs!Empty

LEMMA QueuedNext ==
  ASSUME Bs!Sizes, Ring'
  PROVE  /\ Bs!Queued' = QueueOf(head', tail', buf') /\ Bs!Queued' \in Seq(Bs!Strokes)
         /\ Len(Bs!Queued') = Fill(head', tail')
<1>1. /\ head' \in 0 .. Slots - 1 /\ tail' \in 0 .. Slots - 1
      /\ buf' \in [0 .. Slots - 1 -> Bs!Strokes]
  BY DEF Ring
<1>2. Bs!Queued' = QueueOf(head', tail', buf')
  BY <1>1, RingQueue DEF Bs!Queued
<1> QED
  BY <1>1, <1>2, RingQueue

LEMMA PutTypes ==
  ASSUME Bs!Sizes, Ring, NEW k \in Bs!Strokes, Bs!kbuf_put(k)
  PROVE  /\ Ring'
         /\ Bs!Queued' = IF Len(Bs!Queued) < Slots - 1 THEN Append(Bs!Queued, k) ELSE Bs!Queued
         /\ tail' # tail => buf'[tail] = k
<1>1. /\ Slots \in Nat \ {0} /\ head \in 0 .. Slots - 1 /\ tail \in 0 .. Slots - 1
      /\ buf \in [0 .. Slots - 1 -> Bs!Strokes]
      /\ Bs!After(tail) = IF tail = Slots - 1 THEN 0 ELSE tail + 1
  BY Modulo DEF Bs!Sizes, Ring
<1> DEFINE q == QueueOf(head, tail, buf)
<1>2. Bs!Queued = q /\ q \in Seq(Bs!Strokes) /\ Len(q) = Fill(head, tail)
  BY <1>1, QueuedIs, RingQueue
<1>3. CASE Bs!After(tail) = head
  <2>1. UNCHANGED <<head, tail, buf>>
    BY <1>3 DEF Bs!kbuf_put
  <2>2. Fill(head, tail) = Slots - 1
    BY <1>1, <1>3 DEF Fill
  <2>3. Ring' /\ Bs!Queued' = Bs!Queued
    BY <2>1 DEF Ring, Bs!Queued
  <2> QED
    BY <1>1, <1>2, <2>1, <2>2, <2>3
<1>4. CASE Bs!After(tail) # head
  <2>1. buf' = [buf EXCEPT ![tail] = k] /\ tail' = Bs!After(tail) /\ head' = head
    BY <1>4 DEF Bs!kbuf_put
  <2>2. Ring'
    BY <1>1, <2>1 DEF Ring
  <2>3. /\ Fill(head, tail) \in Nat /\ Fill(head, tail) < Slots - 1
        /\ Fill(head, tail') = Fill(head, tail) + 1
    BY <1>1, <1>4, <2>1 DEF Fill
  <2>4. Bs!Queued' = [i \in 1 .. Fill(head, tail) + 1 |-> buf'[Word(head, i)]]
    BY <2>1, <2>2, <2>3, QueuedNext DEF QueueOf
  <2>5. \A i \in 1 .. Fill(head, tail) : buf'[Word(head, i)] = buf[Word(head, i)]
    <3>1. \A i \in 1 .. Fill(head, tail) : Word(head, i) # tail /\ Word(head, i) \in 0 .. Slots - 1
      BY <1>1 DEF Word, Fill
    <3> QED
      BY <1>1, <2>1, <3>1
  <2>6. buf'[tail] = k /\ buf'[Word(head, Fill(head, tail) + 1)] = k
    <3>1. Word(head, Fill(head, tail) + 1) = tail
      BY <1>1 DEF Word, Fill
    <3> QED
      BY <1>1, <2>1, <3>1
  <2>7. Bs!Queued' = Append(q, k)
    <3>1. \A i \in 1 .. Fill(head, tail) + 1 :
            buf'[Word(head, i)] = IF i = Fill(head, tail) + 1 THEN k ELSE q[i]
      BY <2>3, <2>5, <2>6 DEF QueueOf
    <3> HIDE DEF q
    <3>2. Bs!Queued' \in Seq(Bs!Strokes) /\ Len(Bs!Queued') = Len(q) + 1
      BY <1>2, <2>1, <2>2, <2>3, QueuedNext
    <3>3. (\A i \in 1 .. Len(q) : (Bs!Queued')[i] = q[i]) /\ (Bs!Queued')[Len(q) + 1] = k
      BY <1>2, <2>3, <2>4, <3>1
    <3> QED
      BY <1>2, <3>2, <3>3, IsAppend
  <2> QED
    BY <1>2, <2>2, <2>3, <2>6, <2>7
<1> QED
  BY <1>3, <1>4

LEMMA GetTypes ==
  ASSUME Bs!Sizes, Ring, ~ Bs!Empty, Bs!kbuf_get
  PROVE  /\ Ring' /\ Bs!Queued # <<>> /\ Bs!Queued' = Tail(Bs!Queued)
         /\ given' = <<Head(Bs!Queued)>> /\ buf[head] \in Bs!Strokes
<1>1. /\ Slots \in Nat \ {0} /\ head \in 0 .. Slots - 1 /\ tail \in 0 .. Slots - 1 /\ head # tail
      /\ buf \in [0 .. Slots - 1 -> Bs!Strokes]
      /\ Bs!After(head) = IF head = Slots - 1 THEN 0 ELSE head + 1
  BY Modulo DEF Bs!Sizes, Ring, Bs!Empty
<1> DEFINE q == QueueOf(head, tail, buf)
<1>2. head' = Bs!After(head) /\ given' = <<buf[head]>> /\ tail' = tail /\ buf' = buf
  BY DEF Bs!kbuf_get
<1>3. Ring'
  BY <1>1, <1>2 DEF Ring
<1>4. /\ Fill(head, tail) \in Nat \ {0} /\ Fill(head', tail) = Fill(head, tail) - 1
      /\ Word(head, 1) = head
  BY <1>1, <1>2 DEF Fill, Word
<1>5. \A i \in 1 .. Fill(head, tail) - 1 : Word(head', i) = Word(head, i + 1)
  BY <1>1, <1>2 DEF Fill, Word
<1>6. Bs!Queued' = [i \in 1 .. Fill(head, tail) - 1 |-> buf[Word(head, i + 1)]]
  BY <1>2, <1>3, <1>4, <1>5, QueuedNext DEF QueueOf
<1>7. /\ Bs!Queued = q /\ q \in Seq(Bs!Strokes) /\ Len(q) = Fill(head, tail)
      /\ \A i \in 1 .. Fill(head, tail) : q[i] = buf[Word(head, i)]
  BY <1>1, QueuedIs, RingQueue DEF QueueOf
<1>8. Bs!Queued' = Tail(q) /\ q # <<>> /\ Head(q) = buf[head]
  <2> HIDE DEF q
  <2>1. q # <<>> /\ Head(q) = buf[head]
    BY <1>4, <1>7
  <2>2. \A i \in 1 .. Len(q) - 1 : (Bs!Queued')[i] = q[i + 1]
    BY <1>4, <1>6, <1>7
  <2>3. Bs!Queued' \in Seq(Bs!Strokes) /\ Len(Bs!Queued') = Len(q) - 1
    BY <1>2, <1>3, <1>4, <1>7, QueuedNext
  <2> QED
    BY <1>7, <2>1, <2>2, <2>3, IsTail
<1> QED
  BY <1>1, <1>2, <1>3, <1>7, <1>8 DEF Ring

LEMMA FifoStep ==
  ASSUME Bs!Sizes, Ring, [Bs!Next]_(Bs!vars)
  PROVE  /\ Ring'
         /\ \/ Bs!Promise!Next
            \/ UNCHANGED <<Bs!Queued, given>>
<1>1. ASSUME UNCHANGED <<head, tail, buf>>, UNCHANGED given
      PROVE  Ring' /\ UNCHANGED <<Bs!Queued, given>>
  BY <1>1 DEF Ring, Bs!Queued
<1>2. ASSUME NEW k \in Bs!Strokes, Bs!kbuf_put(k), UNCHANGED given
      PROVE  Ring' /\ Bs!Promise!Next
  <2>1. Bs!Promise!Type(k)
    BY <1>2, PutTypes DEF Bs!Promise!Type
  <2> QED
    BY <1>2, <2>1, PutTypes DEF Bs!Promise!Next
<1>3. ASSUME ~ Bs!Empty, Bs!kbuf_get
      PROVE  Ring' /\ Bs!Promise!Next
  <2>1. Bs!Promise!Give
    BY <1>3, GetTypes DEF Bs!Promise!Give
  <2> QED
    BY <1>3, <2>1, GetTypes DEF Bs!Promise!Next
<1>4. ASSUME NEW c \in Bs!Plain \cup Bs!Shifts, NEW down \in BOOLEAN, Bs!Int9(c, down)
      PROVE  Ring' /\ (Bs!Promise!Next \/ UNCHANGED <<Bs!Queued, given>>)
  <2>1. CASE c \notin Bs!Shifts /\ down
    <3>1. Bs!Ascii(c) \in Bs!Strokes /\ Bs!kbuf_put(Bs!Ascii(c)) /\ UNCHANGED given
      BY <1>4, <2>1 DEF Bs!Int9, Bs!Ascii, Bs!Plain, Bs!Strokes
    <3> QED
      BY <1>2, <3>1
  <2>2. CASE ~ (c \notin Bs!Shifts /\ down)
    BY <1>1, <1>4, <2>2 DEF Bs!Int9, Bs!ring
  <2> QED
    BY <2>1, <2>2
<1>5. ASSUME NEW k \in {97}, Bs!Stuff(k) PROVE Ring' /\ Bs!Promise!Next
  <2>1. k \in Bs!Strokes /\ Bs!kbuf_put(k) /\ UNCHANGED given
    BY <1>5 DEF Bs!Stuff, Bs!Strokes
  <2> QED
    BY <1>2, <2>1
<1>6. ASSUME \/ \E f \in {"int16", "line"}, on \in BOOLEAN : Bs!Call(f, on)
             \/ Bs!Write(65) \/ Bs!Timer \/ Bs!Waits
             \/ UNCHANGED Bs!vars
      PROVE  Ring' /\ UNCHANGED <<Bs!Queued, given>>
  BY <1>1, <1>6 DEF Bs!Call, Bs!Write, Bs!Timer, Bs!Waits, Bs!vars, Bs!ring
<1>7. ASSUME Bs!Int16 \/ Bs!LineKey PROVE Ring' /\ Bs!Promise!Next
  BY <1>3, <1>7 DEF Bs!Int16, Bs!LineKey
<1> QED
  BY <1>4, <1>5, <1>6, <1>7 DEF Bs!Next, Bs!Reads

LEMMA RingInit ==
  ASSUME Bs!Sizes, Bs!Init
  PROVE  Ring /\ Bs!Promise!Init
<1>1. Ring
  BY DEF Bs!Sizes, Bs!Init, Ring, Bs!Strokes
<1>2. Bs!Queued = <<>>
  BY <1>1, QueuedIs DEF Bs!Empty, Bs!Init
<1> QED
  BY <1>1, <1>2 DEF Bs!Promise!Init, Bs!Init

\* The ring in the BIOS data area (kbuf_put, kbuf_get) is the queue TypeAhead
\* promises: nothing is lost before it is full, given twice or out of order.
THEOREM RingIsQueue ==
  ASSUME Bs!Sizes
  PROVE  KeysSpec => Bs!Fifo
<1>1. Bs!Init => Ring /\ Bs!Promise!Init
  BY RingInit
<1>2. Ring /\ [Bs!Next]_(Bs!vars) => Ring' /\ [Bs!Promise!Next]_<<Bs!Queued, given>>
  BY FifoStep
<1> QED
  BY <1>1, <1>2, PTL DEF KeysSpec, Bs!Fifo, Bs!Promise!Spec

\* A letter is queued in the case the shift keys had when its code was read
\* (bios_int9).
THEOREM CaseIsTheShifts ==
  ASSUME Bs!Sizes
  PROVE  KeysSpec => Bs!CaseIsShifts
<1>1. ASSUME Ring, [Bs!Next]_(Bs!vars), NEW k \in {97, 65}, tail' # tail, buf'[tail] = k,
             ~ \E stroke \in Bs!Strokes : Bs!Stuff(stroke)
      PROVE  k = 65 <=> shift # {}
  <2>1. PICK c \in Bs!Plain \cup Bs!Shifts, down \in BOOLEAN : Bs!Int9(c, down)
    BY <1>1 DEF Bs!Next, Bs!Reads, Bs!Call, Bs!Write, Bs!Timer, Bs!Waits, Bs!Int16, Bs!LineKey,
                Bs!kbuf_get, Bs!vars, Bs!ring, Bs!Strokes
  <2>2. c \in Bs!Plain /\ Bs!kbuf_put(Bs!Ascii(c)) /\ Bs!Ascii(c) \in Bs!Strokes
    BY <1>1, <2>1 DEF Bs!Int9, Bs!Ascii, Bs!Plain, Bs!Strokes, Bs!ring
  <2>3. k = Bs!Ascii(c)
    BY <1>1, <2>2, PutTypes
  <2> QED
    BY <1>1, <2>2, <2>3 DEF Bs!Ascii, Bs!Plain, Bs!Enter, Bs!Back, Bs!Arrow
<1>2. Bs!Init => Ring
  BY RingInit
<1>3. Ring /\ [Bs!Next]_(Bs!vars) => Ring'
  BY FifoStep
<1>4. Ring /\ [Bs!Next]_(Bs!vars) => [Bs!CaseFollows]_(Bs!vars)
  BY <1>1 DEF Bs!CaseFollows
<1> QED
  BY <1>2, <1>3, <1>4, PTL DEF KeysSpec, Bs!CaseIsShifts

\* A teletype whose cursor is on its page.
OnPage(t) ==
  /\ t.pos[1] \in 0 .. Rows - 1 /\ t.pos[2] \in 0 .. Cols - 1
  /\ t.screen \in [0 .. Rows * Cols - 1 -> Int]

\* A line in the program's buffer, and on the screen where it began: the
\* cursor stands behind it and each character in its cell.
Buffered ==
  /\ line \in Seq(Int) /\ Len(line) <= MaxLine
  /\ shift \subseteq Bs!Shifts /\ waits \in {"runs", "int16", "line"}
  /\ enabled \in BOOLEAN /\ iflag \in BOOLEAN /\ halted \in BOOLEAN /\ oa_active \in BOOLEAN
  /\ oa_active => waits = "line"

Fits == waits = "line" /\ started # Bs!Nowhere /\ started[2] + MaxLine < Cols
Echoed ==
  Fits => /\ started[1] \in 0 .. Rows - 1 /\ started[2] \in 0 .. Cols - 1
          /\ pos[1] = started[1] /\ pos[2] = started[2] + Len(line)
          /\ \A i \in 1 .. Len(line) : screen[Bs!Cell(started) + i - 1] = line[i]

Shown == OnPage(Bs!Tty) /\ Buffered /\ Echoed

LEMMA CellOnPage ==
  ASSUME Bs!Sizes, NEW row \in 0 .. Rows - 1, NEW col \in 0 .. Cols - 1
  PROVE  row * Cols + col \in 0 .. Rows * Cols - 1 /\ row * Cols \in Int
<1>1. Rows \in Nat \ {0} /\ Cols \in Nat \ {0}
  BY DEF Bs!Sizes
<1>2. row * Cols \in Nat /\ row * Cols <= (Rows - 1) * Cols
  BY <1>1
<1>3. (Rows - 1) * Cols = Rows * Cols - Cols /\ Rows * Cols \in Nat
  BY <1>1
<1> QED
  BY <1>1, <1>2, <1>3

\* What one character does to the page.
LEMMA PutOnPage ==
  ASSUME Bs!Sizes, NEW t, OnPage(t), NEW c \in Int
  PROVE  OnPage(Bs!putch_tty(t, c)) /\ Bs!putch_tty(t, c).started \in {t.started, Bs!Nowhere}
<1>1. /\ Rows \in Nat \ {0} /\ Cols \in Nat \ {0} /\ Rows * Cols \in Nat
      /\ t.pos[1] \in 0 .. Rows - 1 /\ t.pos[2] \in 0 .. Cols - 1
      /\ t.screen \in [0 .. Rows * Cols - 1 -> Int]
  BY DEF Bs!Sizes, OnPage
<1> DEFINE sheet == IF c \in {13, 10, Bs!Back} THEN t.screen
                    ELSE [t.screen EXCEPT ![Bs!Cell(t.pos)] = c]
           p == Bs!Wrapped(Bs!Moved(t.pos, c))
<1>2. sheet \in [0 .. Rows * Cols - 1 -> Int]
  BY <1>1
<1>3. \A w \in [0 .. Rows * Cols - 1 -> Int] : Bs!Scrolled(w) \in [0 .. Rows * Cols - 1 -> Int]
  <2>1. \A i \in 0 .. Rows * Cols - 1 : i < (Rows - 1) * Cols => i + Cols \in 0 .. Rows * Cols - 1
    <3>1. (Rows - 1) * Cols = Rows * Cols - Cols
      BY <1>1
    <3> QED
      BY <1>1, <3>1
  <2> QED
    BY <2>1 DEF Bs!Scrolled, Bs!Blank
<1>4. p[1] \in 0 .. Rows /\ p[2] \in 0 .. Cols - 1
  <2> DEFINE q == Bs!Moved(t.pos, c)
  <2>1. q[1] \in 0 .. Rows /\ q[2] \in 0 .. Cols /\ (q[2] = Cols => q[1] < Rows)
    <3>1. CASE c = 13
      BY <1>1, <3>1 DEF Bs!Moved
    <3>2. CASE c # 13 /\ c = 10
      BY <1>1, <3>2 DEF Bs!Moved, Bs!Back
    <3>3. CASE c # 13 /\ c # 10 /\ c = Bs!Back
      BY <1>1, <3>3 DEF Bs!Moved
    <3>4. CASE c # 13 /\ c # 10 /\ c # Bs!Back
      BY <1>1, <3>4 DEF Bs!Moved
    <3> QED
      BY <3>1, <3>2, <3>3, <3>4
  <2> HIDE DEF q
  <2>2. p = IF q[2] >= Cols THEN <<q[1] + 1, 0>> ELSE q
    BY DEF Bs!Wrapped, q
  <2> QED
    BY <1>1, <2>1, <2>2
<1>5. Bs!putch_tty(t, c) =
        IF p[1] < Rows THEN [pos |-> p, screen |-> sheet, started |-> t.started]
        ELSE [pos |-> <<Rows - 1, p[2]>>, screen |-> Bs!Scrolled(sheet), started |-> Bs!Nowhere]
  BY DEF Bs!putch_tty
<1> HIDE DEF p, sheet
<1> QED
  BY <1>1, <1>2, <1>3, <1>4, <1>5 DEF OnPage

LEMMA PutInside ==
  ASSUME Bs!Sizes, NEW t, OnPage(t), NEW c \in Int, c \notin {13, 10, Bs!Back},
         t.pos[2] + 1 < Cols
  PROVE  Bs!putch_tty(t, c) = [pos |-> <<t.pos[1], t.pos[2] + 1>>,
                               screen |-> [t.screen EXCEPT ![Bs!Cell(t.pos)] = c],
                               started |-> t.started]
<1>1. /\ Rows \in Nat \ {0} /\ Cols \in Nat \ {0}
      /\ t.pos[1] \in 0 .. Rows - 1 /\ t.pos[2] \in 0 .. Cols - 1
  BY DEF Bs!Sizes, OnPage
<1>2. Bs!Wrapped(Bs!Moved(t.pos, c)) = <<t.pos[1], t.pos[2] + 1>>
  BY <1>1 DEF Bs!Wrapped, Bs!Moved
<1> QED
  BY <1>1, <1>2 DEF Bs!putch_tty

LEMMA BackInside ==
  ASSUME Bs!Sizes, NEW t, OnPage(t), t.pos[2] > 0
  PROVE  Bs!putch_tty(t, Bs!Back) = [pos |-> <<t.pos[1], t.pos[2] - 1>>, screen |-> t.screen,
                                     started |-> t.started]
<1>1. /\ Rows \in Nat \ {0} /\ Cols \in Nat \ {0}
      /\ t.pos[1] \in 0 .. Rows - 1 /\ t.pos[2] \in 0 .. Cols - 1
  BY DEF Bs!Sizes, OnPage
<1>2. Bs!Wrapped(Bs!Moved(t.pos, Bs!Back)) = <<t.pos[1], t.pos[2] - 1>>
  BY <1>1 DEF Bs!Wrapped, Bs!Moved, Bs!Back
<1> QED
  BY <1>1, <1>2 DEF Bs!putch_tty

\* Rubbing out leaves a blank under the cursor.
LEMMA RubInside ==
  ASSUME Bs!Sizes, NEW t, OnPage(t), t.pos[2] > 0
  PROVE  Bs!Rubbed(t) = [pos |-> <<t.pos[1], t.pos[2] - 1>>,
                         screen |-> [t.screen EXCEPT ![Bs!Cell(t.pos) - 1] = Bs!Blank],
                         started |-> t.started]
<1>1. /\ Rows \in Nat \ {0} /\ Cols \in Nat \ {0}
      /\ t.pos[1] \in 0 .. Rows - 1 /\ t.pos[2] \in 0 .. Cols - 1
  BY DEF Bs!Sizes, OnPage
<1> DEFINE back == Bs!putch_tty(t, Bs!Back)
           blank == Bs!putch_tty(back, Bs!Blank)
<1>2. back = [pos |-> <<t.pos[1], t.pos[2] - 1>>, screen |-> t.screen, started |-> t.started]
  BY BackInside
<1>3. OnPage(back) /\ back.pos[2] + 1 < Cols /\ Bs!Back \in Int /\ Bs!Blank \in Int
      /\ Bs!Blank \notin {13, 10, Bs!Back}
  <2>1. Bs!Back \in Int /\ Bs!Blank \in Int /\ Bs!Blank \notin {13, 10, Bs!Back}
    BY DEF Bs!Back, Bs!Blank
  <2>2. OnPage(back)
    BY <2>1, PutOnPage
  <2>3. back.pos[2] = t.pos[2] - 1
    BY <1>2
  <2> QED
    BY <1>1, <2>1, <2>2, <2>3
<1>4. blank = [pos |-> <<back.pos[1], back.pos[2] + 1>>,
               screen |-> [back.screen EXCEPT ![Bs!Cell(back.pos)] = Bs!Blank],
               started |-> back.started]
  BY <1>3, PutInside
<1>5. Bs!Cell(back.pos) = Bs!Cell(t.pos) - 1
  BY <1>1, <1>2, CellOnPage DEF Bs!Cell
<1>6. blank = [pos |-> <<t.pos[1], t.pos[2]>>,
               screen |-> [t.screen EXCEPT ![Bs!Cell(t.pos) - 1] = Bs!Blank],
               started |-> t.started]
  BY <1>1, <1>2, <1>4, <1>5
<1>7. OnPage(blank) /\ blank.pos[2] > 0
  <2>1. blank.pos[2] = t.pos[2]
    BY <1>6
  <2>2. OnPage(blank)
    <3> HIDE DEF back
    <3> QED
      BY <1>3, PutOnPage
  <2> QED
    BY <2>1, <2>2
<1>8. Bs!putch_tty(blank, Bs!Back) = [pos |-> <<blank.pos[1], blank.pos[2] - 1>>,
                                      screen |-> blank.screen, started |-> blank.started]
  BY <1>7, BackInside
<1> QED
  BY <1>6, <1>8 DEF Bs!Rubbed

\* The steps that leave the line and the page alone.
LEMMA RestShown ==
  ASSUME Bs!Sizes, Shown, UNCHANGED <<pos, screen, started, line>>,
         Buffered', waits' = "line" => waits = "line"
  PROVE  Shown'
  BY DEF Shown, OnPage, Bs!Tty, Echoed, Fits, Bs!Cell

LEMMA CallShown ==
  ASSUME Bs!Sizes, Shown, NEW f \in {"int16", "line"}, NEW on \in BOOLEAN, Bs!Call(f, on)
  PROVE  Shown'
<1>1. /\ waits = "runs" /\ waits' = f /\ enabled' = on /\ iflag' = FALSE
      /\ line' = IF f = "line" /\ ~oa_active THEN <<>> ELSE line
      /\ started' = IF f = "line" THEN pos ELSE started
      /\ UNCHANGED <<shift, halted, oa_active, pos, screen>>
  BY DEF Bs!Call
<1>2. ~ oa_active /\ line \in Seq(Int) /\ Len(line) <= MaxLine /\ MaxLine \in Nat
  BY <1>1 DEF Shown, Buffered, Bs!Sizes
<1>3. Buffered'
  <2>1. line' \in Seq(Int) /\ Len(line') <= MaxLine
    <3>1. CASE line' = <<>>
      BY <1>2, <3>1
    <3>2. CASE line' = line
      BY <1>2, <3>2
    <3> QED
      BY <1>1, <3>1, <3>2
  <2>2. waits' \in {"runs", "int16", "line"} /\ enabled' \in BOOLEAN /\ iflag' \in BOOLEAN
    BY <1>1
  <2>3. shift' \subseteq Bs!Shifts /\ halted' \in BOOLEAN /\ oa_active' \in BOOLEAN /\ ~ oa_active'
    BY <1>1, <1>2 DEF Shown, Buffered
  <2> QED
    BY <2>1, <2>2, <2>3 DEF Buffered
<1>4. OnPage(Bs!Tty)'
  BY <1>1 DEF Shown, OnPage, Bs!Tty
<1>5. Echoed'
  <2>1. CASE f = "line"
    <3>1. line' = <<>> /\ started' = pos /\ pos' = pos
      BY <1>1, <1>2, <2>1
    <3>2. pos[1] \in 0 .. Rows - 1 /\ pos[2] \in 0 .. Cols - 1 /\ Cols \in Nat
      BY DEF Shown, OnPage, Bs!Tty, Bs!Sizes
    <3> QED
      BY <3>1, <3>2 DEF Echoed
  <2>2. CASE f # "line"
    BY <1>1, <2>2 DEF Echoed, Fits
  <2> QED
    BY <2>1, <2>2
<1> QED
  BY <1>3, <1>4, <1>5 DEF Shown

LEMMA TtyNext ==
  ASSUME NEW t, Bs!Shows(t), OnPage(t)
  PROVE  OnPage(Bs!Tty)' /\ pos' = t.pos /\ screen' = t.screen /\ started' = t.started
  BY DEF Bs!Shows, OnPage, Bs!Tty

LEMMA WriteShown ==
  ASSUME Bs!Sizes, Shown, Bs!Write(65)
  PROVE  Shown'
<1>1. /\ waits = "runs" /\ UNCHANGED <<waits, enabled, iflag, halted, oa_active, line, shift>>
      /\ Bs!Shows(Bs!putch_tty(Bs!Tty, 65))
  BY DEF Bs!Write, Bs!input
<1>2. OnPage(Bs!putch_tty(Bs!Tty, 65))
  BY PutOnPage DEF Shown
<1> QED
  BY <1>1, <1>2, TtyNext DEF Shown, Buffered, Echoed, Fits

\* One key of line input.
LEMMA AppendShown ==
  ASSUME Bs!Sizes, Shown, waits = "line", NEW k \in Int, k \notin {13, 10, Bs!Back},
         Len(line) < MaxLine, line' = Append(line, k), Bs!Shows(Bs!putch_tty(Bs!Tty, k)),
         UNCHANGED waits
  PROVE  OnPage(Bs!Tty)' /\ Echoed'
<1>1. OnPage(Bs!putch_tty(Bs!Tty, k)) /\ OnPage(Bs!Tty)
  BY PutOnPage DEF Shown
<1>2. OnPage(Bs!Tty)'
  BY <1>1, TtyNext
<1> SUFFICES ASSUME Fits' PROVE Echoed'
  BY <1>2 DEF Echoed
<1>3. line \in Seq(Int) /\ Len(line) \in Nat /\ MaxLine \in Nat /\ Cols \in Nat /\ Rows \in Nat
  BY LenProperties DEF Shown, Buffered, Bs!Sizes
<1>4. started' \in {started, Bs!Nowhere}
  BY PutOnPage DEF Shown, Bs!Shows, Bs!Tty
<1>5. Fits /\ started' = started
  BY <1>4 DEF Fits
<1>6. /\ started[1] \in 0 .. Rows - 1 /\ started[2] \in 0 .. Cols - 1
      /\ pos[1] = started[1] /\ pos[2] = started[2] + Len(line)
      /\ \A i \in 1 .. Len(line) : screen[Bs!Cell(started) + i - 1] = line[i]
      /\ started[2] + MaxLine < Cols
  BY <1>5 DEF Shown, Echoed, Fits
<1>7. Bs!Tty.pos = pos /\ Bs!Tty.screen = screen /\ pos[2] + 1 < Cols
      /\ screen \in [0 .. Rows * Cols - 1 -> Int] /\ pos[2] \in 0 .. Cols - 1
  BY <1>1, <1>3, <1>6 DEF Bs!Tty, OnPage
<1>8. pos' = <<pos[1], pos[2] + 1>> /\ screen' = [screen EXCEPT ![Bs!Cell(pos)] = k]
  <2>1. Bs!putch_tty(Bs!Tty, k) = [pos |-> <<pos[1], pos[2] + 1>>,
                                   screen |-> [screen EXCEPT ![Bs!Cell(pos)] = k],
                                   started |-> Bs!Tty.started]
    BY <1>1, <1>7, PutInside
  <2> QED
    BY <2>1 DEF Bs!Shows
<1>9. /\ line' \in Seq(Int) /\ Len(line') = Len(line) + 1 /\ line'[Len(line) + 1] = k
      /\ \A i \in 1 .. Len(line) : line'[i] = line[i]
  BY <1>3
<1>10. Bs!Cell(pos) = Bs!Cell(started) + Len(line) /\ Bs!Cell(started) \in Int
       /\ Bs!Cell(pos) \in 0 .. Rows * Cols - 1
  <2>1. started[1] * Cols \in Int /\ started[1] * Cols + pos[2] \in 0 .. Rows * Cols - 1
    BY <1>6, <1>7, CellOnPage
  <2>2. Bs!Cell(pos) = started[1] * Cols + pos[2] /\ Bs!Cell(started) = started[1] * Cols + started[2]
    BY <1>6 DEF Bs!Cell
  <2>3. \A m \in Nat, col \in Int, row \in Int : row + (col + m) = (row + col) + m /\ row + col \in Int
    OBVIOUS
  <2>4. Len(line) \in Nat /\ started[2] \in Int /\ pos[2] = started[2] + Len(line)
    BY <1>3, <1>6
  <2>5. /\ started[1] * Cols + (started[2] + Len(line)) = started[1] * Cols + started[2] + Len(line)
        /\ started[1] * Cols + started[2] \in Int
    BY ONLY <2>1, <2>3, <2>4
  <2> QED
    BY ONLY <2>1, <2>2, <2>4, <2>5
<1>11. ASSUME NEW i \in 1 .. Len(line')
       PROVE  screen'[Bs!Cell(started) + i - 1] = line'[i]
  <2>1. CASE i = Len(line) + 1
    BY <1>3, <1>7, <1>8, <1>9, <1>10, <2>1
  <2>2. CASE i \in 1 .. Len(line)
    <3>1. Bs!Cell(started) + i - 1 # Bs!Cell(pos)
      BY <1>3, <1>10, <2>2
    <3> QED
      BY <1>6, <1>7, <1>8, <1>9, <2>2, <3>1
  <2> QED
    BY <1>3, <1>9, <2>1, <2>2
<1>12. pos'[1] = started[1] /\ pos'[2] = started[2] + Len(line')
  <2>1. \A m \in Nat, col \in Int : (col + m) + 1 = col + (m + 1)
    OBVIOUS
  <2>2. pos'[1] = pos[1] /\ pos'[2] = pos[2] + 1 /\ started[2] \in Int
    BY <1>6, <1>8
  <2> QED
    BY <1>3, <1>6, <1>9, <2>1, <2>2, Zenon
<1> QED
  BY <1>5, <1>6, <1>11, <1>12 DEF Echoed

LEMMA EraseShown ==
  ASSUME Bs!Sizes, Shown, waits = "line", line # <<>>,
         line' = SubSeq(line, 1, Len(line) - 1), Bs!Shows(Bs!Rubbed(Bs!Tty)), UNCHANGED waits
  PROVE  OnPage(Bs!Tty)' /\ Echoed' /\ line' \in Seq(Int) /\ Len(line') = Len(line) - 1
<1>1. OnPage(Bs!Tty) /\ Bs!Back \in Int /\ Bs!Blank \in Int
  BY DEF Shown, Bs!Back, Bs!Blank
<1> DEFINE back == Bs!putch_tty(Bs!Tty, Bs!Back)
           blank == Bs!putch_tty(back, Bs!Blank)
           done == Bs!putch_tty(blank, Bs!Back)
<1>2. OnPage(back) /\ back.started \in {Bs!Tty.started, Bs!Nowhere}
  BY <1>1, PutOnPage
<1>3. OnPage(blank) /\ blank.started \in {back.started, Bs!Nowhere}
  <2> HIDE DEF back
  <2> QED
    BY <1>1, <1>2, PutOnPage
<1>4. OnPage(done) /\ done.started \in {blank.started, Bs!Nowhere}
  <2> HIDE DEF blank
  <2> QED
    BY <1>1, <1>3, PutOnPage
<1>5. Bs!Rubbed(Bs!Tty) = done
  BY DEF Bs!Rubbed
<1> HIDE DEF back, blank, done
<1>6. OnPage(Bs!Tty)' /\ started' \in {started, Bs!Nowhere}
  <2>1. OnPage(Bs!Rubbed(Bs!Tty)) /\ Bs!Rubbed(Bs!Tty).started \in {Bs!Tty.started, Bs!Nowhere}
    BY <1>2, <1>3, <1>4, <1>5
  <2>2. Bs!Tty.started = started
    BY DEF Bs!Tty
  <2> QED
    BY <2>1, <2>2, TtyNext
<1>7. /\ line \in Seq(Int) /\ Len(line) \in Nat \ {0} /\ MaxLine \in Nat /\ Cols \in Nat /\ Rows \in Nat
      /\ Len(line) <= MaxLine
  BY EmptySeq DEF Shown, Buffered, Bs!Sizes
<1>8. /\ line' \in Seq(Int) /\ Len(line') = Len(line) - 1
      /\ \A i \in 1 .. Len(line) - 1 : line'[i] = line[i]
  <2>1. \A i \in 1 .. Len(line) - 1 : line[i] \in Int
    BY <1>7
  <2> DEFINE n == Len(line) - 1
  <2>2. n \in Int /\ n - 1 + 1 = n /\ (1 <= n => n - 1 + 1 = n) /\ (~ (1 <= n) => n = 0)
        /\ \A i \in 1 .. n : i \in Int /\ 1 + i - 1 = i
    <3>1. \A m \in Nat \ {0} :
            /\ m - 1 \in Int /\ m - 1 - 1 + 1 = m - 1 /\ (~ (1 <= m - 1) => m - 1 = 0)
            /\ \A i \in 1 .. m - 1 : i \in Int /\ 1 + i - 1 = i
      OBVIOUS
    <3> QED
      BY <1>7, <3>1, Zenon
  <2> HIDE DEF n
  <2>3. /\ SubSeq(line, 1, n) \in Seq(Int)
        /\ Len(SubSeq(line, 1, n)) = IF 1 <= n THEN n - 1 + 1 ELSE 0
        /\ \A i \in 1 .. n - 1 + 1 : SubSeq(line, 1, n)[i] = line[1 + i - 1]
    <3>1. \A i \in 1 .. n : line[i] \in Int
      BY <2>1 DEF n
    <3> QED
      BY <2>2, <3>1, SubSeqProperties
  <2>4. /\ SubSeq(line, 1, n) \in Seq(Int) /\ Len(SubSeq(line, 1, n)) = n
        /\ \A i \in 1 .. n : SubSeq(line, 1, n)[i] = line[i]
    BY <2>2, <2>3
  <2> QED
    BY <2>4 DEF n
<1>9. Echoed'
  <2> SUFFICES ASSUME Fits' PROVE Echoed'
    BY DEF Echoed
  <2>1. Fits /\ started' = started
    BY <1>6 DEF Fits
  <2>2. /\ started[1] \in 0 .. Rows - 1 /\ started[2] \in 0 .. Cols - 1
        /\ pos[1] = started[1] /\ pos[2] = started[2] + Len(line)
        /\ \A i \in 1 .. Len(line) : screen[Bs!Cell(started) + i - 1] = line[i]
        /\ started[2] + MaxLine < Cols
    BY <2>1 DEF Shown, Echoed, Fits
  <2>3. /\ Bs!Tty.pos = pos /\ Bs!Tty.screen = screen /\ pos[2] > 0
        /\ screen \in [0 .. Rows * Cols - 1 -> Int] /\ pos[2] \in 0 .. Cols - 1
    BY <1>1, <1>7, <2>2 DEF Bs!Tty, OnPage
  <2>4. /\ pos' = <<pos[1], pos[2] - 1>>
        /\ screen' = [screen EXCEPT ![Bs!Cell(pos) - 1] = Bs!Blank]
    <3>1. Bs!Rubbed(Bs!Tty) = [pos |-> <<pos[1], pos[2] - 1>>,
                               screen |-> [screen EXCEPT ![Bs!Cell(pos) - 1] = Bs!Blank],
                               started |-> Bs!Tty.started]
      BY <1>1, <2>3, RubInside
    <3> QED
      BY <3>1 DEF Bs!Shows
  <2>5. Bs!Cell(pos) = Bs!Cell(started) + Len(line) /\ Bs!Cell(started) \in Int
    <3>1. started[1] * Cols \in Int
      BY <1>7, <2>2
    <3> QED
      BY <1>7, <2>2, <3>1 DEF Bs!Cell
  <2>6. ASSUME NEW i \in 1 .. Len(line')
        PROVE  screen'[Bs!Cell(started) + i - 1] = line'[i]
    <3>1. i \in 1 .. Len(line) - 1
      BY <1>7, <1>8
    <3>2. Bs!Cell(started) + i - 1 # Bs!Cell(pos) - 1
      BY <1>7, <2>5, <3>1
    <3>3. screen'[Bs!Cell(started) + i - 1] = screen[Bs!Cell(started) + i - 1]
      BY <2>3, <2>4, <3>2
    <3>4. i \in 1 .. Len(line)
      BY <1>7, <3>1
    <3> QED
      BY <1>8, <2>2, <3>1, <3>3, <3>4
  <2>7. pos'[1] = started[1] /\ pos'[2] = started[2] + Len(line')
    BY <1>7, <1>8, <2>2, <2>4
  <2> QED
    BY <2>1, <2>2, <2>6, <2>7 DEF Echoed
<1> QED
  BY <1>6, <1>8, <1>9

LEMMA TakenShown ==
  ASSUME Bs!Sizes, Shown, waits = "line", NEW k \in Bs!Strokes, k # Bs!Enter, Bs!Taken(k),
         UNCHANGED <<shift, waits, enabled, iflag, halted, oa_active>>
  PROVE  Shown'
<1>1. /\ line \in Seq(Int) /\ Len(line) \in Nat /\ Len(line) <= MaxLine /\ MaxLine \in Nat
      /\ OnPage(Bs!Tty)
  BY LenProperties DEF Shown, Buffered, Bs!Sizes
<1>2. ASSUME line' \in Seq(Int), Len(line') <= MaxLine PROVE Buffered'
  BY <1>2 DEF Shown, Buffered
<1>3. CASE Bs!Erased(k)
  BY <1>1, <1>2, <1>3, EraseShown DEF Bs!Erased, Shown
<1>4. CASE UNCHANGED <<line, pos, screen, started>>
  BY <1>1, <1>2, <1>4, RestShown
<1>5. CASE /\ k = 0 /\ UNCHANGED <<pos, screen>> /\ started' = Bs!Nowhere
           /\ line' = IF Len(line) + 2 <= MaxLine THEN line \o <<0, 72>> ELSE line
  <2>1. line \o <<0, 72>> \in Seq(Int) /\ Len(line \o <<0, 72>>) = Len(line) + 2
    BY <1>1
  <2>2. Buffered'
    BY <1>1, <1>2, <1>5, <2>1
  <2> QED
    BY <1>1, <1>5, <2>2 DEF Shown, OnPage, Bs!Tty, Echoed, Fits
<1>6. CASE /\ k >= Bs!Blank /\ Len(line) < MaxLine
           /\ line' = Append(line, k) /\ Bs!Shows(Bs!putch_tty(Bs!Tty, k))
  <2>1. k \in Int /\ k \notin {13, 10, Bs!Back}
    BY <1>6 DEF Bs!Strokes, Bs!Blank, Bs!Back, Bs!Enter, Bs!Arrow
  <2>2. line' \in Seq(Int) /\ Len(line') <= MaxLine
    BY <1>1, <1>6, <2>1
  <2> QED
    BY <1>2, <1>6, <2>1, <2>2, AppendShown DEF Shown
<1> QED
  BY <1>3, <1>4, <1>5, <1>6 DEF Bs!Taken, Bs!tty

LEMMA KeyShown ==
  ASSUME Bs!Sizes, Shown, buf[head] \in Bs!Strokes, Bs!LineKey
  PROVE  Shown'
<1>1. waits = "line" /\ UNCHANGED <<shift, enabled, halted>>
  BY DEF Bs!LineKey
<1>2. CASE buf[head] # Bs!Enter
  BY <1>1, <1>2, TakenShown DEF Bs!LineKey
<1>3. CASE buf[head] = Bs!Enter
  <2>1. /\ waits' = "runs" /\ oa_active' = FALSE /\ iflag' = enabled /\ UNCHANGED line
        /\ Bs!Shows(Bs!putch_tty(Bs!putch_tty(Bs!Tty, 13), 10))
    BY <1>3 DEF Bs!LineKey
  <2>2. OnPage(Bs!putch_tty(Bs!Tty, 13))
    BY PutOnPage DEF Shown
  <2>3. OnPage(Bs!putch_tty(Bs!putch_tty(Bs!Tty, 13), 10))
    BY <2>2, PutOnPage
  <2>4. OnPage(Bs!Tty)'
    BY <2>1, <2>3, TtyNext
  <2> QED
    BY <1>1, <2>1, <2>4 DEF Shown, Buffered, Echoed, Fits
<1> QED
  BY <1>2, <1>3

LEMMA ShownInit ==
  ASSUME Bs!Sizes, Bs!Init
  PROVE  Shown
<1>1. Rows \in Nat \ {0} /\ Cols \in Nat \ {0} /\ MaxLine \in Nat
  BY DEF Bs!Sizes
<1>2. OnPage(Bs!Tty)
  BY <1>1 DEF Bs!Init, OnPage, Bs!Tty, Bs!Blank
<1>3. Buffered
  BY <1>1 DEF Bs!Init, Buffered
<1> QED
  BY <1>2, <1>3 DEF Shown, Echoed, Fits, Bs!Init

LEMMA ShownStep ==
  ASSUME Bs!Sizes, Ring, Shown, [Bs!Next]_(Bs!vars)
  PROVE  Shown'
<1>1. ASSUME UNCHANGED <<line, pos, screen, started, waits, enabled, oa_active>>,
             shift' \subseteq Bs!Shifts, iflag' \in BOOLEAN, halted' \in BOOLEAN
      PROVE  Shown'
  <2>1. Buffered'
    BY <1>1 DEF Shown, Buffered
  <2> QED
    BY <1>1, <2>1, RestShown
<1>2. shift \subseteq Bs!Shifts /\ iflag \in BOOLEAN /\ halted \in BOOLEAN /\ enabled \in BOOLEAN
  BY DEF Shown, Buffered
<1>3. ASSUME NEW c \in Bs!Plain \cup Bs!Shifts, NEW down \in BOOLEAN, Bs!Int9(c, down)
      PROVE  Shown'
  <2>1. shift' \subseteq Bs!Shifts
    BY <1>2, <1>3 DEF Bs!Int9
  <2> QED
    BY <1>1, <1>2, <1>3, <2>1 DEF Bs!Int9, Bs!tty, Bs!Woken
<1>4. ASSUME NEW k \in {97}, Bs!Stuff(k) PROVE Shown'
  BY <1>1, <1>2, <1>4 DEF Bs!Stuff, Bs!input, Bs!tty
<1>5. ASSUME Bs!Timer PROVE Shown'
  BY <1>1, <1>2, <1>5 DEF Bs!Timer, Bs!tty, Bs!Woken
<1>6. ASSUME Bs!Waits PROVE Shown'
  <2>1. Buffered' /\ UNCHANGED <<line, pos, screen, started, waits>>
    BY <1>2, <1>6 DEF Bs!Waits, Bs!tty, Shown, Buffered
  <2> QED
    BY <2>1, RestShown
<1>7. ASSUME Bs!Int16 PROVE Shown'
  <2>1. Buffered' /\ UNCHANGED <<line, pos, screen, started>> /\ waits' = "runs"
    BY <1>2, <1>7 DEF Bs!Int16, Bs!tty, Shown, Buffered
  <2> QED
    BY <2>1, RestShown
<1>8. ASSUME Bs!LineKey PROVE Shown'
  BY <1>8, GetTypes, KeyShown DEF Bs!LineKey
<1>9. ASSUME UNCHANGED Bs!vars PROVE Shown'
  BY <1>1, <1>2, <1>9 DEF Bs!vars, Bs!input, Bs!tty
<1> QED
  BY <1>3, <1>4, <1>5, <1>6, <1>7, <1>8, <1>9, CallShown, WriteShown DEF Bs!Next, Bs!Reads

LEMMA ShownAlways ==
  ASSUME Bs!Sizes
  PROVE  KeysSpec => [](Ring /\ Shown)
<1>1. Bs!Init => Ring /\ Shown
  BY RingInit, ShownInit
<1>2. Ring /\ Shown /\ [Bs!Next]_(Bs!vars) => Ring' /\ Shown'
  BY FifoStep, ShownStep
<1> QED
  BY <1>1, <1>2, PTL DEF KeysSpec

\* The ring, the teletype and the calls' variables keep their types, and the
\* cursor stays on the screen.
THEOREM BiosTyped ==
  ASSUME Bs!Sizes
  PROVE  KeysSpec => []Bs!TypeOK
<1>1. ASSUME Ring, Shown PROVE Bs!TypeOK
  <2>1. pos[1] \in 0 .. Rows - 1 /\ pos[2] \in 0 .. Cols - 1
    BY <1>1 DEF Shown, OnPage, Bs!Tty
  <2> QED
    BY <1>1, <2>1 DEF Ring, Shown, Buffered, Bs!TypeOK
<1> QED
  BY <1>1, ShownAlways, PTL

\* What DOS line input shows of a line is what is in its buffer (putch_tty,
\* AH=0Ah), through erasing and the call's waits.
THEOREM EchoIsTheLine ==
  ASSUME Bs!Sizes
  PROVE  KeysSpec => []Bs!EchoIsLine
<1>1. ASSUME Shown PROVE Bs!EchoIsLine
  <2>1. line \in Seq(Int) /\ DOMAIN line = 1 .. Len(line)
    BY <1>1, LenProperties DEF Shown, Buffered
  <2> QED
    BY <1>1, <2>1 DEF Shown, Echoed, Fits, Bs!EchoIsLine
<1> QED
  BY <1>1, ShownAlways, PTL

\* A behaviour of the parts is, for the keyboard services, one of their own,
\* but for the fairness.
LEMMA BiosIsPart ==
  Spec => KeysSpec
<1>1. Init => Bs!Init
  BY DEF Init
<1>2. [Next]_vars => Bs!Next \/ UNCHANGED bios
  BY DEF Next, Only, vars
<1>3. UNCHANGED bios => UNCHANGED Bs!vars
  BY DEF bios, Bs!vars, Bs!ring, Bs!input, Bs!tty
<1> QED
  BY <1>1, <1>2, <1>3, PTL DEF Spec, KeysSpec

\* KeysKept, the property of the run.
THEOREM KeysAreKept ==
  Spec => KeysKept
<1>1. Bs!Sizes
  BY PartsAssumption
<1>2. Bs!EchoIsLine => (which = "bios" => Bs!EchoIsLine)
  OBVIOUS
<1> QED
  BY <1>1, <1>2, BiosIsPart, RingIsQueue, CaseIsTheShifts, EchoIsTheLine, PTL DEF KeysKept

(***************************************************************************)
(* Sound.  What a driver says to the card, out by out (Says), fixes what   *)
(* the DSP and the DMA controller have been told with so many outs to go   *)
(* (Heard, Aimed, Pulls), whatever card the program before left and        *)
(* however many bytes are pulled in between.                               *)
(***************************************************************************)

\* How many outs a program's script still has after the direct output was set
\* up: the length, of the programs but the first, and the first transfer.
Closing(p) == IF p = 1 THEN 3 ELSE 6

\* With r outs to go, the next is this one.
Says(p, r, o) ==
  LET e == Closing(p)
      low == (Transfer - 1) % Half
      high == (Transfer - 1) \div Half
  IN /\ r = 1 => o = <<"dsp", high>>
     /\ r = 2 => o = <<"dsp", low>>
     /\ r = 3 => o = <<"dsp", 20>>
     /\ p # 1 => /\ r = 4 => o = <<"dsp", high>>
                 /\ r = 5 => o = <<"dsp", low>>
                 /\ r = 6 => o = <<"dsp", 72>>
     /\ r = e + 1 => o = <<"dsp", 1>>
     /\ r = e + 2 => o = <<"dsp", 64>>
     /\ r = e + 3 => o = <<"dsp", 209>>
     /\ r = e + 4 => o = <<"reset", 0>>
     /\ r = e + 5 => o = <<"reset", 1>>
     /\ r = e + 6 => o = <<"mask", 0>>
     /\ r = e + 7 => o = <<"count", (Lengths[p] - 1) \div Half>>
     /\ r = e + 8 => o = <<"count", (Lengths[p] - 1) % Half>>
     /\ r = e + 9 => o = <<"addr", Starts[p] \div Half>>
     /\ r = e + 10 => o = <<"addr", Starts[p] % Half>>
     /\ r = e + 11 => o = <<"mode", 1>>
     /\ r = e + 12 => o = <<"ff", 0>>
     /\ r = e + 13 => o = <<"mask", 1>>
     /\ r = e + 14 => o = <<"dsp", 208>>

CardPorts == {"mask", "ff", "mode", "addr", "count", "reset", "dsp"}

\* The driver says its script to the end.
Spoken(p, os) ==
  /\ os \in Seq(CardPorts \X Int) /\ Len(os) <= Closing(p) + 14
  /\ \A i \in 1 .. Len(os) : Says(p, Len(os) + 1 - i, os[i])

\* The card's registers.
Reach == 0 .. Half * Half - 1
Fields ==
  {"addr", "count", "base", "bcount", "auto", "masked", "ff", "stage", "cmd", "args", "need",
   "size", "left", "playing", "irr"}
IsCard(c) ==
  /\ DOMAIN c = Fields
  /\ c.addr \in Reach /\ c.count \in Nat /\ c.base \in Reach /\ c.bcount \in Nat
  /\ c.auto \in BOOLEAN /\ c.masked \in BOOLEAN /\ c.ff \in 0 .. 1
  /\ c.stage \in BOOLEAN /\ c.cmd \in Int /\ c.args \in Seq(Int) /\ c.need \in 0 .. 2
  /\ c.size \in 0 .. Transfer /\ c.left \in 0 .. Transfer
  /\ c.playing \in BOOLEAN /\ c.irr \in BOOLEAN

\* What the DSP has heard of a command with r outs to go.
Heard(c, p, r) ==
  LET e == Closing(p)
      low == (Transfer - 1) % Half
  IN /\ r = 1 => c.need = 2 /\ c.cmd = 20 /\ c.args = <<low>>
     /\ r = 2 => c.need = 2 /\ c.cmd = 20 /\ c.args = <<>>
     /\ p # 1 /\ r = 4 => c.need = 2 /\ c.cmd = 72 /\ c.args = <<low>>
     /\ p # 1 /\ r = 5 => c.need = 2 /\ c.cmd = 72 /\ c.args = <<>>
     /\ r = e + 1 => c.need = 1 /\ c.cmd = 64 /\ c.args = <<>>
     /\ r \notin {1, 2, e + 1} /\ (p = 1 \/ r \notin {4, 5}) => c.need = 0 /\ c.args = <<>>

\* What the controller's channel holds, once its program has masked it: the
\* buffer's address and length as far as they are written, and from then on how
\* far the transfer has gone in it.
Aimed(c, p, r, n) ==
  LET e == Closing(p)
  IN /\ r <= e + 12 => (c.masked <=> r >= e + 6) /\ (c.masked => n = 0)
     /\ r <= e + 11 => c.ff = IF r \in {e + 7, e + 9} THEN 1 ELSE 0
     /\ r <= e + 10 => c.auto
     /\ r = e + 9 => c.base % Half = Starts[p] % Half
     /\ r <= e + 8 => c.base = Starts[p] /\ c.addr = Starts[p] + n
     /\ r = e + 7 => c.bcount % Half = (Lengths[p] - 1) % Half
     /\ r <= e + 6 => /\ c.bcount = Lengths[p] - 1 /\ c.count = Lengths[p] - 1 - n
                      /\ n < Lengths[p]

\* What the DSP does: nothing from its reset to its start, and once the driver
\* is up it plays or has interrupted.
Pulls(c, p, r, t, o) ==
  LET e == Closing(p)
  IN /\ c.playing => c.left >= 1
     /\ r = e + 4 => c.stage
     /\ r \in 1 .. e + 3 => ~c.playing /\ ~c.irr
     /\ r = 0 => /\ c.size = Transfer
                 /\ c.playing => ~c.irr /\ t + c.left = Transfer
                 /\ c.irr => t = Transfer /\ o

\* The card with r outs of the program to go.
Follows(c, p, r, n, t, o) ==
  /\ IsCard(c) /\ n \in 0 .. Transfer /\ t \in Nat /\ o \in BOOLEAN
  /\ Heard(c, p, r) /\ Aimed(c, p, r, n) /\ Pulls(c, p, r, t, o)

\* The host buffers that play are those before the next one, in turn.
Before(h, k) == IF h - k < 0 THEN h - k + NBUF ELSE h - k
Buffers ==
  /\ busy \in Seq(0 .. NBUF - 1) /\ Len(busy) <= NBUF /\ hdr_i \in 0 .. NBUF - 1
  /\ \A i \in 1 .. Len(busy) : busy[i] = Before(hdr_i, Len(busy) + 1 - i)
  /\ ~dropped

\* Before the first program the card is as it was reset.
Music ==
  /\ driver \in Nat /\ Spoken(driver, out)
  /\ IF driver = 0 THEN card = Sd!Reset /\ out = <<>> /\ got = 0 /\ since = 0 /\ own = FALSE
     ELSE driver \in Programs /\ Follows(card, driver, Len(out), got, since, own)
  /\ Buffers

-----------------------------------------------------------------------------
\* A register is two halves.
LEMMA Halved ==
  ASSUME Sd!Constants, NEW n \in Nat
  PROVE  n % Half \in 0 .. Half - 1 /\ n \div Half \in Nat /\ (n % Half) + ((n \div Half) * Half) = n
  BY DEF Sd!Constants

LEMMA LowHalf ==
  ASSUME Sd!Constants, NEW n \in Nat, NEW v \in 0 .. Half - 1
  PROVE  (n \div Half) * Half + v \in Nat /\ ((n \div Half) * Half + v) % Half = v
<1>1. n \div Half \in Nat /\ Half \in Nat \ {0}
  BY Halved DEF Sd!Constants
<1> DEFINE q == n \div Half
<1> HIDE DEF q
<1>2. q \in Nat /\ q * Half \in Nat
  BY <1>1 DEF q
<1>3. (q * Half + v) % Half = v
  BY <1>1, <1>2, Remainder
<1> QED
  BY <1>2, <1>3 DEF q

LEMMA InReach ==
  ASSUME Sd!Constants, NEW n \in 0 .. Half * Half - 1, NEW v \in 0 .. Half - 1
  PROVE  (n \div Half) * Half + v \in 0 .. Half * Half - 1
<1>1. n \div Half \in Nat /\ n % Half \in Nat /\ (n % Half) + ((n \div Half) * Half) = n
  BY Halved DEF Sd!Constants
<1> DEFINE q == n \div Half
<1> HIDE DEF q
<1>2. q <= Half - 1
  <2>1. ASSUME q >= Half PROVE FALSE
    <3>1. q * Half >= Half * Half
      BY <1>1, <2>1 DEF q, Sd!Constants
    <3> QED
      BY <1>1, <3>1 DEF q, Sd!Constants
  <2> QED
    BY <1>1, <2>1 DEF q, Sd!Constants
<1>3. q * Half <= (Half - 1) * Half /\ (Half - 1) * Half = Half * Half - Half
  BY <1>1, <1>2 DEF q, Sd!Constants
<1>4. q * Half \in Nat
  BY <1>1 DEF q, Sd!Constants
<1> QED
  BY <1>3, <1>4 DEF q, Sd!Constants

\* One further round, of a buffer or of the host's.
LEMMA RoundAgain ==
  ASSUME NEW n \in Nat \ {0}, NEW i \in 0 .. n - 1
  PROVE  (i + 1) % n = IF i = n - 1 THEN 0 ELSE i + 1
<1>1. CASE i = n - 1
  <2>1. (1 * n + 0) % n = 0
    BY Remainder
  <2> QED
    BY <1>1, <2>1
<1>2. CASE i # n - 1
  <2>1. (0 * n + (i + 1)) % n = i + 1
    BY <1>2, Remainder
  <2> QED
    BY <1>2, <2>1
<1> QED
  BY <1>1, <1>2

-----------------------------------------------------------------------------
\* What one sequence after another says: whatever is said of the first's outs
\* with the second's still to go, and of the second's.
LEMMA SaysOn ==
  ASSUME NEW p, NEW a \in Seq(CardPorts \X Int), NEW b, Spoken(p, b),
         Len(a) + Len(b) <= Closing(p) + 14,
         \A i \in 1 .. Len(a) : Says(p, Len(b) + Len(a) + 1 - i, a[i])
  PROVE  Spoken(p, a \o b) /\ Len(a \o b) = Len(a) + Len(b)
<1>1. b \in Seq(CardPorts \X Int)
  BY DEF Spoken
<1>2. a \o b \in Seq(CardPorts \X Int) /\ Len(a \o b) = Len(a) + Len(b)
  BY <1>1, ConcatProperties
<1>3. ASSUME NEW i \in 1 .. Len(a \o b)
      PROVE  Says(p, Len(a \o b) + 1 - i, (a \o b)[i])
  <2>0. Len(a) \in Nat /\ Len(b) \in Nat
    BY <1>1
  <2>1. CASE i <= Len(a)
    <3>1. (a \o b)[i] = a[i] /\ i \in 1 .. Len(a)
      BY <1>1, <1>2, <2>0, <2>1, ConcatProperties
    <3>2. Len(a \o b) + 1 - i = Len(b) + Len(a) + 1 - i
      BY <1>2, <2>0
    <3> QED
      BY <3>1, <3>2
  <2>2. CASE i > Len(a)
    <3>1. (a \o b)[i] = b[i - Len(a)] /\ i - Len(a) \in 1 .. Len(b)
      BY <1>1, <1>2, <2>0, <2>2, ConcatProperties
    <3>2. Len(a \o b) + 1 - i = Len(b) + 1 - (i - Len(a))
      BY <1>2, <2>0, <3>1
    <3> QED
      BY <3>1, <3>2 DEF Spoken
  <2> QED
    BY <2>0, <2>1, <2>2
<1> QED
  BY <1>2, <1>3 DEF Spoken

\* Sequences written out.
LEMMA Listed ==
  ASSUME NEW S, NEW a \in S, NEW b \in S
  PROVE  /\ <<a>> \in Seq(S) /\ Len(<<a>>) = 1 /\ <<a>>[1] = a
         /\ <<a, b>> \in Seq(S) /\ Len(<<a, b>>) = 2 /\ <<a, b>>[1] = a /\ <<a, b>>[2] = b
  OBVIOUS

LEMMA TwoHalves ==
  ASSUME Sd!Constants, NEW port \in CardPorts, NEW n \in Nat
  PROVE  /\ Sd!Byte2(port, n) \in Seq(CardPorts \X Int) /\ Len(Sd!Byte2(port, n)) = 2
         /\ Sd!Byte2(port, n)[1] = <<port, n % Half>> /\ Sd!Byte2(port, n)[2] = <<port, n \div Half>>
<1>1. n % Half \in Int /\ n \div Half \in Int
  <2>1. n % Half \in 0 .. Half - 1 /\ n \div Half \in Nat
    BY Halved
  <2> DEFINE q == n % Half
             d == n \div Half
  <2> HIDE DEF q, d
  <2>2. Half \in Nat /\ q \in 0 .. Half - 1 /\ d \in Nat
    BY <2>1 DEF q, d, Sd!Constants
  <2>3. q \in Int /\ d \in Int
    BY <2>2
  <2> QED
    BY <2>3 DEF q, d
<1> DEFINE a == <<port, n % Half>>
           b == <<port, n \div Half>>
<1>2. a \in CardPorts \X Int /\ b \in CardPorts \X Int
  BY <1>1
<1> HIDE DEF a, b
<1>3. /\ <<a, b>> \in Seq(CardPorts \X Int) /\ Len(<<a, b>>) = 2
      /\ <<a, b>>[1] = a /\ <<a, b>>[2] = b
  BY <1>2, Listed
<1>4. Sd!Byte2(port, n) = <<a, b>>
  BY DEF a, b, Sd!Byte2
<1> QED
  BY <1>3, <1>4 DEF a, b

LEMMA PlaySays ==
  ASSUME Sd!Constants, NEW p
  PROVE  Spoken(p, Sd!Play) /\ Len(Sd!Play) = 3
<1> DEFINE a == <<<<"dsp", 20>>>>
           b == Sd!Byte2("dsp", Transfer - 1)
<1>0. Transfer - 1 \in Nat /\ Closing(p) \in {3, 6}
  BY DEF Sd!Constants, Closing
<1>1. /\ b \in Seq(CardPorts \X Int) /\ Len(b) = 2
      /\ b[1] = <<"dsp", (Transfer - 1) % Half>> /\ b[2] = <<"dsp", (Transfer - 1) \div Half>>
  <2>1. "dsp" \in CardPorts
    BY DEF CardPorts
  <2> QED
    BY <1>0, <2>1, TwoHalves
<1>2. a \in Seq(CardPorts \X Int) /\ Len(a) = 1 /\ a[1] = <<"dsp", 20>>
  <2> DEFINE o == <<"dsp", 20>>
  <2>1. o \in CardPorts \X Int
    BY DEF CardPorts
  <2> HIDE DEF o
  <2>2. <<o>> \in Seq(CardPorts \X Int) /\ Len(<<o>>) = 1 /\ <<o>>[1] = o
    BY <2>1, Listed
  <2> QED
    BY <2>2 DEF o
<1> HIDE DEF a, b
<1>3. Says(p, 2, b[1]) /\ Says(p, 1, b[2]) /\ Says(p, 3, a[1])
  <2>1. \A r \in 1 .. 3 : r # 4 /\ r # 5 /\ r # 6 /\ \A k \in 1 .. 14 : r # Closing(p) + k
    BY <1>0
  <2>2. ASSUME NEW o, o = <<"dsp", (Transfer - 1) % Half>> PROVE Says(p, 2, o)
    BY <2>1, <2>2 DEF Says
  <2>3. ASSUME NEW o, o = <<"dsp", (Transfer - 1) \div Half>> PROVE Says(p, 1, o)
    BY <2>1, <2>3 DEF Says
  <2>4. ASSUME NEW o, o = <<"dsp", 20>> PROVE Says(p, 3, o)
    BY <2>1, <2>4 DEF Says
  <2> QED
    BY <1>1, <1>2, <2>2, <2>3, <2>4
<1>4. Spoken(p, b)
  <2>1. ASSUME NEW i \in 1 .. Len(b) PROVE Says(p, Len(b) + 1 - i, b[i])
    <3>1. (i = 1 /\ Len(b) + 1 - i = 2) \/ (i = 2 /\ Len(b) + 1 - i = 1)
      BY <1>1
    <3> QED
      BY <1>3, <3>1
  <2> QED
    BY <1>0, <1>1, <2>1 DEF Spoken
<1>5. ASSUME NEW i \in 1 .. Len(a) PROVE Says(p, Len(b) + Len(a) + 1 - i, a[i])
  <2>1. i = 1 /\ Len(b) + Len(a) + 1 - i = 3
    BY <1>1, <1>2
  <2> QED
    BY <1>3, <2>1
<1>6. Len(a) + Len(b) <= Closing(p) + 14
  BY <1>0, <1>1, <1>2
<1>7. Spoken(p, a \o b) /\ Len(a \o b) = Len(a) + Len(b)
  BY <1>2, <1>4, <1>5, <1>6, SaysOn
<1>9. Sd!Play = a \o b
  BY DEF a, b, Sd!Play
<1> QED
  BY <1>1, <1>2, <1>7, <1>9

\* Outs written out, before a script that is still to go.
LEMMA SaysThree ==
  ASSUME NEW p, NEW x \in CardPorts \X Int, NEW y1 \in CardPorts \X Int, NEW z1 \in CardPorts \X Int,
         NEW b, Spoken(p, b), Len(b) + 3 <= Closing(p) + 14,
         Says(p, Len(b) + 3, x), Says(p, Len(b) + 2, y1), Says(p, Len(b) + 1, z1)
  PROVE  Spoken(p, <<x, y1, z1>> \o b) /\ Len(<<x, y1, z1>> \o b) = Len(b) + 3
<1> DEFINE a == <<x, y1, z1>>
<1>1. /\ a \in Seq(CardPorts \X Int) /\ Len(a) = 3 /\ a[1] = x /\ a[2] = y1 /\ a[3] = z1
  <2>1. ASSUME NEW S, NEW u \in S, NEW v \in S, NEW w \in S
        PROVE  /\ <<u, v, w>> \in Seq(S) /\ Len(<<u, v, w>>) = 3
               /\ <<u, v, w>>[1] = u /\ <<u, v, w>>[2] = v /\ <<u, v, w>>[3] = w
    OBVIOUS
  <2> QED
    BY <2>1
<1>2. Len(b) \in Nat /\ b \in Seq(CardPorts \X Int)
  BY DEF Spoken
<1> HIDE DEF a
<1>3. ASSUME NEW i \in 1 .. Len(a) PROVE Says(p, Len(b) + Len(a) + 1 - i, a[i])
  <2>1. \/ i = 1 /\ Len(b) + Len(a) + 1 - i = Len(b) + 3
        \/ i = 2 /\ Len(b) + Len(a) + 1 - i = Len(b) + 2
        \/ i = 3 /\ Len(b) + Len(a) + 1 - i = Len(b) + 1
    BY <1>1, <1>2
  <2> QED
    BY <1>1, <2>1
<1>4. Spoken(p, a \o b) /\ Len(a \o b) = Len(a) + Len(b)
  <2>1. Len(a) + Len(b) <= Closing(p) + 14
    BY <1>1, <1>2
  <2> QED
    BY <1>1, <1>3, <2>1, SaysOn
<1> QED
  BY <1>1, <1>2, <1>4 DEF a

LEMMA SaysOne ==
  ASSUME NEW p, NEW x \in CardPorts \X Int,
         NEW b, Spoken(p, b), Len(b) + 1 <= Closing(p) + 14, Says(p, Len(b) + 1, x)
  PROVE  Spoken(p, <<x>> \o b) /\ Len(<<x>> \o b) = Len(b) + 1
<1> DEFINE a == <<x>>
<1>1. a \in Seq(CardPorts \X Int) /\ Len(a) = 1 /\ a[1] = x
  BY Listed
<1>2. Len(b) \in Nat /\ b \in Seq(CardPorts \X Int)
  BY DEF Spoken
<1> HIDE DEF a
<1>3. ASSUME NEW i \in 1 .. Len(a) PROVE Says(p, Len(b) + Len(a) + 1 - i, a[i])
  <2>1. i = 1 /\ Len(b) + Len(a) + 1 - i = Len(b) + 1
    BY <1>1, <1>2
  <2> QED
    BY <1>1, <2>1
<1>4. Spoken(p, a \o b) /\ Len(a \o b) = Len(a) + Len(b)
  <2>1. Len(a) + Len(b) <= Closing(p) + 14
    BY <1>1, <1>2
  <2> QED
    BY <1>1, <1>3, <2>1, SaysOn
<1> QED
  BY <1>1, <1>2, <1>4 DEF a

LEMMA SaysTwo ==
  ASSUME Sd!Constants, NEW p, NEW port \in CardPorts, NEW n \in Nat,
         NEW b, Spoken(p, b), Len(b) + 2 <= Closing(p) + 14,
         Says(p, Len(b) + 2, <<port, n % Half>>), Says(p, Len(b) + 1, <<port, n \div Half>>)
  PROVE  /\ Spoken(p, Sd!Byte2(port, n) \o b) /\ Len(Sd!Byte2(port, n) \o b) = Len(b) + 2
         /\ Sd!Byte2(port, n) \in Seq(CardPorts \X Int)
<1> DEFINE a == Sd!Byte2(port, n)
<1>1. /\ a \in Seq(CardPorts \X Int) /\ Len(a) = 2
      /\ a[1] = <<port, n % Half>> /\ a[2] = <<port, n \div Half>>
  BY TwoHalves
<1>2. Len(b) \in Nat /\ b \in Seq(CardPorts \X Int)
  BY DEF Spoken
<1> HIDE DEF a
<1>3. ASSUME NEW i \in 1 .. Len(a) PROVE Says(p, Len(b) + Len(a) + 1 - i, a[i])
  <2>1. \/ i = 1 /\ Len(b) + Len(a) + 1 - i = Len(b) + 2
        \/ i = 2 /\ Len(b) + Len(a) + 1 - i = Len(b) + 1
    BY <1>1, <1>2
  <2> QED
    BY <1>1, <2>1
<1>4. Spoken(p, a \o b) /\ Len(a \o b) = Len(a) + Len(b)
  <2>1. Len(a) + Len(b) <= Closing(p) + 14
    BY <1>1, <1>2
  <2> QED
    BY <1>1, <1>3, <2>1, SaysOn
<1> QED
  BY <1>1, <1>2, <1>4 DEF a

LEMMA ListedSix ==
  ASSUME NEW S, NEW x1 \in S, NEW x2 \in S, NEW x3 \in S, NEW x4 \in S, NEW x5 \in S, NEW x6 \in S
  PROVE  LET c == <<x1, x2, x3, x4, x5, x6>> IN
         /\ c \in Seq(S) /\ Len(c) = 6
         /\ c[1] = x1 /\ c[2] = x2 /\ c[3] = x3 /\ c[4] = x4 /\ c[5] = x5 /\ c[6] = x6
  OBVIOUS

LEMMA SaysSix ==
  ASSUME NEW p, NEW a \in Seq(CardPorts \X Int), Len(a) = 6,
         NEW b, Spoken(p, b), Len(b) + 6 <= Closing(p) + 14,
         Says(p, Len(b) + 6, a[1]), Says(p, Len(b) + 5, a[2]), Says(p, Len(b) + 4, a[3]),
         Says(p, Len(b) + 3, a[4]), Says(p, Len(b) + 2, a[5]), Says(p, Len(b) + 1, a[6])
  PROVE  Spoken(p, a \o b) /\ Len(a \o b) = Len(b) + 6
<1>1. Len(b) \in Nat
  BY DEF Spoken
<1>2. ASSUME NEW i \in 1 .. Len(a) PROVE Says(p, Len(b) + Len(a) + 1 - i, a[i])
  <2>1. \/ i = 1 /\ Len(b) + Len(a) + 1 - i = Len(b) + 6
        \/ i = 2 /\ Len(b) + Len(a) + 1 - i = Len(b) + 5
        \/ i = 3 /\ Len(b) + Len(a) + 1 - i = Len(b) + 4
        \/ i = 4 /\ Len(b) + Len(a) + 1 - i = Len(b) + 3
        \/ i = 5 /\ Len(b) + Len(a) + 1 - i = Len(b) + 2
        \/ i = 6 /\ Len(b) + Len(a) + 1 - i = Len(b) + 1
    BY <1>1
  <2> QED
    BY <2>1
<1>3. Len(a) + Len(b) <= Closing(p) + 14 /\ Len(a) + Len(b) = Len(b) + 6
  BY <1>1
<1> QED
  BY <1>2, <1>3, SaysOn

\* What comes after with so many to go, for each kind of program.
LEMMA IsSaid ==
  ASSUME NEW p, NEW r \in 1 .. Closing(p) + 14, NEW port, NEW v,
         LET e == Closing(p) IN
           \/ p # 1 /\ \/ r = 4 /\ port = "dsp" /\ v = (Transfer - 1) \div Half
                       \/ r = 5 /\ port = "dsp" /\ v = (Transfer - 1) % Half
                       \/ r = 6 /\ port = "dsp" /\ v = 72
           \/ r = e + 1 /\ port = "dsp" /\ v = 1
           \/ r = e + 2 /\ port = "dsp" /\ v = 64
           \/ r = e + 3 /\ port = "dsp" /\ v = 209
           \/ r = e + 4 /\ port = "reset" /\ v = 0
           \/ r = e + 5 /\ port = "reset" /\ v = 1
           \/ r = e + 6 /\ port = "mask" /\ v = 0
           \/ r = e + 7 /\ port = "count" /\ v = (Lengths[p] - 1) \div Half
           \/ r = e + 8 /\ port = "count" /\ v = (Lengths[p] - 1) % Half
           \/ r = e + 9 /\ port = "addr" /\ v = Starts[p] \div Half
           \/ r = e + 10 /\ port = "addr" /\ v = Starts[p] % Half
           \/ r = e + 11 /\ port = "mode" /\ v = 1
           \/ r = e + 12 /\ port = "ff" /\ v = 0
           \/ r = e + 13 /\ port = "mask" /\ v = 1
           \/ r = e + 14 /\ port = "dsp" /\ v = 208
  PROVE  Says(p, r, <<port, v>>)
<1>1. Closing(p) = IF p = 1 THEN 3 ELSE 6
  BY DEF Closing
<1> QED
  BY <1>1 DEF Says

\* Six sequences one after the other, from the left or from the right.
Then(q, r) == q \o r

LEMMA Associates ==
  ASSUME NEW S
  PROVE  \A q, r, t \in Seq(S) : Then(Then(q, r), t) = Then(q, Then(r, t)) /\ Then(q, r) \in Seq(S)
  BY ConcatAssociative, ConcatProperties DEF Then

LEMMA SixInARow ==
  ASSUME NEW S, NEW q1 \in Seq(S), NEW q2 \in Seq(S), NEW q3 \in Seq(S),
         NEW q4 \in Seq(S), NEW q5 \in Seq(S), NEW q6 \in Seq(S)
  PROVE  Then(Then(Then(Then(Then(q1, q2), q3), q4), q5), q6)
           = Then(q1, Then(q2, Then(q3, Then(q4, Then(q5, q6)))))
<1> DEFINE T == Seq(S)
<1>1. \A q, r, t \in T : Then(Then(q, r), t) = Then(q, Then(r, t)) /\ Then(q, r) \in T
  BY Associates
<1>2. q1 \in T /\ q2 \in T /\ q3 \in T /\ q4 \in T /\ q5 \in T /\ q6 \in T
  OBVIOUS
<1> HIDE DEF T
<1>3. Then(q1, q2) \in T /\ Then(q5, q6) \in T
  BY <1>1, <1>2
<1>4. Then(Then(q1, q2), q3) \in T /\ Then(q4, Then(q5, q6)) \in T
  BY <1>1, <1>2, <1>3
<1>5. Then(Then(Then(q1, q2), q3), q4) \in T /\ Then(q3, Then(q4, Then(q5, q6))) \in T
  BY <1>1, <1>2, <1>4
<1>6. Then(Then(Then(Then(Then(q1, q2), q3), q4), q5), q6) = Then(Then(Then(Then(q1, q2), q3), q4), Then(q5, q6))
  BY <1>1, <1>2, <1>5
<1>7. Then(Then(Then(Then(q1, q2), q3), q4), Then(q5, q6)) = Then(Then(Then(q1, q2), q3), Then(q4, Then(q5, q6)))
  BY <1>1, <1>2, <1>3, <1>4
<1>8. Then(Then(Then(q1, q2), q3), Then(q4, Then(q5, q6))) = Then(Then(q1, q2), Then(q3, Then(q4, Then(q5, q6))))
  BY <1>1, <1>2, <1>3, <1>4
<1>9. Then(Then(q1, q2), Then(q3, Then(q4, Then(q5, q6)))) = Then(q1, Then(q2, Then(q3, Then(q4, Then(q5, q6)))))
  BY <1>1, <1>2, <1>5
<1> QED
  BY <1>6, <1>7, <1>8, <1>9

\* A program's script from the length on, if it sends one, and the first
\* transfer: what is left after the direct output was set up.
LEMMA ClosingSays ==
  ASSUME Sd!Constants, NEW p \in Programs
  PROVE  LET mid == IF p = 1 THEN <<>> ELSE <<<<"dsp", 72>>>> \o Sd!Byte2("dsp", Transfer - 1)
         IN  /\ Spoken(p, mid \o Sd!Play) /\ Len(mid \o Sd!Play) = Closing(p)
             /\ mid \in Seq(CardPorts \X Int)
<1> DEFINE x == <<"dsp", 72>>
           b2 == Sd!Byte2("dsp", Transfer - 1)
<1>0. Spoken(p, Sd!Play) /\ Len(Sd!Play) = 3 /\ Sd!Play \in Seq(CardPorts \X Int)
  BY PlaySays DEF Spoken
<1>1. CASE p = 1
  <2>1. Closing(p) = 3
    BY <1>1 DEF Closing
  <2>2. <<>> \o Sd!Play = Sd!Play /\ <<>> \in Seq(CardPorts \X Int)
    BY <1>0, ConcatEmptySeq
  <2> QED
    BY <1>0, <1>1, <2>1, <2>2
<1>2. CASE p # 1
  <2>1. Closing(p) = 6
    BY <1>2 DEF Closing
  <2>2. "dsp" \in CardPorts /\ x \in CardPorts \X Int
    BY DEF CardPorts
  <2>3. Transfer - 1 \in Nat
    BY DEF Sd!Constants
  <2>4. /\ Says(p, 6, x) /\ Says(p, 5, <<"dsp", (Transfer - 1) % Half>>)
        /\ Says(p, 4, <<"dsp", (Transfer - 1) \div Half>>)
    BY <1>2, <2>1, IsSaid
  <2> HIDE DEF x
  <2>5. Spoken(p, b2 \o Sd!Play) /\ Len(b2 \o Sd!Play) = 5 /\ b2 \in Seq(CardPorts \X Int)
    <3>1. Len(Sd!Play) + 2 = 5 /\ Len(Sd!Play) + 1 = 4 /\ Len(Sd!Play) + 2 <= Closing(p) + 14
      BY <1>0, <2>1
    <3> QED
      BY <1>0, <2>2, <2>3, <2>4, <3>1, SaysTwo
  <2> HIDE DEF b2
  <2>6. Spoken(p, <<x>> \o (b2 \o Sd!Play)) /\ Len(<<x>> \o (b2 \o Sd!Play)) = 6
    <3>1. Len(b2 \o Sd!Play) + 1 = 6 /\ Len(b2 \o Sd!Play) + 1 <= Closing(p) + 14
      BY <2>1, <2>5
    <3> QED
      BY <2>2, <2>4, <2>5, <3>1, SaysOne
  <2>7. <<x>> \in Seq(CardPorts \X Int)
    BY <2>2, Listed
  <2>8. (<<x>> \o b2) \o Sd!Play = <<x>> \o (b2 \o Sd!Play) /\ <<x>> \o b2 \in Seq(CardPorts \X Int)
    BY <1>0, <2>5, <2>7, ConcatAssociative, ConcatProperties
  <2> QED
    BY <1>2, <2>1, <2>6, <2>8 DEF x, b2
<1> QED
  BY <1>1, <1>2

\* A program's script, with the halt before it or without.
LEMMA ScriptSays ==
  ASSUME Sd!Constants, NEW p \in Programs
  PROVE  /\ Spoken(p, Sd!Script(p)) /\ Len(Sd!Script(p)) = Closing(p) + 13
         /\ Spoken(p, <<<<"dsp", 208>>>> \o Sd!Script(p))
         /\ Len(<<<<"dsp", 208>>>> \o Sd!Script(p)) = Closing(p) + 14
<1> DEFINE X == CardPorts \X Int
           e == Closing(p)
           x1 == <<"mask", 1>>    x2 == <<"ff", 0>>      x3 == <<"mode", 1>>
           y1 == <<"mask", 0>>    y2 == <<"reset", 1>>   y3 == <<"reset", 0>>
           y4 == <<"dsp", 209>>   y5 == <<"dsp", 64>>    y6 == <<"dsp", 1>>
           x0 == <<"dsp", 208>>
           a == Sd!Byte2("addr", Starts[p])
           n == Sd!Byte2("count", Lengths[p] - 1)
           mid == IF p = 1 THEN <<>> ELSE <<<<"dsp", 72>>>> \o Sd!Byte2("dsp", Transfer - 1)
           s0 == mid \o Sd!Play
           six == <<y1, y2, y3, y4, y5, y6>>
           three == <<x1, x2, x3>>
<1>1. e \in Nat
  BY DEF Closing
<1>2. /\ x0 \in X /\ x1 \in X /\ x2 \in X /\ x3 \in X
      /\ y1 \in X /\ y2 \in X /\ y3 \in X /\ y4 \in X /\ y5 \in X /\ y6 \in X
  BY DEF CardPorts
<1>3. "addr" \in CardPorts /\ "count" \in CardPorts /\ Starts[p] \in Nat /\ Lengths[p] - 1 \in Nat
  BY DEF CardPorts, Sd!Constants
<1>4. \A k \in 1 .. 14 : e + k \in 1 .. e + 14
  BY <1>1
<1>5. /\ Says(p, e + 1, y6) /\ Says(p, e + 2, y5) /\ Says(p, e + 3, y4)
      /\ Says(p, e + 4, y3) /\ Says(p, e + 5, y2) /\ Says(p, e + 6, y1)
  BY <1>4, IsSaid
<1>6. /\ Says(p, e + 7, <<"count", (Lengths[p] - 1) \div Half>>)
      /\ Says(p, e + 8, <<"count", (Lengths[p] - 1) % Half>>)
      /\ Says(p, e + 9, <<"addr", Starts[p] \div Half>>)
      /\ Says(p, e + 10, <<"addr", Starts[p] % Half>>)
  BY <1>4, IsSaid
<1>7. Says(p, e + 11, x3) /\ Says(p, e + 12, x2) /\ Says(p, e + 13, x1) /\ Says(p, e + 14, x0)
  BY <1>4, IsSaid
<1>8. Spoken(p, s0) /\ Len(s0) = e /\ mid \in Seq(X)
  BY ClosingSays
<1>9. Sd!Play \in Seq(X)
  BY PlaySays DEF Spoken
<1>s. Sd!Script(p) = Then(Then(Then(Then(Then(three, a), n), six), mid), Sd!Play)
  BY DEF Sd!Script, Then
<1> HIDE DEF x0, x1, x2, x3, y1, y2, y3, y4, y5, y6, a, n, mid, e
<1>10. Spoken(p, six \o s0) /\ Len(six \o s0) = e + 6 /\ six \in Seq(X)
  <2>1. Len(s0) + 6 = e + 6 /\ Len(s0) + 5 = e + 5 /\ Len(s0) + 4 = e + 4 /\ Len(s0) + 3 = e + 3
        /\ Len(s0) + 2 = e + 2 /\ Len(s0) + 1 = e + 1 /\ Len(s0) + 6 <= e + 14
    BY <1>1, <1>8
  <2> HIDE DEF s0
  <2>a. /\ six \in Seq(X) /\ Len(six) = 6
        /\ six[1] = y1 /\ six[2] = y2 /\ six[3] = y3 /\ six[4] = y4 /\ six[5] = y5 /\ six[6] = y6
    BY <1>2, ListedSix
  <2> HIDE DEF six
  <2>2. /\ Says(p, Len(s0) + 6, six[1]) /\ Says(p, Len(s0) + 5, six[2]) /\ Says(p, Len(s0) + 4, six[3])
        /\ Says(p, Len(s0) + 3, six[4]) /\ Says(p, Len(s0) + 2, six[5]) /\ Says(p, Len(s0) + 1, six[6])
    BY <1>5, <2>1, <2>a
  <2>3. Len(s0) + 6 <= Closing(p) + 14
    BY <2>1 DEF e
  <2>4. Spoken(p, six \o s0) /\ Len(six \o s0) = Len(s0) + 6
    BY <1>8, <2>2, <2>3, <2>a, SaysSix
  <2> QED
    BY <2>1, <2>4, <2>a
<1> DEFINE s1 == six \o s0
<1>11. Spoken(p, n \o s1) /\ Len(n \o s1) = e + 8 /\ n \in Seq(X)
  <2>1. Len(s1) + 2 = e + 8 /\ Len(s1) + 1 = e + 7 /\ Len(s1) + 2 <= e + 14
    BY <1>1, <1>10
  <2> HIDE DEF s1
  <2> QED
    BY <1>3, <1>6, <1>10, <2>1, SaysTwo DEF e, n, s1
<1> DEFINE s2 == n \o s1
<1>12. Spoken(p, a \o s2) /\ Len(a \o s2) = e + 10 /\ a \in Seq(X)
  <2>1. Len(s2) + 2 = e + 10 /\ Len(s2) + 1 = e + 9 /\ Len(s2) + 2 <= e + 14
    BY <1>1, <1>11
  <2> HIDE DEF s1
  <2> QED
    BY <1>3, <1>6, <1>11, <2>1, SaysTwo DEF e, a
<1> DEFINE s3 == a \o s2
<1>13. Spoken(p, three \o s3) /\ Len(three \o s3) = e + 13
  <2>1. Len(s3) + 3 = e + 13 /\ Len(s3) + 2 = e + 12 /\ Len(s3) + 1 = e + 11 /\ Len(s3) + 3 <= e + 14
    BY <1>1, <1>12
  <2> HIDE DEF s2, s3
  <2>2. Says(p, Len(s3) + 3, x1) /\ Says(p, Len(s3) + 2, x2) /\ Says(p, Len(s3) + 1, x3)
    BY <1>7, <2>1
  <2>3. Len(s3) + 3 <= Closing(p) + 14 /\ Spoken(p, s3)
    BY <1>12, <2>1 DEF e, s3
  <2>4. Spoken(p, three \o s3) /\ Len(three \o s3) = Len(s3) + 3
    BY <1>2, <2>2, <2>3, SaysThree
  <2> QED
    BY <2>1, <2>4
<1>14. three \in Seq(X)
  BY <1>2
<1>15. Sd!Script(p) = three \o s3
  <2> HIDE DEF three, six, X
  <2>0. /\ three \in Seq(X) /\ a \in Seq(X) /\ n \in Seq(X)
        /\ six \in Seq(X) /\ mid \in Seq(X) /\ Sd!Play \in Seq(X)
    BY <1>8, <1>9, <1>10, <1>11, <1>12, <1>14
  <2>1. Then(Then(Then(Then(Then(three, a), n), six), mid), Sd!Play)
          = Then(three, Then(a, Then(n, Then(six, Then(mid, Sd!Play)))))
    <3> HIDE DEF s0, s1, s2, s3
    <3> QED
      BY <2>0, SixInARow
  <2> QED
    BY <1>s, <2>1 DEF Then
<1>16. Spoken(p, <<x0>> \o Sd!Script(p)) /\ Len(<<x0>> \o Sd!Script(p)) = e + 14
  <2>1. Spoken(p, Sd!Script(p)) /\ Len(Sd!Script(p)) = e + 13
    BY <1>13, <1>15
  <2>2. Len(Sd!Script(p)) + 1 = e + 14
    BY <1>1, <2>1
  <2>3. Len(Sd!Script(p)) + 1 <= e + 14
    BY <1>1, <2>2
  <2> QED
    BY <1>2, <1>7, <2>1, <2>2, <2>3, SaysOne DEF e, X
<1> QED
  BY <1>13, <1>15, <1>16 DEF e, x0

-----------------------------------------------------------------------------
(* One out of the driver.                                                  *)

LEMMA Closings ==
  ASSUME NEW p
  PROVE  Closing(p) = (IF p = 1 THEN 3 ELSE 6) /\ Closing(p) \in {3, 6}
  BY DEF Closing

\* The channel stands while its program talks to the DSP.
LEMMA AimedOn ==
  ASSUME NEW p, NEW r \in 1 .. Closing(p) + 5, NEW c, NEW d, NEW n, Aimed(c, p, r, n),
         d.addr = c.addr, d.count = c.count, d.base = c.base, d.bcount = c.bcount,
         d.auto = c.auto, d.masked = c.masked, d.ff = c.ff
  PROVE  Aimed(d, p, r - 1, n)
<1>1. Closing(p) \in {3, 6}
  BY Closings
<1> QED
  BY <1>1 DEF Aimed

\* The length, of the DSP's first transfer and of its later ones.
LEMMA WholeLength ==
  ASSUME Sd!Constants
  PROVE  /\ ((Transfer - 1) % Half) + (((Transfer - 1) \div Half) * Half) + 1 = Transfer
         /\ (Transfer - 1) % Half \in Int
<1> DEFINE q == (Transfer - 1) % Half
           d == ((Transfer - 1) \div Half) * Half
<1>1. Transfer - 1 \in Nat
  BY DEF Sd!Constants
<1>2. q + d = Transfer - 1
  BY <1>1, Halved
<1>3. q \in 0 .. Half - 1 /\ (Transfer - 1) \div Half \in Nat /\ Half \in Nat
  BY <1>1, Halved DEF Sd!Constants
<1>4. d \in Nat
  BY <1>3
<1> HIDE DEF q, d
<1>5. q + d + 1 = Transfer /\ q \in Int
  BY <1>2, <1>3, <1>4 DEF Sd!Constants
<1> QED
  BY <1>5 DEF q, d

LEMMA Needed ==
  Sd!Needs(20) = 2 /\ Sd!Needs(72) = 2 /\ Sd!Needs(64) = 1 /\ Sd!Needs(209) = 0 /\ Sd!Needs(1) = 0
  BY DEF Sd!Needs

\* Commands and their arguments.
Commanded(c, v, k) == [c EXCEPT !.cmd = v, !.need = k]
Argued(c, args) == [c EXCEPT !.args = args]
Heeded(c) == [c EXCEPT !.args = <<>>, !.need = 0]
Resized(c) == [c EXCEPT !.args = <<>>, !.need = 0, !.size = Transfer]
Begun(c) ==
  [c EXCEPT !.args = <<>>, !.need = 0, !.playing = TRUE, !.size = Transfer, !.left = Transfer]

LEMMA CommandHeard ==
  ASSUME NEW c, IsCard(c), NEW v \in Int, c.need = 0, v # 208,
         NEW k, Sd!Needs(v) = k
  PROVE  Sd!io_w8(c, "dsp", v) = Commanded(c, v, k)
  BY DEF Commanded, Sd!io_w8, Sd!sb_write, Sd!sb_command

LEMMA FirstArgHeard ==
  ASSUME NEW c, IsCard(c), NEW v \in Int, c.need = 2, c.args = <<>>
  PROVE  Sd!io_w8(c, "dsp", v) = Argued(c, <<v>>) /\ <<v>> \in Seq(Int)
<1>1. Append(c.args, v) = <<v>> /\ Len(<<v>>) = 1 /\ <<v>> \in Seq(Int)
  OBVIOUS
<1>2. Sd!io_w8(c, "dsp", v) = Sd!sb_command_arg(c, v)
  BY DEF Sd!io_w8, Sd!sb_write
<1>3. Sd!sb_command_arg(c, v) = Argued(c, <<v>>)
  BY <1>1 DEF Argued, Sd!sb_command_arg
<1> QED
  BY <1>1, <1>2, <1>3

LEMMA SecondArgHeard ==
  ASSUME Sd!Constants, NEW c, IsCard(c), c.need = 2, c.cmd \in {20, 72},
         c.args = <<(Transfer - 1) % Half>>
  PROVE  Sd!io_w8(c, "dsp", (Transfer - 1) \div Half)
           = IF c.cmd = 20 THEN Begun(c) ELSE Resized(c)
<1> DEFINE v == (Transfer - 1) \div Half
           q == (Transfer - 1) % Half
           args == Append(c.args, v)
<1>1. q + v * Half + 1 = Transfer
  BY WholeLength
<1>2. Sd!io_w8(c, "dsp", v) = Sd!sb_command_arg(c, v)
  BY DEF Sd!io_w8, Sd!sb_write
<1> HIDE DEF v, q
<1>a. c.args = <<q>>
  BY DEF q
<1>3. Len(args) = 2 /\ args[1] = q /\ args[2] = v
  <2>1. ASSUME NEW a, NEW b
        PROVE  LET two == Append(<<a>>, b) IN Len(two) = 2 /\ two[1] = a /\ two[2] = b
    OBVIOUS
  <2> QED
    BY <1>a, <2>1
<1> HIDE DEF args
<1>b. Len(args) = 2 /\ args[1] + args[2] * Half + 1 = Transfer
  BY <1>1, <1>3
<1>4. Sd!sb_command_arg(c, v) =
        LET done == [c EXCEPT !.args = <<>>, !.need = 0]
        IN  IF c.cmd = 20 THEN Sd!sb_start(done, Transfer) ELSE [done EXCEPT !.size = Transfer]
  <2> DEFINE len == args[1] + args[2] * Half + 1
  <2>1. len = Transfer
    BY <1>b
  <2> HIDE DEF len
  <2> DEFINE done == [c EXCEPT !.args = <<>>, !.need = 0]
  <2>2. Sd!sb_command_arg(c, v) = IF Len(args) < c.need THEN [c EXCEPT !.args = args]
          ELSE CASE c.cmd = 20 -> Sd!sb_start(done, len)
                 [] c.cmd = 72 -> [done EXCEPT !.size = len]
                 [] OTHER -> done
    BY DEF args, len, Sd!sb_command_arg
  <2> HIDE DEF done
  <2>3. Sd!sb_command_arg(c, v)
          = IF c.cmd = 20 THEN Sd!sb_start(done, Transfer) ELSE [done EXCEPT !.size = Transfer]
    BY <1>b, <2>1, <2>2
  <2> QED
    BY <2>3 DEF done
<1>5. CASE c.cmd = 20
  BY <1>2, <1>4, <1>5 DEF v, Begun, Sd!sb_start, IsCard, Fields
<1>6. CASE c.cmd = 72
  BY <1>2, <1>4, <1>6 DEF v, Resized, IsCard, Fields
<1> QED
  BY <1>5, <1>6

LEMMA ModeArgHeard ==
  ASSUME NEW c, IsCard(c), c.need = 1, c.cmd = 64, c.args = <<>>, NEW v \in Int
  PROVE  Sd!io_w8(c, "dsp", v) = Heeded(c)
<1>1. Append(c.args, v) = <<v>> /\ Len(<<v>>) = 1
  OBVIOUS
<1>2. Sd!io_w8(c, "dsp", v) = Sd!sb_command_arg(c, v)
  BY DEF Sd!io_w8, Sd!sb_write
<1>3. Sd!sb_command_arg(c, v) = Heeded(c)
  BY <1>1 DEF Heeded, Sd!sb_command_arg
<1> QED
  BY <1>2, <1>3

\* What is left of each out.
Outed(c, o, p, r, n, t, w) ==
  LET d == Sd!io_w8(c, o[1], o[2])
  IN  Follows(d, p, r - 1, IF o = <<"mask", 1>> THEN 0 ELSE n,
              IF d.playing /\ ~c.playing THEN 0 ELSE t, w)

\* The first transfer, or the next one from the handler.
LEMMA TransferOut ==
  ASSUME Sd!Constants, NEW p \in Programs, NEW r \in 1 .. 3, NEW c, NEW n, NEW t, NEW w,
         Follows(c, p, r, n, t, w), NEW o, Says(p, r, o)
  PROVE  Outed(c, o, p, r, n, t, w)
<1>0. Closing(p) \in {3, 6} /\ IsCard(c) /\ n \in 0 .. Transfer /\ t \in Nat /\ w \in BOOLEAN
  BY Closings DEF Follows
<1>1. Heard(c, p, r) /\ Aimed(c, p, r, n) /\ Pulls(c, p, r, t, w) /\ ~c.playing /\ ~c.irr
  BY <1>0 DEF Follows, Pulls
<1>2. Transfer \in Nat \ {0} /\ (Transfer - 1) % Half \in Int
  BY WholeLength DEF Sd!Constants
<1>3. CASE r = 3
  <2>1. o = <<"dsp", 20>> /\ c.need = 0 /\ c.args = <<>>
    BY <1>0, <1>1, <1>3 DEF Says, Heard
  <2> DEFINE d == Sd!io_w8(c, "dsp", 20)
  <2>2. d = Commanded(c, 20, 2)
    BY <1>0, <2>1, CommandHeard, Needed
  <2> HIDE DEF d
  <2>3. IsCard(d)
    BY <1>0, <2>2 DEF IsCard, Fields, Commanded
  <2>4. Heard(d, p, 2)
    BY <1>0, <2>1, <2>2 DEF Heard, IsCard, Fields, Commanded
  <2>5. Aimed(d, p, 2, n)
    <3>1. r \in 1 .. Closing(p) + 5
      BY <1>0
    <3>2. /\ d.addr = c.addr /\ d.count = c.count /\ d.base = c.base /\ d.bcount = c.bcount
          /\ d.auto = c.auto /\ d.masked = c.masked /\ d.ff = c.ff
      BY <1>0, <2>2 DEF IsCard, Fields, Commanded
    <3>3. Aimed(d, p, r - 1, n)
      BY <1>1, <3>1, <3>2, AimedOn
    <3> QED
      BY <1>3, <3>3
  <2>6. Pulls(d, p, 2, t, w) /\ ~d.playing
    BY <1>0, <1>1, <2>2 DEF Pulls, IsCard, Fields, Commanded
  <2>7. Follows(d, p, 2, n, t, w)
    BY <1>0, <2>3, <2>4, <2>5, <2>6 DEF Follows
  <2> QED
    BY <1>3, <2>1, <2>6, <2>7 DEF Outed, d
<1>4. CASE r = 2
  <2> DEFINE v == (Transfer - 1) % Half
  <2>1. o = <<"dsp", v>> /\ c.need = 2 /\ c.args = <<>> /\ c.cmd = 20
    BY <1>0, <1>1, <1>4 DEF Says, Heard
  <2> DEFINE d == Sd!io_w8(c, "dsp", v)
  <2>a. v \in Int
    BY <1>2
  <2> HIDE DEF v
  <2>2. d = Argued(c, <<v>>) /\ <<v>> \in Seq(Int)
    BY <1>0, <2>1, <2>a, FirstArgHeard
  <2> HIDE DEF d
  <2>3. IsCard(d)
    BY <1>0, <2>2 DEF IsCard, Fields, Argued
  <2>4. Heard(d, p, 1)
    BY <1>0, <2>1, <2>2 DEF Heard, IsCard, Fields, Argued, v
  <2>5. Aimed(d, p, 1, n)
    <3>1. r \in 1 .. Closing(p) + 5
      BY <1>0
    <3>2. /\ d.addr = c.addr /\ d.count = c.count /\ d.base = c.base /\ d.bcount = c.bcount
          /\ d.auto = c.auto /\ d.masked = c.masked /\ d.ff = c.ff
      BY <1>0, <2>2 DEF IsCard, Fields, Argued
    <3>3. Aimed(d, p, r - 1, n)
      BY <1>1, <3>1, <3>2, AimedOn
    <3> QED
      BY <1>4, <3>3
  <2>6. Pulls(d, p, 1, t, w) /\ ~d.playing
    BY <1>0, <1>1, <2>2 DEF Pulls, IsCard, Fields, Argued
  <2>7. Follows(d, p, 1, n, t, w)
    BY <1>0, <2>3, <2>4, <2>5, <2>6 DEF Follows
  <2>8. o[1] = "dsp" /\ o[2] = v /\ o # <<"mask", 1>>
    BY <2>1
  <2> QED
    BY <1>4, <2>6, <2>7, <2>8 DEF Outed, d
<1>5. CASE r = 1
  <2> DEFINE v == (Transfer - 1) \div Half
             d == Sd!io_w8(c, "dsp", v)
  <2>1. o = <<"dsp", v>> /\ c.need = 2 /\ c.args = <<(Transfer - 1) % Half>> /\ c.cmd = 20
    BY <1>0, <1>1, <1>5 DEF Says, Heard
  <2>2. d = Begun(c)
    BY <1>0, <2>1, SecondArgHeard
  <2> HIDE DEF d, v
  <2>3. IsCard(d)
    <3>1. <<>> \in Seq(Int)
      OBVIOUS
    <3> QED
      BY <1>0, <1>2, <2>2, <3>1 DEF IsCard, Fields, Begun
  <2>4. Heard(d, p, 0)
    BY <1>0, <2>2 DEF Heard, IsCard, Fields, Begun
  <2>5. Aimed(d, p, 0, n)
    <3>1. r \in 1 .. Closing(p) + 5
      BY <1>0
    <3>2. /\ d.addr = c.addr /\ d.count = c.count /\ d.base = c.base /\ d.bcount = c.bcount
          /\ d.auto = c.auto /\ d.masked = c.masked /\ d.ff = c.ff
      BY <1>0, <2>2 DEF IsCard, Fields, Begun
    <3>3. Aimed(d, p, r - 1, n)
      BY <1>1, <3>1, <3>2, AimedOn
    <3> QED
      BY <1>5, <3>3
  <2>6. Pulls(d, p, 0, 0, w) /\ d.playing
    BY <1>0, <1>1, <1>2, <2>2 DEF Pulls, IsCard, Fields, Begun
  <2>7. Follows(d, p, 0, n, 0, w)
    BY <1>0, <2>3, <2>4, <2>5, <2>6 DEF Follows
  <2>8. o[1] = "dsp" /\ o[2] = v /\ o # <<"mask", 1>>
    BY <2>1
  <2> QED
    BY <1>1, <1>5, <2>6, <2>7, <2>8 DEF Outed, d
<1> QED
  BY <1>3, <1>4, <1>5

\* The DSP's commands before it: the direct output, which leaves the channel and
\* the line as they are, and the length.
LEMMA CommandOut ==
  ASSUME Sd!Constants, NEW p \in Programs, NEW r \in 4 .. Closing(p) + 3, NEW c, NEW n, NEW t, NEW w,
         Follows(c, p, r, n, t, w), NEW o, Says(p, r, o)
  PROVE  Outed(c, o, p, r, n, t, w)
<1> DEFINE e == Closing(p)
           low == (Transfer - 1) % Half
           high == (Transfer - 1) \div Half
<1>0. /\ e \in {3, 6} /\ (p # 1 <=> e = 6)
      /\ IsCard(c) /\ n \in 0 .. Transfer /\ t \in Nat /\ w \in BOOLEAN
  BY Closings DEF Follows
<1>1. Heard(c, p, r) /\ Aimed(c, p, r, n) /\ Pulls(c, p, r, t, w) /\ ~c.playing /\ ~c.irr
  BY <1>0 DEF Follows, Pulls
<1>2. Transfer \in Nat \ {0} /\ low \in Int /\ <<>> \in Seq(Int)
  BY WholeLength DEF Sd!Constants
<1>3. \/ p # 1 /\ r = 6 /\ o = <<"dsp", 72>> /\ c.need = 0 /\ c.args = <<>>
      \/ p # 1 /\ r = 5 /\ o = <<"dsp", low>> /\ c.need = 2 /\ c.cmd = 72 /\ c.args = <<>>
      \/ p # 1 /\ r = 4 /\ o = <<"dsp", high>> /\ c.need = 2 /\ c.cmd = 72 /\ c.args = <<low>>
      \/ r = e + 1 /\ o = <<"dsp", 1>> /\ c.need = 1 /\ c.cmd = 64 /\ c.args = <<>>
      \/ r = e + 2 /\ o = <<"dsp", 64>> /\ c.need = 0 /\ c.args = <<>>
      \/ r = e + 3 /\ o = <<"dsp", 209>> /\ c.need = 0 /\ c.args = <<>>
  <2>1. \/ (p # 1 /\ r \in {4, 5, 6}) \/ r = e + 1 \/ r = e + 2 \/ r = e + 3
    BY <1>0
  <2>2. ASSUME p # 1, r \in {4, 5, 6}
        PROVE  \/ r = 6 /\ o = <<"dsp", 72>> /\ c.need = 0 /\ c.args = <<>>
               \/ r = 5 /\ o = <<"dsp", low>> /\ c.need = 2 /\ c.cmd = 72 /\ c.args = <<>>
               \/ r = 4 /\ o = <<"dsp", high>> /\ c.need = 2 /\ c.cmd = 72 /\ c.args = <<low>>
    BY <1>0, <1>1, <2>2 DEF Says, Heard
  <2>3. ASSUME r = e + 1 PROVE o = <<"dsp", 1>> /\ c.need = 1 /\ c.cmd = 64 /\ c.args = <<>>
    BY <1>0, <1>1, <2>3 DEF Says, Heard
  <2>4. ASSUME r = e + 2 PROVE o = <<"dsp", 64>> /\ c.need = 0 /\ c.args = <<>>
    BY <1>0, <1>1, <2>4 DEF Says, Heard
  <2>5. ASSUME r = e + 3 PROVE o = <<"dsp", 209>> /\ c.need = 0 /\ c.args = <<>>
    BY <1>0, <1>1, <2>5 DEF Says, Heard
  <2> QED
    BY <2>1, <2>2, <2>3, <2>4, <2>5
<1> HIDE DEF low, high
<1>4. ASSUME NEW v, o = <<"dsp", v>>, NEW d, d = Sd!io_w8(c, "dsp", v), IsCard(d), Heard(d, p, r - 1),
             d.addr = c.addr, d.count = c.count, d.base = c.base, d.bcount = c.bcount,
             d.auto = c.auto, d.masked = c.masked, d.ff = c.ff,
             ~d.playing, ~d.irr
      PROVE  Outed(c, o, p, r, n, t, w)
  <2>1. Aimed(d, p, r - 1, n)
    <3>1. r \in 1 .. Closing(p) + 5
      BY <1>0
    <3> QED
      BY <1>1, <1>4, <3>1, AimedOn
  <2>2. Pulls(d, p, r - 1, t, w)
    BY <1>0, <1>4 DEF Pulls
  <2>3. Follows(d, p, r - 1, n, t, w)
    BY <1>0, <1>4, <2>1, <2>2 DEF Follows
  <2>4. o[1] = "dsp" /\ o[2] = v /\ o # <<"mask", 1>>
    BY <1>4
  <2> QED
    BY <1>4, <2>3, <2>4 DEF Outed
<1>5. CASE p # 1 /\ r = 6 /\ o = <<"dsp", 72>> /\ c.need = 0 /\ c.args = <<>>
  <2> DEFINE d == Sd!io_w8(c, "dsp", 72)
  <2>1. d = Commanded(c, 72, 2)
    BY <1>0, <1>5, CommandHeard, Needed
  <2> HIDE DEF d
  <2>2. IsCard(d)
    BY <1>0, <2>1 DEF IsCard, Fields, Commanded
  <2>3. /\ d.need = 2 /\ d.cmd = 72 /\ d.args = <<>>
        /\ d.addr = c.addr /\ d.count = c.count /\ d.base = c.base /\ d.bcount = c.bcount
        /\ d.auto = c.auto /\ d.masked = c.masked /\ d.ff = c.ff /\ ~d.playing /\ ~d.irr
    BY <1>0, <1>1, <1>5, <2>1 DEF IsCard, Fields, Commanded
  <2>4. Heard(d, p, r - 1)
    BY <1>0, <1>5, <2>3 DEF Heard
  <2> QED
    BY <1>4, <1>5, <2>2, <2>3, <2>4 DEF d
<1>6. CASE p # 1 /\ r = 5 /\ o = <<"dsp", low>> /\ c.need = 2 /\ c.cmd = 72 /\ c.args = <<>>
  <2> DEFINE d == Sd!io_w8(c, "dsp", low)
  <2>1. d = Argued(c, <<low>>) /\ <<low>> \in Seq(Int)
    BY <1>0, <1>2, <1>6, FirstArgHeard
  <2> HIDE DEF d
  <2>2. IsCard(d)
    BY <1>0, <2>1 DEF IsCard, Fields, Argued
  <2>3. /\ d.need = 2 /\ d.cmd = 72 /\ d.args = <<low>>
        /\ d.addr = c.addr /\ d.count = c.count /\ d.base = c.base /\ d.bcount = c.bcount
        /\ d.auto = c.auto /\ d.masked = c.masked /\ d.ff = c.ff /\ ~d.playing /\ ~d.irr
    BY <1>0, <1>1, <1>6, <2>1 DEF IsCard, Fields, Argued
  <2>4. Heard(d, p, r - 1)
    BY <1>0, <1>6, <2>3 DEF Heard, low
  <2> QED
    BY <1>4, <1>6, <2>2, <2>3, <2>4 DEF d
<1>7. CASE p # 1 /\ r = 4 /\ o = <<"dsp", high>> /\ c.need = 2 /\ c.cmd = 72 /\ c.args = <<low>>
  <2> DEFINE d == Sd!io_w8(c, "dsp", high)
  <2>1. d = Resized(c)
    BY <1>0, <1>7, SecondArgHeard DEF low, high
  <2> HIDE DEF d
  <2>2. IsCard(d)
    BY <1>0, <1>2, <2>1 DEF IsCard, Fields, Resized
  <2>3. /\ d.need = 0 /\ d.args = <<>>
        /\ d.addr = c.addr /\ d.count = c.count /\ d.base = c.base /\ d.bcount = c.bcount
        /\ d.auto = c.auto /\ d.masked = c.masked /\ d.ff = c.ff /\ ~d.playing /\ ~d.irr
    BY <1>0, <1>1, <1>7, <2>1 DEF IsCard, Fields, Resized
  <2>4. Heard(d, p, r - 1)
    BY <1>0, <1>7, <2>3 DEF Heard
  <2> QED
    BY <1>4, <1>7, <2>2, <2>3, <2>4 DEF d
<1>8. CASE r = e + 1 /\ o = <<"dsp", 1>> /\ c.need = 1 /\ c.cmd = 64 /\ c.args = <<>>
  <2> DEFINE d == Sd!io_w8(c, "dsp", 1)
  <2>1. d = Heeded(c)
    BY <1>0, <1>8, ModeArgHeard
  <2> HIDE DEF d
  <2>2. IsCard(d)
    BY <1>0, <1>2, <2>1 DEF IsCard, Fields, Heeded
  <2>3. /\ d.need = 0 /\ d.args = <<>>
        /\ d.addr = c.addr /\ d.count = c.count /\ d.base = c.base /\ d.bcount = c.bcount
        /\ d.auto = c.auto /\ d.masked = c.masked /\ d.ff = c.ff /\ ~d.playing /\ ~d.irr
    BY <1>0, <1>1, <1>8, <2>1 DEF IsCard, Fields, Heeded
  <2>4. Heard(d, p, r - 1)
    BY <1>0, <1>8, <2>3 DEF Heard
  <2> QED
    BY <1>4, <1>8, <2>2, <2>3, <2>4 DEF d
<1>9. CASE r = e + 2 /\ o = <<"dsp", 64>> /\ c.need = 0 /\ c.args = <<>>
  <2> DEFINE d == Sd!io_w8(c, "dsp", 64)
  <2>1. d = Commanded(c, 64, 1)
    BY <1>0, <1>9, CommandHeard, Needed
  <2> HIDE DEF d
  <2>2. IsCard(d)
    BY <1>0, <2>1 DEF IsCard, Fields, Commanded
  <2>3. /\ d.need = 1 /\ d.cmd = 64 /\ d.args = <<>>
        /\ d.addr = c.addr /\ d.count = c.count /\ d.base = c.base /\ d.bcount = c.bcount
        /\ d.auto = c.auto /\ d.masked = c.masked /\ d.ff = c.ff /\ ~d.playing /\ ~d.irr
    BY <1>0, <1>1, <1>9, <2>1 DEF IsCard, Fields, Commanded
  <2>4. Heard(d, p, r - 1)
    BY <1>0, <1>9, <2>3 DEF Heard
  <2> QED
    BY <1>4, <1>9, <2>2, <2>3, <2>4 DEF d
<1>10. CASE r = e + 3 /\ o = <<"dsp", 209>> /\ c.need = 0 /\ c.args = <<>>
  <2> DEFINE d == Sd!io_w8(c, "dsp", 209)
  <2>1. d = Commanded(c, 209, 0)
    BY <1>0, <1>10, CommandHeard, Needed
  <2> HIDE DEF d
  <2>2. IsCard(d)
    BY <1>0, <2>1 DEF IsCard, Fields, Commanded
  <2>3. /\ d.need = 0 /\ d.args = <<>>
        /\ d.addr = c.addr /\ d.count = c.count /\ d.base = c.base /\ d.bcount = c.bcount
        /\ d.auto = c.auto /\ d.masked = c.masked /\ d.ff = c.ff /\ ~d.playing /\ ~d.irr
    BY <1>0, <1>1, <1>10, <2>1 DEF IsCard, Fields, Commanded
  <2>4. Heard(d, p, r - 1)
    BY <1>0, <1>10, <2>3 DEF Heard
  <2> QED
    BY <1>4, <1>10, <2>2, <2>3, <2>4 DEF d
<1> QED
  BY <1>3, <1>5, <1>6, <1>7, <1>8, <1>9, <1>10

\* What is written to the controller, register by register.
Apart(c, d) ==
  /\ DOMAIN d = DOMAIN c /\ d.stage = c.stage /\ d.cmd = c.cmd /\ d.args = c.args /\ d.need = c.need
  /\ d.size = c.size /\ d.left = c.left /\ d.playing = c.playing /\ d.irr = c.irr

LEMMA AddrWritten ==
  ASSUME NEW c, IsCard(c), NEW v, NEW d, d = Sd!io_w8(c, "addr", v)
  PROVE  /\ Apart(c, d) /\ d.count = c.count /\ d.bcount = c.bcount /\ d.auto = c.auto
         /\ d.masked = c.masked /\ d.ff = 1 - c.ff
         /\ d.base = Sd!Written(c, c.base, v) /\ d.addr = Sd!Written(c, c.base, v)
<1>1. d = [c EXCEPT !.base = Sd!Written(c, @, v), !.addr = Sd!Written(c, c.base, v), !.ff = 1 - @]
  BY DEF Sd!io_w8, Sd!dma_write
<1> QED
  BY <1>1 DEF IsCard, Fields, Apart

LEMMA CountWritten ==
  ASSUME NEW c, IsCard(c), NEW v, NEW d, d = Sd!io_w8(c, "count", v)
  PROVE  /\ Apart(c, d) /\ d.addr = c.addr /\ d.base = c.base /\ d.auto = c.auto
         /\ d.masked = c.masked /\ d.ff = 1 - c.ff
         /\ d.bcount = Sd!Written(c, c.bcount, v) /\ d.count = Sd!Written(c, c.bcount, v)
<1>1. d = [c EXCEPT !.bcount = Sd!Written(c, @, v), !.count = Sd!Written(c, c.bcount, v), !.ff = 1 - @]
  BY DEF Sd!io_w8, Sd!dma_write
<1> QED
  BY <1>1 DEF IsCard, Fields, Apart

LEMMA FlagsWritten ==
  ASSUME NEW c, IsCard(c), NEW port \in {"mask", "mode", "ff"}, NEW v \in {0, 1},
         NEW d, d = Sd!io_w8(c, port, v)
  PROVE  /\ Apart(c, d) /\ d.addr = c.addr /\ d.base = c.base
         /\ d.count = c.count /\ d.bcount = c.bcount
         /\ d.masked \in BOOLEAN /\ d.auto \in BOOLEAN /\ d.ff \in 0 .. 1
         /\ IF port = "mask" THEN d.masked <=> v = 1 ELSE d.masked = c.masked
         /\ IF port = "mode" THEN d.auto <=> v = 1 ELSE d.auto = c.auto
         /\ d.ff = IF port = "ff" THEN 0 ELSE c.ff
<1>1. CASE port = "mask"
  <2>1. d = [c EXCEPT !.masked = v = 1]
    BY <1>1 DEF Sd!io_w8, Sd!dma_write
  <2> QED
    BY <1>1, <2>1 DEF IsCard, Fields, Apart
<1>2. CASE port = "mode"
  <2>1. d = [c EXCEPT !.auto = v = 1]
    BY <1>2 DEF Sd!io_w8, Sd!dma_write
  <2> QED
    BY <1>2, <2>1 DEF IsCard, Fields, Apart
<1>3. CASE port = "ff"
  <2>1. d = [c EXCEPT !.ff = 0]
    BY <1>3 DEF Sd!io_w8, Sd!dma_write
  <2> QED
    BY <1>3, <2>1 DEF IsCard, Fields, Apart
<1> QED
  BY <1>1, <1>2, <1>3

\* The low half, then the high half: the register is what was meant.
LEMMA LowThenHigh ==
  ASSUME Sd!Constants, NEW c, NEW old \in Nat, NEW m \in Nat
  PROVE  /\ c.ff = 0 => /\ Sd!Written(c, old, m % Half) \in Nat
                        /\ Sd!Written(c, old, m % Half) % Half = m % Half
                        /\ old \in Reach => Sd!Written(c, old, m % Half) \in Reach
         /\ c.ff = 1 /\ old % Half = m % Half => Sd!Written(c, old, m \div Half) = m
<1>1. m % Half \in 0 .. Half - 1 /\ (m % Half) + ((m \div Half) * Half) = m
  BY Halved
<1>2. (old \div Half) * Half + (m % Half) \in Nat /\ ((old \div Half) * Half + (m % Half)) % Half = m % Half
  BY <1>1, LowHalf
<1>3. old \in Reach => (old \div Half) * Half + (m % Half) \in Reach
  BY <1>1, InReach DEF Reach
<1>4. c.ff = 0 => Sd!Written(c, old, m % Half) = (old \div Half) * Half + (m % Half)
  BY DEF Sd!Written
<1>5. c.ff = 1 => Sd!Written(c, old, m \div Half) = (old % Half) + ((m \div Half) * Half)
  BY DEF Sd!Written
<1> QED
  BY <1>1, <1>2, <1>3, <1>4, <1>5

\* Outs of the set-up that leave the DSP's transfer alone.
LEMMA SetUpOut ==
  ASSUME NEW p, NEW r \in Closing(p) + 5 .. Closing(p) + 14, NEW c, NEW n, NEW t, NEW w,
         Follows(c, p, r, n, t, w), NEW o, NEW d, d = Sd!io_w8(c, o[1], o[2]),
         IsCard(d), d.args = c.args, d.need = c.need, d.left = c.left, d.playing => c.playing,
         r = Closing(p) + 5 => d.stage,
         NEW m, m = IF o = <<"mask", 1>> THEN 0 ELSE n, Aimed(d, p, r - 1, m)
  PROVE  Outed(c, o, p, r, n, t, w)
<1> DEFINE e == Closing(p)
<1>0. e \in {3, 6} /\ (p # 1 <=> e = 6) /\ n \in 0 .. Transfer /\ t \in Nat /\ w \in BOOLEAN
  BY Closings DEF Follows
<1>1. c.need = 0 /\ c.args = <<>>
  BY <1>0 DEF Follows, Heard
<1>2. Heard(d, p, r - 1)
  BY <1>0, <1>1 DEF Heard
<1>3. Pulls(d, p, r - 1, t, w)
  BY <1>0 DEF Follows, Pulls
<1>4. m \in 0 .. Transfer
  <2>1. Transfer \in Nat
    BY PartsAssumption DEF Sd!Constants
  <2> QED
    BY <1>0, <2>1
<1>5. Follows(d, p, r - 1, m, t, w)
  BY <1>0, <1>2, <1>3, <1>4 DEF Follows
<1>6. (IF d.playing /\ ~c.playing THEN 0 ELSE t) = t
  OBVIOUS
<1> QED
  BY <1>5, <1>6 DEF Outed

\* The buffer's address and length, written with the channel masked.
LEMMA RegisterOut ==
  ASSUME Sd!Constants, NEW p \in Programs, NEW r \in Closing(p) + 7 .. Closing(p) + 10, NEW c,
         NEW n, NEW t, NEW w, Follows(c, p, r, n, t, w), NEW o, Says(p, r, o)
  PROVE  Outed(c, o, p, r, n, t, w)
<1> DEFINE e == Closing(p)
           S == Starts[p]
           L == Lengths[p] - 1
           d == Sd!io_w8(c, o[1], o[2])
<1>0. e \in {3, 6} /\ (p # 1 <=> e = 6) /\ IsCard(c) /\ n \in 0 .. Transfer
  BY Closings DEF Follows
<1>1. Aimed(c, p, r, n)
  BY DEF Follows
<1>2. n = 0 /\ c.masked /\ c.auto /\ c.ff = IF r \in {e + 7, e + 9} THEN 1 ELSE 0
  BY <1>0, <1>1 DEF Aimed, IsCard
<1>3. /\ S \in Nat /\ S \in Reach /\ L \in Nat /\ Lengths[p] \in Nat \ {0}
      /\ c.base \in Nat /\ c.base \in Reach /\ c.bcount \in Nat /\ c.count \in Nat /\ c.addr \in Reach
  <2>1. S \in Nat /\ L \in Nat /\ S + L <= Half * Half - 1 /\ Half * Half \in Nat /\ Lengths[p] \in Nat \ {0}
    BY DEF Sd!Constants
  <2>2. S \in Reach
    BY <2>1 DEF Reach
  <2>3. c.base \in Reach /\ c.bcount \in Nat /\ c.count \in Nat /\ c.addr \in Reach
    BY <1>0 DEF IsCard
  <2> QED
    BY <2>1, <2>2, <2>3 DEF Reach
<1>4. ASSUME IsCard(d), Apart(c, d), Aimed(d, p, r - 1, 0)
      PROVE  Outed(c, o, p, r, n, t, w)
  <2>1. r \in Closing(p) + 5 .. Closing(p) + 14 /\ r # Closing(p) + 5 /\ o # <<"mask", 1>>
    <3>1. r = e + 7 \/ r = e + 8 \/ r = e + 9 \/ r = e + 10
      BY <1>0
    <3>2. o[1] \in {"addr", "count"}
      BY <1>0, <3>1 DEF Says
    <3> QED
      BY <1>0, <3>1, <3>2
  <2> HIDE DEF d
  <2>2. d.args = c.args /\ d.need = c.need /\ d.left = c.left /\ (d.playing => c.playing)
    BY <1>4 DEF Apart
  <2> DEFINE m == IF o = <<"mask", 1>> THEN 0 ELSE n
  <2>3. m = 0
    BY <1>2, <2>1
  <2>4. Aimed(d, p, r - 1, m)
    BY <1>4, <2>3
  <2> HIDE DEF m
  <2>5. m = IF o = <<"mask", 1>> THEN 0 ELSE n
    BY DEF m
  <2> QED
    BY <1>4, <2>1, <2>2, <2>4, <2>5, SetUpOut DEF d
<1>5. CASE r = e + 10
  <2>1. o[1] = "addr" /\ o[2] = S % Half
    BY <1>0, <1>5 DEF Says
  <2> DEFINE x == Sd!Written(c, c.base, S % Half)
  <2>2. d = Sd!io_w8(c, "addr", S % Half)
    BY <2>1
  <2> HIDE DEF d
  <2>3. /\ Apart(c, d) /\ d.count = c.count /\ d.bcount = c.bcount /\ d.auto = c.auto
        /\ d.masked = c.masked /\ d.ff = 1 - c.ff /\ d.base = x /\ d.addr = x
    BY <1>0, <2>2, AddrWritten
  <2>4. x \in Reach /\ x % Half = S % Half
    <3>1. c.ff = 0
      BY <1>0, <1>2, <1>5
    <3> QED
      BY <1>3, <3>1, LowThenHigh
  <2> HIDE DEF x, S
  <2>5. IsCard(d)
    BY <1>0, <1>2, <2>3, <2>4 DEF IsCard, Apart
  <2>6. d.masked /\ d.auto /\ d.ff = 1
    BY <1>0, <1>2, <1>5, <2>3
  <2>7. Aimed(d, p, e + 9, 0)
    BY <1>0, <2>3, <2>4, <2>6 DEF Aimed, S
  <2> QED
    BY <1>0, <1>4, <1>5, <2>3, <2>5, <2>7
<1>6. CASE r = e + 9
  <2>1. o[1] = "addr" /\ o[2] = S \div Half
    BY <1>0, <1>6 DEF Says
  <2> DEFINE x == Sd!Written(c, c.base, S \div Half)
  <2>2. d = Sd!io_w8(c, "addr", S \div Half)
    BY <2>1
  <2> HIDE DEF d
  <2>3. /\ Apart(c, d) /\ d.count = c.count /\ d.bcount = c.bcount /\ d.auto = c.auto
        /\ d.masked = c.masked /\ d.ff = 1 - c.ff /\ d.base = x /\ d.addr = x
    BY <1>0, <2>2, AddrWritten
  <2>4. x = S
    <3>1. c.ff = 1 /\ c.base % Half = S % Half
      BY <1>0, <1>1, <1>2, <1>6 DEF Aimed
    <3> QED
      BY <1>3, <3>1, LowThenHigh
  <2> HIDE DEF x, S
  <2>5. IsCard(d)
    BY <1>0, <1>2, <1>3, <2>3, <2>4 DEF IsCard, Apart
  <2>6. d.masked /\ d.auto /\ d.ff = 0
    BY <1>0, <1>2, <1>6, <2>3
  <2>7. Aimed(d, p, e + 8, 0)
    <3>1. d.base = Starts[p] /\ d.addr = Starts[p] + 0
      BY <1>3, <2>3, <2>4 DEF S
    <3> QED
      BY <1>0, <2>6, <3>1 DEF Aimed
  <2> QED
    BY <1>0, <1>4, <1>6, <2>3, <2>5, <2>7
<1>7. CASE r = e + 8
  <2>1. o[1] = "count" /\ o[2] = L % Half
    BY <1>0, <1>7 DEF Says
  <2> DEFINE x == Sd!Written(c, c.bcount, L % Half)
  <2>2. d = Sd!io_w8(c, "count", L % Half)
    BY <2>1
  <2> HIDE DEF d
  <2>3. /\ Apart(c, d) /\ d.addr = c.addr /\ d.base = c.base /\ d.auto = c.auto
        /\ d.masked = c.masked /\ d.ff = 1 - c.ff /\ d.bcount = x /\ d.count = x
    BY <1>0, <2>2, CountWritten
  <2>4. x \in Nat /\ x % Half = L % Half
    <3>1. c.ff = 0
      BY <1>0, <1>2, <1>7
    <3>2. c.bcount \in Nat /\ L \in Nat
      BY <1>3
    <3> HIDE DEF L
    <3>3. /\ Sd!Written(c, c.bcount, L % Half) \in Nat
          /\ Sd!Written(c, c.bcount, L % Half) % Half = L % Half
      BY ONLY Sd!Constants, <3>1, <3>2, LowThenHigh
    <3> QED
      BY <3>3
  <2> HIDE DEF x, L
  <2>5. IsCard(d)
    BY <1>0, <1>2, <2>3, <2>4 DEF IsCard, Apart
  <2>6. d.masked /\ d.auto /\ d.ff = 1
    BY <1>0, <1>2, <1>7, <2>3
  <2>7. d.base = Starts[p] /\ d.addr = Starts[p] + 0
    BY <1>0, <1>1, <1>2, <1>7, <2>3 DEF Aimed
  <2>8. Aimed(d, p, e + 7, 0)
    BY <1>0, <2>3, <2>4, <2>6, <2>7 DEF Aimed, L
  <2> QED
    BY <1>0, <1>4, <1>7, <2>3, <2>5, <2>8
<1>8. CASE r = e + 7
  <2>1. o[1] = "count" /\ o[2] = L \div Half
    BY <1>0, <1>8 DEF Says
  <2> DEFINE x == Sd!Written(c, c.bcount, L \div Half)
  <2>2. d = Sd!io_w8(c, "count", L \div Half)
    BY <2>1
  <2> HIDE DEF d
  <2>3. /\ Apart(c, d) /\ d.addr = c.addr /\ d.base = c.base /\ d.auto = c.auto
        /\ d.masked = c.masked /\ d.ff = 1 - c.ff /\ d.bcount = x /\ d.count = x
    BY <1>0, <2>2, CountWritten
  <2>4. x = L
    <3>1. c.ff = 1 /\ c.bcount % Half = L % Half
      BY <1>0, <1>1, <1>2, <1>8 DEF Aimed
    <3> QED
      BY <1>3, <3>1, LowThenHigh
  <2> HIDE DEF x
  <2>5. IsCard(d)
    BY <1>0, <1>2, <1>3, <2>3, <2>4 DEF IsCard, Apart
  <2>6. d.masked /\ d.auto /\ d.ff = 0
    BY <1>0, <1>2, <1>8, <2>3
  <2>7. d.base = Starts[p] /\ d.addr = Starts[p] + 0
    BY <1>0, <1>1, <1>2, <1>8, <2>3 DEF Aimed
  <2>9. d.bcount = Lengths[p] - 1 /\ d.count = Lengths[p] - 1 - 0 /\ 0 < Lengths[p]
    BY <1>3, <2>3, <2>4
  <2>8. Aimed(d, p, e + 6, 0)
    BY <1>0, <2>6, <2>7, <2>9 DEF Aimed
  <2> QED
    BY <1>0, <1>4, <1>8, <2>3, <2>5, <2>8
<1> QED
  BY <1>0, <1>5, <1>6, <1>7, <1>8

\* The halt, the mask, the flip-flop, the mode and the mask taken off.
LEMMA FlagOut ==
  ASSUME Sd!Constants, NEW p \in Programs, NEW c, NEW n, NEW t, NEW w,
         NEW r \in {Closing(p) + 6} \cup (Closing(p) + 11 .. Closing(p) + 13),
         Follows(c, p, r, n, t, w), NEW o, Says(p, r, o)
  PROVE  Outed(c, o, p, r, n, t, w)
<1> DEFINE e == Closing(p)
           d == Sd!io_w8(c, o[1], o[2])
<1>0. e \in {3, 6} /\ (p # 1 <=> e = 6) /\ IsCard(c) /\ n \in 0 .. Transfer /\ Aimed(c, p, r, n)
  BY Closings DEF Follows
<1>1. \/ r = e + 6 /\ o = <<"mask", 0>>
      \/ r = e + 11 /\ o = <<"mode", 1>>
      \/ r = e + 12 /\ o = <<"ff", 0>>
      \/ r = e + 13 /\ o = <<"mask", 1>>
  BY <1>0 DEF Says
<1>2. o[1] \in {"mask", "mode", "ff"} /\ o[2] \in {0, 1}
  BY <1>1
<1>3. /\ Apart(c, d) /\ d.addr = c.addr /\ d.base = c.base
      /\ d.count = c.count /\ d.bcount = c.bcount
      /\ d.masked \in BOOLEAN /\ d.auto \in BOOLEAN /\ d.ff \in 0 .. 1
      /\ IF o[1] = "mask" THEN d.masked <=> o[2] = 1 ELSE d.masked = c.masked
      /\ IF o[1] = "mode" THEN d.auto <=> o[2] = 1 ELSE d.auto = c.auto
      /\ d.ff = IF o[1] = "ff" THEN 0 ELSE c.ff
  BY <1>0, <1>2, FlagsWritten
<1> HIDE DEF d
<1>4. IsCard(d)
  BY <1>0, <1>3 DEF IsCard, Apart
<1> DEFINE m == IF o = <<"mask", 1>> THEN 0 ELSE n
<1>5. Aimed(d, p, r - 1, m)
  <2>1. CASE r = e + 6 /\ o = <<"mask", 0>>
    <3>1. m = n /\ ~d.masked /\ d.auto = c.auto /\ d.ff = c.ff
      BY <1>3, <2>1
    <3> HIDE DEF m
    <3> QED
      BY <1>0, <1>3, <2>1, <3>1 DEF Aimed
  <2>2. CASE r = e + 11 /\ o = <<"mode", 1>>
    <3>1. m = n /\ d.masked = c.masked /\ d.auto /\ d.ff = c.ff
      BY <1>3, <2>2
    <3> HIDE DEF m
    <3> QED
      BY <1>0, <1>3, <2>2, <3>1 DEF Aimed
  <2>3. CASE r = e + 12 /\ o = <<"ff", 0>>
    <3>1. m = n /\ d.masked = c.masked /\ d.auto = c.auto /\ d.ff = 0
      BY <1>3, <2>3
    <3> HIDE DEF m
    <3> QED
      BY <1>0, <1>3, <2>3, <3>1 DEF Aimed
  <2>4. CASE r = e + 13 /\ o = <<"mask", 1>>
    <3>1. m = 0 /\ d.masked
      BY <1>3, <2>4
    <3> HIDE DEF m
    <3> QED
      BY <1>0, <1>3, <2>4, <3>1 DEF Aimed
  <2> QED
    BY <1>1, <2>1, <2>2, <2>3, <2>4
<1> HIDE DEF m
<1>6. m = IF o = <<"mask", 1>> THEN 0 ELSE n
  BY DEF m
<1>7. r \in Closing(p) + 5 .. Closing(p) + 14 /\ r # Closing(p) + 5
  BY <1>0, <1>1
<1>8. d.args = c.args /\ d.need = c.need /\ d.left = c.left /\ (d.playing => c.playing)
  BY <1>3 DEF Apart
<1> QED
  BY <1>4, <1>5, <1>6, <1>7, <1>8, SetUpOut DEF d

\* The halt before the script, and the reset's two halves.
LEMMA ResetOut ==
  ASSUME Sd!Constants, NEW p \in Programs, NEW c, NEW n, NEW t, NEW w,
         NEW r \in {Closing(p) + 4, Closing(p) + 5, Closing(p) + 14},
         Follows(c, p, r, n, t, w), NEW o, Says(p, r, o)
  PROVE  Outed(c, o, p, r, n, t, w)
<1> DEFINE e == Closing(p)
<1>0. /\ e \in {3, 6} /\ (p # 1 <=> e = 6)
      /\ IsCard(c) /\ n \in 0 .. Transfer /\ t \in Nat /\ w \in BOOLEAN
      /\ Heard(c, p, r) /\ Aimed(c, p, r, n) /\ Pulls(c, p, r, t, w)
  BY Closings DEF Follows
<1>1. CASE r = e + 14
  <2> DEFINE d == Sd!io_w8(c, "dsp", 208)
  <2>1. o = <<"dsp", 208>> /\ c.need = 0
    BY <1>0, <1>1 DEF Says, Heard
  <2>2. d = [c EXCEPT !.playing = FALSE]
    BY <2>1 DEF Sd!io_w8, Sd!sb_write, Sd!sb_command
  <2> HIDE DEF d
  <2>3. IsCard(d)
    BY <1>0, <2>2 DEF IsCard, Fields
  <2>4. d.args = c.args /\ d.need = c.need /\ d.left = c.left /\ ~d.playing
    BY <1>0, <2>2 DEF IsCard, Fields
  <2>5. Aimed(d, p, r - 1, n)
    BY <1>0, <1>1 DEF Aimed
  <2>6. r \in Closing(p) + 5 .. Closing(p) + 14 /\ r # Closing(p) + 5
    BY <1>0, <1>1
  <2>7. o[1] = "dsp" /\ o[2] = 208 /\ o # <<"mask", 1>>
    BY <2>1
  <2>8. d = Sd!io_w8(c, o[1], o[2]) /\ n = IF o = <<"mask", 1>> THEN 0 ELSE n
    BY <2>7 DEF d
  <2> QED
    BY <2>3, <2>4, <2>5, <2>6, <2>8, SetUpOut
<1>2. CASE r = e + 5
  <2> DEFINE d == Sd!io_w8(c, "reset", 1)
  <2>1. o = <<"reset", 1>>
    BY <1>0, <1>2 DEF Says
  <2>2. d = [c EXCEPT !.stage = TRUE]
    BY DEF Sd!io_w8, Sd!sb_write, Sd!sb_reset
  <2> HIDE DEF d
  <2>3. IsCard(d)
    BY <1>0, <2>2 DEF IsCard, Fields
  <2>4. /\ d.args = c.args /\ d.need = c.need /\ d.left = c.left /\ d.playing = c.playing /\ d.stage
        /\ d.addr = c.addr /\ d.count = c.count /\ d.base = c.base /\ d.bcount = c.bcount
        /\ d.auto = c.auto /\ d.masked = c.masked /\ d.ff = c.ff
    BY <1>0, <2>2 DEF IsCard, Fields
  <2>5. Aimed(d, p, r - 1, n)
    <3>1. r \in 1 .. Closing(p) + 5
      BY <1>0, <1>2
    <3> QED
      BY <1>0, <2>4, <3>1, AimedOn
  <2>6. r \in Closing(p) + 5 .. Closing(p) + 14
    BY <1>0, <1>2
  <2>7. o[1] = "reset" /\ o[2] = 1 /\ o # <<"mask", 1>>
    BY <2>1
  <2>8. d = Sd!io_w8(c, o[1], o[2]) /\ n = IF o = <<"mask", 1>> THEN 0 ELSE n
    BY <2>7 DEF d
  <2> QED
    BY <2>3, <2>4, <2>5, <2>6, <2>8, SetUpOut
<1>3. CASE r = e + 4
  <2> DEFINE d == Sd!io_w8(c, "reset", 0)
  <2>1. o = <<"reset", 0>> /\ c.stage
    BY <1>0, <1>3 DEF Says, Pulls
  <2>2. d = [c EXCEPT !.stage = FALSE, !.playing = FALSE, !.args = <<>>, !.need = 0, !.irr = FALSE]
    BY <2>1 DEF Sd!io_w8, Sd!sb_write, Sd!sb_reset
  <2> HIDE DEF d
  <2>a. <<>> \in Seq(Int)
    OBVIOUS
  <2>3. IsCard(d)
    BY <1>0, <2>2, <2>a DEF IsCard, Fields
  <2>4. /\ d.args = <<>> /\ d.need = 0 /\ ~d.playing /\ ~d.irr
        /\ d.addr = c.addr /\ d.count = c.count /\ d.base = c.base /\ d.bcount = c.bcount
        /\ d.auto = c.auto /\ d.masked = c.masked /\ d.ff = c.ff
    BY <1>0, <2>2 DEF IsCard, Fields
  <2>5. Aimed(d, p, r - 1, n)
    <3>1. r \in 1 .. Closing(p) + 5
      BY <1>0, <1>3
    <3> QED
      BY <1>0, <2>4, <3>1, AimedOn
  <2>6. Heard(d, p, r - 1) /\ Pulls(d, p, r - 1, t, w)
    BY <1>0, <1>3, <2>4 DEF Heard, Pulls
  <2>7. o[1] = "reset" /\ o[2] = 0 /\ o # <<"mask", 1>>
    BY <2>1
  <2>8. Follows(d, p, r - 1, n, t, w)
    BY <1>0, <2>3, <2>5, <2>6 DEF Follows
  <2> QED
    BY <2>4, <2>7, <2>8 DEF Outed, d
<1> QED
  BY <1>1, <1>2, <1>3

\* Any out.
LEMMA AnyOut ==
  ASSUME Sd!Constants, NEW p \in Programs, NEW r \in 1 .. Closing(p) + 14, NEW c, NEW n, NEW t, NEW w,
         Follows(c, p, r, n, t, w), NEW o, Says(p, r, o)
  PROVE  Outed(c, o, p, r, n, t, w)
<1>0. Closing(p) \in {3, 6}
  BY Closings
<1>1. \/ r \in 1 .. 3
      \/ r \in 4 .. Closing(p) + 3
      \/ r \in Closing(p) + 7 .. Closing(p) + 10
      \/ r \in {Closing(p) + 6} \cup (Closing(p) + 11 .. Closing(p) + 13)
      \/ r \in {Closing(p) + 4, Closing(p) + 5, Closing(p) + 14}
  BY <1>0
<1>2. CASE r \in 1 .. 3
  BY <1>2, TransferOut
<1>3. CASE r \in 4 .. Closing(p) + 3
  BY <1>3, CommandOut
<1>4. CASE r \in Closing(p) + 7 .. Closing(p) + 10
  BY <1>4, RegisterOut
<1>5. CASE r \in {Closing(p) + 6} \cup (Closing(p) + 11 .. Closing(p) + 13)
  BY <1>5, FlagOut
<1>6. CASE r \in {Closing(p) + 4, Closing(p) + 5, Closing(p) + 14}
  BY <1>6, ResetOut
<1> QED
  BY <1>1, <1>2, <1>3, <1>4, <1>5, <1>6

-----------------------------------------------------------------------------
(* One sample.                                                             *)

\* What the controller's channel does of one byte; the DSP's part stands.
LEMMA Fetched ==
  ASSUME Sd!Constants, NEW c, IsCard(c), NEW d, d = Sd!dma_fetch(c)
  PROVE  /\ Apart(c, d) /\ d.base = c.base /\ d.bcount = c.bcount /\ d.auto = c.auto /\ d.ff = c.ff
         /\ d.masked \in BOOLEAN /\ d.addr \in Reach /\ d.count \in Nat
         /\ c.count # 0 => d.addr = Sd!Next16(c.addr) /\ d.count = c.count - 1 /\ d.masked = c.masked
         /\ c.count = 0 /\ c.auto => d.addr = c.base /\ d.count = c.bcount /\ d.masked = c.masked
<1>1. Sd!Next16(c.addr) \in Reach
  <2>1. Half * Half \in Nat \ {0} /\ c.addr \in Nat
    BY DEF Sd!Constants, IsCard, Reach
  <2> DEFINE W == Half * Half
  <2> HIDE DEF W
  <2>2. W \in Nat \ {0}
    BY <2>1 DEF W
  <2>3. (c.addr + 1) % W \in 0 .. W - 1
    BY <2>1, <2>2
  <2> QED
    BY <2>3 DEF W, Reach, Sd!Next16
<1>2. CASE c.count # 0
  <2> DEFINE x == Sd!Next16(c.addr)
  <2>1. d = [c EXCEPT !.addr = x, !.count = c.count - 1]
    BY <1>2 DEF Sd!dma_fetch
  <2> HIDE DEF x
  <2>2. Apart(c, d) /\ d.base = c.base /\ d.bcount = c.bcount /\ d.auto = c.auto /\ d.ff = c.ff
    BY <2>1 DEF IsCard, Fields, Apart
  <2>3. d.masked = c.masked /\ d.addr = x /\ d.count = c.count - 1
    BY <2>1 DEF IsCard, Fields
  <2>4. c.count - 1 \in Nat /\ c.masked \in BOOLEAN
    BY <1>2 DEF IsCard
  <2> QED
    BY <1>1, <1>2, <2>2, <2>3, <2>4 DEF x
<1>3. CASE c.count = 0 /\ c.auto
  <2>1. d = [c EXCEPT !.addr = c.base, !.count = c.bcount]
    BY <1>3 DEF Sd!dma_fetch
  <2>2. Apart(c, d) /\ d.base = c.base /\ d.bcount = c.bcount /\ d.auto = c.auto /\ d.ff = c.ff
    BY <2>1 DEF IsCard, Fields, Apart
  <2>3. d.masked = c.masked /\ d.addr = c.base /\ d.count = c.bcount
    BY <2>1 DEF IsCard, Fields
  <2>4. c.base \in Reach /\ c.bcount \in Nat /\ c.masked \in BOOLEAN
    BY DEF IsCard
  <2> QED
    BY <1>3, <2>2, <2>3, <2>4
<1>4. CASE c.count = 0 /\ ~c.auto
  <2> DEFINE x == Sd!Next16(c.addr)
  <2>1. d = [c EXCEPT !.addr = x, !.masked = TRUE]
    BY <1>4 DEF Sd!dma_fetch
  <2> HIDE DEF x
  <2>2. Apart(c, d) /\ d.base = c.base /\ d.bcount = c.bcount /\ d.auto = c.auto /\ d.ff = c.ff
    BY <2>1 DEF IsCard, Fields, Apart
  <2>3. d.masked = TRUE /\ d.addr = x /\ d.count = c.count
    BY <2>1 DEF IsCard, Fields
  <2>4. c.count \in Nat
    BY DEF IsCard
  <2> QED
    BY <1>1, <1>4, <2>2, <2>3, <2>4 DEF x
<1> QED
  BY <1>2, <1>3, <1>4

\* A byte pulled leaves a card.
LEMMA StillCard ==
  ASSUME NEW c, IsCard(c), NEW d, DOMAIN d = Fields,
         d.addr \in Reach, d.count \in Nat, d.masked \in BOOLEAN,
         d.left \in 0 .. Transfer, d.irr \in BOOLEAN, d.playing \in BOOLEAN,
         d.base = c.base, d.bcount = c.bcount, d.auto = c.auto, d.ff = c.ff,
         d.stage = c.stage, d.cmd = c.cmd, d.args = c.args, d.need = c.need, d.size = c.size
  PROVE  IsCard(d)
<1>1. c.size \in 0 .. Transfer /\ c.base \in Reach /\ c.bcount \in Nat /\ c.auto \in BOOLEAN /\ c.ff \in 0 .. 1
  BY DEF IsCard
<1>2. c.stage \in BOOLEAN /\ c.cmd \in Int /\ c.args \in Seq(Int) /\ c.need \in 0 .. 2
  BY DEF IsCard
<1>3. d.size \in 0 .. Transfer /\ d.base \in Reach /\ d.bcount \in Nat /\ d.auto \in BOOLEAN /\ d.ff \in 0 .. 1
  BY <1>1
<1>4. d.stage \in BOOLEAN /\ d.cmd \in Int /\ d.args \in Seq(Int) /\ d.need \in 0 .. 2
  BY <1>2
<1> QED
  BY <1>3, <1>4 DEF IsCard

\* The card once the DSP has counted it.
AfterByte(c) ==
  LET f == [Sd!dma_fetch(c) EXCEPT !.left = @ - 1]
  IN IF Sd!RunsOut(c) THEN Sd!Fired(c, f) ELSE f

\* What the DSP makes of it: one less to go, or its interrupt.
LEMMA PulledOne ==
  ASSUME Sd!Constants, NEW c, IsCard(c), NEW g, g = Sd!dma_fetch(c), c.left >= 1,
         NEW d, d = AfterByte(c)
  PROVE  /\ IsCard(d) /\ d.stage = c.stage /\ d.cmd = c.cmd /\ d.args = c.args /\ d.need = c.need
         /\ d.size = c.size
         /\ d.addr = g.addr /\ d.count = g.count /\ d.base = c.base /\ d.bcount = c.bcount
         /\ d.auto = c.auto /\ d.masked = g.masked /\ d.ff = c.ff
         /\ Sd!RunsOut(c) => d.left = c.size /\ d.irr /\ ~d.playing /\ c.left = 1
         /\ ~Sd!RunsOut(c) => d.left = c.left - 1 /\ d.left >= 1 /\ d.irr = c.irr /\ d.playing = c.playing
<1> DEFINE f == [g EXCEPT !.left = @ - 1]
<1>0. d = IF Sd!RunsOut(c) THEN Sd!Fired(c, f) ELSE f
  BY DEF AfterByte
<1>1. /\ Apart(c, g) /\ g.base = c.base /\ g.bcount = c.bcount /\ g.auto = c.auto /\ g.ff = c.ff
      /\ g.masked \in BOOLEAN /\ g.addr \in Reach /\ g.count \in Nat
  BY Fetched
<1>2. DOMAIN g = Fields /\ c.left \in 1 .. Transfer /\ c.size \in 0 .. Transfer /\ Transfer \in Nat
  BY <1>1 DEF Apart, IsCard, Sd!Constants
<1>3. /\ DOMAIN f = Fields /\ f.left = c.left - 1
      /\ f.addr = g.addr /\ f.count = g.count /\ f.base = c.base /\ f.bcount = c.bcount
      /\ f.auto = c.auto /\ f.masked = g.masked /\ f.ff = c.ff
      /\ f.stage = c.stage /\ f.cmd = c.cmd /\ f.args = c.args /\ f.need = c.need
      /\ f.size = c.size /\ f.playing = c.playing /\ f.irr = c.irr
  BY <1>1, <1>2 DEF Apart, Fields
<1> HIDE DEF f
<1>4. CASE Sd!RunsOut(c)
  <2>1. d = [f EXCEPT !.left = c.size, !.irr = TRUE, !.playing = FALSE]
    BY <1>0, <1>4 DEF Sd!Fired
  <2>2. /\ DOMAIN d = Fields /\ d.left = c.size /\ d.irr = TRUE /\ d.playing = FALSE
        /\ d.addr = g.addr /\ d.count = g.count /\ d.base = c.base /\ d.bcount = c.bcount
        /\ d.auto = c.auto /\ d.masked = g.masked /\ d.ff = c.ff
        /\ d.stage = c.stage /\ d.cmd = c.cmd /\ d.args = c.args /\ d.need = c.need
        /\ d.size = c.size
    BY <1>3, <2>1 DEF Fields
  <2>3. IsCard(d)
    <3>1. d.irr \in BOOLEAN /\ d.playing \in BOOLEAN /\ d.left \in 0 .. Transfer
      BY <1>2, <2>2
    <3> QED
      BY <1>1, <2>2, <3>1, StillCard
  <2>4. c.left = 1
    BY <1>2, <1>4 DEF Sd!RunsOut
  <2> QED
    BY <1>4, <2>2, <2>3, <2>4
<1>5. CASE ~Sd!RunsOut(c)
  <2>1. d = f
    BY <1>0, <1>5
  <2>2. d.left \in 1 .. Transfer
    BY <1>2, <1>3, <1>5, <2>1 DEF Sd!RunsOut
  <2>3. IsCard(d)
    <3>1. c.irr \in BOOLEAN /\ c.playing \in BOOLEAN
      BY DEF IsCard
    <3>2. d.irr = c.irr /\ d.playing = c.playing
      BY <1>3, <2>1
    <3>3. d.irr \in BOOLEAN /\ d.playing \in BOOLEAN
      BY <3>1, <3>2
    <3>4. d.left \in 0 .. Transfer
      BY <1>2, <2>2
    <3> QED
      BY <1>1, <1>2, <1>3, <2>1, <3>3, <3>4, StillCard
  <2> QED
    BY <1>2, <1>3, <1>5, <2>1, <2>2, <2>3
<1> QED
  BY <1>4, <1>5

\* A masked channel stops the DSP.
LEMMA MaskedStops ==
  ASSUME NEW c, NEW p, NEW r \in Nat, NEW n, NEW t, NEW w, Follows(c, p, r, n, t, w), c.masked,
         NEW d, d = [c EXCEPT !.playing = FALSE]
  PROVE  Follows(d, p, r, n, t, w)
<1>0. Closing(p) \in {3, 6} /\ IsCard(c)
  BY Closings DEF Follows
<1>1. /\ DOMAIN d = Fields /\ d.playing = FALSE /\ d.irr = c.irr /\ d.left = c.left
      /\ d.addr = c.addr /\ d.count = c.count /\ d.base = c.base /\ d.bcount = c.bcount
      /\ d.auto = c.auto /\ d.masked = c.masked /\ d.ff = c.ff
      /\ d.stage = c.stage /\ d.cmd = c.cmd /\ d.args = c.args /\ d.need = c.need
      /\ d.size = c.size
  BY <1>0 DEF IsCard, Fields
<1>2. IsCard(d)
  <2>1. d.addr \in Reach /\ d.count \in Nat /\ d.left \in 0 .. Transfer
    BY <1>0, <1>1 DEF IsCard
  <2>2. d.playing \in BOOLEAN
    BY <1>1
  <2>3. c.masked \in BOOLEAN /\ c.irr \in BOOLEAN
    BY <1>0 DEF IsCard
  <2>4. d.masked \in BOOLEAN /\ d.irr \in BOOLEAN
    BY <1>1, <2>3
  <2> QED
    BY <1>0, <1>1, <2>1, <2>2, <2>4, StillCard
<1>3. Heard(d, p, r)
  BY <1>1 DEF Follows, Heard
<1>4. Aimed(d, p, r, n)
  BY <1>1 DEF Follows, Aimed
<1>5. Pulls(d, p, r, t, w)
  <2>1. r > Closing(p) + 5
    BY <1>0 DEF Follows, Aimed
  <2> QED
    BY <1>0, <1>1, <2>1 DEF Follows, Pulls
<1> QED
  BY <1>2, <1>3, <1>4, <1>5 DEF Follows

\* How far the transfer has gone in its buffer, and where the next byte is.
LEMMA GoesOn ==
  ASSUME Sd!Constants, NEW p \in Programs, NEW n \in Nat, n < Lengths[p]
  PROVE  /\ (n + 1) % Lengths[p] = IF n = Lengths[p] - 1 THEN 0 ELSE n + 1
         /\ n # Lengths[p] - 1 => Sd!Next16(Starts[p] + n) = Starts[p] + (n + 1)
<1> DEFINE L == Lengths[p]
           a == Starts[p]
           W == Half * Half
<1>1. L \in Nat \ {0} /\ a \in Nat /\ W \in Nat \ {0} /\ a + L <= W
  BY DEF Sd!Constants
<1> HIDE DEF L, a, W
<1>2. (n + 1) % L = IF n = L - 1 THEN 0 ELSE n + 1
  BY <1>1, RoundAgain DEF L
<1>3. ASSUME n # L - 1 PROVE (a + n + 1) % W = a + (n + 1)
  <2>1. a + n + 1 \in 0 .. W - 1 /\ a + n \in 0 .. W - 1 /\ a + n # W - 1
    BY <1>1, <1>3 DEF L
  <2>2. (a + n + 1) % W = a + n + 1
    BY <1>1, <2>1, RoundAgain
  <2> QED
    BY <1>1, <2>2
<1> QED
  BY <1>2, <1>3 DEF L, a, W, Sd!Next16

\* A byte pulled.
LEMMA PulledFollows ==
  ASSUME Sd!Constants, NEW c, NEW p \in Programs, NEW r \in Nat, NEW n, NEW t, NEW w,
         Follows(c, p, r, n, t, w), c.playing, ~c.masked,
         NEW d, d = AfterByte(c)
  PROVE  Follows(d, p, r, (n + 1) % Lengths[p], t + 1, w \/ (Sd!RunsOut(c) /\ r = 0))
<1>0. /\ Closing(p) \in {3, 6} /\ IsCard(c) /\ n \in 0 .. Transfer /\ t \in Nat /\ w \in BOOLEAN
      /\ Transfer \in Nat \ {0} /\ Lengths[p] \in 1 .. Transfer /\ Starts[p] \in Nat
  BY Closings DEF Follows, Sd!Constants
<1>1. Heard(c, p, r) /\ Aimed(c, p, r, n) /\ Pulls(c, p, r, t, w) /\ c.left >= 1
  BY DEF Follows, Pulls
<1> DEFINE g == Sd!dma_fetch(c)
<1> HIDE DEF g
<1>2. /\ g.addr \in Reach /\ g.count \in Nat
      /\ c.count # 0 => g.addr = Sd!Next16(c.addr) /\ g.count = c.count - 1 /\ g.masked = c.masked
      /\ c.count = 0 /\ c.auto => g.addr = c.base /\ g.count = c.bcount /\ g.masked = c.masked
  BY <1>0, Fetched DEF g
<1>3. /\ IsCard(d) /\ d.stage = c.stage /\ d.cmd = c.cmd /\ d.args = c.args /\ d.need = c.need
      /\ d.size = c.size
      /\ d.addr = g.addr /\ d.count = g.count /\ d.base = c.base /\ d.bcount = c.bcount
      /\ d.auto = c.auto /\ d.masked = g.masked /\ d.ff = c.ff
      /\ Sd!RunsOut(c) => d.left = c.size /\ d.irr /\ ~d.playing /\ c.left = 1
      /\ ~Sd!RunsOut(c) => d.left = c.left - 1 /\ d.left >= 1 /\ d.irr = c.irr /\ d.playing = c.playing
  <2>1. IsCard(c) /\ c.left >= 1 /\ g = Sd!dma_fetch(c)
    BY <1>0, <1>1 DEF g
  <2> HIDE DEF g
  <2> QED
    BY ONLY Sd!Constants, d = AfterByte(c), <2>1, PulledOne
<1> DEFINE L == Lengths[p]
           m == (n + 1) % L
           v == w \/ (Sd!RunsOut(c) /\ r = 0)
<1>4. m \in 0 .. Transfer
  <2>1. L \in Nat \ {0} /\ L <= Transfer /\ n + 1 \in Nat
    BY <1>0
  <2> HIDE DEF L
  <2>2. (n + 1) % L \in 0 .. L - 1
    BY <2>1
  <2> QED
    BY <1>0, <2>1, <2>2
<1>5. t + 1 \in Nat /\ v \in BOOLEAN
  BY <1>0
<1>6. Heard(d, p, r)
  BY <1>1, <1>3 DEF Heard
<1>7. Aimed(d, p, r, m)
  <2>1. CASE r <= Closing(p) + 12
    <3>1. r <= Closing(p) + 5
      BY <1>0, <1>1, <2>1 DEF Aimed
    <3>2. /\ c.auto /\ c.base = Starts[p] /\ c.addr = Starts[p] + n /\ c.bcount = L - 1
          /\ c.count = L - 1 - n /\ n < L /\ c.ff = 0
      BY <1>0, <1>1, <3>1 DEF Aimed
    <3>3. n \in Nat /\ L \in Nat \ {0} /\ m = (IF n = L - 1 THEN 0 ELSE n + 1)
          /\ (n # L - 1 => Sd!Next16(Starts[p] + n) = Starts[p] + (n + 1))
      BY <1>0, <3>2, GoesOn
    <3> HIDE DEF L, m
    <3>a. ~c.masked /\ g.masked = c.masked
      BY <1>2, <3>2
    <3>b. ~d.masked /\ d.auto
      BY <1>3, <3>2, <3>a
    <3>c. d.ff = 0 /\ d.base = Starts[p] /\ d.bcount = L - 1
      BY <1>3, <3>2
    <3>4. m < L
      BY <3>2, <3>3
    <3>5. d.addr = Starts[p] + m /\ d.count = L - 1 - m
      <4>1. CASE n = L - 1
        BY <1>0, <1>2, <1>3, <3>2, <3>3, <4>1
      <4>2. CASE n # L - 1
        BY <1>0, <1>2, <1>3, <3>2, <3>3, <4>2
      <4> QED
        BY <4>1, <4>2
    <3>6. L = Lengths[p]
      BY DEF L
    <3> QED
      BY <1>0, <3>1, <3>b, <3>c, <3>4, <3>5, <3>6 DEF Aimed
  <2>2. CASE r > Closing(p) + 12
    <3> HIDE DEF m
    <3> QED
      BY <1>0, <2>2 DEF Aimed
  <2> QED
    BY <1>0, <2>1, <2>2
<1>8. Pulls(d, p, r, t + 1, v)
  <2>1. r \notin 1 .. Closing(p) + 3
    BY <1>1 DEF Pulls
  <2>2. d.playing => d.left >= 1
    BY <1>3
  <2>3. r = Closing(p) + 4 => d.stage
    BY <1>1, <1>3 DEF Pulls
  <2>4. ASSUME r = 0
        PROVE  /\ d.size = Transfer
               /\ d.playing => ~d.irr /\ t + 1 + d.left = Transfer
               /\ d.irr => t + 1 = Transfer /\ v
    <3>1. c.size = Transfer /\ ~c.irr /\ t + c.left = Transfer /\ c.left \in Nat
      BY <1>0, <1>1, <2>4 DEF Pulls, IsCard
    <3>2. CASE Sd!RunsOut(c)
      BY <1>0, <1>3, <2>4, <3>1, <3>2
    <3>3. CASE ~Sd!RunsOut(c)
      BY <1>0, <1>3, <2>4, <3>1, <3>3
    <3> QED
      BY <3>2, <3>3
  <2> HIDE DEF v
  <2> QED
    BY <2>1, <2>2, <2>3, <2>4 DEF Pulls
<1> HIDE DEF m, v
<1>9. Follows(d, p, r, m, t + 1, v)
  BY <1>3, <1>4, <1>5, <1>6, <1>7, <1>8 DEF Follows
<1> QED
  BY <1>9 DEF m, v, L

\* What a tick works on: the card and the histories.
Sampling(u) ==
  /\ DOMAIN u = {"card", "got", "since", "own"}
  /\ Follows(u.card, driver, Len(out), u.got, u.since, u.own)

LEMMA Silent ==
  ASSUME out \in Seq(CardPorts \X Int)
  PROVE  Len(out) \in Nat /\ (Len(out) = 0 <=> out = <<>>)
  BY EmptySeq

LEMMA Sampled ==
  ASSUME Sd!Constants, driver \in Programs, driver # 0, out \in Seq(CardPorts \X Int),
         NEW u, Sampling(u), NEW v, v = Sd!Sample(u)
  PROVE  Sampling(v)
<1> DEFINE c == u.card
           r == Len(out)
<1>0. DOMAIN u = {"card", "got", "since", "own"} /\ Follows(c, driver, r, u.got, u.since, u.own)
  BY DEF Sampling
<1>1. r \in Nat /\ (r = 0 <=> out = <<>>)
  BY Silent
<1>2. CASE ~c.playing
  <2>1. v = u
    BY <1>2 DEF Sd!Sample
  <2> QED
    BY <2>1
<1>3. CASE c.playing /\ c.masked
  <2> DEFINE d == [c EXCEPT !.playing = FALSE]
  <2>1. v = [u EXCEPT !.card.playing = FALSE]
    BY <1>3 DEF Sd!Sample
  <2>2. /\ DOMAIN v = DOMAIN u /\ v.card = d
        /\ v.got = u.got /\ v.since = u.since /\ v.own = u.own
    BY <1>0, <2>1
  <2> HIDE DEF c, d, r
  <2>3. Follows(d, driver, r, u.got, u.since, u.own)
    BY <1>0, <1>1, <1>3, MaskedStops DEF d
  <2>4. Follows(v.card, driver, r, v.got, v.since, v.own)
    BY <2>2, <2>3
  <2> QED
    BY <1>0, <2>2, <2>4 DEF r, Sampling
<1>4. CASE c.playing /\ ~c.masked
  <2> DEFINE d == AfterByte(c)
             m == (u.got + 1) % Lengths[driver]
             w == u.own \/ (Sd!RunsOut(c) /\ r = 0)
  <2>1. v = [card |-> d, got |-> m, since |-> u.since + 1, own |-> w]
    <3>1. Sd!Up <=> r = 0
      BY <1>1 DEF Sd!Up
    <3>2. (Sd!RunsOut(c) /\ Sd!Up) <=> (Sd!RunsOut(c) /\ r = 0)
      BY <3>1
    <3> QED
      BY <1>4, <3>2 DEF Sd!Sample, AfterByte
  <2>2. DOMAIN v = {"card", "got", "since", "own"}
    BY <2>1
  <2>3. v.card = d /\ v.got = m /\ v.since = u.since + 1 /\ v.own = w
    BY <2>1
  <2> HIDE DEF c, d, m, w, r
  <2>4. Follows(d, driver, r, (u.got + 1) % Lengths[driver], u.since + 1, u.own \/ (Sd!RunsOut(c) /\ r = 0))
    BY <1>0, <1>1, <1>4, PulledFollows DEF d
  <2>5. Follows(d, driver, r, m, u.since + 1, w)
    BY <2>4 DEF m, w
  <2>6. Follows(v.card, driver, r, v.got, v.since, v.own)
    BY <2>3, <2>5
  <2> QED
    BY <2>2, <2>6 DEF r, Sampling
<1> QED
  BY <1>2, <1>3, <1>4

LEMMA PulledSamples ==
  ASSUME Sd!Constants, driver \in Programs, driver # 0, Spoken(driver, out),
         Follows(card, driver, Len(out), got, since, own), NEW n
  PROVE  Sampling(Sd!Pulled(n))
<1> DEFINE u == [card |-> card, got |-> got, since |-> since, own |-> own]
<1>1. out \in Seq(CardPorts \X Int)
  BY DEF Spoken
<1>2. Sampling(u)
  BY DEF Sampling
<1> HIDE DEF u
<1>3. Sampling(Sd!Sample(u))
  BY <1>1, <1>2, Sampled
<1>4. Sampling(Sd!Sample(Sd!Sample(u)))
  BY <1>1, <1>3, Sampled
<1>5. Sd!Pulled(n) = IF n = 1 THEN Sd!Sample(u) ELSE Sd!Sample(Sd!Sample(u))
  BY DEF u, Sd!Pulled
<1> QED
  BY <1>3, <1>4, <1>5

-----------------------------------------------------------------------------
(* The host's buffers.                                                     *)

\* Whose turn it is, plays only when every buffer does.
LEMMA TurnPlays ==
  ASSUME Sd!Constants, Buffers
  PROVE  Sd!Playing(hdr_i) <=> Len(busy) = NBUF
<1> DEFINE l == Len(busy)
<1>1. /\ l \in Nat /\ l <= NBUF /\ NBUF \in Nat \ {0} /\ hdr_i \in 0 .. NBUF - 1
      /\ DOMAIN busy = 1 .. l /\ \A i \in 1 .. l : busy[i] = Before(hdr_i, l + 1 - i)
  BY DEF Buffers, Sd!Constants
<1> HIDE DEF l
<1>2. ASSUME NEW k \in 1 .. l PROVE Before(hdr_i, k) = hdr_i <=> k = NBUF
  BY <1>1 DEF Before
<1>3. ASSUME l = NBUF PROVE Sd!Playing(hdr_i)
  <2>1. 1 \in 1 .. l /\ l + 1 - 1 = l /\ l \in 1 .. l
    BY <1>1, <1>3
  <2>2. busy[1] = hdr_i
    BY <1>1, <1>2, <1>3, <2>1
  <2> QED
    BY <1>1, <2>1, <2>2 DEF Sd!Playing
<1>4. ASSUME Sd!Playing(hdr_i) PROVE l = NBUF
  <2>1. PICK i \in 1 .. l : busy[i] = hdr_i
    BY <1>1, <1>4 DEF Sd!Playing
  <2>2. l + 1 - i \in 1 .. l /\ Before(hdr_i, l + 1 - i) = hdr_i
    BY <1>1, <2>1
  <2>3. l + 1 - i = NBUF
    BY <1>2, <2>2
  <2> QED
    BY <1>1, <2>2, <2>3
<1> QED
  BY <1>3, <1>4 DEF l

LEMMA Flushed ==
  ASSUME Sd!Constants, Buffers, Sd!host_flush
  PROVE  Buffers'
<1> DEFINE l == Len(busy)
<1>1. /\ l \in Nat /\ l <= NBUF /\ NBUF \in Nat \ {0} /\ hdr_i \in 0 .. NBUF - 1 /\ ~dropped
      /\ busy \in Seq(0 .. NBUF - 1) /\ \A i \in 1 .. l : busy[i] = Before(hdr_i, l + 1 - i)
  BY DEF Buffers, Sd!Constants
<1>2. CASE Sd!Playing(hdr_i)
  <2>1. busy' = busy /\ hdr_i' = hdr_i /\ (dropped' <=> (dropped \/ Len(busy) < NBUF))
    BY <1>2 DEF Sd!host_flush
  <2>2. Len(busy) = NBUF
    BY <1>2, TurnPlays
  <2>3. ~dropped'
    BY <1>1, <2>1, <2>2
  <2> QED
    BY <2>1, <2>3 DEF Buffers
<1>3. CASE ~Sd!Playing(hdr_i)
  <2>1. busy' = Append(busy, hdr_i) /\ hdr_i' = (hdr_i + 1) % NBUF /\ dropped' = dropped
    BY <1>3 DEF Sd!host_flush
  <2>2. l < NBUF
    BY <1>1, <1>3, TurnPlays
  <2>3. hdr_i' = IF hdr_i = NBUF - 1 THEN 0 ELSE hdr_i + 1
    BY <1>1, <2>1, RoundAgain
  <2>4. /\ Len(busy') = l + 1 /\ busy' \in Seq(0 .. NBUF - 1)
        /\ busy'[l + 1] = hdr_i /\ \A i \in 1 .. l : busy'[i] = busy[i]
    BY <1>1, <2>1, AppendProperties
  <2> HIDE DEF l
  <2>5. ASSUME NEW i \in 1 .. l + 1 PROVE busy'[i] = Before(hdr_i', l + 2 - i)
    <3>1. CASE i = l + 1
      <4>1. l + 2 - i = 1
        BY <1>1, <3>1
      <4>2. Before(hdr_i', 1) = hdr_i
        BY <1>1, <2>3 DEF Before
      <4> QED
        BY <2>4, <3>1, <4>1, <4>2
    <3>2. CASE i \in 1 .. l
      <4>1. busy'[i] = Before(hdr_i, l + 1 - i)
        BY <1>1, <2>4, <3>2
      <4>2. l + 1 - i \in 1 .. NBUF - 1 /\ l + 2 - i = (l + 1 - i) + 1
        BY <1>1, <2>2, <3>2
      <4>3. ASSUME NEW k \in 1 .. NBUF - 1 PROVE Before(hdr_i, k) = Before(hdr_i', k + 1)
        BY <1>1, <2>3 DEF Before
      <4> QED
        BY <4>1, <4>2, <4>3
    <3> QED
      BY <1>1, <3>1, <3>2
  <2>6. hdr_i' \in 0 .. NBUF - 1 /\ l + 1 <= NBUF
    BY <1>1, <2>2, <2>3
  <2>7. \A i \in 1 .. Len(busy') : busy'[i] = Before(hdr_i', Len(busy') + 1 - i)
    <3>1. ASSUME NEW i \in 1 .. Len(busy') PROVE busy'[i] = Before(hdr_i', Len(busy') + 1 - i)
      <4>1. i \in 1 .. l + 1 /\ Len(busy') + 1 - i = l + 2 - i
        BY <1>1, <2>4
      <4> QED
        BY <2>5, <4>1
    <3> QED
      BY <3>1
  <2> QED
    BY <1>1, <2>1, <2>4, <2>6, <2>7 DEF Buffers
<1> QED
  BY <1>2, <1>3

LEMMA Drained ==
  ASSUME Sd!Constants, Buffers, busy # <<>>, busy' = Tail(busy), hdr_i' = hdr_i, dropped' = dropped
  PROVE  Buffers'
<1> DEFINE l == Len(busy)
<1>1. /\ l \in Nat \ {0} /\ l <= NBUF /\ NBUF \in Nat \ {0} /\ hdr_i \in 0 .. NBUF - 1 /\ ~dropped
      /\ busy \in Seq(0 .. NBUF - 1) /\ \A i \in 1 .. l : busy[i] = Before(hdr_i, l + 1 - i)
  BY EmptySeq DEF Buffers, Sd!Constants
<1>2. /\ Len(busy') = l - 1 /\ busy' \in Seq(0 .. NBUF - 1)
      /\ \A i \in 1 .. l - 1 : busy'[i] = busy[i + 1]
  BY <1>1, HeadTailProperties
<1> HIDE DEF l
<1>3. ASSUME NEW i \in 1 .. l - 1 PROVE busy'[i] = Before(hdr_i, l - i)
  <2>1. i + 1 \in 1 .. l /\ l + 1 - (i + 1) = l - i
    BY <1>1
  <2> QED
    BY <1>1, <1>2, <2>1
<1>4. \A i \in 1 .. Len(busy') : busy'[i] = Before(hdr_i', Len(busy') + 1 - i)
  <2>1. ASSUME NEW i \in 1 .. l - 1 PROVE (l - 1) + 1 - i = l - i
    BY <1>1
  <2> QED
    BY <1>2, <1>3, <2>1
<1>5. Len(busy') <= NBUF
  BY <1>1, <1>2
<1> QED
  BY <1>1, <1>2, <1>4, <1>5 DEF Buffers

-----------------------------------------------------------------------------
(* The steps.                                                              *)

\* With r outs to go the next one is the first of those, and its card the next.
LEMMA MusicOuts ==
  ASSUME Sd!Constants, Music, Sd!Outs
  PROVE  Music'
<1> DEFINE r == Len(out)
           o == out[1]
           d == Sd!io_w8(card, o[1], o[2])
<1>1. /\ out # <<>> /\ out' = Tail(out) /\ card' = d
      /\ since' = (IF d.playing /\ ~card.playing THEN 0 ELSE since)
      /\ got' = (IF o = <<"mask", 1>> THEN 0 ELSE got)
      /\ driver' = driver /\ own' = own /\ busy' = busy /\ hdr_i' = hdr_i /\ dropped' = dropped
  BY DEF Sd!Outs
<1>2. /\ driver # 0 /\ driver \in Programs /\ driver \in Nat /\ Spoken(driver, out)
      /\ Follows(card, driver, r, got, since, own) /\ Buffers
  BY <1>1 DEF Music
<1>3. /\ out \in Seq(CardPorts \X Int) /\ r <= Closing(driver) + 14
      /\ \A i \in 1 .. r : Says(driver, r + 1 - i, out[i])
  BY <1>2 DEF Spoken
<1>4. /\ r \in Nat \ {0} /\ Len(out') = r - 1 /\ out' \in Seq(CardPorts \X Int)
      /\ \A i \in 1 .. r - 1 : out'[i] = out[i + 1]
  BY <1>1, <1>3, EmptySeq, HeadTailProperties
<1> HIDE DEF r, o, d
<1>5. Closing(driver) \in {3, 6}
  BY Closings
<1>6. Says(driver, r, o)
  <2>1. 1 \in 1 .. r /\ r + 1 - 1 = r
    BY <1>4
  <2> QED
    BY <1>3, <2>1 DEF o
<1>7. r \in 1 .. Closing(driver) + 14
  BY <1>3, <1>4, <1>5
<1>8. Outed(card, o, driver, r, got, since, own)
  BY <1>2, <1>6, <1>7, AnyOut
<1>9. Follows(card', driver', Len(out'), got', since', own')
  BY <1>1, <1>4, <1>8 DEF Outed, d
<1>10. Spoken(driver', out')
  <2>1. ASSUME NEW i \in 1 .. r - 1 PROVE Says(driver, (r - 1) + 1 - i, out'[i])
    <3>1. i + 1 \in 1 .. r /\ r + 1 - (i + 1) = (r - 1) + 1 - i
      BY <1>4
    <3> QED
      BY <1>3, <1>4, <3>1
  <2>2. r - 1 <= Closing(driver) + 14
    BY <1>4, <1>5, <1>7
  <2> QED
    BY <1>1, <1>4, <2>1, <2>2 DEF Spoken
<1>11. Buffers'
  BY <1>1, <1>2 DEF Buffers
<1> QED
  BY <1>1, <1>2, <1>9, <1>10, <1>11 DEF Music

\* Nothing is yet known of the card when a program starts, but that no command
\* is half said.
LEMMA MusicLoad ==
  ASSUME Sd!Constants, Music, Sd!Load
  PROVE  Music'
<1> DEFINE p == driver + 1
           e == Closing(p)
<1>1. /\ p \in Programs /\ out = <<>> /\ driver' = p /\ since' = 0 /\ own' = FALSE
      /\ card' = card /\ got' = got /\ busy' = busy /\ hdr_i' = hdr_i /\ dropped' = dropped
      /\ out' = <<<<"dsp", 208>>>> \o Sd!Script(p) \/ out' = <<>> \o Sd!Script(p)
  BY DEF Sd!Load
<1>2. driver \in Nat /\ Buffers
  BY DEF Music
<1>3. /\ Spoken(p, Sd!Script(p)) /\ Len(Sd!Script(p)) = e + 13
      /\ Spoken(p, <<<<"dsp", 208>>>> \o Sd!Script(p))
      /\ Len(<<<<"dsp", 208>>>> \o Sd!Script(p)) = e + 14
  BY <1>1, ScriptSays
<1>4. <<>> \o Sd!Script(p) = Sd!Script(p)
  <2>1. Sd!Script(p) \in Seq(CardPorts \X Int)
    BY <1>3 DEF Spoken
  <2> QED
    BY <2>1, ConcatEmptySeq
<1>5. Spoken(p, out') /\ (Len(out') = e + 13 \/ Len(out') = e + 14)
  BY <1>1, <1>3, <1>4
<1>6. IsCard(card) /\ card.need = 0 /\ card.args = <<>> /\ (card.playing => card.left >= 1)
  <2>1. CASE driver = 0
    <3>1. card = Sd!Reset
      BY <2>1 DEF Music
    <3>2. /\ card.need = 0 /\ card.args = <<>> /\ card.playing = FALSE
      BY <3>1 DEF Sd!Reset
    <3>3. IsCard(card)
      <4>1. DOMAIN card = Fields
        BY <3>1 DEF Sd!Reset, Fields
      <4>2. 0 \in Reach /\ 0 \in 0 .. Transfer
        <5>1. Half * Half \in Nat \ {0} /\ Transfer \in Nat
          BY DEF Sd!Constants
        <5> QED
          BY <5>1 DEF Reach
      <4>3. /\ card.addr = 0 /\ card.count = 0 /\ card.base = 0 /\ card.bcount = 0
            /\ card.ff = 0 /\ card.cmd = 0 /\ card.size = 0 /\ card.left = 0
        BY <3>1 DEF Sd!Reset
      <4>4. /\ card.auto = FALSE /\ card.masked = TRUE /\ card.stage = FALSE /\ card.irr = FALSE
        BY <3>1 DEF Sd!Reset
      <4>5. /\ card.auto \in BOOLEAN /\ card.masked \in BOOLEAN /\ card.stage \in BOOLEAN
            /\ card.irr \in BOOLEAN /\ card.playing \in BOOLEAN
        BY <3>2, <4>4
      <4>6. /\ card.addr \in Reach /\ card.count \in Nat /\ card.base \in Reach
            /\ card.bcount \in Nat /\ card.ff \in 0 .. 1 /\ card.cmd \in Int
            /\ card.size \in 0 .. Transfer /\ card.left \in 0 .. Transfer
        BY <4>2, <4>3
      <4>7. card.args \in Seq(Int) /\ card.need \in 0 .. 2
        BY <3>2
      <4> QED
        BY <4>1, <4>5, <4>6, <4>7 DEF IsCard
    <3> QED
      BY <3>2, <3>3
  <2>2. CASE driver # 0
    <3>1. Follows(card, driver, Len(out), got, since, own) /\ Len(out) = 0
      BY <1>1, <2>2 DEF Music
    <3>2. Heard(card, driver, 0) /\ Pulls(card, driver, 0, since, own) /\ IsCard(card)
      BY <3>1 DEF Follows
    <3>3. card.need = 0 /\ card.args = <<>>
      <4>1. Closing(driver) \in {3, 6}
        BY Closings
      <4> QED
        BY <3>2, <4>1 DEF Heard
    <3> QED
      BY <3>2, <3>3 DEF Pulls
  <2> QED
    BY <2>1, <2>2
<1>7. got \in 0 .. Transfer
  <2>1. Transfer \in Nat
    BY DEF Sd!Constants
  <2> QED
    BY <2>1 DEF Music, Follows
<1>8. ASSUME NEW r \in {e + 13, e + 14} PROVE Follows(card, p, r, got, 0, FALSE)
  <2>1. e \in {3, 6}
    BY Closings
  <2>2. r > e + 12 /\ r \in Nat
    BY <2>1
  <2>3. Heard(card, p, r)
    BY <1>6, <2>1, <2>2 DEF Heard
  <2>4. Aimed(card, p, r, got)
    BY <2>1, <2>2 DEF Aimed
  <2>5. Pulls(card, p, r, 0, FALSE)
    BY <1>6, <2>1, <2>2 DEF Pulls
  <2> QED
    BY <1>6, <1>7, <2>3, <2>4, <2>5 DEF Follows
<1> HIDE DEF p, e
<1>9. Follows(card', driver', Len(out'), got', since', own')
  BY <1>1, <1>5, <1>8
<1>10. Buffers'
  BY <1>1, <1>2 DEF Buffers
<1>11. driver' \in Nat /\ driver' # 0
  BY <1>1, <1>2 DEF p
<1> QED
  BY <1>1, <1>5, <1>9, <1>10, <1>11 DEF Music

\* The handler acknowledges, and has the next transfer to start.
LEMMA MusicHandler ==
  ASSUME Sd!Constants, Music, Sd!Handler
  PROVE  Music'
<1> DEFINE d == [card EXCEPT !.irr = FALSE]
<1>1. /\ driver # 0 /\ out = <<>> /\ card.irr /\ card' = d /\ out' = Sd!Play
      /\ driver' = driver /\ got' = got /\ since' = since /\ own' = own
      /\ busy' = busy /\ hdr_i' = hdr_i /\ dropped' = dropped
  BY DEF Sd!Handler, Sd!Up, Sd!sb_ack
<1>2. /\ driver \in Programs /\ driver \in Nat /\ Follows(card, driver, 0, got, since, own) /\ Buffers
  BY <1>1 DEF Music
<1>3. Spoken(driver, out') /\ Len(out') = 3
  BY <1>1, <1>2, PlaySays
<1>4. /\ IsCard(card) /\ Heard(card, driver, 0) /\ Aimed(card, driver, 0, got)
      /\ Pulls(card, driver, 0, since, own) /\ Closing(driver) \in {3, 6}
      /\ got \in 0 .. Transfer /\ since \in Nat /\ own \in BOOLEAN
  BY <1>2, Closings DEF Follows
<1>5. ~card.playing
  BY <1>1, <1>4 DEF Pulls
<1>6. /\ DOMAIN d = Fields /\ d.playing = card.playing /\ d.irr = FALSE /\ d.left = card.left
      /\ d.addr = card.addr /\ d.count = card.count /\ d.base = card.base /\ d.bcount = card.bcount
      /\ d.auto = card.auto /\ d.masked = card.masked /\ d.ff = card.ff
      /\ d.stage = card.stage /\ d.cmd = card.cmd /\ d.args = card.args /\ d.need = card.need
      /\ d.size = card.size
  BY <1>4 DEF IsCard, Fields
<1>7. IsCard(d)
  <2>1. card.playing \in BOOLEAN /\ card.masked \in BOOLEAN
    BY <1>4 DEF IsCard
  <2>2. d.playing \in BOOLEAN /\ d.masked \in BOOLEAN /\ d.irr \in BOOLEAN
    BY <1>6, <2>1
  <2>3. d.addr \in Reach /\ d.count \in Nat /\ d.left \in 0 .. Transfer
    BY <1>4, <1>6 DEF IsCard
  <2> QED
    BY <1>4, <1>6, <2>2, <2>3, StillCard
<1> HIDE DEF d
<1>8. Heard(d, driver, 3)
  BY <1>4, <1>6 DEF Heard
<1>9. Aimed(d, driver, 3, got)
  BY <1>4, <1>6 DEF Aimed
<1>10. Pulls(d, driver, 3, since, own)
  BY <1>4, <1>5, <1>6 DEF Pulls
<1>11. Follows(card', driver', Len(out'), got', since', own')
  BY <1>1, <1>3, <1>4, <1>7, <1>8, <1>9, <1>10 DEF Follows
<1>12. Buffers'
  BY <1>1, <1>2 DEF Buffers
<1> QED
  BY <1>1, <1>2, <1>3, <1>11, <1>12 DEF Music

LEMMA MusicTick ==
  ASSUME Sd!Constants, Music, NEW n, Sd!Tick(n)
  PROVE  Music'
<1>1. /\ card.playing
      /\ Sd!host_flush \/ (busy' = busy /\ hdr_i' = hdr_i /\ dropped' = dropped)
      /\ out' = out /\ driver' = driver
  BY DEF Sd!Tick
<1>2. driver # 0
  <2>1. ASSUME driver = 0 PROVE FALSE
    <3>1. card = Sd!Reset
      BY <2>1 DEF Music
    <3> QED
      BY <1>1, <3>1 DEF Sd!Reset
  <2> QED
    BY <2>1
<1>3. /\ driver \in Programs /\ driver \in Nat /\ Spoken(driver, out) /\ Buffers
      /\ Follows(card, driver, Len(out), got, since, own)
  BY <1>2 DEF Music
<1> DEFINE u == Sd!Pulled(n)
<1>4. Sampling(u)
  BY <1>2, <1>3, PulledSamples
<1>5. card' = u.card /\ got' = u.got /\ since' = u.since /\ own' = u.own
  BY DEF Sd!Tick
<1> HIDE DEF u
<1>6. Follows(card', driver', Len(out'), got', since', own')
  BY <1>1, <1>4, <1>5 DEF Sampling
<1>7. Buffers'
  <2>1. CASE Sd!host_flush
    BY <1>3, <2>1, Flushed
  <2>2. CASE busy' = busy /\ hdr_i' = hdr_i /\ dropped' = dropped
    BY <1>3, <2>2 DEF Buffers
  <2> QED
    BY <1>1, <2>1, <2>2
<1> QED
  BY <1>1, <1>2, <1>3, <1>6, <1>7 DEF Music

\* Whatever leaves the card and its driver as they are.
LEMMA MusicStands ==
  ASSUME Music, card' = card, out' = out, driver' = driver, got' = got, since' = since, own' = own,
         Buffers'
  PROVE  Music'
  BY DEF Music

LEMMA MusicNext ==
  ASSUME Sd!Constants, Music, [Sd!Next]_(Sd!vars)
  PROVE  Music'
<1>1. CASE Sd!Load
  BY <1>1, MusicLoad
<1>2. CASE Sd!Outs
  BY <1>2, MusicOuts
<1>3. CASE Sd!Handler
  BY <1>3, MusicHandler
<1>4. CASE Sd!Played
  <2>1. /\ busy # <<>> /\ busy' = Tail(busy) /\ hdr_i' = hdr_i /\ dropped' = dropped
        /\ card' = card /\ out' = out /\ driver' = driver /\ got' = got /\ since' = since /\ own' = own
    BY <1>4 DEF Sd!Played
  <2>2. Buffers
    BY DEF Music
  <2>3. Buffers'
    BY <2>1, <2>2, Drained
  <2> QED
    BY <2>1, <2>3, MusicStands
<1>5. CASE \E n \in Due : Sd!Tick(n)
  BY <1>5, MusicTick
<1>6. CASE UNCHANGED Sd!vars
  <2>1. /\ busy' = busy /\ hdr_i' = hdr_i /\ dropped' = dropped
        /\ card' = card /\ out' = out /\ driver' = driver /\ got' = got /\ since' = since /\ own' = own
    BY <1>6 DEF Sd!vars
  <2>2. Buffers'
    BY <2>1 DEF Music, Buffers
  <2> QED
    BY <2>1, <2>2, MusicStands
<1> QED
  BY <1>1, <1>2, <1>3, <1>4, <1>5, <1>6 DEF Sd!Next

LEMMA MusicInit ==
  ASSUME Sd!Constants, Sd!Init
  PROVE  Music
<1>1. driver = 0 /\ card = Sd!Reset /\ out = <<>> /\ got = 0 /\ since = 0 /\ own = FALSE
  BY DEF Sd!Init
<1>2. busy = <<>> /\ hdr_i = 0 /\ dropped = FALSE
  BY DEF Sd!Init
<1>3. Len(out) = 0 /\ out \in Seq(CardPorts \X Int) /\ Closing(driver) \in {3, 6}
  BY <1>1, Closings
<1>4. Spoken(driver, out)
  BY <1>3 DEF Spoken
<1>5. Buffers
  <2>1. Len(busy) = 0 /\ busy \in Seq(0 .. NBUF - 1) /\ NBUF \in Nat \ {0}
    BY <1>2 DEF Sd!Constants
  <2> QED
    BY <1>2, <2>1 DEF Buffers
<1> QED
  BY <1>1, <1>4, <1>5 DEF Music

\* What it was for.
LEMMA MusicSounds ==
  ASSUME Sd!Constants, Music
  PROVE  Sd!InOrder /\ Sd!OnePerTransfer /\ Sd!NoStaleInterrupt /\ Sd!DropsOnlyWhenFull
<1>1. Sd!DropsOnlyWhenFull
  BY DEF Music, Buffers, Sd!DropsOnlyWhenFull
<1>2. CASE ~Sd!Up
  BY <1>1, <1>2 DEF Sd!InOrder, Sd!OnePerTransfer, Sd!NoStaleInterrupt, Sd!Running
<1>3. CASE Sd!Up
  <2>1. driver # 0 /\ Len(out) = 0
    BY <1>3 DEF Sd!Up
  <2>2. Follows(card, driver, 0, got, since, own)
    BY <2>1 DEF Music
  <2>3. Closing(driver) \in {3, 6}
    BY Closings
  <2>4. card.addr = Starts[driver] + got
    BY <2>2, <2>3 DEF Follows, Aimed
  <2>5. /\ card.playing => since + card.left = Transfer
        /\ card.irr => since = Transfer /\ own
    BY <2>2, <2>3 DEF Follows, Pulls
  <2> QED
    BY <1>1, <2>4, <2>5 DEF Sd!InOrder, Sd!OnePerTransfer, Sd!NoStaleInterrupt, Sd!Running
<1> QED
  BY <1>1, <1>2, <1>3

SoundSpec == Sd!Init /\ [][Sd!Next]_(Sd!vars)

LEMMA MusicAlways ==
  ASSUME Sd!Constants
  PROVE  SoundSpec => []Music
<1>1. Sd!Init => Music
  BY MusicInit
<1>2. Music /\ [Sd!Next]_(Sd!vars) => Music'
  BY MusicNext
<1> QED
  BY <1>1, <1>2, PTL DEF SoundSpec

\* A behaviour of the parts is, for the Sound Blaster, one of its own.
LEMMA SoundIsPart ==
  Spec => SoundSpec
<1>1. Init => Sd!Init
  BY DEF Init
<1>2. [Next]_vars => Sd!Next \/ UNCHANGED sound
  BY DEF Next, Only, vars
<1>3. UNCHANGED sound => UNCHANGED Sd!vars
  BY DEF sound, Sd!vars
<1> QED
  BY <1>1, <1>2, <1>3, PTL DEF Spec, SoundSpec

\* MusicInOrder, the property of the run: what is heard (dma_fetch and sb_tick
\* in sound.c) is the buffer of the program that plays, from its start and round
\* again, there is one interrupt for each transfer asked for and none of them is
\* taken by the next program, and no sample is dropped with a host buffer free.
\* Of any number of programs, whose buffers are of any length and lie anywhere,
\* a transfer of any length, and any number of host buffers.
THEOREM MusicIsInOrder ==
  Spec => []MusicInOrder
<1>1. Sd!Constants
  BY PartsAssumption
<1>2. Music => MusicInOrder
  BY <1>1, MusicSounds DEF MusicInOrder
<1> QED
  BY <1>1, <1>2, MusicAlways, SoundIsPart, PTL

-----------------------------------------------------------------------------
(***************************************************************************)
(* String instructions (module Strings), for any memory, any segments, any *)
(* count and any count from which the piecewise path is tried.             *)
(***************************************************************************)
\* What is so of zero turns, and of one more each time, is so of all.
LEMMA Turns ==
  ASSUME NEW m \in Nat, NEW T, 0 \in T, \A k \in 0 .. m - 1 : k \in T => k + 1 \in T
  PROVE  \A k \in 0 .. m : k \in T
<1> DEFINE U == {k \in 0 .. m : k \notin T}
<1> SUFFICES ASSUME U # {} PROVE FALSE
  OBVIOUS
<1>1. U \in SUBSET Nat
  OBVIOUS
<1>2. PICK n \in U : \A k \in U : n <= k
  BY <1>1, LeastElement
<1>3. n \in 0 .. m /\ n \notin T /\ n # 0
  OBVIOUS
<1>4. n - 1 \in 0 .. m - 1 /\ n - 1 \in 0 .. m /\ ~ (n <= n - 1) /\ (n - 1) + 1 = n
  BY <1>3
<1>5. n - 1 \in T
  BY <1>2, <1>4
<1> QED
  BY <1>3, <1>4, <1>5

\* The element loop's states: after k turns, unless it stopped before.
Turn(u, k) == IF k > 1 /\ St!Stops(u) THEN u ELSE St!One(u)
Loops(g, t, n) == g = [k \in 0 .. n |-> IF k = 0 THEN t ELSE Turn(g[k - 1], k)]

LEMMA LoopsOneMore ==
  ASSUME NEW n \in Nat, NEW t, NEW g, Loops(g, t, n)
  PROVE  \E h : Loops(h, t, n + 1)
<1> DEFINE h == [k \in 0 .. n + 1 |-> IF k = n + 1 THEN Turn(g[n], n + 1) ELSE g[k]]
<1>1. ASSUME NEW k \in 0 .. n + 1
      PROVE  h[k] = IF k = 0 THEN t ELSE Turn(h[k - 1], k)
  <2>1. CASE k = n + 1
    <3>1. k # 0 /\ k - 1 = n /\ n \in 0 .. n + 1 /\ n # n + 1
      BY <2>1
    <3>2. h[n] = g[n] /\ h[k] = Turn(g[n], n + 1)
      BY <2>1, <3>1
    <3> QED
      BY <2>1, <3>1, <3>2
  <2>2. CASE k # n + 1
    <3>1. k \in 0 .. n
      BY <2>2
    <3>2. h[k] = g[k]
      BY <2>2
    <3>3. g[k] = IF k = 0 THEN t ELSE Turn(g[k - 1], k)
      BY <3>1 DEF Loops
    <3>4. k # 0 => h[k - 1] = g[k - 1]
      BY <3>1
    <3> QED
      BY <3>2, <3>3, <3>4
  <2> QED
    BY <2>1, <2>2
<1>2. h = [k \in 0 .. n + 1 |-> IF k = 0 THEN t ELSE Turn(h[k - 1], k)]
  BY <1>1
<1> QED
  BY <1>2 DEF Loops

LEMMA LoopsExist ==
  ASSUME NEW m \in Nat, NEW t
  PROVE  \E g : Loops(g, t, m)
<1> DEFINE T == {n \in 0 .. m : \E g : Loops(g, t, n)}
<1>1. 0 \in T
  <2> DEFINE g == [k \in 0 .. 0 |-> t]
  <2>1. g = [k \in 0 .. 0 |-> IF k = 0 THEN t ELSE Turn(g[k - 1], k)]
    OBVIOUS
  <2>2. Loops(g, t, 0)
    BY <2>1 DEF Loops
  <2> QED
    BY <2>2
<1>2. ASSUME NEW k \in 0 .. m - 1, k \in T PROVE k + 1 \in T
  <2>1. k \in Nat /\ k + 1 \in 0 .. m
    OBVIOUS
  <2>2. \E h : Loops(h, t, k + 1)
    BY <1>2, <2>1, LoopsOneMore
  <2> QED
    BY <2>1, <2>2
<1> HIDE DEF T
<1>3. m \in 0 .. m /\ \A k \in 0 .. m : k \in T
  BY <1>1, <1>2, Turns
<1> QED
  BY <1>3 DEF T

\* The loop, turn by turn.
LEMMA SlowIs ==
  ASSUME NEW t, t.cx \in Nat
  PROVE  \E g : /\ g[0] = t
                /\ \A k \in 1 .. t.cx : g[k] = Turn(g[k - 1], k)
                /\ St!Slow(t) = g[t.cx]
<1> DEFINE g == CHOOSE h : Loops(h, t, t.cx)
<1>1. St!Slow(t) = g[t.cx]
  BY DEF St!Slow, Loops, Turn
<1>2. Loops(g, t, t.cx)
  BY LoopsExist
<1> HIDE DEF g
<1>3. \A k \in 0 .. t.cx : g[k] = IF k = 0 THEN t ELSE Turn(g[k - 1], k)
  BY <1>2 DEF Loops
<1>4. 0 \in 0 .. t.cx /\ \A k \in 1 .. t.cx : k \in 0 .. t.cx /\ k # 0
  OBVIOUS
<1> QED
  BY <1>1, <1>3, <1>4

\* An instruction under way, and what it started on.
Memory == [0 .. Size - 1 -> Nat]
Decoded ==
  /\ op \in St!Ops /\ el \in {1, 2} /\ df \in BOOLEAN /\ dsb \in Nat /\ esb \in Nat
  /\ cnt \in Nat
  /\ start \in [ram : Memory, win : Memory, si : 0 .. Segment - 1, di : 0 .. Segment - 1,
                cx : {cnt}, zf : {TRUE}]

\* An offset that stays in its segment moves by what it is told; moving by two
\* amounts is moving by their sum.
LEMMA MovedInside ==
  ASSUME Segment \in Nat \ {0}, NEW o \in Nat, NEW by \in Nat, o + by < Segment
  PROVE  St!Moved(o, by) = o + by
<1>1. o + by \in 0 .. Segment - 1 /\ o + by + Segment = 1 * Segment + (o + by)
  OBVIOUS
<1>2. (1 * Segment + (o + by)) % Segment = o + by
  BY <1>1, Remainder
<1> QED
  BY <1>1, <1>2 DEF St!Moved

LEMMA MovedOn ==
  ASSUME Segment \in Nat \ {0}, NEW x \in Int, NEW by \in Int
  PROVE  /\ St!Moved(x % Segment, by) = (x + by) % Segment
         /\ St!Moved(x, by) \in 0 .. Segment - 1
<1>1. PICK q \in Int : x - q * Segment \in 0 .. Segment - 1
  BY Quotients
<1> DEFINE r == x - q * Segment
<1>2. x % Segment = r
  <2>1. q * Segment \in Int /\ x = q * Segment + r
    OBVIOUS
  <2> HIDE DEF r
  <2> QED
    BY <1>1, <2>1, Remainder DEF r
<1> DEFINE w == r + by + Segment
<1>3. PICK p \in Int : w - p * Segment \in 0 .. Segment - 1
  <2>1. w \in Int
    BY <1>1
  <2> HIDE DEF w
  <2> QED
    BY <2>1, Quotients
<1> DEFINE v == r + by + Segment - p * Segment
<1>4. (r + by + Segment) % Segment = v
  <2>1. p * Segment \in Int /\ r + by + Segment = p * Segment + v
    OBVIOUS
  <2>2. v \in 0 .. Segment - 1
    BY <1>3
  <2> HIDE DEF v
  <2> QED
    BY <2>1, <2>2, Remainder
<1>5. (x + by) % Segment = v
  <2>1. /\ q * Segment \in Int /\ p * Segment \in Int
        /\ (q + p - 1) * Segment = q * Segment + p * Segment - Segment
    OBVIOUS
  <2>2. x + by = (q + p - 1) * Segment + v
    BY <2>1
  <2>3. v \in 0 .. Segment - 1 /\ q + p - 1 \in Int
    BY <1>3
  <2> HIDE DEF v
  <2> QED
    BY <2>2, <2>3, Remainder
<1>6. St!Moved(x % Segment, by) = (x + by) % Segment
  BY <1>2, <1>4, <1>5 DEF St!Moved
<1>7. St!Moved(x, by) \in 0 .. Segment - 1
  <2>1. x + by + Segment \in Int
    OBVIOUS
  <2> QED
    BY <2>1 DEF St!Moved
<1> QED
  BY <1>6, <1>7

\* Where a piecewise copy or fill reads and writes.
Source == dsb + start.si
Target == esb + start.di
Whole  == cnt * el

\* The elements' bytes once k of them are copied or filled.
Filled(k) ==
  [a \in 0 .. Size - 1 |->
     IF a \in Target .. Target + k * el - 1
     THEN IF op = "movs" THEN start.ram[Source + a - Target] ELSE St!Al
     ELSE start.ram[a]]

\* Everything once k are.
Halfway(k) ==
  [ram |-> Filled(k), win |-> start.win,
   si |-> IF op = "stos" THEN start.si
          ELSE IF k < cnt THEN start.si + k * el ELSE St!Moved(start.si, k * el),
   di |-> IF k < cnt THEN start.di + k * el ELSE St!Moved(start.di, k * el),
   cx |-> cnt - k, zf |-> TRUE]

\* A copy or a fill that goes piecewise, of which no element ends in the window.
Piecewise ==
  Decoded /\ s = start /\ cnt > 0 /\ St!Bulky /\ ~St!Straddles

\* What its length and places are.
LEMMA Products ==
  ASSUME NEW n \in Nat, NEW e \in {1, 2}
  PROVE  /\ n * e \in Nat /\ (n + 1) * e = n * e + e
         /\ \A m \in Nat : m < n => m * e + e <= n * e
<1>1. CASE e = 1
  BY <1>1
<1>2. CASE e = 2
  BY <1>2
<1> QED
  BY <1>1, <1>2

LEMMA Spans ==
  ASSUME St!Constants, Piecewise
  PROVE  /\ op \in {"movs", "stos"} /\ ~df /\ el \in {1, 2} /\ cnt \in Nat \ {0}
         /\ start.si \in Nat /\ start.di \in Nat /\ Source \in Nat /\ Target \in Nat
         /\ Whole \in Nat /\ Whole >= el
         /\ start.si + Whole - el < Segment /\ start.di + Whole - el < Segment
         /\ Source + Whole <= Top /\ Target + Whole <= Top
         /\ op = "movs" /\ Target > Source => Source + Whole <= Target
<1>1. /\ op \in {"movs", "stos"} /\ ~df /\ el \in {1, 2} /\ cnt \in Nat \ {0}
      /\ dsb \in Nat /\ esb \in Nat /\ start.si \in Nat /\ start.di \in Nat
  BY DEF Piecewise, Decoded, St!Bulky, St!Constants
<1>2. Source \in Nat /\ Target \in Nat
  BY <1>1 DEF Source, Target
<1>3. Whole \in Nat /\ (cnt - 1) * el \in Nat /\ Whole = (cnt - 1) * el + el
  <2>1. cnt - 1 \in Nat /\ (cnt - 1) + 1 = cnt
    BY <1>1
  <2> QED
    BY <1>1, <2>1, Products DEF Whole
<1>4. /\ start.si + (cnt - 1) * el < Segment /\ start.di + (cnt - 1) * el < Segment
      /\ Source + (cnt - 1) * el < Top /\ Target + (cnt - 1) * el < Top
      /\ op = "movs" /\ Target > Source => ~(Target - Source < Whole)
  <2> DEFINE l == (cnt - 1) * el
  <2>1. St!Last = l /\ Whole = cnt * el /\ s = start
    BY DEF St!Last, Whole, Piecewise
  <2> HIDE DEF l
  <2>2. /\ start.si + l < Segment /\ start.di + l < Segment
        /\ dsb + start.si + l < Top /\ esb + start.di + l < Top
        /\ ~(op = "movs" /\ esb + start.di > dsb + start.si
             /\ esb + start.di - (dsb + start.si) < Whole)
    BY <2>1 DEF Piecewise, St!Bulky
  <2>3. /\ start.si + l < Segment /\ start.di + l < Segment
        /\ Source + l < Top /\ Target + l < Top
        /\ op = "movs" /\ Target > Source => ~(Target - Source < Whole)
    <3>1. l \in Int
      BY <1>3 DEF l
    <3>2. ASSUME Target > Source, op = "movs" PROVE ~(Target - Source < Whole)
      <4>1. ~(esb + start.di - (dsb + start.si) < Whole)
        BY <2>2, <3>2 DEF Source, Target
      <4> QED
        BY <1>1, <4>1 DEF Source, Target
    <3> QED
      BY <1>1, <2>2, <3>1, <3>2 DEF Source, Target
  <2> QED
    BY <2>3 DEF l
<1>5. el = 2 => Source + (cnt - 1) * el # Top - 1 /\ Target + (cnt - 1) * el # Top - 1
  <2>1. cnt - 1 \in 0 .. cnt - 1
    BY <1>1
  <2> QED
    BY <2>1 DEF Piecewise, St!Straddles, Source, Target
<1>6. Source + Whole <= Top /\ Target + Whole <= Top
  <2> DEFINE l == (cnt - 1) * el
  <2>1. l \in Nat /\ Whole = l + el /\ Source + l < Top /\ Target + l < Top
    BY <1>3, <1>4
  <2>2. el = 2 => Source + l # Top - 1 /\ Target + l # Top - 1
    BY <1>5
  <2> HIDE DEF l
  <2>3. Top \in Nat
    BY DEF St!Constants
  <2> QED
    BY <1>1, <1>2, <2>1, <2>2, <2>3
<1>7. start.si + Whole - el < Segment /\ start.di + Whole - el < Segment
  BY <1>1, <1>3, <1>4
<1>8. op = "movs" /\ Target > Source => Source + Whole <= Target
  BY <1>2, <1>3, <1>4
<1> QED
  BY <1>1, <1>2, <1>3, <1>6, <1>7, <1>8

\* One more element stored is one more filled: what a copy reads is not yet
\* written over, and a second byte is not the first of the window.
LEMMA ElementFilled ==
  ASSUME St!Constants, Piecewise, NEW k \in 0 .. cnt - 1, NEW t, t.ram = Filled(k)
  PROVE  LET v == IF op = "movs" THEN St!Element(t, Source + k * el) ELSE St!Fill
         IN  St!Stored(t, Target + k * el, v) = [t EXCEPT !.ram = Filled(k + 1)]
<1> DEFINE m == k * el
           v == IF op = "movs" THEN St!Element(t, Source + m) ELSE St!Fill
<1>1. /\ op \in {"movs", "stos"} /\ el \in {1, 2} /\ Source \in Nat /\ Target \in Nat
      /\ Source + Whole <= Top /\ Target + Whole <= Top /\ Top \in Nat /\ Size \in Nat /\ Top <= Size
      /\ op = "movs" /\ Target > Source => Source + Whole <= Target
      /\ Whole \in Nat
  BY Spans DEF St!Constants
<1>2. m \in Nat /\ (k + 1) * el = m + el /\ m + el <= Whole
  <2>1. k \in Nat /\ k < cnt /\ cnt \in Nat
    BY Spans
  <2> QED
    BY <1>1, <2>1, Products DEF Whole
<1>3. Filled(k + 1) = [a \in 0 .. Size - 1 |->
                         IF a \in Target .. Target + (m + el) - 1
                         THEN IF op = "movs" THEN start.ram[Source + a - Target] ELSE St!Al
                         ELSE start.ram[a]]
  BY <1>2 DEF Filled
<1>4. t.ram = [a \in 0 .. Size - 1 |->
                 IF a \in Target .. Target + m - 1
                 THEN IF op = "movs" THEN start.ram[Source + a - Target] ELSE St!Al
                 ELSE start.ram[a]]
  BY DEF Filled
<1> HIDE DEF m
<1>5. ASSUME NEW j \in 0 .. el - 1
      PROVE  v[j] = IF op = "movs" THEN start.ram[Source + m + j] ELSE St!Al
  <2>1. CASE op = "stos"
    <3>1. v = St!Fill
      BY <2>1
    <3> QED
      BY <2>1, <3>1 DEF St!Fill
  <2>2. CASE op = "movs"
    <3> DEFINE a == Source + m + j
    <3>1. a \in 0 .. Size - 1 /\ ~(a >= Top) /\ a \notin Target .. Target + m - 1
      BY <1>1, <1>2, <2>2
    <3>2. v[j] = St!Load(t, a)
      BY <2>2 DEF St!Element
    <3>3. St!Load(t, a) = t.ram[a]
      BY <3>1 DEF St!Load
    <3>4. t.ram[a] = start.ram[a]
      BY <1>4, <3>1
    <3> QED
      BY <2>2, <3>2, <3>3, <3>4
  <2> QED
    BY <1>1, <2>1, <2>2
<1>6. ASSUME NEW j \in 0 .. el - 1
      PROVE  /\ Target + m + j \in 0 .. Size - 1 /\ ~(Target + m + j >= Top)
             /\ Filled(k + 1)[Target + m + j] = v[j]
  <2> DEFINE a == Target + m + j
  <2>1. a \in 0 .. Size - 1 /\ ~(a >= Top) /\ a \in Target .. Target + (m + el) - 1
    BY <1>1, <1>2
  <2>2. Source + a - Target = Source + m + j
    BY <1>1, <1>2
  <2>3. Filled(k + 1)[a] = IF op = "movs" THEN start.ram[Source + a - Target] ELSE St!Al
    BY <1>3, <2>1
  <2> HIDE DEF v
  <2> QED
    BY <1>5, <2>1, <2>2, <2>3
<1>7. ASSUME NEW a \in 0 .. Size - 1, a \notin {Target + m + j : j \in 0 .. el - 1}
      PROVE  Filled(k + 1)[a] = t.ram[a]
  <2>1. a \in Target .. Target + (m + el) - 1 <=> a \in Target .. Target + m - 1
    <3>1. 0 \in 0 .. el - 1 /\ (el = 2 => 1 \in 0 .. el - 1)
      BY <1>1
    <3>2. a # Target + m + 0 /\ (el = 2 => a # Target + m + 1)
      BY <1>7, <3>1
    <3> QED
      BY <1>1, <1>2, <3>2
  <2> QED
    BY <1>3, <1>4, <2>1
<1>8. DOMAIN Filled(k + 1) = 0 .. Size - 1 /\ DOMAIN t.ram = 0 .. Size - 1
      /\ Filled(k + 1) = [a \in 0 .. Size - 1 |-> Filled(k + 1)[a]]
  BY <1>3, <1>4
<1> DEFINE F == Filled(k + 1)
           b == Target + m
<1> HIDE DEF v, F
<1>9. CASE el = 1
  <2>1. 0 \in 0 .. el - 1 /\ b \in Int /\ b + 0 = b
    BY <1>1, <1>2, <1>9
  <2>2. ~(b >= Top) /\ b \in 0 .. Size - 1 /\ F[b] = v[0]
    BY <1>6, <2>1 DEF F
  <2>3. \A a \in 0 .. Size - 1 : a # b => F[a] = t.ram[a]
    <3> SUFFICES ASSUME NEW a \in 0 .. Size - 1, a # b PROVE F[a] = t.ram[a]
      OBVIOUS
    <3>1. a \notin {Target + m + j : j \in 0 .. el - 1}
      BY <1>9, <2>1
    <3> QED
      BY <1>7, <3>1 DEF F
  <2>4. F = [t.ram EXCEPT ![b] = v[0]]
    BY <1>8, <2>2, <2>3 DEF F
  <2>5. St!Stored(t, b, v) = [t EXCEPT !.ram[b] = v[0]]
    BY <1>9, <2>2 DEF St!Stored, St!Store
  <2> QED
    BY <2>4, <2>5 DEF F, m, v
<1>10. CASE el = 2
  <2>1. 0 \in 0 .. el - 1 /\ 1 \in 0 .. el - 1 /\ b \in Int /\ b + 0 = b
    BY <1>1, <1>2, <1>10
  <2>2. ~(b >= Top) /\ b \in 0 .. Size - 1 /\ F[b] = v[0]
    BY <1>6, <2>1 DEF F
  <2>3. ~(b + 1 >= Top) /\ b + 1 \in 0 .. Size - 1 /\ F[b + 1] = v[1]
    BY <1>6, <2>1 DEF F
  <2>4. \A a \in 0 .. Size - 1 : a # b /\ a # b + 1 => F[a] = t.ram[a]
    <3> SUFFICES ASSUME NEW a \in 0 .. Size - 1, a # b, a # b + 1 PROVE F[a] = t.ram[a]
      OBVIOUS
    <3>1. a \notin {Target + m + j : j \in 0 .. el - 1}
      BY <1>10, <2>1
    <3> QED
      BY <1>7, <3>1 DEF F
  <2>5. b # b + 1
    BY <2>1
  <2>6. F = [[t.ram EXCEPT ![b] = v[0]] EXCEPT ![b + 1] = v[1]]
    BY <1>8, <2>2, <2>3, <2>4, <2>5 DEF F
  <2>7. St!Stored(t, b, v) = [[t EXCEPT !.ram[b] = v[0]] EXCEPT !.ram[b + 1] = v[1]]
    BY <1>10, <2>2, <2>3 DEF St!Stored, St!Store
  <2> QED
    BY <2>6, <2>7 DEF F, m, v
<1> QED
  BY <1>1, <1>9, <1>10

\* Nothing filled is where it started; all of it is what the piece leaves, the
\* source register of a fill apart.
LEMMA FilledNone ==
  ASSUME St!Constants, Piecewise
  PROVE  Halfway(0) = start
<1>1. 0 * el = 0 /\ cnt \in Nat \ {0} /\ Target \in Nat /\ start.si \in Nat /\ start.di \in Nat
  BY Spans
<1>2. start.ram \in Memory /\ start.cx = cnt /\ start.zf = TRUE
  BY DEF Piecewise, Decoded
<1>3. Filled(0) = start.ram
  <2>1. \A a : a \notin Target .. Target + 0 - 1
    BY <1>1
  <2>2. Filled(0) = [a \in 0 .. Size - 1 |-> start.ram[a]]
    BY <1>1, <2>1 DEF Filled
  <2> QED
    BY <1>2, <2>2 DEF Memory
<1>4. /\ Halfway(0).si = start.si /\ Halfway(0).di = start.di /\ Halfway(0).cx = cnt
      /\ 0 < cnt
  BY <1>1 DEF Halfway
<1>5. start = [ram |-> start.ram, win |-> start.win, si |-> start.si, di |-> start.di,
               cx |-> start.cx, zf |-> start.zf]
  BY DEF Piecewise, Decoded
<1>6. Halfway(0) = [ram |-> start.ram, win |-> start.win, si |-> start.si, di |-> start.di,
                    cx |-> cnt, zf |-> TRUE]
  BY <1>3, <1>4 DEF Halfway
<1> QED
  BY <1>2, <1>5, <1>6

LEMMA FilledAll ==
  ASSUME St!Constants, Piecewise
  PROVE  /\ op = "movs" => St!Piece(s) = Halfway(cnt)
         /\ op = "stos" => [Halfway(cnt) EXCEPT !.si = St!Piece(s).si] = St!Piece(s)
<1>1. s = start /\ start.ram \in Memory /\ start.cx = cnt /\ start.zf = TRUE
  BY DEF Piecewise, Decoded
<1>2. start = [ram |-> start.ram, win |-> start.win, si |-> start.si, di |-> start.di,
               cx |-> start.cx, zf |-> start.zf]
  BY DEF Piecewise, Decoded
<1>3. DOMAIN start.ram = 0 .. Size - 1
  BY <1>1 DEF Memory
<1>4. dsb \in Nat /\ esb \in Nat /\ start.si \in Nat /\ start.di \in Nat /\ cnt \in Nat
      /\ cnt - cnt = 0 /\ ~(cnt < cnt) /\ cnt * el \in Nat
      /\ op \in {"movs", "stos"}
  <2>1. dsb \in Nat /\ esb \in Nat
    BY DEF Piecewise, Decoded
  <2> QED
    BY <2>1, Spans DEF Whole
<1>5. [a \in DOMAIN start.ram |->
         IF a \in esb + start.di .. esb + start.di + cnt * el - 1
         THEN IF op = "movs" THEN start.ram[dsb + start.si + a - (esb + start.di)] ELSE St!Al
         ELSE start.ram[a]] = Filled(cnt)
  <2>1. ASSUME NEW a \in 0 .. Size - 1
        PROVE  dsb + start.si + a - (esb + start.di) = Source + a - Target
    BY <1>4 DEF Source, Target
  <2>2. Target = esb + start.di
    BY DEF Target
  <2> QED
    BY <1>3, <2>1, <2>2 DEF Filled
<1> DEFINE P == [ram |-> Filled(cnt), win |-> start.win, si |-> St!Moved(start.si, cnt * el),
                 di |-> St!Moved(start.di, cnt * el), cx |-> 0, zf |-> TRUE]
<1>6. St!Piece(s) = P
  <2>1. St!Piece(s) = [start EXCEPT !.ram = Filled(cnt), !.si = St!Moved(start.si, cnt * el),
                                    !.di = St!Moved(start.di, cnt * el), !.cx = 0]
    BY <1>1, <1>5 DEF St!Piece
  <2> QED
    BY <1>1, <1>2, <2>1
<1> DEFINE f == Filled(cnt)
           i == St!Moved(start.si, cnt * el)
           d == St!Moved(start.di, cnt * el)
           r == IF op = "stos" THEN start.si ELSE i
<1>7. Halfway(cnt) = [ram |-> f, win |-> start.win, si |-> r, di |-> d, cx |-> 0, zf |-> TRUE]
  <2>1. /\ (IF cnt < cnt THEN start.si + cnt * el ELSE i) = i
        /\ (IF cnt < cnt THEN start.di + cnt * el ELSE d) = d
        /\ cnt - cnt = 0
    BY <1>4
  <2>2. Halfway(cnt) = [ram |-> f, win |-> start.win,
                        si |-> IF op = "stos" THEN start.si
                               ELSE IF cnt < cnt THEN start.si + cnt * el ELSE i,
                        di |-> IF cnt < cnt THEN start.di + cnt * el ELSE d,
                        cx |-> cnt - cnt, zf |-> TRUE]
    BY DEF Halfway
  <2> HIDE DEF f, i, d
  <2> QED
    BY <2>1, <2>2
<1> HIDE DEF f, i, d
<1>8. op = "movs" => Halfway(cnt) = P
  BY <1>7 DEF f, i, d
<1>9. op = "stos" => [Halfway(cnt) EXCEPT !.si = P.si] = P
  <2> DEFINE c == TRUE
             n == 0
  <2>1. /\ P = [ram |-> f, win |-> start.win, si |-> i, di |-> d, cx |-> n, zf |-> c]
        /\ Halfway(cnt) = [ram |-> f, win |-> start.win, si |-> r, di |-> d, cx |-> n, zf |-> c]
    BY <1>7 DEF f, i, d
  <2> DEFINE R == Halfway(cnt)
             w == start.win
  <2>2. P.si = i
    BY <2>1
  <2> HIDE DEF P, R, c, n, r, w
  <2>3. [R EXCEPT !.si = i] = [ram |-> f, win |-> w, si |-> i, di |-> d, cx |-> n, zf |-> c]
    <3>1. R = [ram |-> f, win |-> w, si |-> r, di |-> d, cx |-> n, zf |-> c]
      BY <2>1 DEF R, w
    <3> QED
      BY ONLY <3>1
  <2>4. [R EXCEPT !.si = P.si] = [R EXCEPT !.si = i]
    BY ONLY <2>2
  <2>5. [R EXCEPT !.si = P.si] = P
    <3>1. P = [ram |-> f, win |-> w, si |-> i, di |-> d, cx |-> n, zf |-> c]
      BY <2>1 DEF w
    <3> QED
      BY ONLY <2>3, <2>4, <3>1, Zenon
  <2> QED
    BY <2>5 DEF R
<1> QED
  BY <1>6, <1>8, <1>9

\* An offset after one more element.
LEMMA OffsetOn ==
  ASSUME St!Constants, Piecewise, NEW k \in 0 .. cnt - 1,
         NEW o \in Nat, o + Whole - el < Segment
  PROVE  St!Moved(o + k * el, St!Step) =
           IF k + 1 < cnt THEN o + (k + 1) * el ELSE St!Moved(o, (k + 1) * el)
<1>1. el \in {1, 2} /\ cnt \in Nat \ {0} /\ k \in Nat /\ k < cnt /\ Segment \in Nat \ {0}
  BY Spans DEF St!Constants
<1>2. St!Step = el
  BY Spans DEF St!Step
<1> DEFINE m == k * el
<1>3. m \in Nat /\ (k + 1) * el = m + el
  BY <1>1, Products
<1>4. CASE k + 1 < cnt
  <2>1. (k + 1) * el + el <= Whole
    BY <1>1, <1>4, Products DEF Whole
  <2>2. Whole \in Nat
    BY Spans
  <2> HIDE DEF m
  <2>3. o + m \in Nat /\ (o + m) + el < Segment
    BY <1>1, <1>3, <2>1, <2>2
  <2>4. St!Moved(o + m, el) = o + m + el
    BY <1>1, <2>3, MovedInside
  <2> QED
    BY <1>1, <1>2, <1>3, <1>4, <2>4 DEF m
<1>5. CASE ~(k + 1 < cnt)
  <2> HIDE DEF m
  <2>1. o + m + el + Segment = o + (m + el) + Segment
    BY <1>1, <1>3
  <2>2. St!Moved(o + m, el) = St!Moved(o, m + el)
    BY <2>1 DEF St!Moved
  <2> QED
    BY <1>2, <1>3, <1>5, <2>2 DEF m
<1> QED
  BY <1>4, <1>5

LEMMA TurnFills ==
  ASSUME St!Constants, Piecewise, NEW k \in 0 .. cnt - 1
  PROVE  St!One(Halfway(k)) = Halfway(k + 1)
<1> DEFINE t == Halfway(k)
           H == Halfway(k + 1)
           v == IF op = "movs" THEN St!Element(t, Source + k * el) ELSE St!Fill
           u == [t EXCEPT !.ram = Filled(k + 1)]
<1>1. op \in {"movs", "stos"} /\ cnt \in Nat \ {0} /\ k \in Nat /\ k < cnt /\ el \in {1, 2}
      /\ start.si \in Nat /\ start.di \in Nat /\ dsb \in Nat /\ esb \in Nat /\ k * el \in Nat
  <2>1. dsb \in Nat /\ esb \in Nat
    BY DEF Piecewise, Decoded
  <2>2. k \in Nat /\ el \in {1, 2}
    BY Spans
  <2> QED
    BY <2>1, <2>2, Spans, Products
<1>2. /\ t.di = start.di + k * el /\ t.cx = cnt - k /\ t.ram = Filled(k)
      /\ op = "movs" => t.si = start.si + k * el
      /\ op = "stos" => t.si = start.si
  BY <1>1 DEF Halfway
<1>3. esb + t.di = Target + k * el /\ (op = "movs" => dsb + t.si = Source + k * el)
  <2> DEFINE m == k * el
  <2>1. m \in Nat /\ t.di = start.di + m /\ (op = "movs" => t.si = start.si + m)
    BY <1>1, <1>2
  <2> HIDE DEF m, t
  <2>2. esb + t.di = Target + m /\ (op = "movs" => dsb + t.si = Source + m)
    BY <1>1, <2>1 DEF Source, Target
  <2> QED
    BY <2>2 DEF m
<1>4. St!Stored(t, Target + k * el, v) = u
  BY <1>2, ElementFilled
<1> DEFINE w == CASE op = "movs" -> St!Stored(t, esb + t.di, St!Element(t, dsb + t.si))
                  [] op = "stos" -> St!Stored(t, esb + t.di, St!Fill)
                  [] op = "cmps" -> [t EXCEPT !.zf = St!Element(t, dsb + t.si) = St!Element(t, esb + t.di)]
                  [] op = "scas" -> [t EXCEPT !.zf = St!Fill = St!Element(t, esb + t.di)]
<1>5. St!One(t) = [w EXCEPT !.cx = @ - 1,
                            !.si = IF op \in {"movs", "cmps"} THEN St!Moved(@, St!Step) ELSE @,
                            !.di = St!Moved(@, St!Step)]
  BY DEF St!One
<1>6. w = u
  <2>1. CASE op = "movs"
    <3>1. w = St!Stored(t, esb + t.di, St!Element(t, dsb + t.si))
      BY <2>1
    <3>2. v = St!Element(t, Source + k * el)
      BY <2>1
    <3> HIDE DEF w, v, u, t
    <3> QED
      BY <1>3, <1>4, <2>1, <3>1, <3>2
  <2>2. CASE op = "stos"
    <3>1. w = St!Stored(t, esb + t.di, St!Fill)
      BY <2>2
    <3>2. v = St!Fill
      BY <2>2
    <3> HIDE DEF w, v, u, t
    <3> QED
      BY <1>3, <1>4, <2>2, <3>1, <3>2
  <2> QED
    BY <1>1, <2>1, <2>2
<1>7. u = [ram |-> Filled(k + 1), win |-> start.win, si |-> t.si, di |-> t.di, cx |-> cnt - k,
           zf |-> TRUE]
  <2> DEFINE i == t.si
             d == t.di
             f == Filled(k + 1)
             old == Filled(k)
             n == cnt - k
  <2>1. t = [ram |-> old, win |-> start.win, si |-> i, di |-> d, cx |-> n, zf |-> TRUE]
    BY DEF Halfway
  <2>2. u = [t EXCEPT !.ram = f]
    OBVIOUS
  <2> HIDE DEF i, d, f, old, n, t, u
  <2>3. u = [ram |-> f, win |-> start.win, si |-> i, di |-> d, cx |-> n, zf |-> TRUE]
    BY <2>1, <2>2
  <2> QED
    BY <2>3 DEF i, d, f, n
<1>8. St!Moved(t.di, St!Step) = H.di
  <2>1. St!Moved(start.di + k * el, St!Step) =
          IF k + 1 < cnt THEN start.di + (k + 1) * el ELSE St!Moved(start.di, (k + 1) * el)
    BY <1>1, Spans, OffsetOn
  <2> QED
    BY <1>2, <2>1 DEF Halfway
<1>9. (IF op \in {"movs", "cmps"} THEN St!Moved(t.si, St!Step) ELSE t.si) = H.si
  <2>1. St!Moved(start.si + k * el, St!Step) =
          IF k + 1 < cnt THEN start.si + (k + 1) * el ELSE St!Moved(start.si, (k + 1) * el)
    BY <1>1, Spans, OffsetOn
  <2>2. CASE op = "movs"
    BY <1>2, <2>1, <2>2 DEF Halfway
  <2>3. CASE op = "stos"
    BY <1>2, <2>3 DEF Halfway
  <2> QED
    BY <1>1, <2>2, <2>3
<1>10. cnt - k - 1 = cnt - (k + 1)
  BY <1>1
<1>11. H = [ram |-> Filled(k + 1), win |-> start.win, si |-> H.si, di |-> H.di,
            cx |-> cnt - (k + 1), zf |-> TRUE]
  BY DEF Halfway
<1> HIDE DEF w, t, H, u
<1> QED
  BY <1>5, <1>6, <1>7, <1>8, <1>9, <1>10, <1>11 DEF t, H

\* The loop ends where the piece does.
LEMMA LoopFills ==
  ASSUME St!Constants, Piecewise
  PROVE  St!Slow(start) = Halfway(cnt)
<1>1. start.cx = cnt /\ cnt \in Nat
  BY DEF Piecewise, Decoded
<1>2. PICK g : /\ g[0] = start
               /\ \A k \in 1 .. cnt : g[k] = Turn(g[k - 1], k)
               /\ St!Slow(start) = g[cnt]
  BY <1>1, SlowIs
<1> DEFINE T == {k \in 0 .. cnt : g[k] = Halfway(k)}
<1>3. 0 \in T
  BY <1>1, <1>2, FilledNone
<1>4. ASSUME NEW k \in 0 .. cnt - 1, k \in T PROVE k + 1 \in T
  <2>1. k + 1 \in 1 .. cnt /\ k + 1 \in 0 .. cnt /\ (k + 1) - 1 = k
    BY <1>1
  <2>2. g[k + 1] = Turn(Halfway(k), k + 1)
    BY <1>2, <1>4, <2>1
  <2>3. ~St!Stops(Halfway(k))
    BY Spans DEF St!Stops
  <2>4. g[k + 1] = Halfway(k + 1)
    BY <2>2, <2>3, TurnFills DEF Turn
  <2> QED
    BY <2>1, <2>4
<1> HIDE DEF T
<1>5. \A k \in 0 .. cnt : k \in T
  BY <1>1, <1>3, <1>4, Turns
<1>6. cnt \in T
  BY <1>1, <1>5
<1> QED
  BY <1>2, <1>6 DEF T

\* A comparison's state after n turns, of which none stopped it before.
Offset(o, n) == (o + n * St!Step + cnt * 2 * Segment) % Segment
Passed(n) ==
  [ram |-> start.ram, win |-> start.win,
   si |-> IF op = "cmps" THEN Offset(start.si, n) ELSE start.si, di |-> Offset(start.di, n),
   cx |-> cnt - n, zf |-> n = 0 \/ St!Same(n - 1)]

Compares == Decoded /\ op \in {"cmps", "scas"}

LEMMA OffsetFirst ==
  ASSUME St!Constants, Compares, NEW o \in 0 .. Segment - 1
  PROVE  Offset(o, 0) = o
<1>1. Segment \in Nat \ {0} /\ cnt * 2 \in Int /\ St!Step \in Int
  BY DEF St!Constants, Compares, Decoded, St!Step
<1>2. (cnt * 2 * Segment + o) % Segment = o
  <2> DEFINE q == cnt * 2
  <2>1. q \in Int
    BY <1>1
  <2> HIDE DEF q
  <2>2. (q * Segment + o) % Segment = o
    BY <1>1, <2>1, Remainder
  <2> QED
    BY <2>2 DEF q
<1>3. o + 0 * St!Step + cnt * 2 * Segment = cnt * 2 * Segment + o
  <2>1. cnt * 2 * Segment \in Int /\ 0 * St!Step = 0
    BY <1>1
  <2> QED
    BY <2>1
<1> QED
  BY <1>2, <1>3 DEF Offset

LEMMA OffsetNext ==
  ASSUME St!Constants, Compares, NEW o \in 0 .. Segment - 1, NEW n \in Nat
  PROVE  St!Moved(Offset(o, n), St!Step) = Offset(o, n + 1)
<1> DEFINE x == o + n * St!Step + cnt * 2 * Segment
<1>1. Segment \in Nat \ {0} /\ cnt * 2 * Segment \in Int /\ St!Step \in Int /\ n * St!Step \in Int
  BY DEF St!Constants, Compares, Decoded, St!Step
<1>2. (n + 1) * St!Step = n * St!Step + St!Step
  <2> DEFINE step == St!Step
  <2>1. step \in Int
    BY <1>1
  <2> HIDE DEF step
  <2>2. (n + 1) * step = n * step + step
    BY <2>1
  <2> QED
    BY <2>2 DEF step
<1>3. x \in Int /\ x + St!Step = o + (n + 1) * St!Step + cnt * 2 * Segment
  BY <1>1, <1>2
<1> HIDE DEF x
<1>4. St!Moved(x % Segment, St!Step) = (x + St!Step) % Segment
  BY <1>1, <1>3, MovedOn
<1> QED
  BY <1>3, <1>4 DEF Offset, x

LEMMA SameElement ==
  ASSUME NEW t, NEW a, t.ram = start.ram, t.win = start.win
  PROVE  St!Element(t, a) = St!Element(start, a)
BY DEF St!Element, St!Load

LEMMA PassedNone ==
  ASSUME St!Constants, Compares
  PROVE  Passed(0) = start
<1>1. Offset(start.si, 0) = start.si /\ Offset(start.di, 0) = start.di
  BY OffsetFirst DEF Compares, Decoded
<1>2. cnt - 0 = cnt /\ start.cx = cnt /\ start.zf = TRUE
  <2>1. cnt \in Nat /\ start.cx \in {cnt} /\ start.zf \in {TRUE}
    BY DEF Compares, Decoded
  <2>2. cnt - 0 = cnt
    BY <2>1
  <2>3. start.zf = TRUE
    BY <2>1, Zenon
  <2> QED
    BY <2>1, <2>2, <2>3
<1>3. start = [ram |-> start.ram, win |-> start.win, si |-> start.si, di |-> start.di,
               cx |-> start.cx, zf |-> start.zf]
  BY DEF Compares, Decoded
<1>4. Passed(0) = [ram |-> start.ram, win |-> start.win, si |-> start.si, di |-> start.di,
                   cx |-> cnt, zf |-> TRUE]
  <2>1. (0 = 0 \/ St!Same(0 - 1)) = TRUE
    OBVIOUS
  <2>2. (IF op = "cmps" THEN Offset(start.si, 0) ELSE start.si) = start.si
    BY <1>1
  <2> QED
    BY <1>1, <1>2, <2>1, <2>2 DEF Passed
<1> QED
  BY <1>2, <1>3, <1>4

\* One more comparison.
LEMMA TurnCompares ==
  ASSUME St!Constants, Compares, NEW n \in 0 .. cnt - 1
  PROVE  St!One(Passed(n)) = Passed(n + 1)
<1> DEFINE t == Passed(n)
           a == dsb + t.si
           b == esb + t.di
           e == IF op = "cmps" THEN St!Element(t, a) = St!Element(t, b)
                ELSE St!Fill = St!Element(t, b)
           same == St!Same(n)
           u == [t EXCEPT !.zf = e]
<1>0. n \in Nat /\ cnt \in Nat /\ op \in {"cmps", "scas"}
      /\ start.si \in 0 .. Segment - 1 /\ start.di \in 0 .. Segment - 1
  BY DEF Compares, Decoded
<1>1. /\ t.ram = start.ram /\ t.win = start.win /\ t.di = Offset(start.di, n)
      /\ t.si = IF op = "cmps" THEN Offset(start.si, n) ELSE start.si
      /\ t.cx = cnt - n
  BY DEF Passed
<1>2. e = same
  <2>1. St!Element(t, a) = St!Element(start, a) /\ St!Element(t, b) = St!Element(start, b)
    BY <1>1, SameElement
  <2>2. b = esb + Offset(start.di, n)
    BY <1>1
  <2>3. op = "cmps" => a = dsb + Offset(start.si, n)
    BY <1>1
  <2> HIDE DEF t, a, b
  <2>4. CASE op = "cmps"
    <3>1. e = (St!Element(start, dsb + Offset(start.si, n)) = St!Element(start, esb + Offset(start.di, n)))
      BY <2>1, <2>2, <2>3, <2>4
    <3> QED
      BY <2>4, <3>1 DEF St!Same, Offset
  <2>5. CASE op = "scas"
    <3>1. e = (St!Fill = St!Element(start, esb + Offset(start.di, n)))
      BY <2>1, <2>2, <2>5
    <3> QED
      BY <2>5, <3>1 DEF St!Same, Offset
  <2> QED
    BY <1>0, <2>4, <2>5
<1> DEFINE w == CASE op = "movs" -> St!Stored(t, b, St!Element(t, a))
                  [] op = "stos" -> St!Stored(t, b, St!Fill)
                  [] op = "cmps" -> [t EXCEPT !.zf = St!Element(t, a) = St!Element(t, b)]
                  [] op = "scas" -> [t EXCEPT !.zf = St!Fill = St!Element(t, b)]
<1>3. St!One(t) = [w EXCEPT !.cx = @ - 1,
                            !.si = IF op \in {"movs", "cmps"} THEN St!Moved(@, St!Step) ELSE @,
                            !.di = St!Moved(@, St!Step)]
  BY DEF St!One
<1>4. w = u
  <2> HIDE DEF t, a, b
  <2>1. CASE op = "cmps"
    <3>1. w = [t EXCEPT !.zf = St!Element(t, a) = St!Element(t, b)]
      BY <2>1
    <3>2. e = (St!Element(t, a) = St!Element(t, b))
      BY <2>1
    <3> HIDE DEF w, e
    <3> QED
      BY <3>1, <3>2
  <2>2. CASE op = "scas"
    <3>1. w = [t EXCEPT !.zf = St!Fill = St!Element(t, b)]
      BY <2>2
    <3>2. e = (St!Fill = St!Element(t, b))
      BY <2>2
    <3> HIDE DEF w, e
    <3> QED
      BY <3>1, <3>2
  <2> QED
    BY <1>0, <2>1, <2>2
<1> DEFINE i == t.si
           d == t.di
           m == start.ram
           v == start.win
           c == cnt - n
<1>5. \E told : t = [ram |-> m, win |-> v, si |-> i, di |-> d, cx |-> c, zf |-> told]
  <2> DEFINE told == n = 0 \/ St!Same(n - 1)
  <2>1. t = [ram |-> m, win |-> v, si |-> i, di |-> d, cx |-> c, zf |-> told]
    BY DEF Passed
  <2> HIDE DEF told, t
  <2> QED
    BY <2>1
<1>6. w = [t EXCEPT !.zf = same]
  <2> HIDE DEF e, same, w, t
  <2> QED
    BY <1>2, <1>4
<1> HIDE DEF t, a, b, e, same, u, w, i, d, m, v, c
<1>7. w = [ram |-> m, win |-> v, si |-> i, di |-> d, cx |-> c, zf |-> same]
  BY ONLY <1>5, <1>6
<1> DEFINE i2 == IF op \in {"movs", "cmps"} THEN St!Moved(i, St!Step) ELSE i
           d2 == St!Moved(d, St!Step)
           P == Passed(n + 1)
<1>8. St!One(t) = [ram |-> m, win |-> v, si |-> i2, di |-> d2, cx |-> c - 1, zf |-> same]
  BY <1>3, <1>7
<1>9. d2 = Offset(start.di, n + 1)
  BY <1>0, <1>1, OffsetNext DEF d
<1>10. i2 = IF op = "cmps" THEN Offset(start.si, n + 1) ELSE start.si
  <2>1. CASE op = "cmps"
    <3>1. i = Offset(start.si, n)
      BY <1>1, <2>1 DEF i
    <3> QED
      BY <1>0, <2>1, <3>1, OffsetNext
  <2>2. CASE op = "scas"
    BY <1>1, <2>2 DEF i
  <2> QED
    BY <1>0, <2>1, <2>2
<1>11. c - 1 = cnt - (n + 1)
  BY <1>0 DEF c
<1>12. (n + 1 = 0 \/ St!Same((n + 1) - 1)) = same
  <2>1. n + 1 # 0 /\ (n + 1) - 1 = n
    BY <1>0
  <2>2. St!Same((n + 1) - 1) = St!Same(n)
    BY <2>1
  <2>3. same \in BOOLEAN
    BY DEF same, St!Same
  <2> QED
    BY <2>1, <2>2, <2>3 DEF same
<1> HIDE DEF i2, d2
<1>13. Passed(n + 1) = [ram |-> m, win |-> v, si |-> i2, di |-> d2, cx |-> c - 1, zf |-> same]
  <2> DEFINE told == n + 1 = 0 \/ St!Same((n + 1) - 1)
             j == IF op = "cmps" THEN Offset(start.si, n + 1) ELSE start.si
             k == cnt - (n + 1)
  <2>1. Passed(n + 1) = [ram |-> m, win |-> v, si |-> j, di |-> Offset(start.di, n + 1),
                         cx |-> k, zf |-> told]
    BY DEF Passed, m, v
  <2>2. told = same /\ j = i2 /\ k = c - 1
    BY <1>10, <1>11, <1>12
  <2> HIDE DEF told, j, k
  <2> QED
    BY <1>9, <2>1, <2>2
<1> QED
  BY <1>8, <1>13 DEF t

\* The loop stops on the first element that differs, or goes through.
LEMMA LoopStops ==
  ASSUME St!Constants, Compares, cnt > 0
  PROVE  \E n \in 1 .. cnt : /\ St!Slow(start) = Passed(n)
                             /\ \A i \in 0 .. n - 2 : St!Same(i)
                             /\ n < cnt => ~St!Same(n - 1)
<1>1. start.cx = cnt /\ cnt \in Nat
  BY DEF Compares, Decoded
<1>2. PICK g : /\ g[0] = start
               /\ \A k \in 1 .. cnt : g[k] = Turn(g[k - 1], k)
               /\ St!Slow(start) = g[cnt]
  BY <1>1, SlowIs
<1> DEFINE Q(k, n) == /\ g[k] = Passed(n)
                      /\ \A i \in 0 .. n - 2 : St!Same(i)
                      /\ n = k \/ (n > 0 /\ n < k /\ ~St!Same(n - 1))
           T == {k \in 0 .. cnt : \E n \in 0 .. k : Q(k, n)}
<1>3. 0 \in T
  <2>1. Q(0, 0)
    BY <1>2, PassedNone
  <2> HIDE DEF Q
  <2> QED
    BY <1>1, <2>1
<1>4. ASSUME NEW k \in 0 .. cnt - 1, k \in T PROVE k + 1 \in T
  <2>1. k + 1 \in 1 .. cnt /\ k + 1 \in 0 .. cnt /\ (k + 1) - 1 = k /\ k \in Nat
    BY <1>1
  <2>2. PICK n \in 0 .. k : Q(k, n)
    BY <1>4
  <2>3. g[k + 1] = Turn(Passed(n), k + 1)
    BY <1>2, <2>1, <2>2
  <2>4. Passed(n).zf = (n = 0 \/ St!Same(n - 1))
    BY DEF Passed
  <2>5. op \in {"cmps", "scas"}
    BY DEF Compares
  <2>6. CASE n > 0 /\ ~St!Same(n - 1)
    <3>5. n # 0 /\ ~St!Same(n - 1) /\ k + 1 > 1
      BY <2>1, <2>6
    <3>6. ~Passed(n).zf
      BY ONLY <2>4, <3>5, Zenon
    <3>1. St!Stops(Passed(n)) /\ k + 1 > 1
      BY <2>5, <3>5, <3>6, Zenon DEF St!Stops
    <3>2. g[k + 1] = Passed(n)
      BY <2>3, <3>1 DEF Turn
    <3>3. Q(k + 1, n)
      BY <2>1, <2>2, <2>6, <3>2
    <3>4. n \in 0 .. k + 1
      BY <2>1
    <3> HIDE DEF Q
    <3> QED
      BY <2>1, <3>3, <3>4
  <2>7. CASE ~(n > 0 /\ ~St!Same(n - 1))
    <3>1. n = k
      BY <2>2, <2>7
    <3>2. n = 0 \/ St!Same(n - 1)
      BY <2>7
    <3>3. g[k + 1] = St!One(Passed(n))
      BY <2>3, <2>4, <3>2 DEF Turn, St!Stops
    <3>4. g[k + 1] = Passed(k + 1)
      BY <3>1, <3>3, TurnCompares
    <3>5. \A i \in 0 .. (k + 1) - 2 : St!Same(i)
      <4> SUFFICES ASSUME NEW i \in 0 .. (k + 1) - 2 PROVE St!Same(i)
        OBVIOUS
      <4>1. i \in 0 .. n - 2 \/ (i = n - 1 /\ n # 0)
        BY <2>1, <3>1
      <4> QED
        BY <2>2, <3>2, <4>1
    <3>6. Q(k + 1, k + 1) /\ k + 1 \in 0 .. k + 1
      BY <2>1, <3>4, <3>5
    <3> HIDE DEF Q
    <3> QED
      BY <2>1, <3>6
  <2> QED
    BY <2>6, <2>7
<1>5. \A k \in 0 .. cnt : k \in T
  <2> HIDE DEF T
  <2> QED
    BY <1>1, <1>3, <1>4, Turns
<1>6. PICK n \in 0 .. cnt : Q(cnt, n)
  BY <1>1, <1>5
<1>7. n \in 1 .. cnt
  BY <1>1, <1>6
<1> QED
  BY <1>2, <1>6, <1>7

\* The loop and where an element ends are the instruction's, not the moment's.
LEMMA SlowStays ==
  ASSUME UNCHANGED <<op, el, df, dsb, esb, cnt, start>>
  PROVE  (St!Slow(start))' = St!Slow(start) /\ (St!Straddles)' = St!Straddles
<1>1. (St!Slow(start))' = St!Slow(start)
  BY DEF St!Slow, St!One, St!Stops, St!Stored, St!Store, St!Element, St!Load, St!Fill, St!Moved, St!Step
<1>2. (St!Straddles)' = St!Straddles
  BY DEF St!Straddles
<1> QED
  BY <1>1, <1>2

\* An instruction has not run yet, or left what its element loop would have.
RunsRight ==
  /\ cnt > 0
  /\ op = "movs" /\ ~St!Straddles => s = St!Slow(start)
  /\ op = "stos" /\ ~St!Straddles => s = [St!Slow(start) EXCEPT !.si = s.si]
  /\ op \in {"cmps", "scas"} => s = St!Slow(start)

InstructionHolds == which = "strings" => Decoded /\ (s = start \/ RunsRight)

LEMMA StringsBegin ==
  ASSUME St!Constants, Init
  PROVE  InstructionHolds
<1> SUFFICES ASSUME which = "strings" PROVE Decoded /\ s = start
  BY DEF InstructionHolds
<1>1. St!Init
  BY DEF Init
<1>2. /\ op \in St!Ops /\ el \in {1, 2} /\ df \in BOOLEAN /\ dsb \in Nat /\ esb \in Nat
      /\ cnt \in Nat /\ s = start
  BY <1>1 DEF St!Init, St!Constants
<1>3. PICK m \in St!Contents(op), i \in 0 .. Segment - 1, d \in 0 .. Segment - 1 :
        s = [ram |-> m, win |-> m, si |-> i, di |-> d, cx |-> cnt, zf |-> TRUE]
  BY <1>1 DEF St!Init
<1>4. m \in Memory
  <2>1. [a \in 0 .. Size - 1 |-> a] \in Memory
    BY DEF Memory, St!Constants
  <2>2. ASSUME NEW x PROVE [a \in 0 .. Size - 1 |-> IF a = x THEN 1 ELSE St!Al] \in Memory
    BY DEF Memory, St!Al
  <2> QED
    BY <2>1, <2>2 DEF St!Contents
<1>5. s \in [ram : Memory, win : Memory, si : 0 .. Segment - 1, di : 0 .. Segment - 1,
             cx : {cnt}, zf : {TRUE}]
  BY <1>3, <1>4
<1> QED
  BY <1>2, <1>5 DEF Decoded

\* What a turn leaves, for one, is a record.
LEMMA SameRecord ==
  ASSUME NEW w, NEW c, NEW i, NEW d, NEW t, t = [w EXCEPT !.cx = c, !.si = i, !.di = d]
  PROVE  t = [t EXCEPT !.si = t.si]
  OBVIOUS

LEMMA LoopLeavesRecord ==
  ASSUME Decoded, op = "stos", cnt > 0, NEW t, t = St!Slow(start)
  PROVE  t = [t EXCEPT !.si = t.si]
<1>1. start.cx = cnt /\ cnt \in Nat /\ cnt \in 1 .. cnt
  BY DEF Decoded
<1>2. PICK g : /\ \A k \in 1 .. cnt : g[k] = Turn(g[k - 1], k)
               /\ t = g[cnt]
  BY <1>1, SlowIs
<1> DEFINE u == g[cnt - 1]
<1>3. t = St!One(u)
  BY <1>1, <1>2 DEF Turn, St!Stops
<1> DEFINE w == CASE op = "movs" -> St!Stored(u, esb + u.di, St!Element(u, dsb + u.si))
                  [] op = "stos" -> St!Stored(u, esb + u.di, St!Fill)
                  [] op = "cmps" -> [u EXCEPT !.zf = St!Element(u, dsb + u.si) = St!Element(u, esb + u.di)]
                  [] op = "scas" -> [u EXCEPT !.zf = St!Fill = St!Element(u, esb + u.di)]
           c == w.cx - 1
           i == IF op \in {"movs", "cmps"} THEN St!Moved(w.si, St!Step) ELSE w.si
           d == St!Moved(w.di, St!Step)
<1> HIDE DEF u
<1>4. St!One(u) = [w EXCEPT !.cx = c, !.si = i, !.di = d]
  BY DEF St!One
<1> HIDE DEF w, c, i, d
<1>5. t = [w EXCEPT !.cx = c, !.si = i, !.di = d]
  BY <1>3, <1>4
<1> QED
  BY ONLY <1>5, SameRecord

\* What strop leaves is what the loop leaves.
LEMMA StropRight ==
  ASSUME St!Constants, Decoded, s = start, cnt > 0,
         NEW t, t = IF St!Bulky THEN St!Piece(s) ELSE St!Slow(s)
  PROVE  /\ op = "movs" /\ ~St!Straddles => t = St!Slow(start)
         /\ op = "stos" /\ ~St!Straddles => t = [St!Slow(start) EXCEPT !.si = t.si]
         /\ op \in {"cmps", "scas"} => t = St!Slow(start)
<1>1. CASE ~St!Bulky
  <2>1. t = St!Slow(start)
    BY <1>1
  <2>2. op = "stos" => t = [t EXCEPT !.si = t.si]
    BY <2>1, LoopLeavesRecord
  <2> QED
    BY <2>1, <2>2, Zenon
<1>2. CASE St!Bulky /\ ~St!Straddles
  <2>1. Piecewise /\ t = St!Piece(s) /\ op \in {"movs", "stos"}
    BY <1>2 DEF Piecewise, St!Bulky
  <2>2. St!Slow(start) = Halfway(cnt)
    BY <2>1, LoopFills
  <2>3. op = "movs" => t = Halfway(cnt)
    BY <2>1, FilledAll
  <2>4. op = "stos" => [Halfway(cnt) EXCEPT !.si = St!Piece(s).si] = St!Piece(s)
    BY <2>1, FilledAll
  <2>5. op = "stos" => t = [St!Slow(start) EXCEPT !.si = t.si]
    BY ONLY <2>1, <2>2, <2>4, Zenon
  <2> QED
    BY <2>1, <2>2, <2>3, <2>5
<1>3. CASE St!Bulky /\ St!Straddles
  BY <1>3 DEF St!Bulky
<1> QED
  BY <1>1, <1>2, <1>3

LEMMA StringsGoOn ==
  ASSUME St!Constants, InstructionHolds, [Next]_vars
  PROVE  InstructionHolds'
<1> SUFFICES ASSUME which' = "strings" PROVE Decoded' /\ (s = start \/ RunsRight)'
  BY DEF InstructionHolds
<1>1. CASE UNCHANGED <<which, strings>>
  <2>1. which = "strings" /\ UNCHANGED <<op, el, df, dsb, esb, cnt, s, start>>
    BY <1>1 DEF strings
  <2>2. Decoded /\ (s = start \/ RunsRight)
    BY <2>1 DEF InstructionHolds
  <2>3. Decoded'
    BY <2>1, <2>2 DEF Decoded, Memory
  <2>4. (St!Slow(start))' = St!Slow(start) /\ (St!Straddles)' = St!Straddles
    BY <2>1, SlowStays
  <2>5. (s = start \/ RunsRight)'
    <3>1. CASE s = start
      BY <2>1, <3>1
    <3>2. CASE RunsRight
      <4>1. /\ cnt' > 0
            /\ op' = "movs" /\ ~(St!Straddles)' => s' = (St!Slow(start))'
            /\ op' = "stos" /\ ~(St!Straddles)' => s' = [(St!Slow(start))' EXCEPT !.si = (s').si]
            /\ op' \in {"cmps", "scas"} => s' = (St!Slow(start))'
        BY ONLY <2>1, <2>4, <3>2, Zenon DEF RunsRight
      <4> QED
        BY ONLY <4>1 DEF RunsRight
    <3> QED
      BY <2>2, <3>1, <3>2
  <2> QED
    BY <2>3, <2>5
<1>2. CASE Only("strings") /\ St!Next
  <2>1. which = "strings" /\ St!strop
    BY <1>2 DEF Only, St!Next
  <2>2. /\ UNCHANGED <<op, el, df, dsb, esb, cnt, start>>
        /\ s = start /\ cnt > 0 /\ s' = IF St!Bulky THEN St!Piece(s) ELSE St!Slow(s)
    BY <2>1 DEF St!strop
  <2>3. Decoded
    BY <2>1 DEF InstructionHolds
  <2>4. Decoded'
    BY <2>2, <2>3 DEF Decoded, Memory
  <2>5. (St!Slow(start))' = St!Slow(start) /\ (St!Straddles)' = St!Straddles
    BY <2>2, SlowStays
  <2>6. /\ op = "movs" /\ ~St!Straddles => s' = St!Slow(start)
        /\ op = "stos" /\ ~St!Straddles => s' = [St!Slow(start) EXCEPT !.si = (s').si]
        /\ op \in {"cmps", "scas"} => s' = St!Slow(start)
    BY <2>2, <2>3, StropRight
  <2>7. RunsRight'
    <3>1. /\ cnt' > 0
          /\ op' = "movs" /\ ~(St!Straddles)' => s' = (St!Slow(start))'
          /\ op' = "stos" /\ ~(St!Straddles)' => s' = [(St!Slow(start))' EXCEPT !.si = (s').si]
          /\ op' \in {"cmps", "scas"} => s' = (St!Slow(start))'
      BY ONLY <2>2, <2>5, <2>6, Zenon
    <3> QED
      BY ONLY <3>1 DEF RunsRight
  <2> QED
    BY <2>4, <2>7
<1> QED
  BY <1>1, <1>2 DEF Next, Only, vars

\* A comparison's state says where it stopped.
LEMMA ScanSays ==
  ASSUME St!Constants, Decoded, RunsRight
  PROVE  St!ScanStopsThere
<1> SUFFICES ASSUME op \in {"cmps", "scas"}
             PROVE  LET n == cnt - s.cx
                    IN  /\ \A i \in 0 .. n - 2 : St!Same(i)
                        /\ s.zf = St!Same(n - 1)
                        /\ s.cx > 0 => ~s.zf
                        /\ s.di = (start.di + n * St!Step + cnt * 2 * Segment) % Segment
  BY DEF St!ScanStopsThere
<1>1. Compares /\ cnt > 0 /\ cnt \in Nat /\ s = St!Slow(start)
  BY DEF Compares, RunsRight, Decoded
<1>2. PICK n \in 1 .. cnt : /\ St!Slow(start) = Passed(n)
                            /\ \A i \in 0 .. n - 2 : St!Same(i)
                            /\ n < cnt => ~St!Same(n - 1)
  BY <1>1, LoopStops
<1>3. /\ s.cx = cnt - n /\ s.zf = (n = 0 \/ St!Same(n - 1))
      /\ s.di = Offset(start.di, n)
  BY <1>1, <1>2 DEF Passed
<1>4. n \in Nat /\ n # 0 /\ cnt - s.cx = n /\ (s.cx > 0 => n < cnt)
  BY <1>1, <1>3
<1>5. St!Same(n - 1) \in BOOLEAN
  BY DEF St!Same
<1>6. s.zf = St!Same(n - 1)
  BY ONLY <1>3, <1>4, <1>5, Zenon
<1>7. s.cx > 0 => ~s.zf
  BY <1>2, <1>4, <1>6
<1>8. s.di = (start.di + n * St!Step + cnt * 2 * Segment) % Segment
  BY <1>3 DEF Offset
<1> QED
  BY <1>2, <1>4, <1>6, <1>7, <1>8

\* The string half of InstructionsRight, the property of the run: a repeated
\* copy or fill (strop in cpu.c) leaves memory and registers as its elements one
\* at a time do, whichever path it takes, and a repeated comparison ends on the
\* first element that differs.  Of any contents, any length of segment and of
\* memory below the window, any count, and any count from which the piecewise
\* path is tried.
THEOREM StringsGoByElement ==
  Spec => [](which = "strings" => St!CopyIsElementwise /\ St!FillIsElementwise /\ St!ScanStopsThere)
<1>1. St!Constants
  BY PartsAssumption
<1>2. Init => InstructionHolds
  BY <1>1, StringsBegin
<1>3. InstructionHolds /\ [Next]_vars => InstructionHolds'
  BY <1>1, StringsGoOn
<1>4. InstructionHolds =>
        (which = "strings" => St!CopyIsElementwise /\ St!FillIsElementwise /\ St!ScanStopsThere)
  <2> SUFFICES ASSUME InstructionHolds, which = "strings"
               PROVE  St!CopyIsElementwise /\ St!FillIsElementwise /\ St!ScanStopsThere
    OBVIOUS
  <2>1. Decoded /\ (s = start \/ RunsRight)
    BY DEF InstructionHolds
  <2>2. CASE s = start
    BY <2>2 DEF St!CopyIsElementwise, St!FillIsElementwise, St!ScanStopsThere, St!Ran
  <2>3. CASE RunsRight
    <3>1. St!CopyIsElementwise
      BY <2>3 DEF St!CopyIsElementwise, RunsRight
    <3>2. St!FillIsElementwise
      BY <2>3, Zenon DEF St!FillIsElementwise, RunsRight
    <3>3. St!ScanStopsThere
      BY <1>1, <2>1, <2>3, ScanSays
    <3> QED
      BY <3>1, <3>2, <3>3
  <2> QED
    BY <2>1, <2>2, <2>3
<1> QED
  BY <1>2, <1>3, <1>4, PTL DEF Spec
=============================================================================
