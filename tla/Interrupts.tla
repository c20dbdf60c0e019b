----------------------------- MODULE Interrupts -----------------------------
(***************************************************************************)
(* Timer interrupts and their service: the batch loop of src/run.c, timer  *)
(* channel 0 and the interrupt controller of src/dev.c, and a guest that   *)
(* programs the timer at any instruction and handles interrupts.           *)
(*                                                                         *)
(* Instructions run in batches; the devices are looked at, and at most one *)
(* interrupt is delivered, only between two batches (dev_tick, pic_pending *)
(* and cpu_interrupt).  One instruction takes one timer tick.              *)
(*                                                                         *)
(* The guest's handlers keep to the usual form: they may let more urgent   *)
(* interrupts in, they send one end of interrupt with interrupts off, and  *)
(* they return.                                                            *)
(***************************************************************************)
EXTENDS PitChannel, Pic8259, Sequences

CONSTANTS
  Batch,    \* instructions in a batch (256)
  Unarmed,  \* the same while a one-shot is spent (PIT0_UNARMED_BATCH, 32)
  Resync,   \* a periodic deadline this far past is given up (0.25 s)
  Modes,    \* timer modes the guest's control words select
  Others    \* IRQs other devices raise

VARIABLES
  ch, pic,
  left,     \* instructions left in the running batch
  iflag,    \* the CPU takes interrupts
  stack,    \* handlers running, innermost first: the IRQ and whether its EOI was sent
  short,    \* history: the running batch was cut to Unarmed
  inside,   \* history: the count that runs was written inside the running batch
  owed      \* history: a count was written in mode 0 and its IRQ0 has not come

vars == <<ch, pic, left, iflag, stack, short, inside, owed>>

\* What the constants may be.
Constants ==
  /\ {Radix, Batch, Unarmed, Resync} \subseteq Nat \ {0} /\ MaxPast \in Nat
  /\ Modes \subseteq {0, 3} /\ Others \subseteq Irq \ {0}

\* A guest that uses the timer one way.  (Going to mode 0 from a count that
\* runs in mode 3 leaves that count armed, and it gives an IRQ0 as a one-shot.)
OneUse == Modes # {0, 3}

Init ==
  /\ ch = pit_init /\ pic = [pic_init EXCEPT !.imr = {}]
  /\ left = 0 /\ iflag = TRUE /\ stack = <<>>
  /\ short = FALSE /\ inside = FALSE /\ owed = FALSE

-----------------------------------------------------------------------------
(***************************************************************************)
(* Between two batches.                                                    *)
(***************************************************************************)
\* dev_next_deadline, as the number of instructions to it, and the batch
\* that is cut to it; a deadline that is already here gives one instruction.
dev_next_deadline(c) ==
  IF c.mode = 0 /\ ~ c.armed THEN Unarmed
  ELSE IF c.due <= 0 THEN 0
  ELSE c.due

BatchLimit(c) ==
  LET dl == dev_next_deadline(c) IN
  IF dl = 0 THEN 1 ELSE IF dl < Batch THEN dl ELSE Batch

\* dev_tick's timer half: whether IRQ0 is raised, and the channel after it.
\* Mutant: a deadline that is past is not one that is due.
DueOnlyNow(c) == c.due = 0 /\ (c.mode = 0 => c.armed)

TimerFires(c) == c.due <= 0 /\ (c.mode = 0 => c.armed)

\* Mutant: a one-shot is treated as periodic.
StaysArmed(c) ==
  IF ~ TimerFires(c) THEN c
  ELSE [c EXCEPT !.due = (IF - @ > Resync THEN 0 ELSE @) + Period(c.reload)]

AfterFire(c) ==
  IF ~ TimerFires(c) THEN c
  ELSE IF c.mode = 0 THEN [c EXCEPT !.armed = FALSE]
  ELSE [c EXCEPT !.due = (IF - @ > Resync THEN 0 ELSE @) + Period(c.reload)]

Ticked == IF TimerFires(ch) THEN pic_raise(pic, 0) ELSE pic

\* The end of a batch and the start of the next.
Turn ==
  /\ left = 0
  /\ ch' = AfterFire(ch)
  /\ IF iflag /\ Pending(Ticked) # {}
     THEN \E irq \in Pending(Ticked) :
            /\ pic' = Acknowledge(Ticked, irq)
            /\ iflag' = FALSE
            /\ stack' = <<[irq |-> irq, eoi |-> FALSE]>> \o stack
     ELSE pic' = Ticked /\ UNCHANGED <<iflag, stack>>
  /\ left' = BatchLimit(ch')
  /\ short' = (ch'.mode = 0 /\ ~ ch'.armed)
  /\ inside' = FALSE
  /\ owed' = (owed /\ ~ TimerFires(ch))

\* Another device raises its line, or takes it back (kbd_read60).
Raise(irq) ==
  /\ pic' = pic_raise(pic, irq)
  /\ UNCHANGED <<ch, left, iflag, stack, short, inside, owed>>

Lower(irq) ==
  /\ pic' = pic_lower(pic, irq)
  /\ UNCHANGED <<ch, left, iflag, stack, short, inside, owed>>

-----------------------------------------------------------------------------
(***************************************************************************)
(* The guest's instructions.                                               *)
(***************************************************************************)
\* One instruction that leaves the channel as c before time moves on.
Instruction(c) ==
  /\ left > 0 /\ left' = left - 1
  /\ ch' = Elapse(c)

Compute ==
  /\ Instruction(ch)
  /\ UNCHANGED <<pic, iflag, stack, short, inside, owed>>

Control(mode) ==
  /\ Instruction(ControlWord(ch, mode, 3))
  /\ UNCHANGED <<pic, iflag, stack, short, inside, owed>>

\* A byte of a count, once the guest has set the mode it wants.  The count
\* runs from its second byte on.
Write(v) ==
  /\ ch.mode \in Modes
  /\ Instruction(WriteCount(ch, v))
  /\ inside' = (inside \/ CountWhole(ch))
  /\ owed' = IF CountWhole(ch) THEN ch.mode = 0 ELSE owed
  /\ UNCHANGED <<pic, iflag, stack, short>>

\* A handler that has sent its end of interrupt and only has to return.
Returning == stack # <<>> /\ Head(stack).eoi

\* CLI, STI: a handler that has sent its end of interrupt leaves them alone.
InterruptsOn(on) ==
  /\ Instruction(ch)
  /\ ~ Returning
  /\ iflag' = on
  /\ UNCHANGED <<pic, stack, short, inside, owed>>

Eoi ==
  /\ Instruction(ch)
  /\ stack # <<>> /\ ~ Returning /\ ~ iflag
  /\ pic' = EndOfInterrupt(pic)
  /\ stack' = <<[Head(stack) EXCEPT !.eoi = TRUE]>> \o Tail(stack)
  /\ UNCHANGED <<iflag, short, inside, owed>>

Iret ==
  /\ Instruction(ch)
  /\ Returning
  /\ stack' = Tail(stack)
  /\ iflag' = TRUE
  /\ UNCHANGED <<pic, short, inside, owed>>

Mask(mask) ==
  /\ Instruction(ch)
  /\ pic' = SetMask(pic, mask)
  /\ UNCHANGED <<iflag, stack, short, inside, owed>>

Guest ==
  \/ Compute \/ Eoi \/ Iret
  \/ \E mode \in Modes : Control(mode)
  \/ \E v \in Byte : Write(v)
  \/ \E on \in BOOLEAN : InterruptsOn(on)
  \/ \E mask \in SUBSET Others : Mask(mask)

Next ==
  \/ Turn \/ Guest
  \/ \E irq \in Others : Raise(irq) \/ Lower(irq)

Spec == Init /\ [][Next]_vars

\* The loop and the processor never stop.
FairSpec == Spec /\ WF_vars(Turn) /\ WF_vars(Guest)

-----------------------------------------------------------------------------
TypeOK ==
  /\ ch \in Channel /\ pic \in Pic
  /\ left \in 0 .. Batch /\ iflag \in BOOLEAN
  /\ stack \in Seq([irq : Irq, eoi : BOOLEAN])
  /\ {short, inside, owed} \subseteq BOOLEAN

Unfinished == {n \in DOMAIN stack : ~ stack[n].eoi}

\* What the controller thinks is in service is what is being handled, and
\* handlers only ever interrupt less urgent ones.
ServiceIsStack ==
  /\ pic.isr = {stack[n].irq : n \in Unfinished}
  /\ \A i, j \in DOMAIN stack : i < j => stack[i].irq < stack[j].irq

\* A non-specific end of interrupt ends the handler that sends it, however
\* deeply handlers are nested and whatever was raised meanwhile.
EoiEndsOwn ==
  [][pic'.isr \subseteq pic.isr /\ pic'.isr # pic.isr
       => pic'.isr = pic.isr \ {Head(stack).irq}]_vars

\* dev_tick: "ONE interrupt per count written": in mode 0 IRQ0 is raised
\* only for a count written in mode 0 that has not had its interrupt.
OneIrqPerCount == [][left = 0 /\ left' > 0 /\ ch.mode = 0 /\ TimerFires(ch) => owed]_vars

\* The overshoot of a one-shot: none if its count was written before the
\* batch, less than PIT0_UNARMED_BATCH if it was written in a batch that
\* found the last one-shot spent, less than a batch otherwise.
OvershootBounded ==
  [][left = 0 /\ left' > 0 /\ ch.mode = 0 /\ TimerFires(ch) =>
       CASE ~ inside           -> ch.due = 0
         [] inside /\ short   -> - ch.due < Unarmed
         [] inside /\ ~ short -> - ch.due < Batch]_vars

\* What the controller has in service is what is being handled, an end of
\* interrupt ends the handler that sends it, each count written gives one
\* interrupt, and a one-shot is late by less than the batch it was written in.
InterruptsInOrder ==
  []ServiceIsStack /\ EoiEndsOwn /\ OneIrqPerCount /\ OvershootBounded

\* An armed one-shot fires, unless the guest keeps programming the timer.
OneShotFires ==
  <>[][ch'.reload = ch.reload /\ ch'.mode = ch.mode /\ ch'.due <= ch.due]_vars
    => <>[](ch.mode = 0 => ~ ch.armed)
=============================================================================
