------------------------------ MODULE Pic8259 -------------------------------
(***************************************************************************)
(* The master 8259 (src/dev.c) as operators on its registers.  Requests,   *)
(* services and the mask are sets of IRQ numbers, the lowest number having *)
(* the highest priority.  No device of the emulator raises an IRQ above 7, *)
(* so the cascade to the slave never carries a request.                    *)
(***************************************************************************)
EXTENDS Integers

Irq == 0 .. 7

Pic == [imr : SUBSET Irq, irr : SUBSET Irq, isr : SUBSET Irq]

\* pic_init: as the BIOS leaves it, IRQ0, 1, 2 and 6 on.
pic_init == [imr |-> {3, 4, 5, 7}, irr |-> {}, isr |-> {}]

pic_raise(p, irq) == [p EXCEPT !.irr = @ \cup {irq}]
pic_lower(p, irq) == [p EXCEPT !.irr = @ \ {irq}]

(***************************************************************************)
(* pic_pending: the requests that may be taken now - the most urgent       *)
(* unmasked one, unless something at least as urgent is in service.        *)
(***************************************************************************)

Pending(p) ==
  {irq \in p.irr \ p.imr :
     /\ \A other \in p.irr \ p.imr : irq <= other
     /\ \A busy \in p.isr : irq < busy}

Acknowledge(p, irq) == [p EXCEPT !.irr = @ \ {irq}, !.isr = @ \cup {irq}]

\* pic_write: OCW2, the non-specific end of interrupt, and OCW1, the mask.
\* (A specific end of interrupt, 60h + n, never gets past the test for 20h.)
EndOfInterrupt(p) == [p EXCEPT !.isr = {irq \in @ : \E other \in @ : other < irq}]
SetMask(p, mask)  == [p EXCEPT !.imr = mask]
=============================================================================
