----------------------------- MODULE KeyboardMC -----------------------------
(***************************************************************************)
(* Small instances of the keyboard for TLC.  Left Shift (42) and left Alt  *)
(* (56) share the left flipper; right Alt (184) is on the right one and    *)
(* shares its scan code with left Alt behind an E0 prefix.                 *)
(***************************************************************************)
EXTENDS Keyboard

ThreeKeys == {42, 56, 184}

\* The table is running and stays: every overflow meets the flipper fix.
InTable ==
  /\ kbd_buf = <<>> /\ kbd_held = {} /\ irr = FALSE
  /\ handler = "idle" /\ pfx = FALSE /\ flip = [s \in Sides |-> FALSE]
  /\ fix_on = TRUE /\ phys = {} /\ call = "none" /\ whole = TRUE /\ made = {}

SpecInTable ==
  InTable /\ [][Host \/ TakeIrq \/ ReadPort \/ Eoi]_vars
=============================================================================
