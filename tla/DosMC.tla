------------------------------- MODULE DosMC --------------------------------
(***************************************************************************)
(* Small instances of the DOS layer for TLC: a launcher that fits in two   *)
(* paragraphs, a driver, and a table that takes what it can get.           *)
(***************************************************************************)
EXTENDS Dos

SmallImages == {[min |-> 1, need |-> 1], [min |-> 3, need |-> 12]}
=============================================================================
