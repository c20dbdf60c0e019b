------------------------------- MODULE TypeAhead -------------------------------
(***************************************************************************)
(* What the BIOS promises of its keyboard buffer: a queue of at most Cap   *)
(* keystrokes.  One typed into a full queue is dropped, and a program is   *)
(* given them one by one in the order they were typed.                     *)
(***************************************************************************)
EXTENDS Naturals, Sequences

CONSTANTS
  Strokes,  \* keystrokes
  Cap

VARIABLES
  queue,    \* typed and not read yet
  given     \* the last one a program was given, <<>> before the first

Type(k) ==
  /\ queue' = IF Len(queue) < Cap THEN Append(queue, k) ELSE queue
  /\ UNCHANGED given

Give ==
  /\ queue # <<>>
  /\ given' = <<Head(queue)>> /\ queue' = Tail(queue)

Init == queue = <<>> /\ given = <<>>
Next == Give \/ \E k \in Strokes : Type(k)
Spec == Init /\ [][Next]_<<queue, given>>
=============================================================================
