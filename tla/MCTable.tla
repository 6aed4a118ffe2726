------------------------------- MODULE MCTable -------------------------------
(* A small instance of Table for TLC: three keys, two of them in one bucket of two. *)
EXTENDS Table
TableHash == [k \in Keys |-> k - 1]
Spec == Init /\ [][Next]_tableVars
=============================================================================
