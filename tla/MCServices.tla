------------------------------- MODULE MCServices -------------------------------
(* Instances of Services for TLC. *)
EXTENDS Services

CONSTANTS p1, p2, x, y, e1, e2, r1, r2
FourTurns    == 1 .. 4
TwoProcesses == [t \in Turns |-> IF t = 4 THEN p2 ELSE p1]
Elsewhere    == [q \in Editors \cup Readers |-> IF q = e2 THEN y ELSE x]
===============================================================================
