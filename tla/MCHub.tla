------------------------------- MODULE MCHub -------------------------------
(* The Hub on small instances.  Lifespans and wakes are interchangeable, so *)
(* the runs that check safety only use symmetry.                            *)
EXTENDS Hub, TLC

MCPlan1 == {1}
MCPlan2 == 1..2
MCNone == {}
Symmetric == Permutations(Session) \cup Permutations(Wake)
=============================================================================
