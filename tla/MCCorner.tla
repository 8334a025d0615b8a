------------------------------ MODULE MCCorner ------------------------------
(* The Corner on small instances: a buffer of one event and pages of one, so *)
(* that every second event overflows both.                                   *)
EXTENDS Corner, TLC

Symmetric == Permutations(Wake)
=============================================================================
