------------------------------- MODULE MCWorld -------------------------------
(* The Hub and two operator scripts over one World of four generations.          *)
EXTENDS WorldStores, TLC
CONSTANTS s1, s2
MCScript == {s1, s2}
Symmetric == Permutations(MCScript)
=============================================================================
