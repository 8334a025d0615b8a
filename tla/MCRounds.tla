------------------------------ MODULE MCRounds ------------------------------
(* Instances of ResidentRounds: wakes of two rounds, in which an answer may  *)
(* carry two calls.                                                          *)
EXTENDS ResidentRounds
=============================================================================
