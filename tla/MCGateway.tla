----------------------------- MODULE MCGateway -----------------------------
(* One approval of either kind and two recipe runs, on the host and in the   *)
(* sandbox, through shutdowns, restarts and a death of the process.          *)
EXTENDS Gateway
=============================================================================
