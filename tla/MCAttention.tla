----------------------------- MODULE MCAttention -----------------------------
(* Attention for TLC: one exchange and one pair of dialogue are the causal      *)
(* tail, and messages are light or heavy.                                       *)
EXTENDS Attention

MCSize == {1, 4}
MCGroundSize == {2, 7}
MCCallList == {<<"plain">>, <<"plain", "reopen_result">>, <<"tend_hearth">>}
=============================================================================
