-------------------------- MODULE OrderedDelivery --------------------------
(***************************************************************************)
(* What following the wake stream promises a reader, told without buffers, *)
(* connections or recovery: from the event where the reader began, it      *)
(* takes every event of the journal, each once and in order.               *)
(***************************************************************************)
EXTENDS Naturals

VARIABLES
  published,   \* number of events in the journal
  taken        \* sequence numbers of the events the reader has taken

deliveryVars == <<published, taken>>

Init == published = 0 /\ taken = {}

Append == published' = published + 1 /\ UNCHANGED taken

\* A reader without a place in the journal begins anywhere.
Begin == \E first \in 1..published, last \in 1..published :
  /\ taken = {} /\ first <= last
  /\ taken' = first..last
  /\ UNCHANGED published

\* A reader with a place goes on from there.
Advance == \E first \in taken, last \in 1..published :
  /\ \A n \in taken : first <= n
  /\ \A n \in taken : n < last
  /\ taken' = first..last
  /\ UNCHANGED published

Next == Append \/ Begin \/ Advance

Spec == Init /\ [][Next]_deliveryVars
=============================================================================
