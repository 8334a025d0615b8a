------------------------------- MODULE Consent -------------------------------
(***************************************************************************)
(* What the approval crossing promises the builder, told without tables,   *)
(* receipts, microtasks or processes.  A request waits for a decision; a   *)
(* refused request never touches the checkout; a granted one touches it at *)
(* most once, and the grant is kept on record before the checkout changes, *)
(* so that whatever happens afterwards nobody grants it a second time.     *)
(* Gateway implements this specification.                                  *)
(***************************************************************************)
EXTENDS Naturals

CONSTANTS Request, Life, NoLife

VARIABLES
  verdict,   \* verdict[r]: how far request r has come
  asker,     \* asker[r]: the lifespan that asked
  touched,   \* touched[r]: how often the checkout was changed on its behalf
  now        \* the lifespan whose requests may be decided

consentVars == <<verdict, asker, touched, now>>

Init ==
  /\ verdict = [r \in Request |-> "unasked"]
  /\ asker = [r \in Request |-> NoLife]
  /\ touched = [r \in Request |-> 0]
  /\ now \in Life

Ask(r) ==
  /\ verdict[r] = "unasked"
  /\ verdict' = [verdict EXCEPT ![r] = "waiting"]
  /\ asker' = [asker EXCEPT ![r] = now]
  /\ UNCHANGED <<touched, now>>

\* Only the lifespan that asked can be answered.
Grant(r) ==
  /\ verdict[r] = "waiting"
  /\ asker[r] = now
  /\ verdict' = [verdict EXCEPT ![r] = "granted"]
  /\ UNCHANGED <<asker, touched, now>>

Touch(r) ==
  /\ verdict[r] = "granted"
  /\ touched[r] = 0
  /\ touched' = [touched EXCEPT ![r] = 1]
  /\ UNCHANGED <<verdict, asker, now>>

\* The request is closed as carried out, which it was.
Keep(r) ==
  /\ verdict[r] = "granted"
  /\ touched[r] = 1
  /\ verdict' = [verdict EXCEPT ![r] = "kept"]
  /\ UNCHANGED <<asker, touched, now>>

Refuse(r) ==
  /\ verdict[r] = "waiting"
  /\ asker[r] = now
  /\ verdict' = [verdict EXCEPT ![r] = "refused"]
  /\ UNCHANGED <<asker, touched, now>>

\* Another life begins.  A restart lets the requests of former lives lapse;
\* a change of life while the Hub runs leaves them waiting, unanswerable.
Pass(lapsed) ==
  /\ now' \in Life
  /\ lapsed \in {{}, {r \in Request : verdict[r] = "waiting" /\ asker[r] # now'}}
  /\ verdict' = [r \in Request |-> IF r \in lapsed THEN "refused" ELSE verdict[r]]
  /\ UNCHANGED <<asker, touched>>

Next ==
  \/ \E r \in Request : Ask(r) \/ Grant(r) \/ Touch(r) \/ Keep(r) \/ Refuse(r)
  \/ \E lapsed \in SUBSET Request : Pass(lapsed)

Spec == Init /\ [][Next]_consentVars
=============================================================================
