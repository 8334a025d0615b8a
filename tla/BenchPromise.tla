---------------------------- MODULE BenchPromise ----------------------------
(***************************************************************************)
(* What a bench rest promises the Resident, told without timers, event     *)
(* logs or processes: a lifespan holds at most one promise at a time; a    *)
(* later rest replaces the one that is held; a promise that is taken up    *)
(* leaves its lifespan's slot, is never taken up again, and receives at    *)
(* most one verdict.  PlanLedger and Hub implement this specification.     *)
(***************************************************************************)
CONSTANTS Lifespan, Promise, NoPromise

VARIABLES
  slot,   \* slot[l]: the promise lifespan l holds, or NoPromise
  fate    \* fate[p]: how far promise p has come

promiseVars == <<slot, fate>>

Fate == {"unmade", "held", "replaced", "taken", "completed", "failed"}

Init ==
  /\ slot = [l \in Lifespan |-> NoPromise]
  /\ fate = [p \in Promise |-> "unmade"]

\* Lifespan l makes promise p; the promise it held, if any, is replaced.
Make(l, p) ==
  /\ fate[p] = "unmade"
  /\ slot' = [slot EXCEPT ![l] = p]
  /\ fate' = [q \in Promise |-> IF q = p THEN "held"
                                ELSE IF q = slot[l] THEN "replaced"
                                ELSE fate[q]]

\* The promise that l holds falls due and is taken up, once.
Take(l) ==
  /\ slot[l] # NoPromise
  /\ slot' = [slot EXCEPT ![l] = NoPromise]
  /\ fate' = [fate EXCEPT ![slot[l]] = "taken"]

\* A promise that was taken up receives its verdict.
Resolve(p, verdict) ==
  /\ fate[p] = "taken"
  /\ fate' = [fate EXCEPT ![p] = verdict]
  /\ UNCHANGED slot

Next ==
  \/ \E l \in Lifespan, p \in Promise : Make(l, p)
  \/ \E l \in Lifespan : Take(l)
  \/ \E p \in Promise, verdict \in {"completed", "failed"} : Resolve(p, verdict)

Spec == Init /\ [][Next]_promiseVars
=============================================================================
