----------------------------- MODULE PlanLedger -----------------------------
(***************************************************************************)
(* src/src/ledger/autonomous-wakes.js: the append-only custody of bench    *)
(* rests.  A plan is an immutable row plus a log of events; its status is  *)
(* the kind of its last event (projection), never a column.  The module is *)
(* a specification of its own (any caller may schedule, claim and settle)  *)
(* and Hub uses its operations.                                            *)
(*                                                                         *)
(* Plan ids are naturals: ids are random in the code, so any unused one    *)
(* may be drawn, but pending() breaks ties by them.  Intentions, hashes    *)
(* and event ids carry no control and are left out.                        *)
(***************************************************************************)
EXTENDS Naturals, Sequences

CONSTANTS
  Session,    \* ids a lifespan may be given
  Plan,       \* ids a plan may be given
  NoPlan,
  Seat,       \* where the Resident can be: World room and fixture, Forest footing
  MaxTime     \* bound: the last instant of the clock

ASSUME PlanLedgerAssumption ==
  /\ Plan \subseteq Nat
  /\ NoPlan \notin Plan
  /\ MaxTime \in Nat
  /\ Session # {} /\ Seat # {}

VARIABLES
  planRow,    \* autonomous_wake_plans, by plan id
  planLog     \* autonomous_wake_events of each plan, by ordinal

planVars == <<planRow, planLog>>

EventKind == {"scheduled", "cancelled", "claimed", "completed", "failed"}
Outcome == {"completed", "failed"}
PlanRow == [session : Session, seat : Seat, rested : Nat, due : Nat]

\* Ids without a row have an empty log; what their row holds is never read.
PlanInit ==
  /\ planRow = [p \in Plan |-> [session |-> CHOOSE s \in Session : TRUE,
                                seat |-> CHOOSE x \in Seat : TRUE,
                                rested |-> 0, due |-> 0]]
  /\ planLog = [p \in Plan |-> <<>>]

\* projection().status
StatusIn(log, p) == IF log[p] = <<>> THEN "unborn" ELSE log[p][Len(log[p])]
Status(p) == StatusIn(planLog, p)

PendingIn(log, row, S) == {p \in Plan : StatusIn(log, p) = "scheduled" /\ row[p].session \in S}

\* ORDER BY due_at, created_at, plan_id.  A plan is created when its rest begins.
Before(row, p, q) ==
  \/ row[p].due < row[q].due
  \/ row[p].due = row[q].due /\ row[p].rested < row[q].rested
  \/ row[p].due = row[q].due /\ row[p].rested = row[q].rested /\ p < q

\* pending(): the first pending plan among lifespans S, NoPlan when there is none.
FirstPending(log, row, S) ==
  LET pending == PendingIn(log, row, S)
  IN IF \E p \in pending : \A q \in pending \ {p} : Before(row, p, q)
     THEN CHOOSE p \in pending : \A q \in pending \ {p} : Before(row, p, q)
     ELSE NoPlan

PendingOf(s) == FirstPending(planLog, planRow, {s})

\* Variant: the pending plan is not cancelled.
SchedulePlan_KeepsPending(p, s, seat, rested, duration) ==
  /\ planLog[p] = <<>>
  /\ planLog' = [planLog EXCEPT ![p] = <<"scheduled">>]
  /\ planRow' = [planRow EXCEPT ![p] = [session |-> s, seat |-> seat, rested |-> rested,
                                        due |-> rested + duration]]

\* schedule(): one transaction cancels the lifespan's pending plan and adds p.
SchedulePlan(p, s, seat, rested, duration) ==
  /\ planLog[p] = <<>>
  /\ planLog' = [q \in Plan |-> IF q = p THEN <<"scheduled">>
                                ELSE IF q = PendingOf(s) THEN Append(planLog[q], "cancelled")
                                ELSE planLog[q]]
  /\ planRow' = [planRow EXCEPT ![p] = [session |-> s, seat |-> seat, rested |-> rested,
                                        due |-> rested + duration]]

\* claim(): a plan that is not pending is refused (null), and nothing is appended.
ClaimPlan(p) ==
  /\ Status(p) = "scheduled"
  /\ planLog' = [planLog EXCEPT ![p] = Append(@, "claimed")]
  /\ UNCHANGED planRow

\* settle(): only a claimed plan may settle; anything else throws.
SettlePlan(p, outcome) ==
  /\ Status(p) = "claimed"
  /\ planLog' = [planLog EXCEPT ![p] = Append(@, outcome)]
  /\ UNCHANGED planRow

PlanNext ==
  \/ \E p \in Plan, s \in Session, x \in Seat, rested \in 0..MaxTime :
       \E duration \in 0..(MaxTime - rested) : SchedulePlan(p, s, x, rested, duration)
  \/ \E p \in Plan : ClaimPlan(p)
  \/ \E p \in Plan, outcome \in Outcome : SettlePlan(p, outcome)

PlanSpec == PlanInit /\ [][PlanNext]_planVars

-----------------------------------------------------------------------------
(* Properties *)

PlanTypeOK ==
  /\ planRow \in [Plan -> PlanRow]
  /\ planLog \in [Plan -> Seq(EventKind)]

\* A lifespan never has two pending promises, whoever schedules and in whatever
\* order: schedule() cancels one plan only, so this is what makes that enough.
OnePendingPerLifespan ==
  \A p, q \in Plan : Status(p) = "scheduled" /\ Status(q) = "scheduled"
                     /\ planRow[p].session = planRow[q].session => p = q

\* Every log tells one life: scheduled, then cancelled, or claimed and at most
\* one outcome.  No plan is claimed twice or settled without a claim, which is
\* what makes duplicate timer delivery inert.
LogTellsOneLife ==
  \A p \in Plan : planLog[p] \in
    {<<>>, <<"scheduled">>, <<"scheduled", "cancelled">>, <<"scheduled", "claimed">>}
    \cup {<<"scheduled", "claimed", o>> : o \in Outcome}

\* The plan ledger keeps what BenchPromise promises: a lifespan's slot is its
\* pending plan, and a plan's fate is the last event of its log.
FateOf(status) ==
  CASE status = "unborn"    -> "unmade"
    [] status = "scheduled" -> "held"
    [] status = "cancelled" -> "replaced"
    [] status = "claimed"   -> "taken"
    [] OTHER                -> status

Promise == INSTANCE BenchPromise WITH
  Lifespan <- Session, Promise <- Plan, NoPromise <- NoPlan,
  slot <- [s \in Session |-> PendingOf(s)],
  fate <- [p \in Plan |-> FateOf(Status(p))]

\* Every step of the plan ledger is a step of BenchPromise, or changes nothing it sees.
KeepsBenchPromise == Promise!Spec
=============================================================================
