----------------------------- MODULE HubProofs -----------------------------
(***************************************************************************)
(* What the Hub guarantees for any number of lifespans, wakes, plans, tool *)
(* rounds, calls and refused appends.  What the plan ledger guarantees by  *)
(* itself comes first.                                                     *)
(*                                                                         *)
(* HubInv is inductive: types, and the shape of a run, which ties the      *)
(* control point of the orchestration to the wake and the plan it serves.  *)
(* On it stand, each inductive relative to those before it: LifespanInv    *)
(* (one line of lifespans), ClaimInv (who holds a claim), AnnouncementInv  *)
(* (the row and the stream follow the run), TurnInv (how a turn is laid    *)
(* out in the Scroll), ClockInv (who will arm the clocks) and PromiseInv   *)
(* (which wake serves a plan).                                             *)
(***************************************************************************)
EXTENDS Hub, SequenceTheorems, FiniteSetTheorems, TLAPS

-----------------------------------------------------------------------------
(* The plan ledger: its types, the one life of each plan, the one pending   *)
(* promise of each lifespan, and that it implements BenchPromise.  The      *)
(* order in which pending() sorts plans never matters to these facts: with  *)
(* at most one pending plan, FirstPending is that plan.                     *)

PlanInv == PlanTypeOK /\ LogTellsOneLife /\ OnePendingPerLifespan

-----------------------------------------------------------------------------
(* Logs of at most three events *)

LEMMA AppendToOne ==
  ASSUME NEW E, NEW a \in E, NEW e \in E
  PROVE  Append(<<a>>, e) = <<a, e>>
  <1> DEFINE longer == Append(<<a>>, e)
             written == <<a, e>>
  <1>1. longer \in Seq(E) /\ written \in Seq(E)
    BY AppendProperties
  <1>2. Len(longer) = 2 /\ longer[1] = a /\ longer[2] = e
    BY AppendProperties
  <1>3. Len(written) = 2 /\ written[1] = a /\ written[2] = e
    OBVIOUS
  <1> HIDE DEF longer, written
  <1>4. \A i \in 1..Len(longer) : longer[i] = written[i]
    BY <1>2, <1>3
  <1>5. longer = written
    BY <1>1, <1>2, <1>3, <1>4, SeqEqual
  <1>6. QED
    BY <1>5 DEF longer, written

LEMMA AppendToTwo ==
  ASSUME NEW E, NEW a \in E, NEW b \in E, NEW e \in E
  PROVE  Append(<<a, b>>, e) = <<a, b, e>>
  <1> DEFINE longer == Append(<<a, b>>, e)
             written == <<a, b, e>>
  <1>1. longer \in Seq(E) /\ written \in Seq(E)
    BY AppendProperties
  <1>2. Len(longer) = 3 /\ longer[1] = a /\ longer[2] = b /\ longer[3] = e
    BY AppendProperties
  <1>3. Len(written) = 3 /\ written[1] = a /\ written[2] = b /\ written[3] = e
    OBVIOUS
  <1> HIDE DEF longer, written
  <1>4. \A i \in 1..Len(longer) : longer[i] = written[i]
    BY <1>2, <1>3
  <1>5. longer = written
    BY <1>1, <1>2, <1>3, <1>4, SeqEqual
  <1>6. QED
    BY <1>5 DEF longer, written

\* The status that each log has.
LEMMA StatusOfLog ==
  ASSUME NEW log, NEW p
  PROVE  /\ log[p] = <<>> => StatusIn(log, p) = "unborn"
         /\ \A a : log[p] = <<a>> => StatusIn(log, p) = a
         /\ \A a, b : log[p] = <<a, b>> => StatusIn(log, p) = b
         /\ \A a, b, c : log[p] = <<a, b, c>> => StatusIn(log, p) = c
  <1>1. log[p] = <<>> => StatusIn(log, p) = "unborn"
    BY DEF StatusIn
  <1>2. ASSUME NEW a, log[p] = <<a>>
        PROVE  StatusIn(log, p) = a
    BY <1>2 DEF StatusIn
  <1>3. ASSUME NEW a, NEW b, log[p] = <<a, b>>
        PROVE  StatusIn(log, p) = b
    BY <1>3 DEF StatusIn
  <1>4. ASSUME NEW a, NEW b, NEW c, log[p] = <<a, b, c>>
        PROVE  StatusIn(log, p) = c
    BY <1>4 DEF StatusIn
  <1>5. QED
    BY <1>1, <1>2, <1>3, <1>4

\* A plan is pending exactly when its log is <<"scheduled">>.
LEMMA PendingLog ==
  ASSUME LogTellsOneLife, NEW p \in Plan
  PROVE  /\ Status(p) = "scheduled" <=> planLog[p] = <<"scheduled">>
         /\ Status(p) = "claimed" <=> planLog[p] = <<"scheduled", "claimed">>
         /\ Status(p) = "unborn" <=> planLog[p] = <<>>
  <1>1. \/ planLog[p] = <<>> \/ planLog[p] = <<"scheduled">>
        \/ planLog[p] = <<"scheduled", "cancelled">> \/ planLog[p] = <<"scheduled", "claimed">>
        \/ \E o \in Outcome : planLog[p] = <<"scheduled", "claimed", o>>
    BY DEF LogTellsOneLife
  <1>2. Status(p) = IF planLog[p] = <<>> THEN "unborn" ELSE planLog[p][Len(planLog[p])]
    BY DEF Status, StatusIn
  <1>3. CASE planLog[p] = <<>>
    BY <1>2, <1>3
  <1>4. CASE planLog[p] = <<"scheduled">>
    BY <1>2, <1>4
  <1>5. CASE planLog[p] = <<"scheduled", "cancelled">>
    BY <1>2, <1>5
  <1>6. CASE planLog[p] = <<"scheduled", "claimed">>
    BY <1>2, <1>6
  <1>7. ASSUME NEW o \in Outcome, planLog[p] = <<"scheduled", "claimed", o>>
        PROVE  /\ Status(p) = o
               /\ planLog[p] # <<>> /\ planLog[p] # <<"scheduled">> /\ planLog[p] # <<"scheduled", "claimed">>
    BY <1>2, <1>7
  <1>8. QED
    BY <1>1, <1>3, <1>4, <1>5, <1>6, <1>7 DEF Outcome

\* With at most one pending plan, a lifespan's first pending plan is that plan,
\* or NoPlan without one.  Stated of any log, so that it can be used of the next.
LEMMA FirstPendingIsThePendingPlan ==
  ASSUME NEW log, NEW row, NEW s \in Session,
         \A p, q \in Plan : StatusIn(log, p) = "scheduled" /\ StatusIn(log, q) = "scheduled"
                            /\ row[p].session = row[q].session => p = q
  PROVE  /\ \A p \in Plan : StatusIn(log, p) = "scheduled" /\ row[p].session = s <=>
                             FirstPending(log, row, {s}) = p
         /\ FirstPending(log, row, {s}) \in Plan \cup {NoPlan}
  <1> DEFINE pending == PendingIn(log, row, {s})
             first(p) == \A q \in pending \ {p} : Before(row, p, q)
  <1>1. FirstPending(log, row, {s}) =
          IF \E p \in pending : first(p) THEN CHOOSE p \in pending : first(p) ELSE NoPlan
    BY DEF FirstPending
  <1>2. \A p : p \in pending <=> p \in Plan /\ StatusIn(log, p) = "scheduled" /\ row[p].session = s
    BY DEF PendingIn
  <1>3. \A p, q \in pending : p = q
    BY <1>2
  <1>4. \A p \in pending : first(p)
    BY <1>3
  <1> HIDE DEF pending, first
  <1>5. \/ FirstPending(log, row, {s}) \in pending
        \/ FirstPending(log, row, {s}) = NoPlan /\ pending = {}
    BY <1>1, <1>4
  <1>6. QED
    BY <1>2, <1>3, <1>5, PlanLedgerAssumption DEF PlanLedgerAssumption

\* The same, of the ledger as it is.
LEMMA PendingOfIsThePendingPlan ==
  ASSUME OnePendingPerLifespan, NEW s \in Session
  PROVE  /\ \A p \in Plan : Status(p) = "scheduled" /\ planRow[p].session = s <=> PendingOf(s) = p
         /\ PendingOf(s) \in Plan \cup {NoPlan}
  BY FirstPendingIsThePendingPlan DEF OnePendingPerLifespan, Status, PendingOf
-----------------------------------------------------------------------------
(* What each operation does to the status of every plan *)

LEMMA ScheduleStatus ==
  ASSUME PlanInv, NEW p \in Plan, NEW s \in Session, NEW at \in Seat,
         NEW rested \in Nat, NEW duration \in Nat,
         SchedulePlan(p, s, at, rested, duration)
  PROVE  /\ PlanTypeOK' /\ LogTellsOneLife'
         /\ Status(p) = "unborn" /\ PendingOf(s) # p
         /\ \A q \in Plan : Status(q)' = IF q = p THEN "scheduled"
                                         ELSE IF q = PendingOf(s) THEN "cancelled"
                                         ELSE Status(q)
         /\ planRow'[p].session = s
         /\ \A q \in Plan \ {p} : planRow'[q] = planRow[q]
  <1> USE DEF PlanInv
  <1>1. Status(p) = "unborn" /\ Status(p) # "scheduled" /\ PendingOf(s) # p
    BY PendingLog, PendingOfIsThePendingPlan DEF SchedulePlan
  <1>2. planLog'[p] = <<"scheduled">>
    BY DEF SchedulePlan
  <1>3. \A q \in Plan : q = PendingOf(s) => planLog'[q] = <<"scheduled", "cancelled">>
    <2> SUFFICES ASSUME NEW q \in Plan, q = PendingOf(s)
                 PROVE  planLog'[q] = <<"scheduled", "cancelled">>
      OBVIOUS
    <2>1. planLog[q] = <<"scheduled">>
      BY PendingLog, PendingOfIsThePendingPlan
    <2>2. Append(<<"scheduled">>, "cancelled") = <<"scheduled", "cancelled">>
      BY AppendToOne, "scheduled" \in EventKind, "cancelled" \in EventKind DEF EventKind
    <2>3. planLog'[q] = Append(planLog[q], "cancelled")
      BY <1>1 DEF SchedulePlan
    <2>4. QED
      BY <2>1, <2>2, <2>3
  <1>4. \A q \in Plan : q # p /\ q # PendingOf(s) => planLog'[q] = planLog[q]
    BY DEF SchedulePlan
  <1>5. LogTellsOneLife'
    BY <1>2, <1>3, <1>4 DEF LogTellsOneLife
  <1>6. PlanTypeOK'
    <2>1. planLog' \in [Plan -> Seq(EventKind)]
      <3>1. planLog' = [q \in Plan |-> planLog'[q]]
        BY DEF SchedulePlan
      <3>2. <<"scheduled">> \in Seq(EventKind) /\ <<"scheduled", "cancelled">> \in Seq(EventKind)
        BY DEF EventKind
      <3>3. \A q \in Plan : planLog[q] \in Seq(EventKind)
        BY DEF PlanTypeOK
      <3>4. \A q \in Plan : planLog'[q] \in Seq(EventKind)
        BY <1>2, <1>3, <1>4, <3>2, <3>3
      <3>5. QED
        BY <3>1, <3>4
    <2>2. [session |-> s, seat |-> at, rested |-> rested, due |-> rested + duration] \in PlanRow
      BY DEF PlanRow
    <2>3. planRow' \in [Plan -> PlanRow]
      BY <2>2 DEF PlanTypeOK, SchedulePlan
    <2>4. QED
      BY <2>1, <2>3 DEF PlanTypeOK
  <1>7. \A q \in Plan : Status(q)' = IF q = p THEN "scheduled"
                                     ELSE IF q = PendingOf(s) THEN "cancelled"
                                     ELSE Status(q)
    <2> SUFFICES ASSUME NEW q \in Plan
                 PROVE  StatusIn(planLog', q) = IF q = p THEN "scheduled"
                                                ELSE IF q = PendingOf(s) THEN "cancelled"
                                                ELSE StatusIn(planLog, q)
      BY DEF Status
    <2>1. CASE q = p
      BY <1>2, <2>1, StatusOfLog
    <2>2. CASE q # p /\ q = PendingOf(s)
      BY <1>3, <2>2, StatusOfLog
    <2>3. CASE q # p /\ q # PendingOf(s)
      BY <1>4, <2>3 DEF StatusIn
    <2>4. QED
      BY <2>1, <2>2, <2>3
  <1>8. planRow'[p].session = s /\ \A q \in Plan \ {p} : planRow'[q] = planRow[q]
    BY DEF SchedulePlan, PlanTypeOK
  <1>9. QED
    BY <1>1, <1>5, <1>6, <1>7, <1>8

LEMMA ClaimStatus ==
  ASSUME PlanInv, NEW p \in Plan, ClaimPlan(p)
  PROVE  /\ PlanTypeOK' /\ LogTellsOneLife'
         /\ Status(p) = "scheduled"
         /\ \A q \in Plan : Status(q)' = IF q = p THEN "claimed" ELSE Status(q)
         /\ planRow' = planRow
  <1> USE DEF PlanInv
  <1>1. planLog[p] = <<"scheduled">>
    BY PendingLog DEF ClaimPlan
  <1>2. planLog'[p] = <<"scheduled", "claimed">> /\ \A q \in Plan \ {p} : planLog'[q] = planLog[q]
    <2>1. Append(<<"scheduled">>, "claimed") = <<"scheduled", "claimed">>
      BY AppendToOne, "scheduled" \in EventKind, "claimed" \in EventKind DEF EventKind
    <2>2. planLog'[p] = Append(planLog[p], "claimed")
            /\ \A q \in Plan \ {p} : planLog'[q] = planLog[q]
      BY DEF ClaimPlan, PlanTypeOK
    <2>3. QED
      BY <1>1, <2>1, <2>2
  <1>3. planLog' \in [Plan -> Seq(EventKind)]
    <2>1. Append(planLog[p], "claimed") \in Seq(EventKind)
      BY DEF PlanTypeOK, EventKind
    <2>2. QED
      BY <2>1 DEF ClaimPlan, PlanTypeOK
  <1>4. QED
    BY <1>2, <1>3 DEF ClaimPlan, PlanTypeOK, LogTellsOneLife, Status, StatusIn

LEMMA SettleStatus ==
  ASSUME PlanInv, NEW p \in Plan, NEW outcome \in Outcome, SettlePlan(p, outcome)
  PROVE  /\ PlanTypeOK' /\ LogTellsOneLife'
         /\ Status(p) = "claimed"
         /\ \A q \in Plan : Status(q)' = IF q = p THEN outcome ELSE Status(q)
         /\ planRow' = planRow
  <1> USE DEF PlanInv
  <1>1. planLog[p] = <<"scheduled", "claimed">>
    BY PendingLog DEF SettlePlan
  <1>2. planLog'[p] = <<"scheduled", "claimed", outcome>>
        /\ \A q \in Plan \ {p} : planLog'[q] = planLog[q]
    <2>1. Append(<<"scheduled", "claimed">>, outcome) = <<"scheduled", "claimed", outcome>>
      BY AppendToTwo, "scheduled" \in EventKind, "claimed" \in EventKind, outcome \in EventKind
         DEF EventKind, Outcome
    <2>2. planLog'[p] = Append(planLog[p], outcome)
            /\ \A q \in Plan \ {p} : planLog'[q] = planLog[q]
      BY DEF SettlePlan, PlanTypeOK
    <2>3. QED
      BY <1>1, <2>1, <2>2
  <1>3. planLog' \in [Plan -> Seq(EventKind)]
    <2>1. Append(planLog[p], outcome) \in Seq(EventKind)
      BY DEF PlanTypeOK, EventKind, Outcome
    <2>2. QED
      BY <2>1 DEF SettlePlan, PlanTypeOK
  <1>4. QED
    BY <1>2, <1>3 DEF SettlePlan, PlanTypeOK, LogTellsOneLife, Status, StatusIn
-----------------------------------------------------------------------------
(* The invariant *)

LEMMA InitInv == PlanInit => PlanInv
  <1> SUFFICES ASSUME PlanInit PROVE PlanInv
    OBVIOUS
  <1>1. \A p \in Plan : planLog[p] = <<>>
    BY DEF PlanInit
  <1>2. \A p \in Plan : Status(p) = "unborn"
    BY <1>1, StatusOfLog DEF Status
  <1>3. PlanTypeOK
    <2> DEFINE s0 == CHOOSE s \in Session : TRUE
               x0 == CHOOSE x \in Seat : TRUE
    <2>1. s0 \in Session /\ x0 \in Seat
      BY PlanLedgerAssumption DEF PlanLedgerAssumption
    <2> HIDE DEF s0, x0
    <2>2. [session |-> s0, seat |-> x0, rested |-> 0, due |-> 0] \in PlanRow
      BY <2>1 DEF PlanRow
    <2>3. planRow = [p \in Plan |-> [session |-> s0, seat |-> x0, rested |-> 0, due |-> 0]]
      BY DEF PlanInit, s0, x0
    <2>4. planRow \in [Plan -> PlanRow]
      BY <2>2, <2>3
    <2>5. planLog \in [Plan -> Seq(EventKind)]
      BY DEF PlanInit
    <2>6. QED
      BY <2>4, <2>5 DEF PlanTypeOK
  <1>4. QED
    BY <1>1, <1>2, <1>3 DEF PlanInv, LogTellsOneLife, OnePendingPerLifespan

LEMMA ScheduleInv ==
  ASSUME PlanInv, NEW p \in Plan, NEW s \in Session, NEW at \in Seat,
         NEW rested \in Nat, NEW duration \in Nat,
         SchedulePlan(p, s, at, rested, duration)
  PROVE  PlanInv'
  <1>1. \A q \in Plan : Status(q)' = "scheduled" /\ planRow'[q].session = s => q = p
    BY ScheduleStatus, PendingOfIsThePendingPlan DEF PlanInv
  <1>2. \A q \in Plan : Status(q)' = "scheduled" /\ q # p =>
                          Status(q) = "scheduled" /\ planRow'[q] = planRow[q]
    BY ScheduleStatus
  <1>3. OnePendingPerLifespan'
    <2> SUFFICES ASSUME NEW q \in Plan, NEW r \in Plan,
                        Status(q)' = "scheduled", Status(r)' = "scheduled",
                        planRow'[q].session = planRow'[r].session
                 PROVE  q = r
      BY DEF OnePendingPerLifespan
    <2>1. CASE q = p \/ r = p
      BY <1>1, <2>1, ScheduleStatus
    <2>2. CASE q # p /\ r # p
      BY <1>2, <2>2 DEF PlanInv, OnePendingPerLifespan
    <2>3. QED
      BY <2>1, <2>2
  <1>4. QED
    BY <1>3, ScheduleStatus DEF PlanInv

LEMMA ClaimKeepsPlanInv ==
  ASSUME PlanInv, NEW p \in Plan, ClaimPlan(p)
  PROVE  PlanInv'
  BY ClaimStatus DEF PlanInv, OnePendingPerLifespan

LEMMA SettleInv ==
  ASSUME PlanInv, NEW p \in Plan, NEW outcome \in Outcome, SettlePlan(p, outcome)
  PROVE  PlanInv'
  BY SettleStatus DEF PlanInv, OnePendingPerLifespan, Outcome

LEMMA StutterInv ==
  ASSUME PlanInv, UNCHANGED planVars
  PROVE  PlanInv'
  BY DEF planVars, PlanInv, PlanTypeOK, LogTellsOneLife, OnePendingPerLifespan, Status, StatusIn

LEMMA NextInv == PlanInv /\ [PlanNext]_planVars => PlanInv'
  <1> SUFFICES ASSUME PlanInv, [PlanNext]_planVars PROVE PlanInv'
    OBVIOUS
  <1>1. ASSUME NEW p \in Plan, NEW s \in Session, NEW x \in Seat, NEW rested \in 0..MaxTime,
               NEW duration \in 0..(MaxTime - rested), SchedulePlan(p, s, x, rested, duration)
        PROVE  PlanInv'
    BY <1>1, ScheduleInv, PlanLedgerAssumption DEF PlanLedgerAssumption
  <1>2. ASSUME NEW p \in Plan, ClaimPlan(p)
        PROVE  PlanInv'
    BY <1>2, ClaimKeepsPlanInv
  <1>3. ASSUME NEW p \in Plan, NEW outcome \in Outcome, SettlePlan(p, outcome)
        PROVE  PlanInv'
    BY <1>3, SettleInv
  <1>4. CASE UNCHANGED planVars
    BY <1>4, StutterInv
  <1>5. QED
    BY <1>1, <1>2, <1>3, <1>4 DEF PlanNext

\* PlanInv holds of the plan ledger alone, whoever calls it.
THEOREM PlanInvariance == PlanSpec => []PlanInv
  <1>1. QED
    BY InitInv, NextInv, PTL DEF PlanSpec

\* Every plan row and event log has its type, whoever schedules, claims and settles.
THEOREM PlanTypeCorrect == PlanSpec => []PlanTypeOK
  BY PlanInvariance, PTL DEF PlanInv

\* A plan is claimed at most once and settled at most once, after its claim.
THEOREM PlanLogTellsOneLife == PlanSpec => []LogTellsOneLife
  BY PlanInvariance, PTL DEF PlanInv

\* schedule() cancels one pending plan; a lifespan never has two.
THEOREM PlanOnePending == PlanSpec => []OnePendingPerLifespan
  BY PlanInvariance, PTL DEF PlanInv

-----------------------------------------------------------------------------
(* The refinement *)

slots == [s \in Session |-> PendingOf(s)]
fates == [p \in Plan |-> FateOf(Status(p))]

\* The pending plan of every lifespan after a step that keeps PlanInv.
LEMMA NextPending ==
  ASSUME PlanInv', NEW s \in Session
  PROVE  /\ \A p \in Plan : Status(p)' = "scheduled" /\ planRow'[p].session = s <=> PendingOf(s)' = p
         /\ PendingOf(s)' \in Plan \cup {NoPlan}
  BY FirstPendingIsThePendingPlan DEF PlanInv, OnePendingPerLifespan, Status, PendingOf

LEMMA InitImplements == PlanInit => Promise!Init
  <1> SUFFICES ASSUME PlanInit PROVE Promise!Init
    OBVIOUS
  <1>1. \A p \in Plan : Status(p) = "unborn"
    BY StatusOfLog DEF Status, PlanInit
  <1>2. \A s \in Session : PendingOf(s) = NoPlan
    BY <1>1, InitInv, PendingOfIsThePendingPlan DEF PlanInv
  <1>3. QED
    BY <1>1, <1>2 DEF Promise!Init, FateOf

\* schedule() makes a promise.
LEMMA ScheduleImplements ==
  ASSUME PlanInv, NEW p \in Plan, NEW s \in Session, NEW at \in Seat,
         NEW rested \in Nat, NEW duration \in Nat,
         SchedulePlan(p, s, at, rested, duration)
  PROVE  Promise!Make(s, p)
  <1>1. PlanInv'
    BY ScheduleInv
  <1>2. FateOf(Status(p)) = "unmade"
    BY ScheduleStatus DEF FateOf
  <1>3. \A t \in Session : PendingOf(t)' = IF t = s THEN p ELSE PendingOf(t)
    <2> SUFFICES ASSUME NEW t \in Session
                 PROVE  PendingOf(t)' = IF t = s THEN p ELSE PendingOf(t)
      OBVIOUS
    <2>1. CASE t = s
      BY <1>1, <2>1, NextPending, ScheduleStatus
    <2>2. CASE t # s
      <3>1. \A q \in Plan : Status(q)' = "scheduled" /\ planRow'[q].session = t <=>
                              Status(q) = "scheduled" /\ planRow[q].session = t
        BY <2>2, ScheduleStatus, PendingOfIsThePendingPlan DEF PlanInv
      <3>2. QED
        BY <1>1, <2>2, <3>1, NextPending, PendingOfIsThePendingPlan DEF PlanInv
    <2>3. QED
      BY <2>1, <2>2
  <1>4. \A q \in Plan : FateOf(Status(q)') = IF q = p THEN "held"
                                            ELSE IF q = PendingOf(s) THEN "replaced"
                                            ELSE FateOf(Status(q))
    BY ScheduleStatus DEF FateOf
  <1>5. QED
    BY <1>2, <1>3, <1>4 DEF Promise!Make

\* claim() takes the promise of its plan's lifespan.
LEMMA ClaimImplements ==
  ASSUME PlanInv, NEW p \in Plan, ClaimPlan(p)
  PROVE  Promise!Take(planRow[p].session)
  <1> DEFINE s == planRow[p].session
  <1>1. PlanInv' /\ s \in Session
    BY ClaimKeepsPlanInv DEF PlanInv, PlanTypeOK, PlanRow
  <1>2. PendingOf(s) = p /\ p # NoPlan
    BY <1>1, ClaimStatus, PendingOfIsThePendingPlan, PlanLedgerAssumption DEF PlanInv, PlanLedgerAssumption
  <1>3. \A t \in Session : PendingOf(t)' = IF t = s THEN NoPlan ELSE PendingOf(t)
    <2>1. \A q \in Plan : Status(q)' = "scheduled" <=> Status(q) = "scheduled" /\ q # p
      BY ClaimStatus
    <2>2. QED
      BY <1>1, <1>2, <2>1, NextPending, PendingOfIsThePendingPlan, ClaimStatus DEF PlanInv
  <1>4. \A q \in Plan : FateOf(Status(q)') = IF q = p THEN "taken" ELSE FateOf(Status(q))
    BY ClaimStatus DEF FateOf
  <1>5. QED
    BY <1>1, <1>2, <1>3, <1>4 DEF Promise!Take

\* settle() resolves it.
LEMMA SettleImplements ==
  ASSUME PlanInv, NEW p \in Plan, NEW outcome \in Outcome, SettlePlan(p, outcome)
  PROVE  Promise!Resolve(p, outcome)
  <1>1. PlanInv'
    BY SettleInv
  <1>2. FateOf(Status(p)) = "taken"
    BY SettleStatus DEF FateOf
  <1>3. \A t \in Session : PendingOf(t)' = PendingOf(t)
    <2>1. \A q \in Plan : Status(q)' = "scheduled" <=> Status(q) = "scheduled"
      BY SettleStatus DEF Outcome
    <2>2. QED
      BY <1>1, <2>1, NextPending, PendingOfIsThePendingPlan, SettleStatus DEF PlanInv
  <1>4. \A q \in Plan : FateOf(Status(q)') = IF q = p THEN outcome ELSE FateOf(Status(q))
    BY SettleStatus DEF FateOf, Outcome
  <1>5. QED
    BY <1>2, <1>3, <1>4 DEF Promise!Resolve

\* Every step of the plan ledger is a step of the promise, or none.
LEMMA NextImplements == PlanInv /\ [PlanNext]_planVars => [Promise!Next]_<<slots, fates>>
  <1> SUFFICES ASSUME PlanInv, [PlanNext]_planVars
               PROVE  [Promise!Next]_<<slots, fates>>
    OBVIOUS
  <1>1. ASSUME NEW p \in Plan, NEW s \in Session, NEW x \in Seat, NEW rested \in 0..MaxTime,
               NEW duration \in 0..(MaxTime - rested), SchedulePlan(p, s, x, rested, duration)
        PROVE  Promise!Next
    <2>1. rested \in Nat /\ duration \in Nat
      BY PlanLedgerAssumption DEF PlanLedgerAssumption
    <2>2. Promise!Make(s, p)
      BY <1>1, <2>1, ScheduleImplements
    <2>3. QED
      BY <2>2 DEF Promise!Next
  <1>2. ASSUME NEW p \in Plan, ClaimPlan(p)
        PROVE  Promise!Next
    <2>1. planRow[p].session \in Session
      BY DEF PlanInv, PlanTypeOK, PlanRow
    <2>2. QED
      BY <1>2, <2>1, ClaimImplements DEF Promise!Next
  <1>3. ASSUME NEW p \in Plan, NEW outcome \in Outcome, SettlePlan(p, outcome)
        PROVE  Promise!Next
    BY <1>3, SettleImplements DEF Promise!Next, Outcome
  <1>4. CASE UNCHANGED planVars
    BY <1>4 DEF planVars, slots, fates, PendingOf, FirstPending, PendingIn, Before, Status, StatusIn, FateOf
  <1>5. QED
    BY <1>1, <1>2, <1>3, <1>4 DEF PlanNext

\* The plan ledger implements the promise of a bench rest: one promise per
\* lifespan, taken once, resolved once.
THEOREM PlanKeepsBenchPromise == PlanSpec => KeepsBenchPromise
  BY InitImplements, NextImplements, PlanInvariance, PTL
     DEF PlanSpec, KeepsBenchPromise, Promise!Spec, Promise!promiseVars, slots, fates

-----------------------------------------------------------------------------
(* The Hub *)

\* Points where the Hub is busy, or idle, without a wake
Wakeless == {"idle", "claimed", "opened", "declined"}

\* What the control point says of the wake and the plan in progress.  Without
\* the last three conjuncts a finished dispatch could settle a plan it never
\* claimed, or leave one unsettled.
RunShape ==
  /\ active = NoWake <=> pc \in Wakeless
  /\ pc # "idle" => up
  /\ up => session \in Session
  /\ active # NoWake => wakes[active].session = session
  /\ pc \in {"tool", "resting"} => left > 0
  /\ dispatched # NoPlan => pc \notin {"idle", "opened"}
  /\ pc = "claimed" => dispatched # NoPlan
  /\ active # NoWake => (dispatched # NoPlan <=> wakes[active].origin = "self_directed")

HubInv ==
  /\ PlanInv /\ SourceTypeOK /\ WakeServiceTypeOK
  /\ AutonomousWakesTypeOK /\ HearthWakesTypeOK
  /\ RunShape

\* A wake in progress is a wake, of the current lifespan.
LEMMA WakeInProgress ==
  ASSUME HubInv, pc \notin Wakeless
  PROVE  /\ active \in Wake /\ wakes[active] \in WakeRow
         /\ wakes[active].session = session /\ session \in Session /\ up
  BY DEF HubInv, RunShape, WakeServiceTypeOK, SourceTypeOK, Wakeless

-----------------------------------------------------------------------------
(* Steps of the Source ledger *)

LEMMA ScrollWithType ==
  ASSUME SourceTypeOK, NEW w \in Wake, wakes[w].session \in Session,
         NEW kind \in RowKind, NEW calls \in Nat
  PROVE  ScrollWith(w, kind, calls) \in [Session -> Seq(ScrollRow)]
  <1> DEFINE row == [wake |-> w, kind |-> kind, calls |-> calls]
  <1>1. row \in ScrollRow
    BY DEF ScrollRow
  <1>2. \A s \in Session : Append(scroll[s], row) \in Seq(ScrollRow)
    BY <1>1, AppendProperties DEF SourceTypeOK
  <1>3. QED
    BY <1>2 DEF SourceTypeOK, ScrollWith

LEMMA MarkCallingType ==
  ASSUME SourceTypeOK, NEW w \in Wake, MarkCalling(w)
  PROVE  /\ SourceTypeOK'
         /\ wakes'[w].session = wakes[w].session /\ wakes'[w].origin = wakes[w].origin
  BY ZenonT(60) DEF SourceTypeOK, MarkCalling, WakeRow, WakeStatus

LEMMA RecordType ==
  ASSUME SourceTypeOK, NEW w \in Wake, wakes[w].session \in Session,
         \/ \E n \in Nat : RecordToolCall(w, n)
         \/ RecordToolResult(w) \/ RecordHearthReturn(w)
  PROVE  SourceTypeOK' /\ wakes' = wakes
  <1>1. PICK kind \in RowKind, n \in Nat : scroll' = ScrollWith(w, kind, n)
    <2>1. ASSUME NEW n \in Nat, RecordToolCall(w, n)
          PROVE  "assistant_tool_call" \in RowKind /\ scroll' = ScrollWith(w, "assistant_tool_call", n)
      BY <2>1 DEF RecordToolCall, RowKind
    <2>2. ASSUME RecordToolResult(w) \/ RecordHearthReturn(w)
          PROVE  "tool_result" \in RowKind /\ scroll' = ScrollWith(w, "tool_result", 0)
      BY <2>2 DEF RecordToolResult, RecordHearthReturn, RowKind
    <2>3. QED
      BY <2>1, <2>2
  <1>2. scroll' \in [Session -> Seq(ScrollRow)]
    BY <1>1, ScrollWithType
  <1>3. wakes' = wakes /\ lifespan' = lifespan /\ predecessor' = predecessor
        /\ tended' \in {tended, tended \cup {wakes[w].session}}
    BY DEF RecordToolCall, RecordToolResult, RecordHearthReturn
  <1>4. QED
    BY <1>2, <1>3 DEF SourceTypeOK

LEMMA SettleRowType ==
  ASSUME SourceTypeOK, NEW w \in Wake, wakes[w].session \in Session,
         CommitSessionWake(w) \/ FailSessionWake(w) \/ RecordHostFailure(w)
  PROVE  /\ SourceTypeOK'
         /\ wakes'[w].session = wakes[w].session /\ wakes'[w].origin = wakes[w].origin
  <1>1. CASE CommitSessionWake(w)
    <2>1. "resident" \in RowKind /\ scroll' = ScrollWith(w, "resident", 0)
      BY <1>1 DEF CommitSessionWake, RowKind
    <2>2. scroll' \in [Session -> Seq(ScrollRow)]
      BY <2>1, ScrollWithType
    <2>3. QED
      BY ZenonT(60), <1>1, <2>2 DEF SourceTypeOK, CommitSessionWake, WakeRow, WakeStatus
  <1>2. CASE FailSessionWake(w)
    BY ZenonT(60), <1>2 DEF SourceTypeOK, FailSessionWake, WakeRow, WakeStatus
  <1>3. CASE RecordHostFailure(w)
    BY ZenonT(60), <1>3 DEF SourceTypeOK, RecordHostFailure, WakeRow
  <1>4. QED
    BY <1>1, <1>2, <1>3

LEMMA CreateWakeType ==
  ASSUME SourceTypeOK, NEW w \in Wake, NEW origin \in Origin, NEW plan \in Plan \cup {NoPlan},
         NEW s \in Session, CreateWake(w, origin, plan, s)
  PROVE  /\ SourceTypeOK'
         /\ wakes'[w].session = s /\ wakes'[w].origin = origin
  <1>1. TurnOrdinal(origin, s) \in Nat
    <2> DEFINE turns == {v \in Wake : wakes[v].session = s}
    <2>1. Cardinality(turns) \in Nat
      BY FS_Subset, FS_CardinalityType, SourceLedgerAssumption DEF SourceLedgerAssumption
    <2>2. QED
      BY <2>1 DEF TurnOrdinal
  <1>2. wakes' \in [Wake -> WakeRow]
    BY <1>1 DEF SourceTypeOK, CreateWake, WakeRow, WakeStatus
  <1>3. scroll' \in [Session -> Seq(ScrollRow)]
    BY DEF SourceTypeOK, CreateWake, ScrollRow, RowKind
  <1>4. QED
    BY <1>2, <1>3 DEF SourceTypeOK, CreateWake

LEMMA OpenSessionType ==
  ASSUME SourceTypeOK, NEW s \in Session, OpenSession(s)
  PROVE  SourceTypeOK' /\ wakes' = wakes
  <1>1. OpenLifespans # {} => (CHOOSE t \in OpenLifespans : TRUE) \in Session
    BY DEF OpenLifespans
  <1>2. QED
    BY <1>1 DEF SourceTypeOK, OpenSession

LEMMA StreamType ==
  ASSUME WakeServiceTypeOK, NEW w \in Wake, NEW kind \in StreamKind
  PROVE  [stream EXCEPT ![w] = Append(@, kind)] \in [Wake -> Seq(StreamKind)]
  BY DEF WakeServiceTypeOK

LEMMA RefuseAppendType ==
  ASSUME WakeServiceTypeOK, RefuseAppend
  PROVE  faults' \in 0..MaxFaults
  BY WakeServiceAssumption DEF WakeServiceTypeOK, RefuseAppend, WakeServiceAssumption

LEMMA PublishType ==
  ASSUME WakeServiceTypeOK, active \in Wake, NEW kind \in StreamKind, Publish(kind)
  PROVE  stream' \in [Wake -> Seq(StreamKind)] /\ faults' \in 0..MaxFaults
  BY StreamType DEF Publish, WakeServiceTypeOK

-----------------------------------------------------------------------------
(* Steps of the wake in progress *)

\* What every step of performAdmittedWake does to the state it shares.
RunStep ==
  /\ pc \notin Wakeless /\ pc' \in PC \ Wakeless
  /\ active' = active /\ firstTurn' = firstTurn
  /\ SourceTypeOK'
  /\ wakes'[active].session = wakes[active].session
  /\ wakes'[active].origin = wakes[active].origin
  /\ round' \in Nat /\ left' \in Nat
  /\ pc' \in {"tool", "resting"} => left' > 0
  /\ stream' \in [Wake -> Seq(StreamKind)]
  /\ faults' \in 0..MaxFaults

LEMMA RunStepInv ==
  ASSUME HubInv, RunStep, PlanInv',
         UNCHANGED <<hostVars, now, seat, hearthNext, dispatched>>,
         benchTimer' \in Plan \cup {NoPlan}
  PROVE  HubInv'
  <1>1. WakeServiceTypeOK'
    BY DEF HubInv, RunStep, WakeServiceTypeOK, hostVars
  <1>2. AutonomousWakesTypeOK' /\ HearthWakesTypeOK'
    BY DEF HubInv, AutonomousWakesTypeOK, HearthWakesTypeOK
  <1>3. RunShape'
    BY DEF HubInv, RunStep, RunShape, Wakeless, hostVars
  <1>4. QED
    BY <1>1, <1>2, <1>3 DEF HubInv, RunStep

LEMMA BeginStep ==
  ASSUME HubInv, Begin
  PROVE  RunStep
  <1>1. active \in Wake /\ SourceTypeOK /\ pc \notin Wakeless
    BY WakeInProgress DEF Begin, Wakeless, HubInv
  <1>2. SourceTypeOK' /\ wakes'[active].session = wakes[active].session
        /\ wakes'[active].origin = wakes[active].origin
    <2>1. CASE UNCHANGED sourceVars
      BY <1>1, <2>1 DEF sourceVars, SourceTypeOK
    <2>2. CASE MarkCalling(active)
      BY <1>1, <2>2, MarkCallingType
    <2>3. QED
      BY <2>1, <2>2 DEF Begin
  <1>3. pc' \in {"throwing", "shadow", "orienting", "provider"}
    BY DEF Begin, FirstPhase
  <1>4. QED
    BY <1>1, <1>2, <1>3 DEF RunStep, Begin, HubInv, WakeServiceTypeOK, PC, AtAwait, Wakeless

LEMMA ShadowStep ==
  ASSUME HubInv, ShadowReturns
  PROVE  RunStep
  <1>1. active \in Wake /\ SourceTypeOK /\ pc \notin Wakeless
    BY WakeInProgress DEF ShadowReturns, Wakeless, HubInv
  <1>2. SourceTypeOK' /\ wakes'[active].session = wakes[active].session
        /\ wakes'[active].origin = wakes[active].origin
    <2>1. CASE UNCHANGED sourceVars
      BY <1>1, <2>1 DEF sourceVars, SourceTypeOK
    <2>2. CASE MarkCalling(active)
      BY <1>1, <2>2, MarkCallingType
    <2>3. QED
      BY <2>1, <2>2 DEF ShadowReturns
  <1>3. pc' \in {"throwing", "orienting", "provider"}
    BY DEF ShadowReturns, EnterPhase, FirstPhase
  <1>4. QED
    BY <1>1, <1>2, <1>3 DEF RunStep, ShadowReturns, HubInv, WakeServiceTypeOK, PC, AtAwait, Wakeless

\* The orientation: the call, its return and its card.
LEMMA OrientationStep ==
  ASSUME HubInv, OrientationReturns \/ HearthReturns \/ HearthSettles
  PROVE  RunStep
  <1>1. active \in Wake /\ wakes[active].session \in Session /\ SourceTypeOK /\ pc \notin Wakeless
    BY WakeInProgress DEF OrientationReturns, HearthReturns, HearthSettles, Wakeless, HubInv
  <1>2. SourceTypeOK' /\ wakes' = wakes
    <2>1. CASE UNCHANGED sourceVars
      BY <1>1, <2>1 DEF sourceVars, SourceTypeOK
    <2>2. CASE RecordToolCall(active, 1) \/ RecordHearthReturn(active)
      BY <1>1, <2>2, RecordType
    <2>3. QED
      BY <2>1, <2>2 DEF OrientationReturns, HearthReturns, HearthSettles
  <1>3. pc' \in {"throwing", "hearthCalled", "hearthReturned", "provider"}
    BY DEF OrientationReturns, HearthReturns, HearthSettles, CardThen
  <1>4. faults' \in 0..MaxFaults
    BY RefuseAppendType DEF OrientationReturns, HearthReturns, HearthSettles, CardThen, HubInv, WakeServiceTypeOK
  <1>5. UNCHANGED <<active, firstTurn, round, left, stream>>
    BY DEF OrientationReturns, HearthReturns, HearthSettles
  <1>6. QED
    BY <1>1, <1>2, <1>3, <1>4, <1>5 DEF RunStep, HubInv, WakeServiceTypeOK, PC, AtAwait, Wakeless

LEMMA ProviderStep ==
  ASSUME HubInv, ProviderReturns
  PROVE  RunStep
  <1>1. active \in Wake /\ wakes[active].session \in Session /\ SourceTypeOK /\ pc \notin Wakeless
    BY WakeInProgress DEF ProviderReturns, Wakeless, HubInv
  <1>2. SourceTypeOK' /\ wakes' = wakes
    <2>1. CASE UNCHANGED sourceVars
      BY <1>1, <2>1 DEF sourceVars, SourceTypeOK
    <2>2. ASSUME NEW n \in 1..MaxCalls, RecordToolCall(active, n)
          PROVE  SourceTypeOK' /\ wakes' = wakes
      BY <1>1, <2>2, RecordType, WakeServiceAssumption DEF WakeServiceAssumption
    <2>3. QED
      BY <2>1, <2>2 DEF ProviderReturns
  <1>3. pc' \in {"throwing", "committing", "calling"} /\ left' \in Nat
    BY WakeServiceAssumption DEF ProviderReturns, HubInv, WakeServiceTypeOK, WakeServiceAssumption
  <1>4. QED
    BY <1>1, <1>2, <1>3 DEF RunStep, ProviderReturns, HubInv, WakeServiceTypeOK, PC, AtAwait, Wakeless

LEMMA ContinueStep ==
  ASSUME HubInv, Continue
  PROVE  RunStep
  <1>1. active \in Wake /\ SourceTypeOK /\ pc \notin Wakeless
    BY WakeInProgress DEF Continue, Wakeless, HubInv
  <1>2. SourceTypeOK' /\ wakes' = wakes
    BY <1>1 DEF Continue, sourceVars, SourceTypeOK
  <1>3. pc' \in {"throwing", "refusing", "tool", "resting", "provider"}
        /\ (pc' \in {"tool", "resting"} => left > 0)
    BY DEF Continue, CardThen, EnterPhase
  <1>4. faults' \in 0..MaxFaults
    BY RefuseAppendType DEF Continue, CardThen, HubInv, WakeServiceTypeOK
  <1>5. round' \in Nat /\ UNCHANGED <<active, firstTurn, left, stream>>
    BY DEF Continue, HubInv, WakeServiceTypeOK
  <1>6. QED
    BY <1>1, <1>2, <1>3, <1>4, <1>5 DEF RunStep, HubInv, WakeServiceTypeOK, PC, AtAwait, Wakeless

\* A result is recorded: a tool's, rest_for's or a refusal's.
LEMMA ResultStep ==
  ASSUME HubInv, ToolReturns \/ RestReturns \/ RefuseCall
  PROVE  RunStep
  <1>1. active \in Wake /\ wakes[active].session \in Session /\ SourceTypeOK /\ pc \notin Wakeless
    BY WakeInProgress DEF ToolReturns, RestReturns, CallReturns, RefuseCall, Wakeless, HubInv
  <1>2. RecordToolResult(active)
    BY DEF ToolReturns, RestReturns, CallReturns, RefuseCall
  <1>3. SourceTypeOK' /\ wakes' = wakes
    BY <1>1, <1>2, RecordType
  <1>4. pc' \in {"throwing", "refusing", "calling"}
    BY DEF ToolReturns, RestReturns, CallReturns, RefuseCall, CardThen
  <1>5. left > 0 /\ left' = left - 1
    BY DEF ToolReturns, RestReturns, CallReturns, RefuseCall, HubInv, RunShape
  <1>6. faults' \in 0..MaxFaults
    BY RefuseAppendType
       DEF ToolReturns, RestReturns, CallReturns, RefuseCall, CardThen, HubInv, WakeServiceTypeOK
  <1>7. UNCHANGED <<active, firstTurn, round, stream>>
    BY DEF ToolReturns, RestReturns, CallReturns, RefuseCall
  <1>8. QED
    BY <1>1, <1>3, <1>4, <1>5, <1>6, <1>7 DEF RunStep, HubInv, WakeServiceTypeOK, PC, AtAwait, Wakeless

\* Steps that settle the row of the wake, or publish nothing.
LEMMA RowStep ==
  ASSUME HubInv, RoundLimitReached \/ Commit \/ IngestResident \/ Fail
  PROVE  RunStep
  <1>1. active \in Wake /\ wakes[active].session \in Session /\ SourceTypeOK /\ pc \notin Wakeless
    BY WakeInProgress DEF RoundLimitReached, Commit, IngestResident, Fail, Wakeless, HubInv
  <1>2. SourceTypeOK' /\ wakes'[active].session = wakes[active].session
        /\ wakes'[active].origin = wakes[active].origin
    <2>1. CASE UNCHANGED sourceVars
      BY <1>1, <2>1 DEF sourceVars, SourceTypeOK
    <2>2. CASE CommitSessionWake(active) \/ FailSessionWake(active) \/ RecordHostFailure(active)
      BY <1>1, <2>2, SettleRowType
    <2>3. QED
      BY <2>1, <2>2 DEF RoundLimitReached, Commit, IngestResident, Fail
  <1>3. pc' \in {"throwing", "committed", "completing", "failed"}
    BY DEF RoundLimitReached, Commit, IngestResident, Fail
  <1>4. UNCHANGED <<active, firstTurn, round, left, stream, faults>>
    BY DEF RoundLimitReached, Commit, IngestResident, Fail
  <1>5. QED
    BY <1>1, <1>2, <1>3, <1>4 DEF RunStep, HubInv, WakeServiceTypeOK, PC, AtAwait, Wakeless

\* The lifecycle events that follow the row.
LEMMA EventStep ==
  ASSUME HubInv, PublishMessage \/ PublishCompleted \/ PublishFailed
  PROVE  RunStep
  <1>1. active \in Wake /\ SourceTypeOK /\ pc \notin Wakeless
    BY WakeInProgress DEF PublishMessage, PublishCompleted, PublishAfterCommit, PublishFailed, Wakeless, HubInv
  <1>2. SourceTypeOK' /\ wakes' = wakes
    BY <1>1 DEF PublishMessage, PublishCompleted, PublishAfterCommit, PublishFailed, sourceVars, SourceTypeOK
  <1>3. PICK kind \in StreamKind : Publish(kind) \/ (RefuseAppend /\ UNCHANGED stream)
    BY DEF PublishMessage, PublishCompleted, PublishAfterCommit, PublishFailed, StreamKind
  <1>4. stream' \in [Wake -> Seq(StreamKind)] /\ faults' \in 0..MaxFaults
    BY <1>1, <1>3, PublishType, RefuseAppendType DEF HubInv, WakeServiceTypeOK
  <1>5. pc' \in {"ingesting", "returned"} /\ UNCHANGED <<active, firstTurn, round, left>>
    BY DEF PublishMessage, PublishCompleted, PublishAfterCommit, PublishFailed
  <1>6. QED
    BY <1>1, <1>2, <1>4, <1>5 DEF RunStep, HubInv, WakeServiceTypeOK, PC, AtAwait, Wakeless

LEMMA WakeStepStep ==
  ASSUME HubInv, WakeStep
  PROVE  RunStep
  BY BeginStep, ShadowStep, OrientationStep, ProviderStep, ContinueStep, ResultStep, RowStep, EventStep
     DEF WakeStep

-----------------------------------------------------------------------------
(* Admission and return *)

\* The timer is always set for a plan, or for none.
LEMMA FirstPendingType ==
  ASSUME NEW log, NEW row, NEW S
  PROVE  FirstPending(log, row, S) \in Plan \cup {NoPlan}
  <1> DEFINE pending == PendingIn(log, row, S)
             first(p) == \A q \in pending \ {p} : Before(row, p, q)
  <1>1. pending \subseteq Plan
    BY DEF PendingIn
  <1>2. FirstPending(log, row, S) =
          IF \E p \in pending : first(p) THEN CHOOSE p \in pending : first(p) ELSE NoPlan
    BY DEF FirstPending
  <1>3. (\E p \in pending : first(p)) => (CHOOSE p \in pending : first(p)) \in pending
    <2> HIDE DEF first
    <2>1. QED
      OBVIOUS
  <1>4. QED
    BY <1>1, <1>2, <1>3

LEMMA ArmType ==
  ASSUME AutonomousWakesTypeOK, Arm
  PROVE  benchTimer' \in Plan \cup {NoPlan}
  BY FirstPendingType DEF Arm, AutonomousWakesTypeOK

\* A wake is admitted into the lifespan of the process, or control is given back.
LEMMA AdmitStep ==
  ASSUME HubInv, up, NEW w \in Wake, NEW origin \in Origin, NEW plan \in Plan \cup {NoPlan},
         NEW refused \in {"idle", "declined"}, Admit(w, origin, plan, refused)
  PROVE  /\ SourceTypeOK'
         /\ wakes'[w].session = session /\ wakes'[w].origin = origin
         /\ \/ pc' = "admitted" /\ active' = w
            \/ pc' = refused /\ active' = NoWake
         /\ firstTurn' \in BOOLEAN /\ round' \in Nat /\ left' \in Nat
         /\ stream' \in [Wake -> Seq(StreamKind)] /\ faults' \in 0..MaxFaults
  <1>1. session \in Session /\ SourceTypeOK /\ WakeServiceTypeOK
    BY DEF HubInv, RunShape
  <1>2. SourceTypeOK' /\ wakes'[w].session = session /\ wakes'[w].origin = origin
    BY <1>1, CreateWakeType DEF Admit
  <1>3. stream' \in [Wake -> Seq(StreamKind)] /\ faults' \in 0..MaxFaults
    BY ZenonT(60), <1>1, StreamType, RefuseAppendType DEF Admit, StreamKind, WakeServiceTypeOK
  <1>4. /\ \/ pc' = "admitted" /\ active' = w
           \/ pc' = refused /\ active' = NoWake
        /\ firstTurn' \in BOOLEAN /\ round' = round /\ left' = left
    BY DEF Admit
  <1>5. round \in Nat /\ left \in Nat
    BY <1>1 DEF WakeServiceTypeOK
  <1>6. QED
    BY <1>2, <1>3, <1>4, <1>5

-----------------------------------------------------------------------------
(* Every step of the Hub leaves the plan ledger alone or is a step of it *)

LEMMA ScheduleIsPlanStep ==
  ASSUME HubInv, NEW p \in Plan, NEW s, NEW duration \in 0..(MaxTime - now),
         Schedule(p, s, duration)
  PROVE  PlanNext
  <1>1. s \in Session /\ seat[s] \in Seat /\ now \in 0..MaxTime
    BY DEF HubInv, Schedule, SourceTypeOK, AutonomousWakesTypeOK
  <1>2. SchedulePlan(p, s, seat[s], now, duration)
    BY DEF Schedule
  <1>3. QED
    BY <1>1, <1>2 DEF PlanNext

LEMMA RestIsPlanStep ==
  ASSUME HubInv, RestStep \/ Manual
  PROVE  [PlanNext]_planVars
  <1>1. ASSUME NEW p \in Plan, NEW duration \in 1..(MaxTime - now), RestFor(p, duration)
        PROVE  PlanNext
    <2>1. duration \in 0..(MaxTime - now)
      OBVIOUS
    <2>2. QED
      BY <1>1, <2>1, ScheduleIsPlanStep DEF RestFor
  <1>2. ASSUME NEW p \in Plan, ManualRest(p)
        PROVE  PlanNext
    <2>1. 0 \in 0..(MaxTime - now)
      BY PlanLedgerAssumption DEF HubInv, AutonomousWakesTypeOK, PlanLedgerAssumption
    <2>2. QED
      BY <1>2, <2>1, ScheduleIsPlanStep DEF ManualRest
  <1>3. RestRefused => UNCHANGED planVars
    BY DEF RestRefused
  <1>4. QED
    BY <1>1, <1>2, <1>3 DEF RestStep, Manual

\* A dispatch settles the plan it claimed.
LEMMA SettleIsPlanStep ==
  ASSUME HubInv, BenchSettles
  PROVE  /\ dispatched \in Plan
         /\ \E outcome \in Outcome : SettlePlan(dispatched, outcome)
  <1>1. dispatched # NoPlan
    <2>1. CASE DispatchDeclined
      BY <2>1 DEF DispatchDeclined
    <2>2. CASE DispatchReturns
      <3>1. active # NoWake
        BY <2>2 DEF DispatchReturns, HubInv, RunShape, Wakeless
      <3>2. QED
        BY <2>2, <3>1 DEF DispatchReturns, HubInv, RunShape, RunningOrigin
    <2>3. QED
      BY <2>1, <2>2 DEF BenchSettles
  <1>2. dispatched \in Plan
    BY <1>1 DEF HubInv, AutonomousWakesTypeOK
  <1>3. \E outcome \in Outcome : SettlePlan(dispatched, outcome)
    BY DEF BenchSettles, DispatchDeclined, DispatchReturns, DispatchSettles, Outcome
  <1>4. QED
    BY <1>2, <1>3

LEMMA NextIsPlanStep ==
  ASSUME HubInv, [Next]_vars
  PROVE  [PlanNext]_planVars
  <1>1. CASE BenchSettles
    BY <1>1, SettleIsPlanStep DEF PlanNext
  <1>2. CASE RestStep \/ Manual
    BY <1>2, RestIsPlanStep
  <1>3. CASE BenchFires
    BY <1>3 DEF BenchFires, DispatchTooSoon, DispatchPolls, DispatchClaims, PlanNext
  <1>4. CASE BenchAdmits \/ HearthWakeStep
    BY <1>4 DEF BenchAdmits, DispatchAdmits, HearthWakeStep, HearthAdmits, HearthReturnsToClock
  <1>5. CASE HearthFires \/ HearthByOperator
    BY <1>5 DEF HearthFires, HearthByOperator, HearthTimerFires, HearthRunNow, HearthOpens, HearthPolls
  <1>6. CASE Run /\ ~RestStep
    BY <1>6 DEF Run, ToolStep, HumanReturns
  <1>7. CASE \E s \in Session : Boot(s)
    BY <1>7 DEF Boot
  <1>8. CASE ForestSettles \/ Close \/ Exit \/ Crash \/ Tick
    BY <1>8 DEF ForestSettles, Close, Exit, Crash, Stop, Tick
  <1>9. CASE \E w \in Wake : Submit(w)
    BY <1>9 DEF Submit
  <1>10. CASE UNCHANGED vars
    BY <1>10 DEF vars
  <1>11. QED
    BY <1>1, <1>2, <1>3, <1>4, <1>5, <1>6, <1>7, <1>8, <1>9, <1>10 DEF Next, Progress

-----------------------------------------------------------------------------
(* HubInv is inductive *)

LEMMA HubInitInv == Init => HubInv
  <1> SUFFICES ASSUME Init PROVE HubInv
    OBVIOUS
  <1>1. PlanInv
    BY InitInv DEF Init
  <1>2. SourceTypeOK
    BY DEF Init, SourceInit, SourceTypeOK, Unwoken, WakeRow, WakeStatus, Origin
  <1>3. WakeServiceTypeOK
    <2>1. stream \in [Wake -> Seq(StreamKind)]
      <3>1. <<>> \in Seq(StreamKind)
        OBVIOUS
      <3>2. QED
        BY <3>1 DEF Init, WakeServiceInit
    <2>2. {up, closing, firstTurn} \subseteq BOOLEAN
      BY DEF Init, WakeServiceInit
    <2>3. 0 \in 0..MaxFaults
      BY WakeServiceAssumption DEF WakeServiceAssumption
    <2>4. "idle" \in PC /\ "pending" \in Stage
      BY DEF PC, Stage
    <2>5. QED
      BY <2>1, <2>2, <2>3, <2>4 DEF Init, WakeServiceInit, WakeServiceTypeOK
  <1>4. AutonomousWakesTypeOK /\ HearthWakesTypeOK
    BY AutonomousWakesAssumption, PlanLedgerAssumption
       DEF Init, AutonomousWakesInit, HearthWakesInit, AutonomousWakesTypeOK, HearthWakesTypeOK,
           AutonomousWakesAssumption, PlanLedgerAssumption
  <1>5. RunShape
    BY DEF Init, WakeServiceInit, AutonomousWakesInit, RunShape, Wakeless
  <1>6. QED
    BY <1>1, <1>2, <1>3, <1>4, <1>5 DEF HubInv

LEMMA HearthArmType ==
  ASSUME HubInv, HearthArm
  PROVE  hearthNext' \in Nat \cup {NoTime}
  BY HearthWakesAssumption, PlanLedgerAssumption
     DEF HearthArm, HubInv, HearthWakesTypeOK, AutonomousWakesTypeOK,
         HearthWakesAssumption, PlanLedgerAssumption

\* Startup opens a lifespan around an idle orchestration.
LEMMA BootInv ==
  ASSUME HubInv, PlanInv', NEW s \in Session, Boot(s)
  PROVE  HubInv'
  <1>1. pc = "idle" /\ UNCHANGED runVars
    BY DEF HubInv, RunShape, Boot
  <1>2. SourceTypeOK' /\ wakes' = wakes
    BY OpenSessionType DEF HubInv, Boot
  <1>3. WakeServiceTypeOK'
    BY <1>1 DEF HubInv, WakeServiceTypeOK, Boot, runVars, Stage
  <1>4. AutonomousWakesTypeOK' /\ HearthWakesTypeOK'
    BY FirstPendingType, HearthArmType, AutonomousWakesAssumption
       DEF HubInv, AutonomousWakesTypeOK, HearthWakesTypeOK, Boot, AutonomousWakesAssumption
  <1>5. RunShape'
    BY <1>1, <1>2 DEF HubInv, RunShape, Boot, runVars, Wakeless
  <1>6. QED
    BY <1>2, <1>3, <1>4, <1>5 DEF HubInv

LEMMA ReadinessInv ==
  ASSUME HubInv, PlanInv', ForestSettles \/ Close \/ Tick
  PROVE  HubInv'
  <1>1. UNCHANGED <<up, session, runVars, sourceVars, dispatched, seat>>
    BY DEF ForestSettles, Close, Tick, clockVars, hostVars, benchVars
  <1>2. closing' \in BOOLEAN /\ stage' \in Stage
    BY DEF ForestSettles, Close, Tick, HubInv, WakeServiceTypeOK, Stage, hostVars
  <1>3. now' \in 0..MaxTime /\ benchTimer' \in Plan \cup {NoPlan} /\ hearthNext' \in Nat \cup {NoTime}
    BY PlanLedgerAssumption
       DEF ForestSettles, Close, Tick, HubInv, AutonomousWakesTypeOK, HearthWakesTypeOK,
           PlanLedgerAssumption, clockVars, benchVars
  <1>4. SourceTypeOK' /\ WakeServiceTypeOK'
    BY <1>1, <1>2 DEF HubInv, SourceTypeOK, WakeServiceTypeOK, runVars, sourceVars
  <1>5. AutonomousWakesTypeOK' /\ HearthWakesTypeOK'
    BY <1>1, <1>3 DEF HubInv, AutonomousWakesTypeOK, HearthWakesTypeOK
  <1>6. RunShape'
    BY <1>1 DEF HubInv, RunShape, runVars, sourceVars
  <1>7. QED
    BY <1>4, <1>5, <1>6 DEF HubInv

LEMMA StopInv ==
  ASSUME HubInv, PlanInv', Stop
  PROVE  HubInv'
  <1>1. SourceTypeOK'
    BY DEF HubInv, Stop, SourceTypeOK, sourceVars
  <1>2. WakeServiceTypeOK'
    BY DEF HubInv, Stop, ClearRun, WakeServiceTypeOK, Stage, PC
  <1>3. AutonomousWakesTypeOK' /\ HearthWakesTypeOK'
    BY DEF HubInv, Stop, AutonomousWakesTypeOK, HearthWakesTypeOK
  <1>4. RunShape'
    BY DEF Stop, ClearRun, RunShape, Wakeless
  <1>5. QED
    BY <1>1, <1>2, <1>3, <1>4 DEF HubInv

\* A human wake: admitted when the Hub is idle, so outside every dispatch.
LEMMA SubmitInv ==
  ASSUME HubInv, PlanInv', NEW w \in Wake, Submit(w)
  PROVE  HubInv'
  <1>1. up /\ pc = "idle" /\ dispatched = NoPlan
    BY DEF Submit, HubInv, RunShape
  <1>2. Admit(w, "human_present", NoPlan, "idle") /\ "human_present" \in Origin
    BY DEF Submit, Origin
  <1>3. UNCHANGED <<up, closing, session, stage, now, benchTimer, dispatched, hearthNext, seat>>
    BY DEF Submit, hostVars, clockVars
  <1>4. /\ SourceTypeOK' /\ wakes'[w].session = session /\ wakes'[w].origin = "human_present"
        /\ \/ pc' = "admitted" /\ active' = w
           \/ pc' = "idle" /\ active' = NoWake
        /\ firstTurn' \in BOOLEAN /\ round' \in Nat /\ left' \in Nat
        /\ stream' \in [Wake -> Seq(StreamKind)] /\ faults' \in 0..MaxFaults
    BY <1>1, <1>2, AdmitStep
  <1>5. WakeServiceTypeOK'
    BY <1>3, <1>4 DEF HubInv, WakeServiceTypeOK, PC
  <1>6. AutonomousWakesTypeOK' /\ HearthWakesTypeOK'
    BY <1>3 DEF HubInv, AutonomousWakesTypeOK, HearthWakesTypeOK
  <1>7. RunShape'
    BY <1>1, <1>3, <1>4, SourceLedgerAssumption DEF HubInv, RunShape, Wakeless, SourceLedgerAssumption
  <1>8. QED
    BY <1>4, <1>5, <1>6, <1>7 DEF HubInv

\* manual() touches the plan ledger and its timer only.
LEMMA ManualInv ==
  ASSUME HubInv, PlanInv', Manual
  PROVE  HubInv'
  <1>1. UNCHANGED <<hostVars, sourceVars, runVars, now, hearthNext, seat, dispatched>>
    BY DEF Manual, ManualRest, Schedule
  <1>2. benchTimer' \in Plan \cup {NoPlan}
    BY ArmType DEF Manual, ManualRest, Schedule, HubInv
  <1>3. SourceTypeOK' /\ WakeServiceTypeOK' /\ HearthWakesTypeOK'
    BY <1>1 DEF HubInv, SourceTypeOK, WakeServiceTypeOK, HearthWakesTypeOK, sourceVars, runVars, hostVars
  <1>4. AutonomousWakesTypeOK'
    BY <1>1, <1>2 DEF HubInv, AutonomousWakesTypeOK
  <1>5. RunShape'
    BY <1>1 DEF HubInv, RunShape, sourceVars, runVars, hostVars
  <1>6. QED
    BY <1>3, <1>4, <1>5 DEF HubInv

\* A run that ends gives back an idle Hub.
LEMMA ClearRunInv ==
  ASSUME HubInv, PlanInv', ClearRun, UNCHANGED hostVars, UNCHANGED sourceVars,
         UNCHANGED <<now, seat>>, dispatched' = NoPlan,
         benchTimer' \in Plan \cup {NoPlan}, hearthNext' \in Nat \cup {NoTime}
  PROVE  HubInv'
  <1>1. SourceTypeOK'
    BY DEF HubInv, SourceTypeOK, sourceVars
  <1>2. WakeServiceTypeOK'
    BY DEF HubInv, ClearRun, WakeServiceTypeOK, PC, hostVars
  <1>3. AutonomousWakesTypeOK' /\ HearthWakesTypeOK'
    BY DEF HubInv, AutonomousWakesTypeOK, HearthWakesTypeOK
  <1>4. RunShape'
    BY DEF HubInv, ClearRun, RunShape, Wakeless, hostVars
  <1>5. QED
    BY <1>1, <1>2, <1>3, <1>4 DEF HubInv

LEMMA HumanReturnsInv ==
  ASSUME HubInv, PlanInv', HumanReturns
  PROVE  HubInv'
  <1>1. active # NoWake /\ dispatched = NoPlan
    BY DEF HumanReturns, HubInv, RunShape, Wakeless, RunningOrigin
  <1>2. ClearRun /\ UNCHANGED <<hostVars, sourceVars, now, benchTimer, dispatched, hearthNext, seat>>
    BY DEF HumanReturns, clockVars
  <1>3. QED
    BY <1>1, <1>2, ClearRunInv DEF HubInv, AutonomousWakesTypeOK, HearthWakesTypeOK

LEMMA BenchSettlesInv ==
  ASSUME HubInv, PlanInv', BenchSettles
  PROVE  HubInv'
  <1>1. ClearRun /\ Arm /\ dispatched' = NoPlan /\ UNCHANGED <<hostVars, sourceVars, now, hearthNext, seat>>
    BY DEF BenchSettles, DispatchDeclined, DispatchReturns, DispatchSettles
  <1>2. QED
    BY <1>1, ArmType, ClearRunInv DEF HubInv, HearthWakesTypeOK

LEMMA RunInv ==
  ASSUME HubInv, PlanInv', Run
  PROVE  HubInv'
  <1>1. CASE HumanReturns
    BY <1>1, HumanReturnsInv
  <1>2. CASE WakeStep /\ UNCHANGED <<hostVars, planVars, clockVars, seat>>
    <2>1. RunStep
      BY <1>2, WakeStepStep
    <2>2. UNCHANGED <<hostVars, now, seat, hearthNext, dispatched, benchTimer>>
      BY <1>2 DEF clockVars
    <2>3. QED
      BY <2>1, <2>2, RunStepInv DEF HubInv, AutonomousWakesTypeOK
  <1>3. CASE RestStep
    <2>1. RunStep
      BY <1>3, ResultStep DEF RestStep, RestFor, RestRefused
    <2>2. UNCHANGED <<hostVars, now, seat, hearthNext, dispatched>>
      BY <1>3 DEF RestStep, RestFor, RestRefused, Schedule, benchVars
    <2>3. benchTimer' \in Plan \cup {NoPlan}
      <3>1. Arm \/ UNCHANGED benchTimer
        BY <1>3 DEF RestStep, RestFor, RestRefused, Schedule, benchVars
      <3>2. QED
        BY <3>1, ArmType DEF HubInv, AutonomousWakesTypeOK
    <2>4. QED
      BY <2>1, <2>2, <2>3, RunStepInv
  <1>4. CASE ToolStep
    <2>1. RunStep
      BY <1>4, ResultStep DEF ToolStep
    <2>2. UNCHANGED <<hostVars, now, hearthNext, dispatched, benchTimer>>
      BY <1>4 DEF ToolStep, clockVars
    <2>3. seat' \in [Session -> Seat]
      BY <1>4 DEF ToolStep, HubInv, AutonomousWakesTypeOK
    <2>4. WakeServiceTypeOK' /\ SourceTypeOK'
      BY <2>1, <2>2 DEF HubInv, RunStep, WakeServiceTypeOK, hostVars
    <2>5. AutonomousWakesTypeOK' /\ HearthWakesTypeOK'
      BY <2>2, <2>3 DEF HubInv, AutonomousWakesTypeOK, HearthWakesTypeOK
    <2>6. RunShape'
      BY <2>1, <2>2 DEF HubInv, RunStep, RunShape, Wakeless, hostVars
    <2>7. QED
      BY <2>4, <2>5, <2>6 DEF HubInv
  <1>5. QED
    BY <1>1, <1>2, <1>3, <1>4 DEF Run

\* The bench timer fires: it looks again, polls, or claims the plan it was set for.
LEMMA BenchFiresInv ==
  ASSUME HubInv, PlanInv', BenchFires
  PROVE  HubInv'
  <1>1. UNCHANGED <<hostVars, sourceVars, now, hearthNext, seat, active, firstTurn, round, left, stream, faults>>
    BY DEF BenchFires, DispatchTooSoon, DispatchPolls, DispatchClaims, runVars
  <1>2. \/ UNCHANGED <<pc, dispatched>>
        \/ /\ pc = "idle" /\ up
           /\ pc' \in {"claimed", "declined"} /\ dispatched' \in Plan
    BY DEF BenchFires, DispatchTooSoon, DispatchPolls, DispatchClaims, TimerFires, runVars, benchVars
  <1>3. benchTimer' \in Plan \cup {NoPlan}
    BY ArmType DEF BenchFires, DispatchTooSoon, DispatchPolls, DispatchClaims, HubInv,
                   AutonomousWakesTypeOK, benchVars
  <1>4. SourceTypeOK' /\ WakeServiceTypeOK'
    BY <1>1, <1>2 DEF HubInv, SourceTypeOK, WakeServiceTypeOK, sourceVars, hostVars, PC
  <1>5. AutonomousWakesTypeOK' /\ HearthWakesTypeOK'
    BY <1>1, <1>2, <1>3 DEF HubInv, AutonomousWakesTypeOK, HearthWakesTypeOK
  <1>6. RunShape'
    BY <1>1, <1>2, PlanLedgerAssumption
       DEF HubInv, RunShape, Wakeless, sourceVars, hostVars, PlanLedgerAssumption
  <1>7. QED
    BY <1>4, <1>5, <1>6 DEF HubInv

\* A dispatch asks for its wake: admitted, or declined and still to be settled.
LEMMA DispatchAdmitsInv ==
  ASSUME HubInv, PlanInv', NEW w \in Wake, NEW origin \in {"self_directed", "hearth_origin"},
         NEW plan \in Plan \cup {NoPlan},
         pc \in {"claimed", "opened"}, origin = "self_directed" <=> dispatched # NoPlan,
         \/ Admit(w, origin, plan, "declined")
         \/ UNCHANGED <<sourceVars, active, firstTurn, round, left, stream>>
            /\ pc' = "declined" /\ faults' \in 0..MaxFaults,
         UNCHANGED <<hostVars, now, seat, benchTimer, dispatched, hearthNext>>
  PROVE  HubInv'
  <1>1. up /\ active = NoWake
    BY DEF HubInv, RunShape, Wakeless
  <1>2. /\ SourceTypeOK'
        /\ \/ pc' = "admitted" /\ active' = w /\ wakes'[w].session = session /\ wakes'[w].origin = origin
           \/ pc' = "declined" /\ active' = NoWake
        /\ firstTurn' \in BOOLEAN /\ round' \in Nat /\ left' \in Nat
        /\ stream' \in [Wake -> Seq(StreamKind)] /\ faults' \in 0..MaxFaults
    <2>1. CASE Admit(w, origin, plan, "declined")
      BY <1>1, <2>1, AdmitStep DEF Origin
    <2>2. CASE UNCHANGED <<sourceVars, active, firstTurn, round, left, stream>>
               /\ pc' = "declined" /\ faults' \in 0..MaxFaults
      BY <1>1, <2>2 DEF HubInv, SourceTypeOK, WakeServiceTypeOK, sourceVars
    <2>3. QED
      BY <2>1, <2>2
  <1>3. WakeServiceTypeOK'
    BY <1>2 DEF HubInv, WakeServiceTypeOK, PC, hostVars
  <1>4. AutonomousWakesTypeOK' /\ HearthWakesTypeOK'
    BY DEF HubInv, AutonomousWakesTypeOK, HearthWakesTypeOK
  <1>5. RunShape'
    BY <1>1, <1>2, SourceLedgerAssumption
       DEF HubInv, RunShape, Wakeless, hostVars, SourceLedgerAssumption
  <1>6. QED
    BY <1>2, <1>3, <1>4, <1>5 DEF HubInv

LEMMA BenchAdmitsInv ==
  ASSUME HubInv, PlanInv', BenchAdmits
  PROVE  HubInv'
  <1>1. PICK w \in Wake : DispatchAdmits(w)
    BY DEF BenchAdmits
  <1>2. pc = "claimed" /\ dispatched # NoPlan /\ dispatched \in Plan \cup {NoPlan}
    BY <1>1 DEF DispatchAdmits, HubInv, RunShape, AutonomousWakesTypeOK
  <1>3. \/ Admit(w, "self_directed", dispatched, "declined")
        \/ UNCHANGED <<sourceVars, active, firstTurn, round, left, stream>>
           /\ pc' = "declined" /\ faults' \in 0..MaxFaults
    BY <1>1, RefuseAppendType DEF DispatchAdmits, DriftFound, HubInv, WakeServiceTypeOK
  <1>4. UNCHANGED <<hostVars, now, seat, benchTimer, dispatched, hearthNext>>
    BY <1>1 DEF BenchAdmits, DispatchAdmits, benchVars
  <1>5. QED
    BY <1>2, <1>3, <1>4, DispatchAdmitsInv

LEMMA HearthWakeStepInv ==
  ASSUME HubInv, PlanInv', HearthWakeStep
  PROVE  HubInv'
  <1>1. ASSUME NEW w \in Wake, HearthAdmits(w)
        PROVE  HubInv'
    <2>1. pc = "opened" /\ dispatched = NoPlan
      BY <1>1 DEF HearthAdmits, HubInv, RunShape
    <2>2. \/ Admit(w, "hearth_origin", NoPlan, "declined")
          \/ UNCHANGED <<sourceVars, active, firstTurn, round, left, stream>>
             /\ pc' = "declined" /\ faults' \in 0..MaxFaults
      BY <1>1, RefuseAppendType DEF HearthAdmits, DriftFound, HubInv
    <2>3. UNCHANGED <<hostVars, now, seat, benchTimer, dispatched, hearthNext>>
      BY <1>1 DEF HearthWakeStep, HearthAdmits, benchVars
    <2>4. QED
      BY <2>1, <2>2, <2>3, DispatchAdmitsInv
  <1>2. ASSUME HearthReturnsToClock
        PROVE  HubInv'
    <2>1. dispatched = NoPlan
      BY <1>2 DEF HearthReturnsToClock, HubInv, RunShape, RunningOrigin, Wakeless
    <2>2. ClearRun /\ UNCHANGED <<hostVars, sourceVars, now, benchTimer, dispatched, seat>>
      BY <1>2 DEF HearthWakeStep, HearthReturnsToClock, benchVars
    <2>3. hearthNext' \in Nat \cup {NoTime}
      BY <1>2, HearthArmType DEF HearthReturnsToClock, HubInv, HearthWakesTypeOK
    <2>4. QED
      BY <2>1, <2>2, <2>3, ClearRunInv DEF HubInv, AutonomousWakesTypeOK
  <1>3. QED
    BY <1>1, <1>2 DEF HearthWakeStep

\* The Hearth opens a lifespan only around an idle orchestration.
LEMMA HearthOpensInv ==
  ASSUME HubInv, PlanInv', NEW s \in Session, HearthOpens(s),
         UNCHANGED now, hearthNext' \in Nat \cup {NoTime}
  PROVE  HubInv'
  <1>1. pc = "idle" /\ up /\ active = NoWake /\ dispatched = NoPlan
    BY DEF HearthOpens, HearthBlocked, HubInv, RunShape, Wakeless
  <1>2. SourceTypeOK'
    BY OpenSessionType DEF HearthOpens, HubInv
  <1>3. WakeServiceTypeOK'
    BY DEF HearthOpens, HubInv, WakeServiceTypeOK, PC
  <1>4. AutonomousWakesTypeOK' /\ HearthWakesTypeOK'
    BY AutonomousWakesAssumption
       DEF HearthOpens, HubInv, AutonomousWakesTypeOK, HearthWakesTypeOK, benchVars, AutonomousWakesAssumption
  <1>5. RunShape'
    BY <1>1 DEF HearthOpens, RunShape, Wakeless, benchVars
  <1>6. QED
    BY <1>2, <1>3, <1>4, <1>5 DEF HubInv

LEMMA HearthFiresInv ==
  ASSUME HubInv, PlanInv', HearthFires \/ HearthByOperator
  PROVE  HubInv'
  <1>1. ASSUME NEW s \in Session, HearthTimerFires(s) \/ HearthRunNow(s)
        PROVE  HubInv'
    <2>1. HearthOpens(s) /\ UNCHANGED now /\ hearthNext' \in Nat \cup {NoTime}
      BY <1>1 DEF HearthFires, HearthByOperator, HearthTimerFires, HearthRunNow, HubInv, HearthWakesTypeOK
    <2>2. QED
      BY <2>1, HearthOpensInv
  <1>2. ASSUME HearthPolls /\ UNCHANGED seat
        PROVE  HubInv'
    <2>1. UNCHANGED <<sourceVars, runVars, hostVars, benchVars, hearthNext, now, seat>>
      BY <1>2 DEF HearthFires, HearthByOperator, HearthPolls
    <2>2. SourceTypeOK' /\ WakeServiceTypeOK'
      BY <2>1 DEF HubInv, SourceTypeOK, WakeServiceTypeOK, sourceVars, runVars, hostVars
    <2>3. AutonomousWakesTypeOK' /\ HearthWakesTypeOK'
      BY <2>1 DEF HubInv, AutonomousWakesTypeOK, HearthWakesTypeOK, benchVars
    <2>4. RunShape'
      BY <2>1 DEF HubInv, RunShape, sourceVars, runVars, hostVars, benchVars
    <2>5. QED
      BY <2>2, <2>3, <2>4 DEF HubInv
  <1>3. QED
    BY <1>1, <1>2 DEF HearthFires, HearthByOperator

LEMMA HubNextInv == HubInv /\ [Next]_vars => HubInv'
  <1> SUFFICES ASSUME HubInv, [Next]_vars PROVE HubInv'
    OBVIOUS
  <1>1. PlanInv'
    BY NextIsPlanStep, NextInv DEF HubInv
  <1>2. CASE Next
    BY <1>1, <1>2, BootInv, ReadinessInv, StopInv, SubmitInv, ManualInv, BenchFiresInv, HearthFiresInv,
       RunInv, BenchSettlesInv, BenchAdmitsInv, HearthWakeStepInv
       DEF Next, Progress, Exit, Crash
  <1>3. CASE UNCHANGED vars
    <2>1. SourceTypeOK' /\ WakeServiceTypeOK'
      BY <1>3 DEF HubInv, SourceTypeOK, WakeServiceTypeOK, vars, sourceVars, runVars, hostVars
    <2>2. AutonomousWakesTypeOK' /\ HearthWakesTypeOK'
      BY <1>3 DEF HubInv, AutonomousWakesTypeOK, HearthWakesTypeOK, vars, clockVars
    <2>3. RunShape'
      BY <1>3 DEF HubInv, RunShape, vars, sourceVars, runVars, hostVars, clockVars
    <2>4. QED
      BY <1>1, <2>1, <2>2, <2>3 DEF HubInv
  <1>4. QED
    BY <1>2, <1>3

\* The types and the shape of a run hold in every state of the Hub.
THEOREM HubInvariance == Spec => []HubInv
  BY HubInitInv, HubNextInv, PTL DEF Spec

\* Every variable of the Hub keeps its type, through any interleaving of
\* requests, clocks, tools, refusals, closes, crashes and restarts.
THEOREM HubTypeCorrect == Spec => []TypeOK
  <1>1. HubInv => TypeOK
    BY DEF HubInv, TypeOK, PlanInv
  <1>2. QED
    BY <1>1, HubInvariance, PTL

\* The Hub drives the plan ledger only through its operations.
THEOREM HubUsesPlanLedger == Spec => PlanSpec
  <1>1. Init => PlanInit
    BY DEF Init
  <1>2. HubInv /\ [Next]_vars => [PlanNext]_planVars
    BY NextIsPlanStep
  <1>3. QED
    BY <1>1, <1>2, HubInvariance, PTL DEF Spec, PlanSpec

\* The composed Hub, with its crashes and restarts, keeps the bench promise.
THEOREM HubKeepsBenchPromise == Spec => KeepsBenchPromise
  BY HubUsesPlanLedger, PlanKeepsBenchPromise

\* No plan is claimed twice or settled without its claim, whatever the timers do.
THEOREM HubLogTellsOneLife == Spec => []LogTellsOneLife
  BY HubUsesPlanLedger, PlanLogTellsOneLife

-----------------------------------------------------------------------------
(* Lifespans *)

Born == {s \in Session : lifespan[s] # "unborn"}

\* The lifespans between their boots: one is open once any was born, and a
\* lifespan's predecessor is an older one.
LifespanInv ==
  /\ \A s, t \in OpenLifespans : s = t
  /\ Born # {} => OpenLifespans # {}
  /\ up => session \in OpenLifespans
  /\ AncestryIsOneLine

\* OpenSession is the only operation that touches a lifespan.
LEMMA OpenSessionKeepsLine ==
  ASSUME SourceTypeOK, LifespanInv, NEW s \in Session, OpenSession(s), session' = s
  PROVE  LifespanInv'
  <1> DEFINE last == IF OpenLifespans = {} THEN SessionZero ELSE CHOOSE t \in OpenLifespans : TRUE
  <1>1. s \notin Born /\ OpenLifespans \subseteq Born
    BY DEF OpenSession, Born, OpenLifespans
  <1>2. Born' = Born \cup {s} /\ OpenLifespans' = {s}
    BY DEF OpenSession, SourceTypeOK, Born, OpenLifespans
  <1>3. last \in OpenLifespans \/ (last = SessionZero /\ Born = {})
    BY DEF LifespanInv
  <1>4. predecessor'[s] = last /\ \A t \in Session \ {s} : predecessor'[t] = predecessor[t]
    BY DEF OpenSession, SourceTypeOK
  <1>5. \A t \in Born : predecessor[t] \in (Born \cup {SessionZero}) \ OpenLifespans
    BY DEF LifespanInv, AncestryIsOneLine, Born
  <1>6. \A t \in Born : t \in Session \ {s} /\ predecessor[t] # s /\ predecessor[t] # last
    BY <1>1, <1>3, <1>5, SourceLedgerAssumption DEF Born, SourceLedgerAssumption
  <1>7. last \in (Born \cup {SessionZero}) /\ last # s
    BY <1>1, <1>3, SourceLedgerAssumption DEF SourceLedgerAssumption
  <1>8. \A t, u \in Born' : predecessor'[t] = predecessor'[u] => t = u
    <2>1. \A t, u \in Born : predecessor[t] = predecessor[u] => t = u
      BY DEF LifespanInv, AncestryIsOneLine, Born
    <2>2. QED
      BY <1>2, <1>4, <1>6, <2>1
  <1>9. \A t \in Born' : predecessor'[t] \in (Born' \cup {SessionZero}) \ OpenLifespans'
    BY <1>1, <1>2, <1>4, <1>5, <1>6, <1>7, SourceLedgerAssumption DEF SourceLedgerAssumption
  <1>10. ASSUME NEW S \in (SUBSET Born') \ {{}}
         PROVE  \E t \in S : predecessor'[t] \notin S
    <2>1. CASE S \subseteq {s}
      BY <1>4, <1>7, <2>1
    <2>2. CASE ~(S \subseteq {s})
      <3>1. S \ {s} \in (SUBSET Born) \ {{}}
        BY <1>2, <2>2
      <3>2. PICK t \in S \ {s} : predecessor[t] \notin S \ {s}
        BY <3>1 DEF LifespanInv, AncestryIsOneLine, Born
      <3>3. t \in Born /\ predecessor'[t] = predecessor[t] /\ predecessor[t] # s
        BY <1>4, <1>6, <3>1
      <3>4. QED
        BY <3>2, <3>3
    <2>3. QED
      BY <2>1, <2>2
  <1>11. QED
    BY <1>2, <1>8, <1>9, <1>10 DEF LifespanInv, AncestryIsOneLine, Born

\* Every other step leaves the lifespans as they are.
LEMMA LifespanStep ==
  ASSUME HubInv, [Next]_vars
  PROVE  \/ \E s \in Session : OpenSession(s) /\ session' = s
         \/ /\ UNCHANGED <<lifespan, predecessor>>
            /\ UNCHANGED session \/ ~up'
            /\ up' => up
  <1>1. CASE \E s \in Session : Boot(s)
    BY <1>1 DEF Boot
  <1>2. CASE HearthFires \/ HearthByOperator
    BY <1>2 DEF HearthFires, HearthByOperator, HearthTimerFires, HearthRunNow, HearthOpens, HearthPolls,
                sourceVars, hostVars
  <1>3. CASE ForestSettles \/ Close \/ Tick \/ Manual \/ BenchFires
    BY <1>3 DEF ForestSettles, Close, Tick, Manual, ManualRest, BenchFires, DispatchTooSoon, DispatchPolls,
                DispatchClaims, sourceVars, hostVars
  <1>4. CASE Exit \/ Crash
    BY <1>4 DEF Exit, Crash, Stop, sourceVars
  <1>5. CASE BenchSettles \/ BenchAdmits \/ HearthWakeStep \/ \E w \in Wake : Submit(w)
    BY <1>5 DEF BenchSettles, DispatchDeclined, DispatchReturns, DispatchSettles, BenchAdmits, DispatchAdmits,
                DriftFound, HearthWakeStep, HearthAdmits, HearthReturnsToClock, Submit, Admit, CreateWake,
                sourceVars, hostVars
  <1>6. CASE Run
    <2>1. UNCHANGED hostVars
      BY <1>6 DEF Run, ToolStep, RestStep, HumanReturns
    <2>2. CASE ToolStep \/ RestStep \/ HumanReturns
      BY <2>1, <2>2 DEF ToolStep, RestStep, HumanReturns, ToolReturns, RestFor, RestRefused, RestReturns, CallReturns,
                        RecordToolResult, sourceVars, hostVars
    <2>3. CASE WakeStep
      <3>1. UNCHANGED <<lifespan, predecessor>>
        BY <2>3 DEF WakeStep, Begin, ShadowReturns, OrientationReturns, HearthReturns, HearthSettles,
                    ProviderReturns, Continue, RefuseCall, RoundLimitReached, Commit, PublishMessage,
                    IngestResident, PublishCompleted, PublishAfterCommit, Fail, PublishFailed, MarkCalling,
                    RecordToolCall, RecordToolResult, RecordHearthReturn, CommitSessionWake,
                    FailSessionWake, RecordHostFailure, sourceVars
      <3>2. QED
        BY <2>1, <3>1 DEF hostVars
    <2>4. QED
      BY <1>6, <2>2, <2>3 DEF Run
  <1>7. CASE UNCHANGED vars
    BY <1>7 DEF vars, sourceVars, hostVars
  <1>8. QED
    BY <1>1, <1>2, <1>3, <1>4, <1>5, <1>6, <1>7 DEF Next, Progress

LEMMA LifespanNextInv == HubInv /\ LifespanInv /\ [Next]_vars => LifespanInv'
  <1> SUFFICES ASSUME HubInv, LifespanInv, [Next]_vars PROVE LifespanInv'
    OBVIOUS
  <1>1. CASE \E s \in Session : OpenSession(s) /\ session' = s
    BY <1>1, OpenSessionKeepsLine DEF HubInv
  <1>2. CASE UNCHANGED <<lifespan, predecessor>> /\ (UNCHANGED session \/ ~up') /\ (up' => up)
    BY <1>2 DEF LifespanInv, Born, OpenLifespans, AncestryIsOneLine
  <1>3. QED
    BY <1>1, <1>2, LifespanStep

LEMMA LifespanInitInv == Init => LifespanInv
  BY DEF Init, SourceInit, WakeServiceInit, LifespanInv, OpenLifespans, Born, AncestryIsOneLine

\* The lifespans of a running Hub are one line with one open end (openSession,
\* beginHearthLifespan).
THEOREM LifespanInvariance == Spec => []LifespanInv
  BY LifespanInitInv, LifespanNextInv, HubInvariance, PTL DEF Spec

\* Startup, restarts and the Hearth clock never leave two lifespans open, or none, and
\* lifespans descend in one line from Session Zero, without a branch or a cycle.
THEOREM HubLifespansAreOneLine == Spec => []LifespansAreOneLine
  <1>1. LifespanInv => LifespansAreOneLine
    BY DEF LifespanInv, LifespansAreOneLine, OneOpenLifespan
  <1>2. QED
    BY <1>1, LifespanInvariance, PTL

\* A wake in progress keeps the lifespan it was admitted to, and keeps it open.
THEOREM HubRunKeepsItsLifespan == Spec => []RunKeepsItsLifespan
  <1>1. HubInv /\ LifespanInv => RunKeepsItsLifespan
    BY DEF HubInv, RunShape, Wakeless, LifespanInv, OpenLifespans, RunKeepsItsLifespan
  <1>2. QED
    BY <1>1, HubInvariance, LifespanInvariance, PTL

\* Lifespans are one line and the wake in progress belongs to its end: startup, the
\* Hearth clock, the operator and a close respect both.
THEOREM HubLifespansHold == Spec => []LifespansHold
  <1>1. LifespansAreOneLine /\ RunKeepsItsLifespan => LifespansHold
    BY DEF LifespansHold
  <1>2. QED
    BY <1>1, HubLifespansAreOneLine, HubRunKeepsItsLifespan, PTL

-----------------------------------------------------------------------------
(* Claims *)

\* A claimed plan that nobody dispatches belongs to a lifespan that is over; it
\* takes the first two parts to show that a new lifespan cannot revive it.
ClaimInv ==
  /\ \A s \in tended : lifespan[s] # "unborn"
  /\ \A p \in Plan : Status(p) # "unborn" => lifespan[planRow[p].session] # "unborn"
  /\ ClaimIsHeldByItsDispatch

LEMMA TendedStep ==
  ASSUME HubInv, LifespanInv, [Next]_vars
  PROVE  \A s \in tended' : s \in tended \/ lifespan[s] = "open"
  <1>1. CASE \E s \in Session : Boot(s)
    BY <1>1 DEF Boot, OpenSession
  <1>2. CASE HearthFires \/ HearthByOperator
    BY <1>2 DEF HearthFires, HearthByOperator, HearthTimerFires, HearthRunNow, HearthOpens, HearthPolls,
                OpenSession, sourceVars
  <1>3. CASE ForestSettles \/ Close \/ Tick \/ Manual \/ BenchFires \/ Exit \/ Crash
    BY <1>3 DEF ForestSettles, Close, Tick, Manual, ManualRest, BenchFires, DispatchTooSoon, DispatchPolls,
                DispatchClaims, Exit, Crash, Stop, sourceVars
  <1>4. CASE BenchSettles \/ BenchAdmits \/ HearthWakeStep \/ \E w \in Wake : Submit(w)
    BY <1>4 DEF BenchSettles, DispatchDeclined, DispatchReturns, DispatchSettles, BenchAdmits, DispatchAdmits,
                DriftFound, HearthWakeStep, HearthAdmits, HearthReturnsToClock, Submit, Admit, CreateWake,
                sourceVars
  <1>5. CASE ToolStep \/ RestStep \/ HumanReturns
    BY <1>5 DEF ToolStep, RestStep, HumanReturns, ToolReturns, RestFor, RestRefused, RestReturns, CallReturns,
                RecordToolResult, sourceVars
  <1>6. CASE WakeStep
    <2>1. pc = "hearthCalled" => wakes[active].session = session /\ lifespan[session] = "open"
      BY WakeInProgress DEF Wakeless, LifespanInv, OpenLifespans
    <2>2. QED
      BY <1>6, <2>1
         DEF WakeStep, Begin, ShadowReturns, OrientationReturns, HearthReturns, HearthSettles,
             ProviderReturns, Continue, RefuseCall, RoundLimitReached, Commit, PublishMessage,
             IngestResident, PublishCompleted, PublishAfterCommit, Fail, PublishFailed, MarkCalling,
             RecordToolCall, RecordToolResult, RecordHearthReturn, CommitSessionWake,
             FailSessionWake, RecordHostFailure, sourceVars
  <1>7. CASE UNCHANGED vars
    BY <1>7 DEF vars, sourceVars
  <1>8. QED
    BY <1>1, <1>2, <1>3, <1>4, <1>5, <1>6, <1>7 DEF Next, Progress, Run

\* What a step does to the plans: a rest of a tended lifespan, the claim of a
\* dispatch, its settlement, or nothing.
PlanEffect ==
  \/ /\ UNCHANGED <<dispatched, lifespan, up>>
     /\ \E p \in Plan, s \in tended, duration \in Nat : SchedulePlan(p, s, seat[s], now, duration)
  \/ /\ dispatched = NoPlan /\ UNCHANGED <<lifespan, up>>
     /\ \E p \in Plan : ClaimPlan(p) /\ dispatched' = p
  \/ /\ dispatched' = NoPlan /\ UNCHANGED <<lifespan, up>>
     /\ dispatched \in Plan /\ \E outcome \in Outcome : SettlePlan(dispatched, outcome)
  \/ /\ UNCHANGED planVars
     /\ \/ UNCHANGED dispatched
        \/ dispatched' = NoPlan /\ ~up'

LEMMA PlanStep ==
  ASSUME HubInv, [Next]_vars
  PROVE  PlanEffect
  <1>1. CASE RestStep
    <2>1. ASSUME NEW p \in Plan, NEW duration \in 1..(MaxTime - now), RestFor(p, duration)
          PROVE  PlanEffect
      <3>1. UNCHANGED <<dispatched, lifespan, up>>
        BY <1>1, <2>1 DEF RestFor, Schedule, RestReturns, CallReturns, RecordToolResult, RestStep, hostVars
      <3>2. duration \in Nat /\ wakes[active].session \in tended
            /\ SchedulePlan(p, wakes[active].session, seat[wakes[active].session], now, duration)
        BY <2>1 DEF RestFor, Schedule
      <3>3. QED
        BY <1>1, <3>1, <3>2 DEF PlanEffect
    <2>2. ASSUME RestRefused
          PROVE  PlanEffect
      BY <2>2 DEF RestRefused, PlanEffect, benchVars
    <2>3. QED
      BY <1>1, <2>1, <2>2 DEF RestStep
  <1>2. CASE Manual
    <2>1. PICK p \in Plan : ManualRest(p)
      BY <1>2 DEF Manual
    <2>2. UNCHANGED <<dispatched, lifespan, up>>
      BY <1>2, <2>1 DEF Manual, ManualRest, Schedule, sourceVars, hostVars
    <2>3. session \in tended /\ SchedulePlan(p, session, seat[session], now, 0)
      BY <2>1 DEF ManualRest, Schedule
    <2>4. QED
      BY <1>2, <2>2, <2>3 DEF PlanEffect
  <1>3. CASE BenchFires
    <2>1. PICK p \in Plan : DispatchTooSoon(p) \/ DispatchPolls(p) \/ DispatchClaims(p)
      BY <1>3 DEF BenchFires
    <2>2. CASE DispatchClaims(p)
      <3>1. dispatched = NoPlan /\ UNCHANGED <<lifespan, up>>
        BY <1>3, <2>2 DEF BenchFires, DispatchClaims, HubInv, RunShape, sourceVars, hostVars
      <3>2. ClaimPlan(p) /\ dispatched' = p
        BY <2>2 DEF DispatchClaims
      <3>3. QED
        BY <1>3, <3>1, <3>2 DEF PlanEffect
    <2>3. CASE DispatchTooSoon(p) \/ DispatchPolls(p)
      BY <2>3 DEF DispatchTooSoon, DispatchPolls, PlanEffect, benchVars
    <2>4. QED
      BY <2>1, <2>2, <2>3
  <1>4. CASE BenchSettles
    <2>1. dispatched' = NoPlan /\ UNCHANGED <<lifespan, up>>
      BY <1>4 DEF BenchSettles, DispatchDeclined, DispatchReturns, DispatchSettles, sourceVars, hostVars
    <2>2. QED
      BY <1>4, <2>1, SettleIsPlanStep DEF PlanEffect
  <1>5. CASE Exit \/ Crash
    BY <1>5 DEF Exit, Crash, Stop, PlanEffect
  <1>6. CASE BenchAdmits \/ HearthWakeStep \/ HearthFires \/ HearthByOperator
    BY <1>6 DEF BenchAdmits, DispatchAdmits, HearthWakeStep, HearthAdmits, HearthReturnsToClock, HearthFires,
                HearthByOperator, HearthTimerFires, HearthRunNow, HearthOpens, HearthPolls, PlanEffect, benchVars
  <1>7. CASE Run /\ ~RestStep
    BY <1>7 DEF Run, ToolStep, HumanReturns, clockVars, PlanEffect
  <1>8. CASE ForestSettles \/ Close \/ Tick
    BY <1>8 DEF ForestSettles, Close, Tick, clockVars, benchVars, PlanEffect
  <1>9. CASE (\E s \in Session : Boot(s)) \/ (\E w \in Wake : Submit(w))
    BY <1>9 DEF Boot, Submit, clockVars, PlanEffect
  <1>10. CASE UNCHANGED vars
    BY <1>10 DEF vars, clockVars, PlanEffect
  <1>11. QED
    BY <1>1, <1>2, <1>3, <1>4, <1>5, <1>6, <1>7, <1>8, <1>9, <1>10 DEF Next, Progress

LEMMA ClaimNextInv == HubInv /\ LifespanInv /\ ClaimInv /\ [Next]_vars => ClaimInv'
  <1> SUFFICES ASSUME HubInv, LifespanInv, ClaimInv, [Next]_vars PROVE ClaimInv'
    OBVIOUS
  <1>1. PlanInv /\ now \in Nat /\ seat \in [Session -> Seat] /\ lifespan \in [Session -> {"unborn", "open", "closed"}]
        /\ tended \subseteq Session /\ planRow \in [Plan -> PlanRow] /\ dispatched \in Plan \cup {NoPlan}
        /\ tended' \subseteq Session
    BY HubNextInv DEF HubInv, PlanInv, PlanTypeOK, SourceTypeOK, AutonomousWakesTypeOK
  <1>2. \A s \in Session : lifespan[s] # "unborn" => lifespan'[s] # "unborn"
    BY <1>1, LifespanStep DEF OpenSession
  <1>3. \A s \in Session : lifespan[s] = "closed" => lifespan'[s] = "closed"
    BY <1>1, LifespanStep DEF OpenSession
  <1>4. \A s \in tended' : lifespan'[s] # "unborn"
    BY <1>1, <1>2, TendedStep DEF ClaimInv
  <1>5. CASE /\ UNCHANGED <<dispatched, lifespan, up>>
             /\ \E p \in Plan, s \in tended, duration \in Nat : SchedulePlan(p, s, seat[s], now, duration)
    <2>1. PICK p \in Plan, s \in tended, duration \in Nat : SchedulePlan(p, s, seat[s], now, duration)
      BY <1>5
    <2>2. s \in Session /\ seat[s] \in Seat
      BY <1>1
    <2>3. /\ Status(p) = "unborn" /\ PendingOf(s) # p
          /\ \A q \in Plan : Status(q)' = IF q = p THEN "scheduled"
                                         ELSE IF q = PendingOf(s) THEN "cancelled" ELSE Status(q)
          /\ planRow'[p].session = s
          /\ \A q \in Plan \ {p} : planRow'[q] = planRow[q]
      BY <1>1, <2>1, <2>2, ScheduleStatus
    <2>4. \A q \in Plan : PendingOf(s) = q => Status(q) = "scheduled"
      BY <1>1, <2>2, PendingOfIsThePendingPlan DEF PlanInv
    <2>5. \A q \in Plan : Status(q)' = "claimed" <=> Status(q) = "claimed"
      BY <2>3, <2>4
    <2>6. \A q \in Plan : Status(q)' # "unborn" => lifespan'[planRow'[q].session] # "unborn"
      BY <1>5, <2>3, <2>4 DEF ClaimInv
    <2>7. ClaimIsHeldByItsDispatch'
      BY <1>1, <1>5, <2>3, <2>5 DEF ClaimInv, ClaimIsHeldByItsDispatch
    <2>8. QED
      BY <1>4, <2>6, <2>7 DEF ClaimInv
  <1>6. CASE /\ dispatched = NoPlan /\ UNCHANGED <<lifespan, up>>
             /\ \E p \in Plan : ClaimPlan(p) /\ dispatched' = p
    <2>1. PICK p \in Plan : ClaimPlan(p) /\ dispatched' = p
      BY <1>6
    <2>2. /\ Status(p) = "scheduled" /\ planRow' = planRow
          /\ \A q \in Plan : Status(q)' = IF q = p THEN "claimed" ELSE Status(q)
      BY <1>1, <2>1, ClaimStatus
    <2>3. \A q \in Plan : Status(q)' # "unborn" => lifespan'[planRow'[q].session] # "unborn"
      BY <1>6, <2>2 DEF ClaimInv
    <2>4. ClaimIsHeldByItsDispatch'
      BY <1>6, <2>1, <2>2, PlanLedgerAssumption DEF ClaimInv, ClaimIsHeldByItsDispatch, PlanLedgerAssumption
    <2>5. QED
      BY <1>4, <2>3, <2>4 DEF ClaimInv
  <1>7. CASE /\ dispatched' = NoPlan /\ UNCHANGED <<lifespan, up>>
             /\ dispatched \in Plan /\ \E outcome \in Outcome : SettlePlan(dispatched, outcome)
    <2>1. PICK outcome \in Outcome : SettlePlan(dispatched, outcome)
      BY <1>7
    <2>2. /\ Status(dispatched) = "claimed" /\ planRow' = planRow
          /\ \A q \in Plan : Status(q)' = IF q = dispatched THEN outcome ELSE Status(q)
      BY <1>1, <1>7, <2>1, SettleStatus
    <2>3. \A q \in Plan : Status(q)' # "unborn" => lifespan'[planRow'[q].session] # "unborn"
      BY <1>7, <2>2 DEF ClaimInv
    <2>4. ClaimIsHeldByItsDispatch'
      BY <1>7, <2>2 DEF ClaimInv, ClaimIsHeldByItsDispatch, Outcome
    <2>5. QED
      BY <1>4, <2>3, <2>4 DEF ClaimInv
  <1>8. CASE UNCHANGED planVars /\ (UNCHANGED dispatched \/ (dispatched' = NoPlan /\ ~up'))
    <2>1. planRow' = planRow /\ \A q \in Plan : Status(q)' = Status(q) /\ planRow[q].session \in Session
      BY <1>1, <1>8 DEF planVars, Status, StatusIn, PlanRow
    <2>2. \A q \in Plan : Status(q)' # "unborn" => lifespan'[planRow'[q].session] # "unborn"
      BY <1>2, <2>1 DEF ClaimInv
    <2>3. dispatched' # NoPlan => Status(dispatched)' = "claimed"
      BY <1>1, <1>8, <2>1 DEF ClaimInv, ClaimIsHeldByItsDispatch
    <2>4. ASSUME NEW p \in Plan, Status(p)' = "claimed", p # dispatched', up'
          PROVE  lifespan'[planRow'[p].session] = "closed"
      <3>1. p # dispatched /\ Status(p) = "claimed" /\ lifespan[planRow[p].session] # "unborn"
        BY <1>8, <2>1, <2>4 DEF ClaimInv
      <3>2. CASE up
        BY <1>3, <2>1, <3>1, <3>2 DEF ClaimInv, ClaimIsHeldByItsDispatch
      <3>3. CASE ~up
        <4>1. PICK s \in Session : OpenSession(s)
          BY <2>4, <3>3, LifespanStep
        <4>2. QED
          BY <1>1, <2>1, <3>1, <4>1 DEF OpenSession
      <3>4. QED
        BY <3>2, <3>3
    <2>5. ClaimIsHeldByItsDispatch'
      BY <2>3, <2>4 DEF ClaimIsHeldByItsDispatch
    <2>6. QED
      BY <1>4, <2>2, <2>5 DEF ClaimInv
  <1>9. QED
    BY <1>5, <1>6, <1>7, <1>8, PlanStep DEF PlanEffect

LEMMA ClaimInitInv == Init => ClaimInv
  <1> SUFFICES ASSUME Init PROVE ClaimInv
    OBVIOUS
  <1>1. \A p \in Plan : Status(p) = "unborn"
    BY StatusOfLog DEF Status, Init, PlanInit
  <1>2. QED
    BY <1>1 DEF Init, SourceInit, AutonomousWakesInit, ClaimInv, ClaimIsHeldByItsDispatch

\* Who holds a claim is always known (dispatch, claim, settle).
THEOREM ClaimInvariance == Spec => []ClaimInv
  BY ClaimInitInv, ClaimNextInv, HubInvariance, LifespanInvariance, PTL DEF Spec

\* settle() never throws: the plan in dispatch stays claimed until it is settled,
\* and every other claimed plan was orphaned by the death of its process.
THEOREM HubClaimIsHeldByItsDispatch == Spec => []ClaimIsHeldByItsDispatch
  <1>1. ClaimInv => ClaimIsHeldByItsDispatch
    BY DEF ClaimInv
  <1>2. QED
    BY <1>1, ClaimInvariance, PTL

-----------------------------------------------------------------------------
(* The wake in progress, its row and its stream *)

\* Points where the row of the wake in progress is neither committed nor failed
Unsettled == {"admitted", "shadow", "orienting", "hearthCalled", "hearthReturned", "provider",
              "calling", "tool", "resting", "refusing", "committing", "throwing"}

\* The row of the wake in progress, and what was announced of it, as its orchestration
\* left them; an id that no wake was given has neither.
RunHasItsRow ==
  active # NoWake =>
    /\ pc \in Unsettled => /\ wakes[active].status \in {"assembling", "calling_provider"}
                           /\ stream[active] = <<"wake.accepted">>
    /\ pc \in {"committed", "ingesting", "completing"} => wakes[active].status = "committed"
    /\ pc = "failed" => wakes[active].status = "failed"
    /\ pc = "returned" => Settled(active)
    /\ pc \in {"committed", "failed"} => stream[active] = <<"wake.accepted">>
    /\ pc \in {"ingesting", "completing"} =>
         stream[active] \in {<<"wake.accepted">>, <<"wake.accepted", "message.committed">>}

UnwokenIsBlank == \A w \in Wake : wakes[w].status = "none" => wakes[w] = Unwoken /\ stream[w] = <<>>

RowFollowsRun == RunHasItsRow /\ UnwokenIsBlank

\* The four updates of a wake row, field by field.
LEMMA RowMoves ==
  ASSUME SourceTypeOK, NEW w \in Wake
  PROVE  /\ MarkCalling(w) => /\ wakes'[w].status = "calling_provider"
                              /\ wakes'[w].custodyFailed = wakes[w].custodyFailed
         /\ CommitSessionWake(w) => /\ wakes'[w].status = "committed"
                                    /\ wakes'[w].custodyFailed = wakes[w].custodyFailed
         /\ FailSessionWake(w) => /\ wakes'[w].status = "failed"
                                  /\ wakes'[w].custodyFailed = wakes[w].custodyFailed
         /\ RecordHostFailure(w) => wakes'[w].status = wakes[w].status /\ wakes'[w].custodyFailed = TRUE
         /\ MarkCalling(w) \/ CommitSessionWake(w) \/ FailSessionWake(w) \/ RecordHostFailure(w) =>
              /\ wakes'[w].session = wakes[w].session /\ wakes'[w].ordinal = wakes[w].ordinal
              /\ wakes'[w].origin = wakes[w].origin /\ wakes'[w].plan = wakes[w].plan
              /\ \A v \in Wake \ {w} : wakes'[v] = wakes[v]
  BY DEF SourceTypeOK, WakeRow, WakeStatus, MarkCalling, CommitSessionWake, FailSessionWake, RecordHostFailure

\* A wake row is created where there was none.
LEMMA RowCreated ==
  ASSUME SourceTypeOK, NEW w \in Wake, NEW origin, NEW plan, NEW s, CreateWake(w, origin, plan, s)
  PROVE  /\ wakes[w].status = "none" /\ wakes'[w].status = "assembling"
         /\ wakes'[w].session = s /\ wakes'[w].ordinal = TurnOrdinal(origin, s)
         /\ wakes'[w].origin = origin /\ wakes'[w].plan = plan /\ wakes'[w].custodyFailed = FALSE
         /\ \A v \in Wake \ {w} : wakes'[v] = wakes[v]
  BY DEF SourceTypeOK, WakeRow, CreateWake

\* What these proofs need of HubInv
LEMMA RunTypes ==
  ASSUME HubInv
  PROVE  /\ SourceTypeOK /\ wakes \in [Wake -> WakeRow] /\ stream \in [Wake -> Seq(StreamKind)]
         /\ active \in Wake \cup {NoWake} /\ NoWake \notin Wake /\ pc \in PC
         /\ active = NoWake <=> pc \in Wakeless
         /\ pc # "idle" => up
         /\ up => session \in Session
  BY SourceLedgerAssumption DEF HubInv, SourceTypeOK, WakeServiceTypeOK, RunShape, SourceLedgerAssumption

\* The lifecycle events of a wake, one after the other
LEMMA Told ==
  /\ Append(<<>>, "wake.accepted") = <<"wake.accepted">>
  /\ \A k \in StreamKind : Append(<<"wake.accepted">>, k) = <<"wake.accepted", k>>
  /\ \A k \in StreamKind : Append(<<"wake.accepted", "message.committed">>, k) =
                             <<"wake.accepted", "message.committed", k>>
  <1>1. "wake.accepted" \in StreamKind /\ "message.committed" \in StreamKind
    BY DEF StreamKind
  <1>2. Append(<<>>, "wake.accepted") = <<"wake.accepted">>
    OBVIOUS
  <1>3. ASSUME NEW k \in StreamKind
        PROVE  Append(<<"wake.accepted">>, k) = <<"wake.accepted", k>>
    BY <1>1, AppendToOne
  <1>4. ASSUME NEW k \in StreamKind
        PROVE  Append(<<"wake.accepted", "message.committed">>, k) = <<"wake.accepted", "message.committed", k>>
    BY <1>1, AppendToTwo
  <1>5. QED
    BY <1>2, <1>3, <1>4

LEMMA RowInit == Init => RowFollowsRun
  <1> SUFFICES ASSUME Init PROVE RowFollowsRun
    OBVIOUS
  <1>1. RunHasItsRow
    BY DEF Init, WakeServiceInit, RunHasItsRow
  <1>2. UnwokenIsBlank
    BY DEF Init, SourceInit, WakeServiceInit, UnwokenIsBlank
  <1>3. QED
    BY <1>1, <1>2 DEF RowFollowsRun

\* Steps of the wake in progress before its row is settled, or without it
LEMMA RowInTurn ==
  ASSUME HubInv, RowFollowsRun, WakeStep \/ ToolReturns \/ RestReturns,
         pc \in Unsettled \ {"committing", "throwing"}
  PROVE  RowFollowsRun'
  <1>1. active \in Wake /\ stream' = stream /\ active' = active /\ pc' \in Unsettled
        /\ (wakes' = wakes \/ MarkCalling(active))
    BY RunTypes
       DEF WakeStep, Begin, ShadowReturns, OrientationReturns, HearthReturns, HearthSettles, ProviderReturns,
           Continue, ToolReturns, RestReturns, CallReturns, RefuseCall, RoundLimitReached, Commit,
           PublishMessage, IngestResident, PublishCompleted, PublishAfterCommit, Fail, PublishFailed,
           FirstPhase, EnterPhase, CardThen, RecordToolCall, RecordToolResult, RecordHearthReturn,
           sourceVars, Unsettled, Wakeless
  <1>2. wakes'[active].status \in {wakes[active].status, "calling_provider"}
        /\ \A v \in Wake \ {active} : wakes'[v] = wakes[v]
    BY <1>1, RunTypes, RowMoves
  <1>3. RunHasItsRow'
    BY <1>1, <1>2, RunTypes DEF RowFollowsRun, RunHasItsRow, Unsettled
  <1>4. UnwokenIsBlank'
    BY <1>1, <1>2, RunTypes DEF RowFollowsRun, RunHasItsRow, UnwokenIsBlank, Unsettled
  <1>5. QED
    BY <1>3, <1>4 DEF RowFollowsRun

LEMMA RowSettles ==
  ASSUME HubInv, RowFollowsRun, Commit \/ Fail
  PROVE  RowFollowsRun'
  <1>1. active \in Wake /\ stream' = stream /\ active' = active
        /\ \/ CommitSessionWake(active) /\ pc = "committing" /\ pc' = "committed"
           \/ FailSessionWake(active) /\ pc = "throwing" /\ pc' = "failed"
    BY RunTypes DEF Commit, Fail, Wakeless
  <1>2. wakes'[active].status = (IF pc' = "committed" THEN "committed" ELSE "failed")
        /\ \A v \in Wake \ {active} : wakes'[v] = wakes[v]
    BY <1>1, RunTypes, RowMoves
  <1>3. RunHasItsRow'
    BY <1>1, <1>2, RunTypes DEF RowFollowsRun, RunHasItsRow, Unsettled
  <1>4. UnwokenIsBlank'
    BY <1>1, <1>2, RunTypes DEF RowFollowsRun, UnwokenIsBlank
  <1>5. QED
    BY <1>3, <1>4 DEF RowFollowsRun

LEMMA RowTold ==
  ASSUME HubInv, RowFollowsRun, PublishMessage \/ PublishCompleted \/ PublishFailed \/ IngestResident
  PROVE  RowFollowsRun'
  <1>1. active \in Wake /\ active' = active
    BY RunTypes DEF PublishMessage, PublishCompleted, PublishAfterCommit, PublishFailed, IngestResident, Wakeless
  <1>2. CASE PublishMessage
    <2>1. wakes' = wakes /\ pc = "committed" /\ pc' = "ingesting"
          /\ stream' \in {stream, [stream EXCEPT ![active] = Append(@, "message.committed")]}
      BY <1>2 DEF PublishMessage, PublishAfterCommit, Publish, sourceVars
    <2>2. QED
      BY <1>1, <2>1, RunTypes, Told DEF RowFollowsRun, RunHasItsRow, UnwokenIsBlank, Unsettled, StreamKind
  <1>3. CASE PublishCompleted \/ PublishFailed
    <2>1. wakes' = wakes /\ pc \in {"completing", "failed"} /\ pc' = "returned"
          /\ \A v \in Wake \ {active} : stream'[v] = stream[v]
      BY <1>3, RunTypes DEF PublishCompleted, PublishFailed, PublishAfterCommit, Publish, sourceVars
    <2>2. QED
      BY <1>1, <2>1, RunTypes DEF RowFollowsRun, RunHasItsRow, UnwokenIsBlank, Unsettled, Settled
  <1>4. CASE IngestResident
    <2>1. (wakes' = wakes \/ RecordHostFailure(active)) /\ stream' = stream
          /\ pc = "ingesting" /\ pc' = "completing"
      BY <1>4 DEF IngestResident, sourceVars
    <2>2. wakes'[active].status = wakes[active].status /\ \A v \in Wake \ {active} : wakes'[v] = wakes[v]
      BY <1>1, <2>1, RunTypes, RowMoves
    <2>3. RunHasItsRow'
      BY <1>1, <2>1, <2>2 DEF RowFollowsRun, RunHasItsRow, Unsettled
    <2>4. UnwokenIsBlank'
      <3>1. wakes[active].status = "committed"
        BY <1>1, <2>1, RunTypes DEF RowFollowsRun, RunHasItsRow
      <3>2. QED
        BY <1>1, <2>1, <2>2, <3>1 DEF RowFollowsRun, UnwokenIsBlank
    <2>5. QED
      BY <2>3, <2>4 DEF RowFollowsRun
  <1>5. QED
    BY <1>2, <1>3, <1>4

\* An admission, by whom it was asked for: over HTTP, by the bench or by the Hearth
Admission(w, origin, plan, refused) ==
  /\ Admit(w, origin, plan, refused)
  /\ up /\ pc \in Wakeless
  /\ origin = "self_directed" => pc = "claimed" /\ plan = dispatched /\ dispatched # NoPlan
  /\ origin = "hearth_origin" => pc = "opened"
  /\ origin # "self_directed" => plan = NoPlan
  /\ UNCHANGED <<hostVars, planVars, clockVars, seat>>

\* An admission creates the row; when its event is refused, nobody follows the row.
LEMMA RowAdmitted ==
  ASSUME HubInv, RowFollowsRun, pc \in Wakeless, NEW w \in Wake, NEW origin, NEW plan,
         NEW refused \in Wakeless, Admit(w, origin, plan, refused)
  PROVE  RowFollowsRun'
  <1>1. CreateWake(w, origin, plan, session)
        /\ \/ stream' = [stream EXCEPT ![w] = Append(@, "wake.accepted")] /\ pc' = "admitted" /\ active' = w
           \/ stream' = stream /\ active' = NoWake
    BY DEF Admit
  <1>2. /\ wakes[w].status = "none" /\ wakes'[w].status = "assembling"
        /\ \A v \in Wake \ {w} : wakes'[v] = wakes[v]
    BY <1>1, RunTypes, RowCreated
  <1>3. stream[w] = <<>>
    BY <1>2 DEF RowFollowsRun, UnwokenIsBlank
  <1>4. RunHasItsRow'
    BY <1>1, <1>2, <1>3, RunTypes, Told DEF RunHasItsRow, Unsettled
  <1>5. UnwokenIsBlank'
    BY <1>1, <1>2, RunTypes DEF RowFollowsRun, UnwokenIsBlank
  <1>6. QED
    BY <1>4, <1>5 DEF RowFollowsRun

\* Whatever else happens leaves the rows and the stream alone, and with no wake
\* in progress or where it was.
LEMMA RowElsewhere ==
  ASSUME HubInv, [Next]_vars
  PROVE  \/ (WakeStep \/ ToolReturns \/ RestReturns) /\ pc \notin Wakeless
         \/ \E w \in Wake, origin \in Origin, plan \in Plan \cup {NoPlan}, refused \in Wakeless :
              Admission(w, origin, plan, refused)
         \/ /\ UNCHANGED <<wakes, scroll, stream>>
            /\ \/ UNCHANGED <<pc, active, left>>
               \/ active' = NoWake /\ pc' \in Wakeless /\ (left' = 0 \/ (pc \in Wakeless /\ left' = left))
  <1>1. CASE Run
    BY <1>1, RunTypes
       DEF Run, ToolStep, RestStep, RestFor, RestRefused, HumanReturns, ClearRun, ToolReturns, RestReturns,
           CallReturns, WakeStep, Begin, ShadowReturns, OrientationReturns, HearthReturns, HearthSettles,
           ProviderReturns, Continue, RefuseCall, RoundLimitReached, Commit, PublishMessage, IngestResident,
           PublishCompleted, PublishAfterCommit, Fail, PublishFailed, sourceVars, Wakeless
  <1>2. CASE BenchAdmits \/ HearthWakeStep \/ \E w \in Wake : Submit(w)
    <2>1. CASE \E w \in Wake : Submit(w)
      BY <2>1 DEF Submit, Admission, Origin, Wakeless
    <2>2. CASE BenchAdmits
      BY <2>2, RunTypes
         DEF BenchAdmits, DispatchAdmits, Admission, RunShape, DriftFound, Origin, Wakeless, HubInv, AutonomousWakesTypeOK,
             clockVars, benchVars, sourceVars
    <2>3. CASE HearthWakeStep
      BY <2>3, RunTypes DEF HearthWakeStep, HearthAdmits, HearthReturnsToClock, DriftFound, Admission, Origin, Wakeless,
             ClearRun, clockVars, benchVars, sourceVars
    <2>4. QED
      BY <1>2, <2>1, <2>2, <2>3
  <1>3. CASE BenchSettles \/ BenchFires \/ Manual
    BY <1>3, RunTypes
       DEF BenchSettles, DispatchDeclined, DispatchReturns, DispatchSettles, ClearRun, BenchFires,
           DispatchTooSoon, DispatchPolls, DispatchClaims, Manual, ManualRest, sourceVars, runVars, Wakeless
  <1>4. CASE HearthFires \/ HearthByOperator \/ \E s \in Session : Boot(s)
    BY <1>4, RunTypes
       DEF HearthFires, HearthByOperator, HearthTimerFires, HearthRunNow, HearthOpens, HearthBlocked, HearthPolls,
           Boot, OpenSession, sourceVars, runVars, Wakeless
  <1>5. CASE ForestSettles \/ Close \/ Tick \/ Exit \/ Crash \/ UNCHANGED vars
    BY <1>5 DEF ForestSettles, Close, Tick, Exit, Crash, Stop, ClearRun, vars, sourceVars, runVars, Wakeless
  <1>6. QED
    BY <1>1, <1>2, <1>3, <1>4, <1>5 DEF Next, Progress

LEMMA RowNext == HubInv /\ RowFollowsRun /\ [Next]_vars => RowFollowsRun'
  <1> SUFFICES ASSUME HubInv, RowFollowsRun, [Next]_vars PROVE RowFollowsRun'
    OBVIOUS
  <1>1. CASE (WakeStep \/ ToolReturns \/ RestReturns) /\ pc \notin Wakeless
    <2>1. \/ pc \in Unsettled \ {"committing", "throwing"}
          \/ Commit \/ Fail \/ PublishMessage \/ PublishCompleted \/ PublishFailed \/ IngestResident
      BY <1>1, RunTypes
         DEF WakeStep, ToolReturns, RestReturns, CallReturns, Begin, ShadowReturns, OrientationReturns,
             HearthReturns, HearthSettles, ProviderReturns, Continue, RefuseCall, RoundLimitReached, Unsettled
    <2>2. QED
      BY <1>1, <2>1, RowInTurn, RowSettles, RowTold
  <1>2. CASE \E w \in Wake, origin \in Origin, plan \in Plan \cup {NoPlan}, refused \in Wakeless :
               Admission(w, origin, plan, refused)
    BY <1>2, RowAdmitted DEF Admission
  <1>3. CASE UNCHANGED <<wakes, scroll, stream>> /\ (UNCHANGED <<pc, active>> \/ (active' = NoWake /\ pc' \in Wakeless))
    BY <1>3 DEF RowFollowsRun, RunHasItsRow, UnwokenIsBlank, Settled
  <1>4. QED
    BY <1>1, <1>2, <1>3, RowElsewhere

-----------------------------------------------------------------------------
(* What was announced *)

\* What a step does to the wake rows
LEMMA WakesMove ==
  ASSUME HubInv, [Next]_vars
  PROVE  \/ wakes' = wakes
         \/ /\ active \in Wake /\ active' = active
            /\ \/ MarkCalling(active) /\ pc \in {"admitted", "shadow"}
               \/ CommitSessionWake(active) /\ pc = "committing" /\ pc' = "committed"
               \/ FailSessionWake(active) /\ pc = "throwing"
               \/ RecordHostFailure(active) /\ pc = "ingesting"
         \/ \E w \in Wake, origin \in Origin, plan \in Plan \cup {NoPlan}, refused \in Wakeless :
              Admission(w, origin, plan, refused)
  <1>1. CASE (WakeStep \/ ToolReturns \/ RestReturns) /\ pc \notin Wakeless
    <2>1. active \in Wake /\ active' = active
      BY <1>1, RunTypes
         DEF WakeStep, Begin, ShadowReturns, OrientationReturns, HearthReturns, HearthSettles, ProviderReturns,
             Continue, ToolReturns, RestReturns, CallReturns, RefuseCall, RoundLimitReached, Commit,
             PublishMessage, IngestResident, PublishCompleted, PublishAfterCommit, Fail, PublishFailed
    <2>2. QED
      BY <1>1, <2>1
         DEF WakeStep, Begin, ShadowReturns, OrientationReturns, HearthReturns, HearthSettles, ProviderReturns,
             Continue, ToolReturns, RestReturns, CallReturns, RefuseCall, RoundLimitReached, Commit,
             PublishMessage, IngestResident, PublishCompleted, PublishAfterCommit, Fail, PublishFailed,
             RecordToolCall, RecordToolResult, RecordHearthReturn, sourceVars
  <1>2. QED
    BY <1>1, RowElsewhere

\* What a step does to the wake-event streams
LEMMA StreamMoves ==
  ASSUME HubInv, [Next]_vars
  PROVE  \/ stream' = stream
         \/ /\ wakes' = wakes /\ active' = active /\ active \in Wake
            /\ \/ /\ stream' = [stream EXCEPT ![active] = Append(@, "message.committed")]
                  /\ pc = "committed"
               \/ /\ stream' = [stream EXCEPT ![active] = Append(@, "wake.completed")]
                  /\ pc = "completing"
               \/ /\ stream' = [stream EXCEPT ![active] = Append(@, "wake.failed")]
                  /\ pc = "failed"
         \/ \E w \in Wake, origin \in Origin, plan \in Plan \cup {NoPlan} :
              /\ CreateWake(w, origin, plan, session)
              /\ stream' = [stream EXCEPT ![w] = Append(@, "wake.accepted")]
              /\ active' = w
  <1>1. CASE (WakeStep \/ ToolReturns \/ RestReturns) /\ pc \notin Wakeless
    <2>1. active \in Wake /\ active' = active
      BY <1>1, RunTypes
         DEF WakeStep, Begin, ShadowReturns, OrientationReturns, HearthReturns, HearthSettles, ProviderReturns,
             Continue, ToolReturns, RestReturns, CallReturns, RefuseCall, RoundLimitReached, Commit,
             PublishMessage, IngestResident, PublishCompleted, PublishAfterCommit, Fail, PublishFailed
    <2>2. QED
      BY <1>1, <2>1
         DEF WakeStep, Begin, ShadowReturns, OrientationReturns, HearthReturns, HearthSettles, ProviderReturns,
             Continue, ToolReturns, RestReturns, CallReturns, RefuseCall, RoundLimitReached, Commit,
             PublishMessage, IngestResident, PublishCompleted, PublishAfterCommit, Fail, PublishFailed,
             Publish, sourceVars
  <1>2. CASE \E w \in Wake, origin \in Origin, plan \in Plan \cup {NoPlan}, refused \in Wakeless :
               Admission(w, origin, plan, refused)
    BY <1>2 DEF Admission, Admit
  <1>3. QED
    BY <1>1, <1>2, RowElsewhere

\* Every wake was woken in a lifespan that was born.
WokenIsBorn ==
  \A w \in Wake : wakes[w].status # "none" =>
    wakes[w].session \in Session /\ lifespan[wakes[w].session] # "unborn"

\* A wake keeps its lifespan, origin and plan; a new one belongs to the open lifespan.
LEMMA WakesStay ==
  ASSUME HubInv, [Next]_vars
  PROVE  /\ \A w \in Wake : wakes[w].status # "none" =>
              /\ wakes'[w].status # "none"
              /\ wakes'[w].session = wakes[w].session /\ wakes'[w].ordinal = wakes[w].ordinal
              /\ wakes'[w].origin = wakes[w].origin /\ wakes'[w].plan = wakes[w].plan
              /\ Settled(w) => wakes'[w].status = wakes[w].status \/ active = w
         /\ \A w \in Wake : wakes[w].status = "none" /\ active # w /\ wakes'[w].status # "none" =>
              wakes'[w].session = session /\ session \in Session /\ lifespan[session] = "open"
  <1>1. CASE wakes' = wakes
    BY <1>1 DEF Settled
  <1>2. CASE /\ active \in Wake
             /\ MarkCalling(active) \/ CommitSessionWake(active) \/ FailSessionWake(active) \/ RecordHostFailure(active)
    <2>1. wakes'[active].status # "none" \/ wakes'[active].status = wakes[active].status
      BY <1>2, RunTypes, RowMoves
    <2>2. QED
      BY ZenonT(60), <1>2, <2>1, RunTypes, RowMoves
  <1>3. ASSUME NEW w \in Wake, NEW origin \in Origin, NEW plan \in Plan \cup {NoPlan}, NEW refused \in Wakeless,
               Admission(w, origin, plan, refused)
        PROVE  /\ \A v \in Wake : wakes[v].status # "none" => wakes'[v] = wakes[v]
               /\ \A v \in Wake : wakes[v].status = "none" /\ wakes'[v].status # "none" =>
                    wakes'[v].session = session /\ session \in Session /\ lifespan[session] = "open"
    <2>1. CreateWake(w, origin, plan, session) /\ lifespan[session] = "open"
      BY <1>3 DEF Admission, Admit, CreateWake, MayCreate
    <2>2. wakes[w].status = "none" /\ wakes'[w].session = session /\ \A v \in Wake \ {w} : wakes'[v] = wakes[v]
      BY <2>1, RunTypes, RowCreated
    <2>3. session \in Session
      BY <1>3, RunTypes DEF Admission
    <2>4. QED
      BY <2>1, <2>2, <2>3, RowCreated, RunTypes
  <1>4. QED
    BY <1>1, <1>2, <1>3, WakesMove


LEMMA BornInit == Init => WokenIsBorn
  BY DEF Init, SourceInit, WokenIsBorn, Unwoken

LEMMA BornNext ==
  ASSUME HubInv, RowFollowsRun, WokenIsBorn, [Next]_vars
  PROVE  WokenIsBorn'
  <1>1. \A s \in Session : lifespan[s] # "unborn" => lifespan'[s] # "unborn"
    BY RunTypes, LifespanStep DEF OpenSession, SourceTypeOK
  <1>2. ASSUME NEW w \in Wake, wakes'[w].status # "none"
        PROVE  wakes'[w].session \in Session /\ lifespan'[wakes'[w].session] # "unborn"
    <2>1. wakes[w].status # "none" => wakes'[w].session = wakes[w].session
      BY WakesStay
    <2>2. wakes[w].status = "none" => active # w
      BY RunTypes DEF RowFollowsRun, RunHasItsRow, Unsettled, Wakeless, Settled, PC, AtAwait
    <2>3. wakes[w].status = "none" =>
            wakes'[w].session = session /\ session \in Session /\ lifespan[session] = "open"
      BY <1>2, <2>2, WakesStay
    <2>4. QED
      BY <1>1, <2>1, <2>3 DEF WokenIsBorn
  <1>3. QED
    BY <1>2 DEF WokenIsBorn

\* What StreamTellsTheLedger lets follow the acceptance of a committed wake, written out
Endings == {<<"message.committed">>, <<"wake.completed">>, <<"message.committed", "wake.completed">>}

LEMMA EndingsWrittenOut ==
  {<<"wake.accepted">> \o tail : tail \in Endings} =
    {<<"wake.accepted", "message.committed">>, <<"wake.accepted", "wake.completed">>,
     <<"wake.accepted", "message.committed", "wake.completed">>}
  <1> DEFINE a == "wake.accepted"
             m == "message.committed"
             c == "wake.completed"
  <1>1. a \in StreamKind /\ m \in StreamKind /\ c \in StreamKind
    BY DEF StreamKind
  <1>2. <<a>> \in Seq(StreamKind) /\ <<m>> \in Seq(StreamKind) /\ <<c>> \in Seq(StreamKind)
        /\ <<a, m>> \in Seq(StreamKind)
    BY <1>1
  <1> HIDE DEF a, m, c
  <1>3. <<a>> \o <<m>> = <<a, m>>
    BY <1>1, <1>2, AppendToOne, AppendIsConcat
  <1>4. <<a>> \o <<c>> = <<a, c>>
    BY <1>1, <1>2, AppendToOne, AppendIsConcat
  <1>5. <<m>> \o <<c>> = <<m, c>>
    BY <1>1, <1>2, AppendToOne, AppendIsConcat
  <1>6. <<a, m>> \o <<c>> = <<a, m, c>>
    BY <1>1, <1>2, AppendToTwo, AppendIsConcat
  <1>7. (<<a>> \o <<m>>) \o <<c>> = <<a>> \o (<<m>> \o <<c>>)
    BY <1>2, ConcatAssociative
  <1>8. <<a>> \o <<m, c>> = <<a, m, c>>
    BY <1>3, <1>5, <1>6, <1>7
  <1>9. {<<a>> \o tail : tail \in {<<m>>, <<c>>, <<m, c>>}} = {<<a, m>>, <<a, c>>, <<a, m, c>>}
    BY <1>3, <1>4, <1>8
  <1>10. QED
    BY <1>9 DEF a, m, c, Endings

\* The promises of the stream, with what makes them inductive
AnnouncementInv == RowFollowsRun /\ WokenIsBorn /\ AnnouncementsHold

\* Every event is true when it is announced, and stays true.
LEMMA StreamNext ==
  ASSUME HubInv, RowFollowsRun, StreamTellsTheLedger, [Next]_vars
  PROVE  StreamTellsTheLedger'
  <1> DEFINE Tells(w) ==
               \/ stream[w] \in {<<>>, <<"wake.accepted">>}
               \/ stream[w] = <<"wake.accepted", "wake.failed">> /\ wakes[w].status = "failed"
               \/ /\ wakes[w].status = "committed"
                  /\ stream[w] \in {<<"wake.accepted", "message.committed">>, <<"wake.accepted", "wake.completed">>,
                                    <<"wake.accepted", "message.committed", "wake.completed">>}
  <1>1. \A w \in Wake : Tells(w)
    BY EndingsWrittenOut DEF StreamTellsTheLedger, Endings
  <1>2. ASSUME NEW w \in Wake, stream'[w] = stream[w]
        PROVE  Tells(w)'
    <2>1. CASE stream[w] \in {<<>>, <<"wake.accepted">>}
      BY <1>2, <2>1
    <2>2. CASE stream[w] \notin {<<>>, <<"wake.accepted">>}
      <3>1. Settled(w) /\ wakes[w].status # "none"
        BY <1>1, <2>2 DEF Settled
      <3>2. active = w => pc \notin Unsettled \cup {"committed", "failed"}
        BY <2>2, RunTypes DEF RowFollowsRun, RunHasItsRow
      <3>3. wakes'[w].status = wakes[w].status
        <4>1. CASE active = w
          <5>1. w # NoWake /\ pc \notin Wakeless
            BY <4>1, RunTypes
          <5>2. wakes' = wakes \/ RecordHostFailure(w)
            BY <3>2, <4>1, <5>1, WakesMove DEF Unsettled, Admission
          <5>3. QED
            BY <5>2, RunTypes, RowMoves
        <4>2. CASE active # w
          BY <3>1, <4>2, WakesStay
        <4>3. QED
          BY <4>1, <4>2
      <3>4. QED
        BY <1>1, <1>2, <3>3
    <2>3. QED
      BY <2>1, <2>2
  <1>3. ASSUME active \in Wake, wakes' = wakes, active' = active,
               \/ pc = "committed" /\ stream' = [stream EXCEPT ![active] = Append(@, "message.committed")]
               \/ pc = "completing" /\ stream' = [stream EXCEPT ![active] = Append(@, "wake.completed")]
               \/ pc = "failed" /\ stream' = [stream EXCEPT ![active] = Append(@, "wake.failed")]
        PROVE  Tells(active)'
    <2>1. stream \in [Wake -> Seq(StreamKind)] /\ active # NoWake
          /\ {"message.committed", "wake.completed", "wake.failed"} \subseteq StreamKind
      BY <1>3, RunTypes DEF StreamKind
    <2>2. CASE pc = "committed"
      <3>1. stream[active] = <<"wake.accepted">> /\ wakes[active].status = "committed"
        BY <2>1, <2>2 DEF RowFollowsRun, RunHasItsRow
      <3>2. stream'[active] = <<"wake.accepted", "message.committed">>
        BY <1>3, <2>1, <2>2, <3>1, Told
      <3>3. QED
        BY <1>3, <3>1, <3>2
    <2>3. CASE pc = "completing"
      <3>1. stream[active] \in {<<"wake.accepted">>, <<"wake.accepted", "message.committed">>}
            /\ wakes[active].status = "committed"
        BY <2>1, <2>3 DEF RowFollowsRun, RunHasItsRow
      <3>2. stream'[active] = Append(stream[active], "wake.completed")
        BY <1>3, <2>1, <2>3
      <3>3. stream'[active] \in {<<"wake.accepted", "wake.completed">>,
                                 <<"wake.accepted", "message.committed", "wake.completed">>}
        BY <2>1, <3>1, <3>2, Told
      <3>4. QED
        BY <1>3, <3>1, <3>3
    <2>4. CASE pc = "failed"
      <3>1. stream[active] = <<"wake.accepted">> /\ wakes[active].status = "failed"
        BY <2>1, <2>4 DEF RowFollowsRun, RunHasItsRow
      <3>2. stream'[active] = <<"wake.accepted", "wake.failed">>
        BY <1>3, <2>1, <2>4, <3>1, Told
      <3>3. QED
        BY <1>3, <3>1, <3>2
    <2>5. QED
      BY <1>3, <2>2, <2>3, <2>4
  <1>4. ASSUME NEW w \in Wake, NEW origin, NEW plan, CreateWake(w, origin, plan, session),
               stream' = [stream EXCEPT ![w] = Append(@, "wake.accepted")]
        PROVE  Tells(w)'
    <2>1. wakes[w].status = "none"
      BY <1>4, RunTypes, RowCreated
    <2>2. stream[w] = <<>>
      BY <2>1 DEF RowFollowsRun, UnwokenIsBlank
    <2>3. stream'[w] = Append(<<>>, "wake.accepted")
      BY <1>4, <2>2, RunTypes
    <2>4. stream'[w] = <<"wake.accepted">>
      BY <2>3, Told
    <2>5. QED
      BY <2>4
  <1>5. \A w \in Wake : Tells(w)'
    BY <1>2, <1>3, <1>4, RunTypes, StreamMoves
  <1>6. QED
    BY <1>5, EndingsWrittenOut DEF StreamTellsTheLedger, Endings

\* Only its return ends the run of a wake, unless the process ends.
LEMMA RunEnds ==
  ASSUME HubInv, [Next]_vars, active # NoWake, active' # active, up'
  PROVE  pc = "returned" /\ wakes' = wakes
  <1>1. pc \notin Wakeless
    BY RunTypes
  <1>2. CASE Run
    BY <1>1, <1>2
       DEF Run, ToolStep, RestStep, RestFor, RestRefused, HumanReturns, ToolReturns, RestReturns,
           CallReturns, WakeStep, Begin, ShadowReturns, OrientationReturns, HearthReturns, HearthSettles,
           ProviderReturns, Continue, RefuseCall, RoundLimitReached, Commit, PublishMessage, IngestResident,
           PublishCompleted, PublishAfterCommit, Fail, PublishFailed, sourceVars
  <1>3. CASE BenchSettles \/ BenchFires \/ Manual \/ BenchAdmits
    BY <1>1, <1>3
       DEF BenchSettles, DispatchDeclined, DispatchReturns, DispatchSettles, BenchFires, DispatchTooSoon,
           DispatchPolls, DispatchClaims, Manual, ManualRest, BenchAdmits, DispatchAdmits, sourceVars, runVars, Wakeless
  <1>4. CASE HearthFires \/ HearthByOperator \/ HearthWakeStep
    BY <1>1, <1>4
       DEF HearthFires, HearthByOperator, HearthTimerFires, HearthRunNow, HearthOpens, HearthBlocked, HearthPolls,
           HearthWakeStep, HearthAdmits, HearthReturnsToClock, sourceVars, runVars, Wakeless
  <1>5. CASE (\E s \in Session : Boot(s)) \/ \E w \in Wake : Submit(w)
    BY <1>1, <1>5 DEF Boot, Submit, runVars, Wakeless
  <1>6. CASE ForestSettles \/ Close \/ Tick \/ Exit \/ Crash \/ UNCHANGED vars
    BY <1>6 DEF ForestSettles, Close, Tick, Exit, Crash, Stop, vars, runVars
  <1>7. QED
    BY <1>2, <1>3, <1>4, <1>5, <1>6 DEF Next, Progress

\* No lifespan is opened again.
LEMMA ClosedStaysClosed ==
  ASSUME HubInv, [Next]_vars
  PROVE  \A s \in Session : lifespan[s] = "closed" => lifespan'[s] = "closed"
  <1>1. lifespan \in [Session -> {"unborn", "open", "closed"}]
    BY RunTypes DEF SourceTypeOK
  <1>2. ASSUME NEW t \in Session, OpenSession(t)
        PROVE  \A s \in Session : lifespan[s] = "closed" => lifespan'[s] = "closed"
    BY <1>1, <1>2 DEF OpenSession
  <1>3. CASE UNCHANGED lifespan
    BY <1>3
  <1>4. QED
    BY <1>2, <1>3, LifespanStep

\* A live Hub leaves no accepted wake half done.
LEMMA OwnedNext ==
  ASSUME HubInv, LifespanInv, AnnouncementInv, [Next]_vars
  PROVE  AcceptedWakeIsOwned'
  <1>1. ASSUME NEW w \in Wake, stream'[w] # <<>>, ~Settled(w)', active' # w, up'
        PROVE  lifespan'[wakes'[w].session] = "closed"
    <2>1. wakes[w].status = "none" => stream[w] = <<>> /\ active # w
      BY RunTypes DEF AnnouncementInv, RowFollowsRun, UnwokenIsBlank, RunHasItsRow, Unsettled, Wakeless,
                      Settled, PC, AtAwait
    <2>2. stream'[w] # stream[w] => active = w \/ active' = w
      BY RunTypes, StreamMoves
    <2>3. (wakes[w].status # "none" /\ stream[w] # <<>>) \/ active = w
      BY <1>1, <2>1, <2>2
    <2>4. wakes[w].status # "none"
      BY <2>1, <2>3
    <2>5. /\ wakes[w].session \in Session /\ lifespan[wakes[w].session] # "unborn"
          /\ wakes'[w].session = wakes[w].session
      BY <2>4, WakesStay DEF AnnouncementInv, WokenIsBorn
    <2>6. CASE lifespan[wakes[w].session] = "closed"
      <3>1. \A s \in Session : lifespan[s] = "closed" => lifespan'[s] = "closed"
        BY ClosedStaysClosed
      <3>2. QED
        BY <2>5, <2>6, <3>1
    <2>7. CASE lifespan[wakes[w].session] = "open"
      <3>1. CASE \E s \in Session : OpenSession(s) /\ session' = s
        BY <2>5, <2>7, <3>1 DEF OpenSession
      <3>2. CASE up /\ active = w
        <4>1. Settled(w) /\ wakes' = wakes
          BY <1>1, <3>2, RunTypes, RunEnds DEF AnnouncementInv, RowFollowsRun, RunHasItsRow
        <4>2. QED
          BY <1>1, <4>1 DEF Settled
      <3>3. CASE up /\ active # w
        <4>1. ~Settled(w)
          BY <1>1, <2>4, <3>3, WakesStay DEF Settled
        <4>2. QED
          BY <2>3, <2>7, <3>3, <4>1 DEF AnnouncementInv, AnnouncementsHold, AcceptedWakeIsOwned
      <3>4. QED
        BY <1>1, <3>1, <3>2, <3>3, LifespanStep
    <2>8. QED
      BY <2>5, <2>6, <2>7, RunTypes DEF SourceTypeOK
  <1>2. QED
    BY <1>1 DEF AcceptedWakeIsOwned

LEMMA AnnouncementInit == Init => AnnouncementInv
  <1> SUFFICES ASSUME Init PROVE AnnouncementInv
    OBVIOUS
  <1>1. \A w \in Wake : stream[w] = <<>>
    BY DEF Init, WakeServiceInit
  <1>2. AnnouncementsHold
    BY <1>1 DEF AnnouncementsHold, AcceptedWakeIsOwned, StreamTellsTheLedger
  <1>3. QED
    BY <1>2, RowInit, BornInit DEF AnnouncementInv

\* The row of the wake in progress, its stream and its place in the orchestration move
\* together (performAdmittedWake, publish).
THEOREM AnnouncementInvariance == Spec => []AnnouncementInv
  <1>1. HubInv /\ LifespanInv /\ AnnouncementInv /\ [Next]_vars => AnnouncementInv'
    BY RowNext, BornNext, StreamNext, OwnedNext DEF AnnouncementInv, AnnouncementsHold
  <1>2. QED
    BY <1>1, AnnouncementInit, HubInvariance, LifespanInvariance, PTL DEF Spec

\* What the stream of wake events announced holds: an accepted wake is settled, in
\* progress, or was orphaned by the death of its process, and no renderer is told of
\* an ending that the ledger does not have (publish, commitSessionWake, failSessionWake).
THEOREM HubAnnouncementsHold == Spec => []AnnouncementsHold
  <1>1. AnnouncementInv => AnnouncementsHold
    BY DEF AnnouncementInv
  <1>2. QED
    BY <1>1, AnnouncementInvariance, PTL

-----------------------------------------------------------------------------
(* Turns *)

\* Points of a turn where its messages may still be answered
InTurn == Unsettled \ {"throwing"}

\* What a step does to the Scroll and to the calls that wait for a result
TurnMove ==
  \/ /\ scroll' = scroll
     /\ \/ active' = NoWake
        \/ /\ active' = active
           /\ pc' \in InTurn => pc \in InTurn /\ left' = left /\ (pc' = "hearthCalled" <=> pc = "hearthCalled")
        \/ active' \in Wake /\ wakes[active'].status = "none"
  \/ /\ active \in Wake /\ active' = active /\ wakes' = wakes
     /\ \E n \in 1..MaxCalls : scroll' = ScrollWith(active, "assistant_tool_call", n)
                               /\ \/ pc = "orienting" /\ n = 1 /\ pc' = "hearthCalled" /\ left' = left
                                  \/ pc = "provider" /\ pc' = "calling" /\ left' = n
  \/ /\ active \in Wake /\ active' = active /\ wakes' = wakes
     /\ scroll' = ScrollWith(active, "tool_result", 0)
     /\ \/ pc = "hearthCalled" /\ pc' = "hearthReturned" /\ left' = left
        \/ /\ pc \in {"tool", "resting", "refusing"} /\ pc' \in {"calling", "refusing", "throwing"}
           /\ left > 0 /\ left' = left - 1
  \/ /\ active \in Wake /\ active' = active /\ CommitSessionWake(active)
     /\ pc = "committing" /\ pc' = "committed"
  \/ /\ active = NoWake
     /\ \E w \in Wake, plan \in Plan \cup {NoPlan} :
          /\ CreateWake(w, "human_present", plan, session) /\ active' \in {w, NoWake}
          /\ scroll' = [scroll EXCEPT ![session] = Append(@, [wake |-> w, kind |-> "user", calls |-> 0])]
          /\ session \in Session

LEMMA TurnMoves ==
  ASSUME HubInv, [Next]_vars
  PROVE  TurnMove
  <1>1. CASE (WakeStep \/ ToolReturns \/ RestReturns) /\ pc \notin Wakeless
    <2>1. active \in Wake /\ active' = active
      BY <1>1, RunTypes
         DEF WakeStep, Begin, ShadowReturns, OrientationReturns, HearthReturns, HearthSettles, ProviderReturns,
             Continue, ToolReturns, RestReturns, CallReturns, RefuseCall, RoundLimitReached, Commit,
             PublishMessage, IngestResident, PublishCompleted, PublishAfterCommit, Fail, PublishFailed
    <2>2. CASE OrientationReturns \/ HearthReturns \/ HearthSettles
      <3>1. 1 \in 1..MaxCalls
        BY WakeServiceAssumption DEF WakeServiceAssumption
      <3>2. QED
        BY <2>1, <2>2, <3>1
           DEF OrientationReturns, HearthReturns, HearthSettles, CardThen, RecordToolCall, RecordHearthReturn,
               TurnMove, InTurn, Unsettled, sourceVars
    <2>3. CASE ProviderReturns
      BY <2>1, <2>3 DEF ProviderReturns, RecordToolCall, TurnMove, InTurn, Unsettled, sourceVars
    <2>4. CASE ToolReturns \/ RestReturns \/ RefuseCall
      <3>1. left > 0
        BY <2>4 DEF ToolReturns, RestReturns, CallReturns, RefuseCall, HubInv, RunShape
      <3>2. QED
        BY <2>1, <2>4, <3>1 DEF ToolReturns, RestReturns, CallReturns, RefuseCall, CardThen, RecordToolResult, TurnMove
    <2>5. CASE Commit
      BY <2>1, <2>5 DEF Commit, TurnMove
    <2>6. CASE Begin \/ ShadowReturns \/ Continue \/ RoundLimitReached
      BY <2>1, <2>6
         DEF Begin, ShadowReturns, Continue, RoundLimitReached, FirstPhase, EnterPhase, CardThen, MarkCalling,
             TurnMove, InTurn, Unsettled, sourceVars
    <2>7. CASE PublishMessage \/ IngestResident \/ PublishCompleted \/ Fail \/ PublishFailed
      BY <2>1, <2>7
         DEF PublishMessage, IngestResident, PublishCompleted, PublishAfterCommit, Fail, PublishFailed,
             FailSessionWake, RecordHostFailure, TurnMove, InTurn, Unsettled, sourceVars
    <2>8. QED
      BY <1>1, <2>2, <2>3, <2>4, <2>5, <2>6, <2>7 DEF WakeStep
  <1>2. ASSUME NEW w \in Wake, NEW origin \in Origin, NEW plan \in Plan \cup {NoPlan}, NEW refused \in Wakeless,
               Admission(w, origin, plan, refused)
        PROVE  TurnMove
    <2>1. active = NoWake /\ session \in Session
      BY <1>2, RunTypes DEF Admission
    <2>2. CreateWake(w, origin, plan, session) /\ active' \in {w, NoWake} /\ wakes[w].status = "none"
      BY <1>2 DEF Admission, Admit, CreateWake
    <2>3. CASE origin = "human_present"
      BY <2>1, <2>2, <2>3 DEF TurnMove, CreateWake
    <2>4. CASE origin # "human_present"
      BY <2>2, <2>4 DEF TurnMove, CreateWake
    <2>5. QED
      BY <2>3, <2>4
  <1>3. CASE /\ scroll' = scroll
             /\ UNCHANGED <<pc, active, left>> \/ active' = NoWake
    BY <1>3 DEF TurnMove
  <1>4. QED
    BY <1>1, <1>2, <1>3, RowElsewhere

\* No call waits for a result where none can be given.
LeftIsAnswered ==
  pc \in Wakeless \cup {"admitted", "shadow", "orienting", "hearthCalled", "hearthReturned", "provider", "committing"} =>
    left = 0

LEMMA LeftNext ==
  ASSUME HubInv, LeftIsAnswered, [Next]_vars
  PROVE  LeftIsAnswered'
  <1>1. CASE (WakeStep \/ ToolReturns \/ RestReturns) /\ pc \notin Wakeless
    BY <1>1
       DEF WakeStep, Begin, ShadowReturns, OrientationReturns, HearthReturns, HearthSettles, ProviderReturns,
           Continue, ToolReturns, RestReturns, CallReturns, RefuseCall, RoundLimitReached, Commit,
           PublishMessage, IngestResident, PublishCompleted, PublishAfterCommit, Fail, PublishFailed,
           FirstPhase, EnterPhase, CardThen, LeftIsAnswered, Wakeless
  <1>2. CASE \E w \in Wake, origin \in Origin, plan \in Plan \cup {NoPlan}, refused \in Wakeless :
               Admission(w, origin, plan, refused)
    BY <1>2 DEF Admission, Admit, LeftIsAnswered
  <1>3. CASE \/ UNCHANGED <<pc, active, left>>
             \/ active' = NoWake /\ pc' \in Wakeless /\ (left' = 0 \/ (pc \in Wakeless /\ left' = left))
    BY <1>3 DEF LeftIsAnswered
  <1>4. QED
    BY <1>1, <1>2, <1>3, RowElsewhere


TurnsOf(s) == {w \in Wake : wakes[w].session = s}

\* No turn of a lifespan has an ordinal beyond their number.
OrdinalsAreCounted ==
  \A v \in Wake : wakes[v].session # NoSession => wakes[v].ordinal <= Cardinality(TurnsOf(wakes[v].session))

\* A row of a lifespan's Scroll belongs to a wake of that lifespan.
RowsAreAtHome == \A s \in Session : \A i \in DOMAIN scroll[s] : wakes[scroll[s][i].wake].session = s

\* The lifespan that the Hearth opened is untouched until its wake is admitted.
FreshIsUntouched ==
  pc = "opened" => scroll[session] = <<>> /\ session \notin tended /\ TurnsOf(session) = {}

\* What every step does to the turns of a lifespan: one more, or none.
LEMMA TurnsMove ==
  ASSUME HubInv, AnnouncementInv, [Next]_vars
  PROVE  \/ \A w \in Wake : wakes'[w].session = wakes[w].session /\ wakes'[w].ordinal = wakes[w].ordinal
                           /\ wakes'[w].origin = wakes[w].origin /\ wakes'[w].plan = wakes[w].plan
         \/ \E w \in Wake, origin \in Origin, plan \in Plan \cup {NoPlan}, refused \in Wakeless :
              /\ Admission(w, origin, plan, refused)
              /\ session \in Session /\ wakes[w] = Unwoken /\ active = NoWake
              /\ CreateWake(w, origin, plan, session)
              /\ wakes'[w].session = session /\ wakes'[w].ordinal = TurnOrdinal(origin, session)
              /\ wakes'[w].origin = origin /\ wakes'[w].plan = plan /\ wakes'[w].status = "assembling"
              /\ \A v \in Wake \ {w} : wakes'[v] = wakes[v]
  <1>1. CASE wakes' = wakes
    BY <1>1
  <1>2. CASE /\ active \in Wake
             /\ MarkCalling(active) \/ CommitSessionWake(active) \/ FailSessionWake(active) \/ RecordHostFailure(active)
    <2>1. SourceTypeOK
      BY RunTypes
    <2>2. \A v \in Wake : MarkCalling(v) \/ CommitSessionWake(v) \/ FailSessionWake(v) \/ RecordHostFailure(v) =>
            /\ wakes'[v].session = wakes[v].session /\ wakes'[v].ordinal = wakes[v].ordinal
            /\ wakes'[v].origin = wakes[v].origin /\ wakes'[v].plan = wakes[v].plan
            /\ \A u \in Wake \ {v} : wakes'[u] = wakes[u]
      BY <2>1, RowMoves
    <2>3. /\ wakes'[active].session = wakes[active].session /\ wakes'[active].ordinal = wakes[active].ordinal
          /\ wakes'[active].origin = wakes[active].origin /\ wakes'[active].plan = wakes[active].plan
          /\ \A u \in Wake \ {active} : wakes'[u] = wakes[u]
      BY <1>2, <2>2
    <2>4. \A w \in Wake : /\ wakes'[w].session = wakes[w].session /\ wakes'[w].ordinal = wakes[w].ordinal
                          /\ wakes'[w].origin = wakes[w].origin /\ wakes'[w].plan = wakes[w].plan
      BY <2>3
    <2>5. QED
      BY <2>4
  <1>3. ASSUME NEW w \in Wake, NEW origin \in Origin, NEW plan \in Plan \cup {NoPlan}, NEW refused \in Wakeless,
               Admission(w, origin, plan, refused)
        PROVE  /\ session \in Session /\ wakes[w] = Unwoken /\ active = NoWake
               /\ CreateWake(w, origin, plan, session)
               /\ wakes'[w].session = session /\ wakes'[w].ordinal = TurnOrdinal(origin, session)
               /\ wakes'[w].origin = origin /\ wakes'[w].plan = plan /\ wakes'[w].status = "assembling"
               /\ \A v \in Wake \ {w} : wakes'[v] = wakes[v]
    <2>1. CreateWake(w, origin, plan, session) /\ session \in Session /\ active = NoWake
      BY <1>3, RunTypes DEF Admission, Admit
    <2>2. wakes[w] = Unwoken
      BY <2>1, RunTypes, RowCreated DEF AnnouncementInv, RowFollowsRun, UnwokenIsBlank
    <2>3. QED
      BY <2>1, <2>2, RunTypes, RowCreated
  <1>4. QED
    BY <1>1, <1>2, <1>3, WakesMove

\* Ordinals stay apart although they are counted before the transaction: a Hearth
\* wake, which takes 1 without counting, is the first of its lifespan.
LEMMA OrdinalsNext ==
  ASSUME HubInv, AnnouncementInv, FreshIsUntouched, OrdinalsAreCounted, TurnOrdinalsDiffer, [Next]_vars
  PROVE  OrdinalsAreCounted' /\ TurnOrdinalsDiffer'
  <1>1. CASE \A w \in Wake : wakes'[w].session = wakes[w].session /\ wakes'[w].ordinal = wakes[w].ordinal
    <2>1. \A s : TurnsOf(s)' = TurnsOf(s)
      BY <1>1 DEF TurnsOf
    <2>2. OrdinalsAreCounted'
      BY <1>1, <2>1 DEF OrdinalsAreCounted
    <2>3. QED
      BY <1>1, <2>2 DEF TurnOrdinalsDiffer
  <1>2. ASSUME NEW w \in Wake, NEW origin \in Origin, NEW plan \in Plan \cup {NoPlan}, NEW refused \in Wakeless,
               Admission(w, origin, plan, refused), session \in Session, wakes[w] = Unwoken,
               wakes'[w].session = session, wakes'[w].ordinal = TurnOrdinal(origin, session),
               \A v \in Wake \ {w} : wakes'[v] = wakes[v]
        PROVE  OrdinalsAreCounted' /\ TurnOrdinalsDiffer'
    <2> DEFINE Then(s) == {v \in Wake : wakes'[v].session = s}
    <2>1. w \notin TurnsOf(session) /\ wakes[w].session = NoSession /\ NoSession \notin Session
      BY <1>2, SourceLedgerAssumption DEF TurnsOf, Unwoken, SourceLedgerAssumption
    <2>2. Then(session) = TurnsOf(session) \cup {w}
      BY <1>2, <2>1 DEF TurnsOf
    <2>3. \A s \in Session \ {session} : Then(s) = TurnsOf(s)
      BY <1>2, <2>1 DEF TurnsOf
    <2>4. IsFiniteSet(TurnsOf(session)) /\ Cardinality(TurnsOf(session)) \in Nat
      BY FS_Subset, FS_CardinalityType, SourceLedgerAssumption DEF TurnsOf, SourceLedgerAssumption
    <2>5. Cardinality(TurnsOf(session) \cup {w}) = Cardinality(TurnsOf(session)) + 1
      BY <2>1, <2>4, FS_AddElement
    <2>6. TurnOrdinal(origin, session) = Cardinality(TurnsOf(session)) + 1
      <3>1. CASE origin = "hearth_origin"
        <4>1. TurnsOf(session) = {}
          BY <1>2, <3>1 DEF Admission, FreshIsUntouched
        <4>2. QED
          BY <3>1, <4>1, FS_EmptySet DEF TurnOrdinal
      <3>2. CASE origin # "hearth_origin"
        BY <3>2 DEF TurnOrdinal, TurnsOf
      <3>3. QED
        BY <3>1, <3>2
    <2>7. \A v \in Wake \ {w} : wakes[v].session \in Session \cup {NoSession} /\ wakes[v].ordinal \in Nat
      BY RunTypes DEF WakeRow
    <2>8. \A v \in Wake \ {w} : wakes[v].session # NoSession =>
                                 wakes[v].ordinal <= Cardinality(TurnsOf(wakes[v].session))
      BY DEF OrdinalsAreCounted
    <2>9. ASSUME NEW v \in Wake, wakes'[v].session # NoSession
          PROVE  wakes'[v].ordinal <= Cardinality(Then(wakes'[v].session))
      <3> HIDE DEF Then
      <3>1. Cardinality(Then(session)) = Cardinality(TurnsOf(session)) + 1
        BY <2>2, <2>5
      <3>2. CASE v = w
        BY <1>2, <2>4, <2>6, <3>1, <3>2
      <3>3. CASE v # w /\ wakes[v].session = session
        <4>1. wakes'[v] = wakes[v] /\ wakes[v].ordinal \in Nat /\ wakes[v].session # NoSession
          BY <1>2, <2>7, <2>9, <3>3
        <4>2. wakes[v].ordinal <= Cardinality(TurnsOf(session))
          BY <2>8, <3>3, <4>1
        <4>3. QED
          BY <2>4, <3>1, <3>3, <4>1, <4>2
      <3>4. CASE v # w /\ wakes[v].session # session
        BY <1>2, <2>3, <2>7, <2>8, <2>9, <3>4
      <3>5. QED
        BY <3>2, <3>3, <3>4
    <2>10. OrdinalsAreCounted'
      BY <2>9 DEF OrdinalsAreCounted, TurnsOf
    <2>11. \A v \in Wake \ {w} : wakes[v].session = session => wakes[v].ordinal # wakes'[w].ordinal
      BY <1>2, <2>1, <2>4, <2>6, <2>7, <2>8
    <2>12. TurnOrdinalsDiffer'
      BY <1>2, <2>11 DEF TurnOrdinalsDiffer
    <2>13. QED
      BY <2>10, <2>12
  <1>3. QED
    BY <1>1, <1>2, TurnsMove


\* Calls that wait for a result; the Hearth call is not counted in `left`.
Due == IF pc = "hearthCalled" THEN 1 ELSE left

\* A step adds one row to the Scroll of the current lifespan ...
Says(row) ==
  /\ row \in ScrollRow /\ session \in Session
  /\ scroll' = [scroll EXCEPT ![session] = Append(@, row)]
  /\ wakes'[row.wake].session = session
  /\ \A v \in Wake \ {row.wake} : wakes'[v] = wakes[v]
  /\ \/ /\ row.kind = "assistant_tool_call" /\ row.wake = active /\ active' = active
        /\ wakes' = wakes /\ wakes[active].status # "committed"
        /\ pc \in InTurn /\ Due = 0 /\ Due' = row.calls
     \/ /\ row.kind = "tool_result" /\ row.wake = active /\ active' = active
        /\ wakes' = wakes /\ wakes[active].status # "committed"
        /\ pc \in InTurn /\ Due > 0 /\ (pc' \in InTurn => Due' = Due - 1)
     \/ /\ row.kind = "resident" /\ row.wake = active /\ active' = active
        /\ wakes[active].status # "committed" /\ wakes'[active].status = "committed"
        /\ wakes'[active].session = wakes[active].session
        /\ pc \in InTurn /\ pc' \notin InTurn /\ Due = 0
     \/ /\ row.kind = "user" /\ active = NoWake /\ active' \in {row.wake, NoWake}
        /\ wakes[row.wake] = Unwoken /\ wakes'[row.wake].status = "assembling"

\* ... or none.
SaysNothing ==
  /\ scroll' = scroll
  /\ \A w \in Wake : wakes'[w].status = "committed" <=> wakes[w].status = "committed"
  /\ \/ active' = NoWake
     \/ active' = active /\ (pc' \in InTurn => pc \in InTurn /\ Due' = Due)
     \/ active' \in Wake /\ wakes[active'] = Unwoken

LEMMA SaysOneThing ==
  ASSUME HubInv, AnnouncementInv, LeftIsAnswered, [Next]_vars
  PROVE  SaysNothing \/ \E row : Says(row)
  <1> USE RunTypes
  <1>1. active \in Wake /\ pc \in InTurn =>
          /\ wakes[active].status \in {"assembling", "calling_provider"}
          /\ wakes[active].session = session /\ session \in Session
    BY WakeInProgress DEF AnnouncementInv, RowFollowsRun, RunHasItsRow, InTurn, Unsettled, Wakeless
  <1>2. ASSUME NEW n \in 1..MaxCalls, active \in Wake, active' = active, wakes' = wakes,
               scroll' = ScrollWith(active, "assistant_tool_call", n),
               \/ pc = "orienting" /\ n = 1 /\ pc' = "hearthCalled" /\ left' = left
               \/ pc = "provider" /\ pc' = "calling" /\ left' = n
        PROVE  \E row : Says(row)
    <2> DEFINE row == [wake |-> active, kind |-> "assistant_tool_call", calls |-> n]
    <2>1. pc \in InTurn /\ Due = 0 /\ Due' = n
      BY <1>2 DEF LeftIsAnswered, Due, InTurn, Unsettled
    <2>2. row \in ScrollRow
      BY <1>2, WakeServiceAssumption DEF ScrollRow, RowKind, WakeServiceAssumption
    <2>3. scroll' = [scroll EXCEPT ![session] = Append(@, row)]
      BY <1>1, <1>2, <2>1 DEF ScrollWith
    <2>4. Says(row)
      BY <1>1, <1>2, <2>1, <2>2, <2>3 DEF Says
    <2>5. QED
      BY <2>4
  <1>3. ASSUME active \in Wake, active' = active, wakes' = wakes,
               scroll' = ScrollWith(active, "tool_result", 0),
               \/ pc = "hearthCalled" /\ pc' = "hearthReturned" /\ left' = left
               \/ /\ pc \in {"tool", "resting", "refusing"} /\ pc' \in {"calling", "refusing", "throwing"}
                  /\ left > 0 /\ left' = left - 1
        PROVE  \E row : Says(row)
    <2> DEFINE row == [wake |-> active, kind |-> "tool_result", calls |-> 0]
    <2>1. pc \in InTurn /\ Due > 0 /\ (pc' \in InTurn => Due' = Due - 1)
      BY <1>3 DEF LeftIsAnswered, Due, InTurn, Unsettled
    <2>2. row \in ScrollRow
      BY <1>3 DEF ScrollRow, RowKind
    <2>3. scroll' = [scroll EXCEPT ![session] = Append(@, row)]
      BY <1>1, <1>3, <2>1 DEF ScrollWith
    <2>4. Says(row)
      BY <1>1, <1>3, <2>1, <2>2, <2>3 DEF Says
    <2>5. QED
      BY <2>4
  <1>4. ASSUME active \in Wake, active' = active, CommitSessionWake(active), pc = "committing", pc' = "committed"
        PROVE  \E row : Says(row)
    <2> DEFINE row == [wake |-> active, kind |-> "resident", calls |-> 0]
    <2>1. pc \in InTurn /\ pc' \notin InTurn /\ Due = 0
      BY <1>4 DEF LeftIsAnswered, Due, InTurn, Unsettled
    <2>2. row \in ScrollRow
      BY <1>4 DEF ScrollRow, RowKind
    <2>3. scroll' = [scroll EXCEPT ![session] = Append(@, row)]
      BY <1>1, <1>4, <2>1 DEF ScrollWith, CommitSessionWake
    <2>4. /\ wakes'[active].status = "committed" /\ wakes'[active].session = wakes[active].session
          /\ \A v \in Wake \ {active} : wakes'[v] = wakes[v]
      BY <1>4, RowMoves
    <2>5. Says(row)
      BY <1>1, <1>4, <2>1, <2>2, <2>3, <2>4 DEF Says
    <2>6. QED
      BY <2>5
  <1>5. ASSUME active = NoWake, NEW w \in Wake, NEW plan \in Plan \cup {NoPlan},
               CreateWake(w, "human_present", plan, session), active' \in {w, NoWake}, session \in Session,
               scroll' = [scroll EXCEPT ![session] = Append(@, [wake |-> w, kind |-> "user", calls |-> 0])]
        PROVE  \E row : Says(row)
    <2> DEFINE row == [wake |-> w, kind |-> "user", calls |-> 0]
    <2>1. row \in ScrollRow
      BY DEF ScrollRow, RowKind
    <2>2. wakes[w] = Unwoken
      BY <1>5, RowCreated DEF AnnouncementInv, RowFollowsRun, UnwokenIsBlank
    <2>3. /\ wakes'[w].status = "assembling" /\ wakes'[w].session = session
          /\ \A v \in Wake \ {w} : wakes'[v] = wakes[v]
      BY <1>5, RowCreated
    <2>4. Says(row)
      BY <1>5, <2>1, <2>2, <2>3 DEF Says
    <2>5. QED
      BY <2>4
  <1>6. ASSUME scroll' = scroll,
               \/ active' = NoWake
               \/ /\ active' = active
                  /\ pc' \in InTurn => pc \in InTurn /\ left' = left /\ (pc' = "hearthCalled" <=> pc = "hearthCalled")
               \/ active' \in Wake /\ wakes[active'].status = "none"
        PROVE  SaysNothing \/ \E row : Says(row)
    <2>1. \/ active' = NoWake
          \/ active' = active /\ (pc' \in InTurn => pc \in InTurn /\ Due' = Due)
          \/ active' \in Wake /\ wakes[active'] = Unwoken
      BY <1>6 DEF Due, AnnouncementInv, RowFollowsRun, UnwokenIsBlank
    <2>2. CASE \A w \in Wake : wakes'[w].status = "committed" <=> wakes[w].status = "committed"
      BY <1>6, <2>1, <2>2 DEF SaysNothing
    <2>3. CASE wakes' = wakes
      BY <2>2, <2>3
    <2>4. CASE /\ active \in Wake
               /\ \/ MarkCalling(active) /\ pc \in {"admitted", "shadow"}
                  \/ FailSessionWake(active) /\ pc = "throwing"
                  \/ RecordHostFailure(active)
      <3>1. pc \in {"admitted", "shadow", "throwing"} => wakes[active].status # "committed"
        BY <2>4 DEF AnnouncementInv, RowFollowsRun, RunHasItsRow, Unsettled
      <3>2. \A v \in Wake \ {active} : wakes'[v] = wakes[v]
        BY <2>4, RowMoves
      <3>3. wakes'[active].status = "committed" <=> wakes[active].status = "committed"
        BY <2>4, <3>1, RowMoves
      <3>4. QED
        BY <2>2, <3>2, <3>3
    <2>5. CASE active \in Wake /\ active' = active /\ CommitSessionWake(active) /\ pc = "committing" /\ pc' = "committed"
      BY <1>4, <2>5
    <2>6. ASSUME NEW w \in Wake, NEW origin \in Origin, NEW plan \in Plan \cup {NoPlan}, NEW refused \in Wakeless,
                 Admission(w, origin, plan, refused)
          PROVE  \A v \in Wake : wakes'[v].status = "committed" <=> wakes[v].status = "committed"
      <3>1. CreateWake(w, origin, plan, session)
        BY <2>6 DEF Admission, Admit
      <3>2. wakes[w].status = "none" /\ wakes'[w].status = "assembling" /\ \A v \in Wake \ {w} : wakes'[v] = wakes[v]
        BY <3>1, RowCreated
      <3>3. QED
        BY <3>2
    <2>7. CASE \E w \in Wake, origin \in Origin, plan \in Plan \cup {NoPlan}, refused \in Wakeless :
                 Admission(w, origin, plan, refused)
      <3>1. \A v \in Wake : wakes'[v].status = "committed" <=> wakes[v].status = "committed"
        BY <2>6, <2>7
      <3>2. QED
        BY <2>2, <3>1
    <2>8. CASE /\ active \in Wake /\ active' = active
               /\ \/ MarkCalling(active) /\ pc \in {"admitted", "shadow"}
                  \/ CommitSessionWake(active) /\ pc = "committing" /\ pc' = "committed"
                  \/ FailSessionWake(active) /\ pc = "throwing"
                  \/ RecordHostFailure(active) /\ pc = "ingesting"
      <3>1. CASE CommitSessionWake(active) /\ pc = "committing" /\ pc' = "committed"
        BY <2>5, <2>8, <3>1
      <3>2. CASE MarkCalling(active) /\ pc \in {"admitted", "shadow"}
        BY <2>4, <2>8, <3>2
      <3>3. CASE (FailSessionWake(active) /\ pc = "throwing") \/ RecordHostFailure(active)
        BY <2>4, <2>8, <3>3
      <3>4. QED
        BY <2>8, <3>1, <3>2, <3>3
    <2>9. QED
      BY <2>3, <2>7, <2>8, WakesMove
  <1>7. QED
    BY <1>2, <1>3, <1>4, <1>5, <1>6, TurnMoves DEF TurnMove


LEMMA OneRowMore ==
  ASSUME NEW rows \in Seq(ScrollRow), NEW row \in ScrollRow
  PROVE  /\ Append(rows, row) \in Seq(ScrollRow)
         /\ Len(rows) \in Nat /\ Len(Append(rows, row)) = Len(rows) + 1
         /\ DOMAIN rows = 1..Len(rows)
         /\ DOMAIN Append(rows, row) = DOMAIN rows \cup {Len(rows) + 1}
         /\ \A i \in DOMAIN rows : Append(rows, row)[i] = rows[i]
         /\ Append(rows, row)[Len(rows) + 1] = row
  <1>1. Append(rows, row) \in Seq(ScrollRow) /\ Len(Append(rows, row)) = Len(rows) + 1
        /\ Append(rows, row)[Len(rows) + 1] = row
        /\ \A i \in 1..Len(rows) : Append(rows, row)[i] = rows[i]
    BY AppendProperties
  <1>2. Len(rows) \in Nat /\ DOMAIN rows = 1..Len(rows) /\ DOMAIN Append(rows, row) = 1..(Len(rows) + 1)
    BY <1>1
  <1>3. 1..(Len(rows) + 1) = (1..Len(rows)) \cup {Len(rows) + 1}
    BY <1>2
  <1>4. QED
    BY <1>1, <1>2, <1>3


\* A row of the Scroll names a wake.
LEMMA RowNamesItsWake ==
  ASSUME SourceTypeOK, NEW s \in Session, NEW i \in DOMAIN scroll[s]
  PROVE  scroll[s][i] \in ScrollRow /\ scroll[s][i].wake \in Wake
  <1>1. scroll[s] \in Seq(ScrollRow)
    BY DEF SourceTypeOK
  <1>2. scroll[s][i] \in ScrollRow
    BY <1>1, ElementOfSeq
  <1>3. QED
    BY <1>2 DEF ScrollRow

LEMMA HomeNext ==
  ASSUME HubInv, AnnouncementInv, LeftIsAnswered, RowsAreAtHome, [Next]_vars
  PROVE  RowsAreAtHome'
  <1>1. \A s \in Session : scroll[s] \in Seq(ScrollRow)
    BY DEF HubInv, SourceTypeOK
  <1>2. ASSUME NEW s \in Session, NEW i \in DOMAIN scroll[s]
        PROVE  scroll[s][i].wake \in Wake /\ wakes'[scroll[s][i].wake].session = s
    <2>1. scroll[s][i].wake \in Wake /\ wakes[scroll[s][i].wake].session = s
      BY RunTypes, RowNamesItsWake DEF RowsAreAtHome
    <2>2. wakes[scroll[s][i].wake].status # "none"
      BY <2>1, SourceLedgerAssumption
         DEF AnnouncementInv, RowFollowsRun, UnwokenIsBlank, Unwoken, SourceLedgerAssumption
    <2>3. QED
      BY <2>1, <2>2, WakesStay
  <1>3. CASE scroll' = scroll
    BY <1>2, <1>3 DEF RowsAreAtHome
  <1>4. ASSUME NEW row, Says(row)
        PROVE  RowsAreAtHome'
    <2>1. scroll' = [scroll EXCEPT ![session] = Append(@, row)] /\ row \in ScrollRow /\ session \in Session
          /\ wakes'[row.wake].session = session
      BY <1>4 DEF Says
    <2>2. /\ Append(scroll[session], row) \in Seq(ScrollRow)
          /\ DOMAIN Append(scroll[session], row) = DOMAIN scroll[session] \cup {Len(scroll[session]) + 1}
          /\ \A i \in DOMAIN scroll[session] : Append(scroll[session], row)[i] = scroll[session][i]
          /\ Append(scroll[session], row)[Len(scroll[session]) + 1] = row
      BY <1>1, <2>1, OneRowMore
    <2>3. scroll'[session] = Append(scroll[session], row) /\ \A s \in Session \ {session} : scroll'[s] = scroll[s]
      BY <2>1 DEF HubInv, SourceTypeOK
    <2>4. ASSUME NEW s \in Session, NEW i \in DOMAIN scroll'[s]
          PROVE  wakes'[scroll'[s][i].wake].session = s
      BY <1>2, <2>1, <2>2, <2>3
    <2>5. QED
      BY <2>4 DEF RowsAreAtHome
  <1>5. QED
    BY <1>3, <1>4, SaysOneThing DEF SaysNothing

\* Only a new lifespan leaves the Hub between its opening and its wake.
LEMMA OpenedMoves ==
  ASSUME HubInv, [Next]_vars, pc' = "opened"
  PROVE  \/ \E s \in Session : OpenSession(s) /\ session' = s
         \/ pc = "opened" /\ UNCHANGED <<session, scroll, tended, wakes>>
  <1>1. CASE Run
    BY <1>1
       DEF Run, ToolStep, RestStep, RestFor, RestRefused, HumanReturns, ClearRun, ToolReturns, RestReturns,
           CallReturns, WakeStep, Begin, ShadowReturns, OrientationReturns, HearthReturns, HearthSettles,
           ProviderReturns, Continue, RefuseCall, RoundLimitReached, Commit, PublishMessage, IngestResident,
           PublishCompleted, PublishAfterCommit, Fail, PublishFailed, FirstPhase, EnterPhase, CardThen
  <1>2. CASE BenchSettles \/ BenchFires \/ Manual \/ BenchAdmits
    BY <1>2
       DEF BenchSettles, DispatchDeclined, DispatchReturns, DispatchSettles, ClearRun, BenchFires,
           DispatchTooSoon, DispatchPolls, DispatchClaims, TimerFires, Manual, ManualRest, Yielded, runVars,
           BenchAdmits, DispatchAdmits, Admit, DriftFound, AtAwait
  <1>3. CASE HearthFires \/ HearthByOperator \/ HearthWakeStep
    BY <1>3
       DEF HearthFires, HearthByOperator, HearthTimerFires, HearthRunNow, HearthOpens, HearthPolls, Yielded, runVars,
           HearthWakeStep, HearthAdmits, HearthReturnsToClock, Admit, DriftFound, ClearRun, AtAwait
  <1>4. CASE (\E s \in Session : Boot(s)) \/ \E w \in Wake : Submit(w)
    BY <1>4 DEF Boot, Submit, Admit
  <1>5. CASE ForestSettles \/ Close \/ Tick \/ Exit \/ Crash \/ UNCHANGED vars
    BY <1>5 DEF ForestSettles, Close, Tick, Exit, Crash, Stop, ClearRun, vars, sourceVars, runVars, hostVars
  <1>6. QED
    BY <1>1, <1>2, <1>3, <1>4, <1>5 DEF Next, Progress

\* A lifespan that is not born yet has no turn, no row and no receipt.
LEMMA FreshNext ==
  ASSUME HubInv, LifespanInv, ClaimInv, AnnouncementInv, RowsAreAtHome, FreshIsUntouched, [Next]_vars
  PROVE  FreshIsUntouched'
  <1>1. ASSUME NEW s \in Session, OpenSession(s), session' = s
        PROVE  FreshIsUntouched'
    <2>1. TurnsOf(s) = {}
      <3>1. \A w \in Wake : wakes[w].status = "none" => wakes[w].session = NoSession
        BY DEF AnnouncementInv, RowFollowsRun, UnwokenIsBlank, Unwoken
      <3>2. \A w \in Wake : wakes[w].session # s
        BY <1>1, <3>1, SourceLedgerAssumption DEF AnnouncementInv, WokenIsBorn, OpenSession, SourceLedgerAssumption
      <3>3. QED
        BY <3>2 DEF TurnsOf
    <2>2. scroll[s] = <<>>
      <3>1. scroll[s] \in Seq(ScrollRow)
        BY DEF HubInv, SourceTypeOK
      <3>2. \A i \in DOMAIN scroll[s] : scroll[s][i].wake \in Wake /\ wakes[scroll[s][i].wake].session = s
        BY RunTypes, RowNamesItsWake DEF RowsAreAtHome
      <3>3. DOMAIN scroll[s] = {}
        BY <2>1, <3>2 DEF TurnsOf
      <3>4. Len(scroll[s]) \in Nat /\ DOMAIN scroll[s] = 1..Len(scroll[s])
        BY <3>1, LenProperties
      <3>5. Len(scroll[s]) = 0
        <4>1. Len(scroll[s]) # 0 => 1 \in 1..Len(scroll[s])
          BY <3>4
        <4>2. QED
          BY <3>3, <3>4, <4>1
      <3>6. QED
        BY <3>1, <3>5, EmptySeq
    <2>3. s \notin tended
      BY <1>1 DEF ClaimInv, OpenSession
    <2>4. scroll' = scroll /\ tended' = tended
      BY <1>1 DEF OpenSession
    <2>5. QED
      BY <1>1, <2>1, <2>2, <2>3, <2>4 DEF FreshIsUntouched, TurnsOf, OpenSession
  <1>2. CASE pc' # "opened"
    BY <1>2 DEF FreshIsUntouched
  <1>3. CASE pc' = "opened"
    <2>1. CASE pc = "opened" /\ UNCHANGED <<session, scroll, tended, wakes>>
      BY <2>1 DEF FreshIsUntouched, TurnsOf
    <2>2. QED
      BY <1>1, <1>3, <2>1, OpenedMoves
  <1>4. QED
    BY <1>2, <1>3

\* The Resident's words come last in a turn, and only a committed turn has them.
LastWordIsTheResidents ==
  \A s \in Session : \A i \in DOMAIN scroll[s] :
    /\ scroll[s][i].kind = "resident" =>
         /\ wakes[scroll[s][i].wake].status = "committed"
         /\ \A j \in DOMAIN scroll[s] : scroll[s][j].wake = scroll[s][i].wake => j <= i
    /\ wakes[scroll[s][i].wake].status = "committed" =>
         \E l \in DOMAIN scroll[s] : scroll[s][l].wake = scroll[s][i].wake /\ scroll[s][l].kind = "resident"

\* The message in row i has all its results, and what follows them is no result ...
Whole(rows, i) ==
  /\ \A k \in 1..rows[i].calls : i + k \in DOMAIN rows /\ rows[i + k].kind = "tool_result"
  /\ i + rows[i].calls + 1 \in DOMAIN rows /\ rows[i + rows[i].calls + 1].kind # "tool_result"

\* ... or only results have followed it so far, and `due` of them are missing.
Waiting(rows, i, due) ==
  /\ Len(rows) + due = i + rows[i].calls
  /\ \A j \in DOMAIN rows : j > i => rows[j].kind = "tool_result"

MessagesAreAnswered ==
  \A s \in Session : \A i \in DOMAIN scroll[s] :
    scroll[s][i].kind = "assistant_tool_call" =>
      /\ wakes[scroll[s][i].wake].status = "committed" => Whole(scroll[s], i)
      /\ scroll[s][i].wake = active /\ pc \in InTurn => Whole(scroll[s], i) \/ Waiting(scroll[s], i, Due)

\* What one more row does to a message
LEMMA MessageMeetsRow ==
  ASSUME NEW rows \in Seq(ScrollRow), NEW row \in ScrollRow, NEW i \in DOMAIN rows, NEW due \in Nat
  PROVE  /\ Whole(rows, i) => Whole(Append(rows, row), i)
         /\ Waiting(rows, i, 0) /\ row.kind # "tool_result" => Whole(Append(rows, row), i)
         /\ Waiting(rows, i, due) /\ row.kind = "tool_result" => Waiting(Append(rows, row), i, due - 1)
  <1> DEFINE more == Append(rows, row)
  <1>1. /\ Len(rows) \in Nat /\ Len(more) = Len(rows) + 1 /\ i \in Nat
        /\ DOMAIN rows = 1..Len(rows) /\ DOMAIN more = DOMAIN rows \cup {Len(rows) + 1}
        /\ \A j \in DOMAIN rows : more[j] = rows[j]
        /\ more[Len(rows) + 1] = row
    BY OneRowMore
  <1>2. rows[i].calls \in Nat /\ more[i] = rows[i]
    <2>1. i \in 1..Len(rows)
      BY <1>1
    <2>2. rows[i] \in ScrollRow
      BY <2>1, ElementOfSeq
    <2>3. QED
      BY <1>1, <2>2 DEF ScrollRow
  <1> HIDE DEF more
  <1>3. Whole(rows, i) => Whole(more, i)
    BY <1>1, <1>2 DEF Whole
  <1>4. ASSUME Waiting(rows, i, 0), row.kind # "tool_result"
        PROVE  Whole(more, i)
    <2>1. Len(rows) = i + rows[i].calls
      BY <1>1, <1>2, <1>4 DEF Waiting
    <2>2. ASSUME NEW k \in 1..rows[i].calls
          PROVE  i + k \in DOMAIN more /\ more[i + k].kind = "tool_result"
      <3>1. i + k \in DOMAIN rows /\ i + k > i
        <4>1. k \in Nat /\ 1 <= k /\ k <= rows[i].calls
          BY <1>2, <2>2
        <4>2. \A a, b, c \in Nat : c <= b /\ 1 <= c => a + c > a /\ a + c \in 1..(a + b)
          OBVIOUS
        <4>3. i + k > i /\ i + k \in 1..(i + rows[i].calls)
          BY <1>1, <1>2, <4>1, <4>2
        <4>4. QED
          BY <1>1, <2>1, <4>3
      <3>2. rows[i + k].kind = "tool_result"
        BY <1>4, <3>1 DEF Waiting
      <3>3. QED
        BY <1>1, <3>1, <3>2
    <2>3. i + rows[i].calls + 1 = Len(rows) + 1
      BY <1>1, <1>2, <2>1
    <2>4. QED
      BY <1>1, <1>2, <1>4, <2>2, <2>3 DEF Whole
  <1>5. ASSUME Waiting(rows, i, due), row.kind = "tool_result"
        PROVE  Waiting(more, i, due - 1)
    <2>1. Len(more) + (due - 1) = i + more[i].calls
      BY <1>1, <1>2, <1>5 DEF Waiting
    <2>2. \A j \in DOMAIN more : j > i => more[j].kind = "tool_result"
      BY <1>1, <1>5 DEF Waiting
    <2>3. QED
      BY <2>1, <2>2 DEF Waiting
  <1>6. QED
    BY <1>3, <1>4, <1>5 DEF more

\* A message that was just recorded waits for all its results.
LEMMA MessageIsRecorded ==
  ASSUME NEW rows \in Seq(ScrollRow), NEW row \in ScrollRow
  PROVE  Waiting(Append(rows, row), Len(rows) + 1, row.calls)
  <1>1. /\ Len(rows) \in Nat /\ Len(Append(rows, row)) = Len(rows) + 1
        /\ DOMAIN Append(rows, row) = 1..(Len(rows) + 1)
        /\ Append(rows, row)[Len(rows) + 1] = row
    <2>1. /\ Len(rows) \in Nat /\ Len(Append(rows, row)) = Len(rows) + 1
          /\ Append(rows, row) \in Seq(ScrollRow)
          /\ Append(rows, row)[Len(rows) + 1] = row
      BY OneRowMore
    <2>2. DOMAIN Append(rows, row) = 1..Len(Append(rows, row))
      BY <2>1, LenProperties
    <2>3. QED
      BY <2>1, <2>2
  <1>2. row.calls \in Nat
    BY DEF ScrollRow
  <1>3. QED
    BY <1>1, <1>2 DEF Waiting

\* The Scroll after a row was added, and the wake that it was added for
LEMMA SaysEffect ==
  ASSUME HubInv, NEW row, Says(row)
  PROVE  /\ row \in ScrollRow /\ row.wake \in Wake /\ session \in Session /\ scroll[session] \in Seq(ScrollRow)
         /\ scroll'[session] = Append(scroll[session], row)
         /\ \A s \in Session \ {session} : scroll'[s] = scroll[s]
         /\ Len(scroll[session]) \in Nat /\ DOMAIN scroll[session] = 1..Len(scroll[session])
         /\ DOMAIN scroll'[session] = DOMAIN scroll[session] \cup {Len(scroll[session]) + 1}
         /\ \A i \in DOMAIN scroll[session] : scroll'[session][i] = scroll[session][i]
         /\ scroll'[session][Len(scroll[session]) + 1] = row
         /\ wakes[row.wake].status # "committed"
         /\ wakes'[row.wake].status = "committed" <=> row.kind = "resident"
         /\ \A v \in Wake \ {row.wake} : wakes'[v] = wakes[v]
         /\ wakes[row.wake].session \in {session, NoSession}
  <1>1. row \in ScrollRow /\ row.wake \in Wake /\ session \in Session
    BY DEF Says, ScrollRow
  <1>2. scroll[session] \in Seq(ScrollRow) /\ scroll'[session] = Append(scroll[session], row)
        /\ \A s \in Session \ {session} : scroll'[s] = scroll[s]
    BY <1>1 DEF HubInv, SourceTypeOK, Says
  <1>3. /\ Len(scroll[session]) \in Nat /\ DOMAIN scroll[session] = 1..Len(scroll[session])
        /\ DOMAIN scroll'[session] = DOMAIN scroll[session] \cup {Len(scroll[session]) + 1}
        /\ \A i \in DOMAIN scroll[session] : scroll'[session][i] = scroll[session][i]
        /\ scroll'[session][Len(scroll[session]) + 1] = row
    BY <1>1, <1>2, OneRowMore
  <1>4. /\ wakes[row.wake].status # "committed"
        /\ wakes'[row.wake].status = "committed" <=> row.kind = "resident"
        /\ \A v \in Wake \ {row.wake} : wakes'[v] = wakes[v]
        /\ wakes[row.wake].session \in {session, NoSession}
    BY DEF Says, Unwoken
  <1>5. QED
    BY <1>1, <1>2, <1>3, <1>4

LEMMA LastWordNext ==
  ASSUME HubInv, AnnouncementInv, LeftIsAnswered, RowsAreAtHome, LastWordIsTheResidents, [Next]_vars
  PROVE  LastWordIsTheResidents'
  <1> DEFINE Ends(rows, row) ==
               /\ \A i \in DOMAIN rows :
                    /\ rows[i].kind = "resident" =>
                         /\ row[rows[i].wake].status = "committed"
                         /\ \A j \in DOMAIN rows : rows[j].wake = rows[i].wake => j <= i
                    /\ row[rows[i].wake].status = "committed" =>
                         \E l \in DOMAIN rows : rows[l].wake = rows[i].wake /\ rows[l].kind = "resident"
  <1>1. \A s \in Session : Ends(scroll[s], wakes)
    BY DEF LastWordIsTheResidents
  <1>2. CASE SaysNothing
    <2>1. ASSUME NEW s \in Session
          PROVE  Ends(scroll[s], wakes')
      <3>1. \A i \in DOMAIN scroll[s] : scroll[s][i].wake \in Wake
        BY RunTypes, RowNamesItsWake
      <3>2. QED
        BY <1>1, <1>2, <3>1 DEF SaysNothing
    <2>2. scroll' = scroll
      BY <1>2 DEF SaysNothing
    <2>3. QED
      BY <2>1, <2>2 DEF LastWordIsTheResidents
  <1>3. ASSUME NEW row, Says(row)
        PROVE  LastWordIsTheResidents'
    <2>1. ASSUME NEW s \in Session, s # session
          PROVE  Ends(scroll'[s], wakes')
      <3>1. \A i \in DOMAIN scroll[s] : scroll[s][i].wake \in Wake /\ wakes[scroll[s][i].wake].session = s
        BY RunTypes, RowNamesItsWake DEF RowsAreAtHome
      <3>2. s # NoSession
        BY SourceLedgerAssumption DEF SourceLedgerAssumption
      <3>3. \A i \in DOMAIN scroll[s] : wakes'[scroll[s][i].wake] = wakes[scroll[s][i].wake]
        BY <1>3, <2>1, <3>1, <3>2, SaysEffect
      <3>4. scroll'[s] = scroll[s]
        BY <1>3, <2>1, SaysEffect
      <3>5. QED
        BY <1>1, <3>3, <3>4
    <2>2. Ends(scroll'[session], wakes')
      <3> DEFINE rows == scroll[session]
                 more == scroll'[session]
                 new == Len(rows) + 1
      <3>1. /\ Len(rows) \in Nat /\ DOMAIN rows = 1..Len(rows) /\ DOMAIN more = DOMAIN rows \cup {new}
            /\ \A i \in DOMAIN rows : more[i] = rows[i]
            /\ more[new] = row
        BY <1>3, SaysEffect
      <3>2. /\ wakes[row.wake].status # "committed"
            /\ wakes'[row.wake].status = "committed" <=> row.kind = "resident"
            /\ \A v \in Wake \ {row.wake} : wakes'[v] = wakes[v]
        BY <1>3, SaysEffect
      <3>3. \A i \in DOMAIN rows : rows[i].wake \in Wake
        BY <1>3, RunTypes, RowNamesItsWake, SaysEffect
      <3>4. Ends(rows, wakes)
        BY <1>1, <1>3, SaysEffect
      <3> HIDE DEF rows, more
      <3>5. ASSUME NEW i \in DOMAIN more, more[i].kind = "resident"
            PROVE  /\ wakes'[more[i].wake].status = "committed"
                   /\ \A j \in DOMAIN more : more[j].wake = more[i].wake => j <= i
        <4>1. CASE i \in DOMAIN rows
          <5>1. wakes[rows[i].wake].status = "committed" /\ rows[i].wake # row.wake
                /\ \A j \in DOMAIN rows : rows[j].wake = rows[i].wake => j <= i
            BY <3>1, <3>2, <3>4, <3>5, <4>1
          <5>2. QED
            BY <3>1, <3>2, <3>3, <4>1, <5>1
        <4>2. CASE i = new
          BY <3>1, <3>2, <3>5, <4>2
        <4>3. QED
          BY <3>1, <4>1, <4>2
      <3>6. ASSUME NEW i \in DOMAIN more, wakes'[more[i].wake].status = "committed"
            PROVE  \E l \in DOMAIN more : more[l].wake = more[i].wake /\ more[l].kind = "resident"
        <4>1. CASE more[i].wake = row.wake
          BY <3>1, <3>2, <3>6, <4>1
        <4>2. CASE more[i].wake # row.wake
          <5>1. i \in DOMAIN rows /\ more[i] = rows[i]
            BY <3>1, <4>2
          <5>2. wakes[rows[i].wake].status = "committed"
            BY <3>2, <3>3, <3>6, <4>2, <5>1
          <5>3. PICK l \in DOMAIN rows : rows[l].wake = rows[i].wake /\ rows[l].kind = "resident"
            BY <3>4, <5>1, <5>2
          <5>4. QED
            BY <3>1, <5>1, <5>3
        <4>3. QED
          BY <4>1, <4>2
      <3>7. Ends(more, wakes')
        BY <3>5, <3>6
      <3>8. QED
        BY <3>7 DEF more
    <2>3. \A s \in Session : Ends(scroll'[s], wakes')
      BY <2>1, <2>2
    <2>4. QED
      BY <2>3 DEF LastWordIsTheResidents
  <1>4. QED
    BY <1>2, <1>3, SaysOneThing

\* What a step does to the message in row i of the current lifespan
LEMMA AnsweredSays ==
  ASSUME HubInv, RowsAreAtHome, MessagesAreAnswered, NEW row, Says(row),
         NEW i \in DOMAIN scroll'[session], scroll'[session][i].kind = "assistant_tool_call"
  PROVE  /\ wakes'[scroll'[session][i].wake].status = "committed" => Whole(scroll'[session], i)
         /\ scroll'[session][i].wake = active' /\ pc' \in InTurn =>
              Whole(scroll'[session], i) \/ Waiting(scroll'[session], i, Due')
  <1> DEFINE rows == scroll[session]
             more == scroll'[session]
             new == Len(rows) + 1
             due == Due
             then == Due'
  <1>1. /\ rows \in Seq(ScrollRow) /\ row \in ScrollRow /\ row.wake \in Wake /\ more = Append(rows, row)
        /\ Len(rows) \in Nat /\ DOMAIN rows = 1..Len(rows) /\ DOMAIN more = DOMAIN rows \cup {new}
        /\ \A j \in DOMAIN rows : more[j] = rows[j]
        /\ more[new] = row
    BY SaysEffect
  <1>2. /\ wakes[row.wake].status # "committed"
        /\ wakes'[row.wake].status = "committed" <=> row.kind = "resident"
        /\ \A v \in Wake \ {row.wake} : wakes'[v] = wakes[v]
    BY SaysEffect
  <1>3. \A j \in DOMAIN rows : rows[j].wake \in Wake /\ wakes[rows[j].wake].session = session
    BY RunTypes, RowNamesItsWake, SaysEffect DEF RowsAreAtHome
  <1>4. \A j \in DOMAIN rows : rows[j].kind = "assistant_tool_call" =>
          /\ wakes[rows[j].wake].status = "committed" => Whole(rows, j)
          /\ rows[j].wake = active /\ pc \in InTurn => Whole(rows, j) \/ Waiting(rows, j, due)
    BY SaysEffect DEF MessagesAreAnswered
  <1>5. due \in Nat
    BY DEF HubInv, WakeServiceTypeOK, Due
  <1>6. \/ /\ row.kind = "assistant_tool_call" /\ row.wake = active /\ active' = active
           /\ pc \in InTurn /\ due = 0 /\ then = row.calls
        \/ /\ row.kind = "tool_result" /\ row.wake = active /\ active' = active
           /\ pc \in InTurn /\ due > 0 /\ (pc' \in InTurn => then = due - 1)
        \/ /\ row.kind = "resident" /\ row.wake = active /\ active' = active
           /\ pc \in InTurn /\ pc' \notin InTurn /\ due = 0
        \/ /\ row.kind = "user" /\ active' \in {row.wake, NoWake} /\ wakes[row.wake].session = NoSession
    BY DEF Says, Unwoken
  <1>7. NoSession # session /\ NoWake \notin Wake
    BY SaysEffect, SourceLedgerAssumption DEF SourceLedgerAssumption
  <1>8. i \in DOMAIN more /\ more[i].kind = "assistant_tool_call"
    OBVIOUS
  <1> HIDE DEF rows, more, due, then
  <1>9. CASE i \in DOMAIN rows
    <2>1. rows[i].kind = "assistant_tool_call" /\ more[i] = rows[i]
      BY <1>1, <1>8, <1>9
    <2>2. /\ Whole(rows, i) => Whole(more, i)
          /\ Waiting(rows, i, 0) /\ row.kind # "tool_result" => Whole(more, i)
          /\ Waiting(rows, i, due) /\ row.kind = "tool_result" => Waiting(more, i, due - 1)
      BY <1>1, <1>5, <1>9, MessageMeetsRow
    <2>3. ASSUME wakes'[more[i].wake].status = "committed"
          PROVE  Whole(more, i)
      <3>1. CASE rows[i].wake = row.wake
        <4>1. row.kind = "resident"
          BY <1>2, <2>1, <2>3, <3>1
        <4>2. row.wake = active /\ pc \in InTurn /\ due = 0
          BY <1>6, <4>1
        <4>3. QED
          BY <1>4, <1>9, <2>1, <2>2, <3>1, <4>1, <4>2
      <3>2. CASE rows[i].wake # row.wake
        BY <1>2, <1>3, <1>4, <1>9, <2>1, <2>2, <2>3, <3>2
      <3>3. QED
        BY <3>1, <3>2
    <2>4. ASSUME more[i].wake = active', pc' \in InTurn
          PROVE  Whole(more, i) \/ Waiting(more, i, then)
      <3>1. rows[i].wake \in Wake /\ wakes[rows[i].wake].session # NoSession /\ rows[i].wake = active'
        BY <1>3, <1>7, <1>9, <2>1, <2>4
      <3>2. row.kind # "user"
        BY <1>6, <1>7, <3>1
      <3>3. rows[i].wake = active /\ pc \in InTurn
        BY <1>6, <2>4, <3>1, <3>2
      <3>4. \/ row.kind # "tool_result" /\ due = 0
            \/ row.kind = "tool_result" /\ then = due - 1
        BY <1>6, <2>4, <3>2
      <3>5. Whole(rows, i) \/ Waiting(rows, i, due)
        BY <1>4, <1>9, <2>1, <3>3
      <3>6. QED
        BY <2>2, <3>4, <3>5
    <2>5. QED
      BY <2>3, <2>4 DEF more, then
  <1>10. CASE i = new
    <2>1. Waiting(more, i, row.calls)
      BY <1>1, <1>10, MessageIsRecorded
    <2>2. row.kind = "assistant_tool_call"
      BY <1>1, <1>8, <1>10
    <2>3. wakes'[more[i].wake].status # "committed" /\ then = row.calls
      BY <1>1, <1>2, <1>6, <1>10, <2>2
    <2>4. QED
      BY <2>1, <2>3 DEF more, then
  <1>11. QED
    BY <1>1, <1>8, <1>9, <1>10

LEMMA AnsweredNext ==
  ASSUME HubInv, AnnouncementInv, LeftIsAnswered, RowsAreAtHome, MessagesAreAnswered, [Next]_vars
  PROVE  MessagesAreAnswered'
  <1>1. \A s \in Session : s # NoSession
    BY SourceLedgerAssumption DEF SourceLedgerAssumption
  <1>2. \A s \in Session : \A i \in DOMAIN scroll[s] :
          scroll[s][i].wake \in Wake /\ wakes[scroll[s][i].wake].session = s
    BY RunTypes, RowNamesItsWake DEF RowsAreAtHome
  <1>3. CASE SaysNothing
    <2>1. scroll' = scroll
      BY <1>3 DEF SaysNothing
    <2>2. ASSUME NEW s \in Session, NEW i \in DOMAIN scroll[s], scroll[s][i].kind = "assistant_tool_call"
          PROVE  /\ wakes'[scroll[s][i].wake].status = "committed" => Whole(scroll[s], i)
                 /\ scroll[s][i].wake = active' /\ pc' \in InTurn =>
                      Whole(scroll[s], i) \/ Waiting(scroll[s], i, Due')
      <3>1. wakes'[scroll[s][i].wake].status = "committed" => Whole(scroll[s], i)
        BY <1>2, <1>3, <2>2 DEF SaysNothing, MessagesAreAnswered
      <3>2. scroll[s][i].wake = active' /\ pc' \in InTurn =>
              active' = active /\ pc \in InTurn /\ Due' = Due
        BY <1>1, <1>2, <1>3, <2>2, RunTypes DEF SaysNothing, Unwoken
      <3>3. QED
        BY <2>2, <3>1, <3>2 DEF MessagesAreAnswered
    <2>3. QED
      BY <2>1, <2>2 DEF MessagesAreAnswered
  <1>4. ASSUME NEW row, Says(row)
        PROVE  MessagesAreAnswered'
    <2>1. ASSUME NEW s \in Session, NEW i \in DOMAIN scroll'[s], scroll'[s][i].kind = "assistant_tool_call"
          PROVE  /\ wakes'[scroll'[s][i].wake].status = "committed" => Whole(scroll'[s], i)
                 /\ scroll'[s][i].wake = active' /\ pc' \in InTurn =>
                      Whole(scroll'[s], i) \/ Waiting(scroll'[s], i, Due')
      <3>1. CASE s = session
        BY <1>4, <2>1, <3>1, AnsweredSays
      <3>2. CASE s # session
        <4>1. scroll'[s] = scroll[s] /\ row.wake \in Wake /\ wakes[row.wake].session \in {session, NoSession}
              /\ \A v \in Wake \ {row.wake} : wakes'[v] = wakes[v]
          BY <1>4, <2>1, <3>2, SaysEffect
        <4>2. scroll[s][i].wake \in Wake /\ scroll[s][i].wake # row.wake
          BY <1>1, <1>2, <2>1, <3>2, <4>1
        <4>3. wakes'[scroll[s][i].wake] = wakes[scroll[s][i].wake]
          BY <4>1, <4>2
        <4>4. scroll[s][i].wake # active'
          <5>1. active' = row.wake \/ active' = NoWake
            BY <1>4 DEF Says
          <5>2. QED
            BY <4>2, <5>1, RunTypes
        <4>5. QED
          BY <2>1, <4>1, <4>3, <4>4 DEF MessagesAreAnswered
      <3>3. QED
        BY <3>1, <3>2
    <2>2. QED
      BY <2>1 DEF MessagesAreAnswered
  <1>5. QED
    BY <1>3, <1>4, SaysOneThing

\* Turns, with what makes them inductive
TurnInv ==
  /\ LeftIsAnswered /\ RowsAreAtHome /\ FreshIsUntouched
  /\ OrdinalsAreCounted /\ TurnOrdinalsDiffer
  /\ LastWordIsTheResidents /\ MessagesAreAnswered

LEMMA TurnInit == Init => TurnInv
  <1> SUFFICES ASSUME Init PROVE TurnInv
    OBVIOUS
  <1>1. /\ \A w \in Wake : wakes[w].session = NoSession
        /\ \A s \in Session : scroll[s] = <<>>
        /\ pc = "idle" /\ left = 0
    BY DEF Init, SourceInit, WakeServiceInit, Unwoken
  <1>2. LeftIsAnswered /\ FreshIsUntouched
    BY <1>1 DEF LeftIsAnswered, FreshIsUntouched
  <1>3. OrdinalsAreCounted /\ TurnOrdinalsDiffer
    BY <1>1 DEF OrdinalsAreCounted, TurnOrdinalsDiffer
  <1>4. RowsAreAtHome /\ LastWordIsTheResidents /\ MessagesAreAnswered
    BY <1>1 DEF RowsAreAtHome, LastWordIsTheResidents, MessagesAreAnswered
  <1>5. QED
    BY <1>2, <1>3, <1>4 DEF TurnInv

\* The Scroll is laid out turn by turn, and in a turn message by message
\* (appendSessionHistory, tool-continuation.js).
THEOREM TurnInvariance == Spec => []TurnInv
  <1>1. HubInv /\ LifespanInv /\ ClaimInv /\ AnnouncementInv /\ TurnInv /\ [Next]_vars => TurnInv'
    BY LeftNext, HomeNext, FreshNext, OrdinalsNext, LastWordNext, AnsweredNext DEF TurnInv
  <1>2. QED
    BY <1>1, TurnInit, HubInvariance, LifespanInvariance, ClaimInvariance, AnnouncementInvariance, PTL DEF Spec

\* A committed turn reads as the provider protocol requires.
LEMMA TurnsReadWhole ==
  ASSUME SourceTypeOK, TurnInv
  PROVE  CommittedTurnIsWhole
  <1> SUFFICES ASSUME NEW s \in Session
               PROVE  LET rows == scroll[s]
                          Kind(i) == IF i \in DOMAIN rows THEN rows[i].kind ELSE "none"
                          Of(w) == {i \in DOMAIN rows : rows[i].wake = w}
                      IN \A w \in {rows[i].wake : i \in DOMAIN rows} :
                           /\ {i \in Of(w) : Kind(i) = "resident"} =
                                IF wakes[w].status = "committed"
                                THEN {CHOOSE i \in Of(w) : \A j \in Of(w) : j <= i} ELSE {}
                           /\ wakes[w].status = "committed" =>
                                \A i \in Of(w) : Kind(i) = "assistant_tool_call" =>
                                  /\ \A k \in 1..rows[i].calls : Kind(i + k) = "tool_result"
                                  /\ Kind(i + rows[i].calls + 1) # "tool_result"
    BY DEF CommittedTurnIsWhole
  <1> DEFINE rows == scroll[s]
             Kind(i) == IF i \in DOMAIN rows THEN rows[i].kind ELSE "none"
             Of(w) == {i \in DOMAIN rows : rows[i].wake = w}
  <1>1. DOMAIN rows \subseteq Nat
    <2>1. rows \in Seq(ScrollRow)
      BY DEF SourceTypeOK
    <2>2. QED
      BY <2>1, LenProperties
  <1>2. \A i \in DOMAIN rows :
          /\ rows[i].kind = "resident" =>
               /\ wakes[rows[i].wake].status = "committed"
               /\ \A j \in DOMAIN rows : rows[j].wake = rows[i].wake => j <= i
          /\ wakes[rows[i].wake].status = "committed" =>
               \E l \in DOMAIN rows : rows[l].wake = rows[i].wake /\ rows[l].kind = "resident"
    BY DEF TurnInv, LastWordIsTheResidents
  <1>3. \A i \in DOMAIN rows : rows[i].kind = "assistant_tool_call" /\ wakes[rows[i].wake].status = "committed" =>
          Whole(rows, i)
    BY DEF TurnInv, MessagesAreAnswered
  <1> HIDE DEF rows
  <1>4. ASSUME NEW w \in {rows[i].wake : i \in DOMAIN rows}
        PROVE  {i \in Of(w) : Kind(i) = "resident"} =
                 IF wakes[w].status = "committed" THEN {CHOOSE i \in Of(w) : \A j \in Of(w) : j <= i} ELSE {}
    <2>1. CASE wakes[w].status # "committed"
      BY <1>2, <2>1
    <2>2. CASE wakes[w].status = "committed"
      <3>1. PICK l \in Of(w) : rows[l].kind = "resident"
        BY <1>2, <1>4, <2>2
      <3>2. \A j \in Of(w) : j <= l
        BY <1>2, <3>1
      <3>3. \A i \in Of(w) : (\A j \in Of(w) : j <= i) => i = l
        BY <1>1, <3>1, <3>2
      <3>4. (CHOOSE i \in Of(w) : \A j \in Of(w) : j <= i) = l
        BY <3>1, <3>2, <3>3
      <3>5. \A i \in Of(w) : rows[i].kind = "resident" => i = l
        BY <1>2, <3>3
      <3>6. {i \in Of(w) : Kind(i) = "resident"} = {l}
        BY <3>1, <3>5
      <3>7. QED
        BY <2>2, <3>4, <3>6
    <2>3. QED
      BY <2>1, <2>2
  <1>5. ASSUME NEW w \in {rows[i].wake : i \in DOMAIN rows}, wakes[w].status = "committed",
               NEW i \in Of(w), Kind(i) = "assistant_tool_call"
        PROVE  /\ \A k \in 1..rows[i].calls : Kind(i + k) = "tool_result"
               /\ Kind(i + rows[i].calls + 1) # "tool_result"
    <2>1. Whole(rows, i)
      BY <1>3, <1>5
    <2>2. QED
      BY <2>1 DEF Whole
  <1>6. QED
    BY <1>4, <1>5 DEF rows

\* Every lifespan reads as whole turns, each under an ordinal of its own, whatever
\* failed in between: every tool call of a committed turn has its result, in place,
\* and the Resident's words come last and once (appendSessionHistory, commitSessionWake).
THEOREM HubTurnsAreWhole == Spec => []TurnsAreWhole
  <1>1. HubInv /\ TurnInv => TurnsAreWhole
    BY TurnsReadWhole DEF HubInv, TurnInv, TurnsAreWhole
  <1>2. QED
    BY <1>1, HubInvariance, TurnInvariance, PTL

\* A settled turn is sealed: its status never changes again and its part of the
\* Scroll never grows (commitSessionWake, failSessionWake, appendSessionHistory).
THEOREM HubSettledTurnIsSealed == Spec => SettledTurnIsSealed
  <1> DEFINE Sealed ==
               \A w \in Wake : Settled(w) =>
                 /\ wakes'[w].status = wakes[w].status
                 /\ LET s == wakes[w].session
                    IN \A i \in DOMAIN scroll'[s] \ DOMAIN scroll[s] : scroll'[s][i].wake # w
  <1>1. ASSUME HubInv, AnnouncementInv, LeftIsAnswered, [Next]_vars
        PROVE  Sealed
    <2> SUFFICES ASSUME NEW w \in Wake, Settled(w)
                 PROVE  /\ wakes'[w].status = wakes[w].status
                        /\ \A i \in DOMAIN scroll'[wakes[w].session] \ DOMAIN scroll[wakes[w].session] :
                             scroll'[wakes[w].session][i].wake # w
      OBVIOUS
    <2>1. wakes[w].status # "none" /\ wakes[w].session \in Session
      BY <1>1 DEF Settled, AnnouncementInv, WokenIsBorn
    <2>2. active = w => pc \notin Unsettled
      BY <1>1, RunTypes DEF AnnouncementInv, RowFollowsRun, RunHasItsRow, Settled
    <2>3. wakes'[w].status = wakes[w].status
      <3>1. CASE active = w
        <4>1. wakes' = wakes \/ RecordHostFailure(w)
          <5>1. pc \notin Wakeless
            BY <1>1, <3>1, RunTypes
          <5>2. QED
            BY <1>1, <2>2, <3>1, <5>1, WakesMove DEF Unsettled, Admission
        <4>2. QED
          BY <1>1, <4>1, RunTypes, RowMoves
      <3>2. CASE active # w
        BY <1>1, <2>1, <3>2, WakesStay
      <3>3. QED
        BY <3>1, <3>2
    <2>4. ASSUME NEW row, Says(row)
          PROVE  row.wake # w
      <3>1. \/ row.wake = active /\ pc \in InTurn
            \/ wakes[row.wake] = Unwoken
        BY <2>4 DEF Says
      <3>2. QED
        BY <2>1, <2>2, <3>1 DEF InTurn, Unwoken
    <2>5. \A i \in DOMAIN scroll'[wakes[w].session] \ DOMAIN scroll[wakes[w].session] :
            scroll'[wakes[w].session][i].wake # w
      <3>1. ASSUME NEW row, Says(row), NEW i \in DOMAIN scroll'[wakes[w].session] \ DOMAIN scroll[wakes[w].session]
            PROVE  scroll'[wakes[w].session][i].wake # w
        BY <1>1, <2>1, <2>4, <3>1, SaysEffect
      <3>2. CASE scroll' = scroll
        BY <3>2
      <3>3. QED
        BY <1>1, <3>1, <3>2, SaysOneThing DEF SaysNothing
    <2>6. QED
      BY <2>3, <2>5
  <1>2. HubInv /\ AnnouncementInv /\ TurnInv /\ [Next]_vars => [Sealed]_vars
    BY <1>1 DEF TurnInv
  <1> HIDE DEF Sealed
  <1>3. Spec => [][Sealed]_vars
    BY <1>2, HubInvariance, AnnouncementInvariance, TurnInvariance, PTL DEF Spec
  <1>4. QED
    BY <1>3 DEF Sealed, SettledTurnIsSealed

-----------------------------------------------------------------------------
(* The clocks *)

\* In a live Hub only the Hearth replaces the lifespan.
LEMMA SessionMoves ==
  ASSUME HubInv, [Next]_vars, up, up', session' # session
  PROVE  \E s \in Session : HearthOpens(s)
  <1>1. CASE (\E s \in Session : Boot(s)) \/ HearthFires \/ HearthByOperator
    BY <1>1 DEF Boot, HearthFires, HearthByOperator, HearthTimerFires, HearthRunNow, HearthPolls, hostVars
  <1>2. CASE Progress
    BY <1>2 DEF Progress, Run, ToolStep, RestStep, HumanReturns, BenchSettles, BenchAdmits, HearthWakeStep, hostVars
  <1>3. CASE Manual \/ BenchFires \/ \E w \in Wake : Submit(w)
    BY <1>3 DEF Manual, BenchFires, Submit, hostVars
  <1>4. CASE ForestSettles \/ Close \/ Tick \/ Exit \/ Crash \/ UNCHANGED vars
    BY <1>4 DEF ForestSettles, Close, Tick, Exit, Crash, Stop, vars, hostVars
  <1>5. QED
    BY <1>1, <1>2, <1>3, <1>4 DEF Next

\* A fresh life never falsifies a promised return: a live Hub ends a lifespan only when
\* none of its promises is pending or claimed (HearthBlocked).
THEOREM HubHearthBreaksNoPromise == Spec => HearthBreaksNoPromise
  <1> DEFINE Kept ==
               up /\ up' /\ session' # session =>
                 PendingOf(session) = NoPlan /\ \A p \in Plan : Status(p) = "claimed" =>
                                                  lifespan[planRow[p].session] # "open"
  <1>1. ASSUME HubInv, ClaimInv, [Next]_vars
        PROVE  Kept
    <2> SUFFICES ASSUME up, up', session' # session
                 PROVE  /\ PendingOf(session) = NoPlan
                        /\ \A p \in Plan : Status(p) = "claimed" => lifespan[planRow[p].session] # "open"
      OBVIOUS
    <2>1. PendingOf(session) = NoPlan /\ pc = "idle"
      BY <1>1, SessionMoves DEF HearthOpens, HearthBlocked
    <2>2. dispatched = NoPlan /\ NoPlan \notin Plan
      BY <1>1, <2>1, PlanLedgerAssumption DEF HubInv, RunShape, PlanLedgerAssumption
    <2>3. QED
      BY <1>1, <2>1, <2>2 DEF ClaimInv, ClaimIsHeldByItsDispatch
  <1>2. HubInv /\ ClaimInv /\ [Next]_vars => [Kept]_vars
    BY <1>1
  <1> HIDE DEF Kept
  <1>3. Spec => [][Kept]_vars
    BY <1>2, HubInvariance, ClaimInvariance, PTL DEF Spec
  <1>4. QED
    BY <1>3 DEF Kept, HearthBreaksNoPromise

\* What a step does to the bench timer
LEMMA BenchTimerMoves ==
  ASSUME [Next]_vars
  PROVE  \/ ~up' \/ closing'
         \/ benchTimer' = FirstPending(planLog', planRow', Session)
         \/ dispatched' # NoPlan /\ benchTimer' = NoPlan
         \/ UNCHANGED <<up, closing, planVars, benchVars>>
  <1>1. CASE (\E s \in Session : Boot(s)) \/ \E w \in Wake : Submit(w)
    BY <1>1 DEF Boot, Submit, planVars, benchVars, clockVars, hostVars
  <1>2. CASE Run
    <2>1. CASE RestStep
      BY <2>1 DEF RestStep, RestFor, RestRefused, Schedule, Arm, hostVars, benchVars
    <2>2. CASE ~RestStep
      BY <1>2, <2>2 DEF Run, ToolStep, HumanReturns, benchVars, clockVars, hostVars
    <2>3. QED
      BY <2>1, <2>2
  <1>3. CASE BenchFires
    <2>1. PICK p \in Plan : DispatchTooSoon(p) \/ DispatchPolls(p) \/ DispatchClaims(p)
      BY <1>3 DEF BenchFires
    <2>2. CASE DispatchClaims(p)
      BY <2>2, PlanLedgerAssumption DEF DispatchClaims, PlanLedgerAssumption
    <2>3. CASE DispatchTooSoon(p) \/ DispatchPolls(p)
      BY <1>3, <2>3 DEF BenchFires, DispatchTooSoon, DispatchPolls, Arm, planVars, benchVars, hostVars
    <2>4. QED
      BY <2>1, <2>2, <2>3
  <1>4. CASE BenchSettles \/ BenchAdmits \/ Manual
    BY <1>4 DEF BenchSettles, DispatchDeclined, DispatchReturns, DispatchSettles, Arm, BenchAdmits, DispatchAdmits,
                Manual, ManualRest, Schedule, benchVars, planVars, hostVars
  <1>5. CASE HearthFires \/ HearthByOperator \/ HearthWakeStep
    BY <1>5 DEF HearthFires, HearthTimerFires, HearthByOperator, HearthRunNow, HearthOpens, HearthPolls,
                HearthWakeStep, HearthAdmits, HearthReturnsToClock, benchVars, planVars, hostVars
  <1>6. CASE ForestSettles \/ Close \/ Tick \/ Exit \/ Crash \/ UNCHANGED vars
    BY <1>6 DEF ForestSettles, Close, Tick, Exit, Crash, Stop, vars, hostVars, clockVars, benchVars, planVars
  <1>7. QED
    BY <1>1, <1>2, <1>3, <1>4, <1>5, <1>6 DEF Next, Progress

\* While the Hearth clock is not set, its own run is under way and will set it.
ClockWaitsForItsRun ==
  up /\ ~closing /\ HearthInterval > 0 /\ hearthNext = NoTime =>
    /\ dispatched = NoPlan
    /\ pc \in {"opened", "declined"} \/ (active # NoWake /\ wakes[active].origin = "hearth_origin")

ClockInv ==
  /\ ~up => ~closing
  /\ BenchTimerNeverLost
  /\ ClockWaitsForItsRun

\* What a step does to the Hearth clock
LEMMA HearthClockMoves ==
  ASSUME HubInv, ~up => ~closing, [Next]_vars
  PROVE  \/ ~up' \/ closing' \/ HearthInterval = 0
         \/ hearthNext' \in Nat
         \/ pc = "idle" /\ dispatched' = NoPlan /\ pc' = "opened"
         \/ pc = "idle" /\ up /\ ~closing /\ hearthNext' = hearthNext
         \/ /\ UNCHANGED <<up, closing, hearthNext, dispatched, active>>
            /\ pc' = pc \/ active \in Wake
         \/ /\ UNCHANGED <<up, closing, hearthNext>>
            /\ \/ dispatched # NoPlan
               \/ active # NoWake /\ wakes[active].origin # "hearth_origin"
         \/ /\ UNCHANGED <<up, closing, hearthNext, dispatched>> /\ pc = "opened"
            /\ \/ pc' = "declined"
               \/ \E w \in Wake : active' = w /\ wakes'[w].origin = "hearth_origin"
  <1> USE RunTypes, HearthWakesAssumption DEF HearthWakesAssumption
  <1>1. /\ now \in Nat /\ now + HearthInterval \in Nat
        /\ pc = "idle" => dispatched = NoPlan
        /\ active # NoWake => (dispatched # NoPlan <=> wakes[active].origin = "self_directed")
    BY PlanLedgerAssumption DEF HubInv, RunShape, AutonomousWakesTypeOK, PlanLedgerAssumption
  <1>2. CASE \E s \in Session : Boot(s)
    BY <1>1, <1>2 DEF Boot, HearthArm
  <1>3. CASE HearthFires \/ HearthByOperator
    BY <1>1, <1>3 DEF HearthFires, HearthByOperator, HearthTimerFires, HearthRunNow, HearthOpens, HearthBlocked,
                      HearthPolls, benchVars, hostVars, runVars
  <1>4. CASE HearthWakeStep
    <2>1. CASE HearthReturnsToClock
      BY <1>1, <1>4, <2>1 DEF HearthWakeStep, HearthReturnsToClock, HearthArm, HearthWakesTypeOK, HubInv, hostVars
    <2>2. ASSUME NEW w \in Wake, HearthAdmits(w)
          PROVE  /\ UNCHANGED <<hearthNext, dispatched>> /\ pc = "opened"
                 /\ \/ pc' = "declined"
                    \/ active' = w /\ wakes'[w].origin = "hearth_origin"
      <3>1. UNCHANGED <<hearthNext, dispatched>> /\ pc = "opened"
        BY <2>2 DEF HearthAdmits, benchVars
      <3>2. CASE DriftFound
        BY <3>1, <3>2 DEF DriftFound
      <3>3. CASE Admit(w, "hearth_origin", NoPlan, "declined")
        <4>1. CreateWake(w, "hearth_origin", NoPlan, session) /\ (active' = w \/ pc' = "declined")
          BY <3>3 DEF Admit
        <4>2. wakes'[w].origin = "hearth_origin"
          BY <4>1, RowCreated
        <4>3. QED
          BY <3>1, <4>1, <4>2
      <3>4. QED
        BY <2>2, <3>2, <3>3 DEF HearthAdmits
    <2>3. UNCHANGED <<up, closing>>
      BY <1>4 DEF HearthWakeStep, hostVars
    <2>4. QED
      BY <1>4, <2>1, <2>2, <2>3 DEF HearthWakeStep
  <1>5. CASE \E w \in Wake : Submit(w)
    BY <1>5 DEF Submit, clockVars, hostVars
  <1>6. CASE BenchFires \/ Manual
    BY <1>6 DEF BenchFires, DispatchTooSoon, DispatchPolls, DispatchClaims, TimerFires, Manual, ManualRest, Schedule,
                benchVars, runVars, hostVars
  <1>7. CASE BenchAdmits \/ BenchSettles
    BY <1>1, <1>7 DEF BenchAdmits, DispatchAdmits, BenchSettles, DispatchDeclined, DispatchReturns, RunningOrigin,
                      HubInv, RunShape, Wakeless, hostVars
  <1>8. CASE Run
    <2>1. CASE HumanReturns
      BY <1>1, <2>1 DEF HumanReturns, RunningOrigin, Wakeless, hostVars, clockVars
    <2>2. CASE ~HumanReturns
      <3>1. UNCHANGED <<up, closing, hearthNext, dispatched>>
        BY <1>8, <2>2 DEF Run, ToolStep, RestStep, RestFor, RestRefused, Schedule, hostVars, clockVars, benchVars
      <3>2. active' = active /\ pc \notin Wakeless
        BY <1>8, <2>2
           DEF Run, ToolStep, RestStep, RestFor, RestRefused, ToolReturns, RestReturns, CallReturns,
               WakeStep, Begin, ShadowReturns, OrientationReturns, HearthReturns, HearthSettles, ProviderReturns,
               Continue, RefuseCall, RoundLimitReached, Commit, PublishMessage, IngestResident,
               PublishCompleted, PublishAfterCommit, Fail, PublishFailed, Wakeless
      <3>3. QED
        BY <3>1, <3>2
    <2>3. QED
      BY <2>1, <2>2
  <1>9. CASE ForestSettles \/ Close \/ Tick \/ Exit \/ Crash \/ UNCHANGED vars
    BY <1>9 DEF ForestSettles, Close, Tick, Exit, Crash, Stop, vars, hostVars, clockVars, benchVars, runVars
  <1>10. QED
    BY <1>2, <1>3, <1>4, <1>5, <1>6, <1>7, <1>8, <1>9 DEF Next, Progress

LEMMA ClockNext ==
  ASSUME HubInv, AnnouncementInv, ClockInv, [Next]_vars
  PROVE  ClockInv'
  <1>1. ~up' => ~closing'
    BY DEF ClockInv, Next, Boot, ForestSettles, Close, Exit, Crash, Stop, Tick, Submit, Manual, BenchFires, HearthFires,
           HearthTimerFires, HearthByOperator, HearthRunNow, HearthOpens, HearthPolls, Progress, Run, ToolStep,
           RestStep, HumanReturns, BenchSettles, BenchAdmits, HearthWakeStep, hostVars, vars
  <1>2. BenchTimerNeverLost'
    BY BenchTimerMoves DEF ClockInv, BenchTimerNeverLost, planVars, benchVars
  <1>3. ClockWaitsForItsRun'
    <2>1. \A w \in Wake : wakes[w].status # "none" => wakes'[w].origin = wakes[w].origin
      BY WakesStay
    <2>2. active # NoWake => active \in Wake /\ wakes[active].status # "none"
      BY RunTypes DEF AnnouncementInv, RowFollowsRun, RunHasItsRow, Unsettled, Wakeless, Settled, PC, AtAwait
    <2>3. pc = "idle" => dispatched = NoPlan /\ active = NoWake
      BY RunTypes DEF HubInv, RunShape, Wakeless
    <2>4. pc = "opened" => dispatched = NoPlan
      BY DEF HubInv, RunShape
    <2>5. NoTime \notin Nat
      BY HearthWakesAssumption DEF HearthWakesAssumption
    <2>6. SUFFICES ASSUME up', ~closing', HearthInterval > 0, hearthNext' = NoTime
                   PROVE  /\ dispatched' = NoPlan
                          /\ \/ pc' \in {"opened", "declined"}
                             \/ active' # NoWake /\ wakes'[active'].origin = "hearth_origin"
      BY DEF ClockWaitsForItsRun
    <2>7. CASE pc = "idle" /\ up /\ ~closing /\ hearthNext' = hearthNext
      BY <2>3, <2>6, <2>7 DEF ClockInv, ClockWaitsForItsRun
    <2>8. CASE UNCHANGED <<up, closing, hearthNext, dispatched, active>> /\ (pc' = pc \/ active \in Wake)
      <3>1. /\ dispatched = NoPlan
            /\ pc \in {"opened", "declined"} \/ (active # NoWake /\ wakes[active].origin = "hearth_origin")
        BY <2>6, <2>8 DEF ClockInv, ClockWaitsForItsRun
      <3>2. active # NoWake <=> pc \notin Wakeless
        BY RunTypes
      <3>3. CASE active = NoWake
        BY <2>8, <3>1, <3>2, <3>3, RunTypes
      <3>4. CASE active # NoWake
        BY <2>1, <2>2, <2>8, <3>1, <3>2, <3>4 DEF Wakeless
      <3>5. QED
        BY <3>3, <3>4
    <2>9. CASE /\ UNCHANGED <<up, closing, hearthNext>>
               /\ \/ dispatched # NoPlan
                  \/ active # NoWake /\ wakes[active].origin # "hearth_origin"
      <3>1. /\ dispatched = NoPlan
            /\ pc \in {"opened", "declined"} \/ (active # NoWake /\ wakes[active].origin = "hearth_origin")
        BY <2>6, <2>9 DEF ClockInv, ClockWaitsForItsRun
      <3>2. active # NoWake => pc \notin {"opened", "declined"}
        BY RunTypes DEF Wakeless
      <3>3. QED
        BY <2>9, <3>1, <3>2
    <2>10. CASE /\ UNCHANGED <<up, closing, hearthNext, dispatched>> /\ pc = "opened"
                /\ \/ pc' = "declined"
                   \/ \E w \in Wake : active' = w /\ wakes'[w].origin = "hearth_origin"
      BY <2>4, <2>10, RunTypes
    <2>11. CASE pc = "idle" /\ dispatched' = NoPlan /\ pc' = "opened"
      BY <2>11
    <2>12. HearthInterval # 0 /\ hearthNext' \notin Nat
      BY <2>5, <2>6, HearthWakesAssumption DEF HearthWakesAssumption
    <2>13. ~up => ~closing
      BY DEF ClockInv
    <2>14. \/ ~up' \/ closing' \/ HearthInterval = 0
           \/ hearthNext' \in Nat
           \/ pc = "idle" /\ dispatched' = NoPlan /\ pc' = "opened"
           \/ pc = "idle" /\ up /\ ~closing /\ hearthNext' = hearthNext
           \/ /\ UNCHANGED <<up, closing, hearthNext, dispatched, active>>
              /\ pc' = pc \/ active \in Wake
           \/ /\ UNCHANGED <<up, closing, hearthNext>>
              /\ \/ dispatched # NoPlan
                 \/ active # NoWake /\ wakes[active].origin # "hearth_origin"
           \/ /\ UNCHANGED <<up, closing, hearthNext, dispatched>> /\ pc = "opened"
              /\ \/ pc' = "declined"
                 \/ \E w \in Wake : active' = w /\ wakes'[w].origin = "hearth_origin"
      BY <2>13, HearthClockMoves
    <2>15. QED
      BY <2>6, <2>7, <2>8, <2>9, <2>10, <2>11, <2>12, <2>14
  <1>4. QED
    BY <1>1, <1>2, <1>3 DEF ClockInv

LEMMA ClockInit == Init => ClockInv
  BY DEF Init, WakeServiceInit, ClockInv, BenchTimerNeverLost, ClockWaitsForItsRun

\* Whoever emptied a clock is still there to arm it again (arm, dispatch).
THEOREM ClockInvariance == Spec => []ClockInv
  BY ClockInit, ClockNext, HubInvariance, AnnouncementInvariance, PTL DEF Spec

\* Neither clock of a live Hub stops by itself: no pending promise and no Hearth
\* interval is forgotten, whichever way the wake they started ends (arm, dispatch).
THEOREM HubClocksAreNeverLost == Spec => []ClocksAreNeverLost
  <1>1. HubInv /\ ClockInv => ClocksAreNeverLost
    BY DEF HubInv, RunShape, Wakeless, ClockInv, ClockWaitsForItsRun, ClocksAreNeverLost, HearthClockNeverLost
  <1>2. QED
    BY <1>1, HubInvariance, ClockInvariance, PTL

-----------------------------------------------------------------------------
(* Promises *)

\* What a dispatch has checked when it claimed its plan still holds when its wake is admitted.
ClaimIsDue ==
  pc = "claimed" =>
    /\ planRow[dispatched].seat = seat[planRow[dispatched].session] /\ planRow[dispatched].due <= now
    /\ \A w \in Wake : wakes[w].plan # dispatched

\* A plan causes one wake, which runs under its dispatch; a dispatch that was
\* declined has none that committed.
WakeServesItsPlan ==
  /\ \A w \in Wake : wakes[w].plan # NoPlan => Status(wakes[w].plan) \in {"claimed", "completed", "failed"}
  /\ \A v, w \in Wake : wakes[v].plan = wakes[w].plan /\ wakes[v].plan # NoPlan => v = w
  /\ active # NoWake => wakes[active].plan = dispatched
  /\ pc = "declined" /\ dispatched # NoPlan =>
       \A w \in Wake : wakes[w].plan = dispatched => wakes[w].status # "committed"

VerdictsStand ==
  \A p \in Plan :
    /\ Status(p) = "completed" =>
         \E w \in Wake : wakes[w].plan = p /\ wakes[w].status = "committed" /\ ~wakes[w].custodyFailed
    /\ Status(p) = "failed" =>
         \A w \in Wake : wakes[w].plan = p /\ wakes[w].status = "committed" => wakes[w].custodyFailed

PromiseInv == AutonomousWakeHonoursItsOrigin /\ ClaimIsDue /\ WakeServesItsPlan /\ VerdictsStand

\* What these proofs need of HubInv and of the plan's assumptions
LEMMA PromiseTypes ==
  ASSUME HubInv
  PROVE  /\ PlanInv /\ now \in Nat /\ dispatched \in Plan \cup {NoPlan} /\ NoPlan \notin Plan
         /\ \A w \in Wake : wakes[w].plan \in Plan \cup {NoPlan} /\ wakes[w].status \in WakeStatus
                            /\ wakes[w].custodyFailed \in BOOLEAN
         /\ seat \in [Session -> Seat]
         /\ active # NoWake => (dispatched # NoPlan <=> wakes[active].origin = "self_directed")
         /\ dispatched # NoPlan => pc \notin {"idle", "opened"}
         /\ pc # "idle" => up
         /\ planRow \in [Plan -> PlanRow]
  <1>1. /\ PlanInv /\ now \in Nat /\ dispatched \in Plan \cup {NoPlan} /\ NoPlan \notin Plan
        /\ seat \in [Session -> Seat] /\ planRow \in [Plan -> PlanRow]
    BY PlanLedgerAssumption DEF HubInv, PlanInv, PlanTypeOK, AutonomousWakesTypeOK, PlanLedgerAssumption
  <1>2. \A w \in Wake : wakes[w].plan \in Plan \cup {NoPlan} /\ wakes[w].status \in WakeStatus
                        /\ wakes[w].custodyFailed \in BOOLEAN
    BY DEF HubInv, SourceTypeOK, WakeRow
  <1>3. /\ active # NoWake => (dispatched # NoPlan <=> wakes[active].origin = "self_directed")
        /\ dispatched # NoPlan => pc \notin {"idle", "opened"}
        /\ pc # "idle" => up
    BY DEF HubInv, RunShape
  <1>4. QED
    BY <1>1, <1>2, <1>3

\* Where the code does not await, only the run itself goes on, or the process dies.
LEMMA NothingElseRuns ==
  ASSUME HubInv, [Next]_vars, ~Yielded
  PROVE  Progress \/ Crash \/ UNCHANGED vars
  <1>1. pc # "idle" /\ up
    BY PromiseTypes DEF Yielded
  <1>2. ~(\E s \in Session : Boot(s)) /\ ~Exit /\ ~\E w \in Wake : Submit(w)
    BY <1>1 DEF Boot, Exit, Submit
  <1>3. ~ForestSettles /\ ~Close /\ ~Tick
    BY <1>1 DEF ForestSettles, Close, Tick
  <1>4. ~Manual /\ ~BenchFires
    BY DEF Manual, ManualRest, BenchFires, DispatchTooSoon, DispatchPolls, DispatchClaims, TimerFires
  <1>5. ~HearthFires /\ ~HearthByOperator
    BY <1>1 DEF HearthFires, HearthByOperator, HearthTimerFires, HearthRunNow, HearthOpens, HearthBlocked, HearthPolls
  <1>6. QED
    BY <1>2, <1>3, <1>4, <1>5 DEF Next

\* Whatever else happens between two awaits, a point before the first of them is
\* reached only by the step that leads to it.
LEMMA AdmittedMoves ==
  ASSUME HubInv, [Next]_vars, pc' = "admitted"
  PROVE  \/ \E w \in Wake, origin \in Origin, plan \in Plan \cup {NoPlan}, refused \in Wakeless :
              Admission(w, origin, plan, refused)
         \/ pc = "admitted" /\ UNCHANGED <<active, wakes>> /\ wakes[active].origin = "human_present"
         \/ UNCHANGED vars
  <1>1. CASE (WakeStep \/ ToolReturns \/ RestReturns) /\ pc \notin Wakeless
    BY <1>1
       DEF WakeStep, Begin, ShadowReturns, OrientationReturns, HearthReturns, HearthSettles, ProviderReturns,
           Continue, ToolReturns, RestReturns, CallReturns, RefuseCall, RoundLimitReached, Commit,
           PublishMessage, IngestResident, PublishCompleted, PublishAfterCommit, Fail, PublishFailed,
           FirstPhase, EnterPhase, CardThen
  <1>2. CASE UNCHANGED <<wakes, scroll, stream>> /\ UNCHANGED <<pc, active, left>>
    <2>1. CASE Yielded
      BY <1>2, <2>1 DEF Yielded, RunningOrigin, AtAwait
    <2>2. CASE ~Yielded
      <3>1. Progress \/ Crash \/ UNCHANGED vars
        BY <2>2, NothingElseRuns
      <3>2. ~Crash
        BY <1>2 DEF Crash, Stop, ClearRun
      <3>3. CASE Progress
        <4>1. pc = "admitted"
          BY <1>2
        <4>2. QED
          BY <1>2, <3>3, <4>1
             DEF Progress, Run, ToolStep, RestStep, RestFor, RestRefused, HumanReturns, ClearRun, ToolReturns,
                 RestReturns, CallReturns, WakeStep, Begin, ShadowReturns, OrientationReturns, HearthReturns,
                 HearthSettles, ProviderReturns, Continue, RefuseCall, RoundLimitReached, Commit, PublishMessage,
                 IngestResident, PublishCompleted, PublishAfterCommit, Fail, PublishFailed, FirstPhase,
                 BenchSettles, DispatchDeclined, DispatchReturns, BenchAdmits, DispatchAdmits,
                 HearthWakeStep, HearthAdmits, HearthReturnsToClock
      <3>4. QED
        BY <3>1, <3>2, <3>3
    <2>3. QED
      BY <2>1, <2>2
  <1>3. CASE active' = NoWake /\ pc' \in Wakeless
    BY <1>3 DEF Wakeless
  <1>4. QED
    BY <1>1, <1>2, <1>3, RowElsewhere

LEMMA ClaimedMoves ==
  ASSUME HubInv, [Next]_vars, pc' = "claimed"
  PROVE  \/ UNCHANGED <<wakes, now, seat>> /\ \E p \in Plan : DispatchClaims(p)
         \/ UNCHANGED vars
  <1>1. CASE Run
    BY <1>1
       DEF Run, ToolStep, RestStep, RestFor, RestRefused, HumanReturns, ClearRun, ToolReturns, RestReturns,
           CallReturns, WakeStep, Begin, ShadowReturns, OrientationReturns, HearthReturns, HearthSettles,
           ProviderReturns, Continue, RefuseCall, RoundLimitReached, Commit, PublishMessage, IngestResident,
           PublishCompleted, PublishAfterCommit, Fail, PublishFailed, FirstPhase, EnterPhase, CardThen
  <1>2. CASE BenchSettles \/ BenchAdmits \/ HearthWakeStep
    BY <1>2
       DEF BenchSettles, DispatchDeclined, DispatchReturns, DispatchSettles, ClearRun, BenchAdmits, DispatchAdmits,
           HearthWakeStep, HearthAdmits, HearthReturnsToClock, Admit, DriftFound
  <1>3. CASE BenchFires
    BY <1>3 DEF BenchFires, DispatchClaims, DispatchTooSoon, DispatchPolls, TimerFires, Yielded, runVars, AtAwait,
                sourceVars
  <1>4. CASE Crash \/ Exit \/ HearthFires \/ HearthByOperator \/ \E w \in Wake : Submit(w)
    BY <1>4 DEF Crash, Exit, Stop, ClearRun, HearthFires, HearthByOperator, HearthTimerFires, HearthRunNow, HearthOpens,
                HearthPolls, Yielded, runVars, AtAwait, Submit, Admit
  <1>5. CASE (\E s \in Session : Boot(s)) \/ ForestSettles \/ Close \/ Tick \/ Manual
    BY <1>5, PromiseTypes DEF Boot, ForestSettles, Close, Tick, Manual, ManualRest, Yielded, runVars, AtAwait
  <1>6. QED
    BY <1>1, <1>2, <1>3, <1>4, <1>5 DEF Next, Progress

LEMMA DeclinedMoves ==
  ASSUME HubInv, [Next]_vars, pc' = "declined", dispatched' # NoPlan
  PROVE  \/ UNCHANGED wakes /\ \E p \in Plan : DispatchClaims(p)
         \/ pc = "claimed" /\ dispatched' = dispatched
         \/ UNCHANGED vars
  <1>1. CASE Run
    BY <1>1
       DEF Run, ToolStep, RestStep, RestFor, RestRefused, HumanReturns, ClearRun, ToolReturns, RestReturns,
           CallReturns, WakeStep, Begin, ShadowReturns, OrientationReturns, HearthReturns, HearthSettles,
           ProviderReturns, Continue, RefuseCall, RoundLimitReached, Commit, PublishMessage, IngestResident,
           PublishCompleted, PublishAfterCommit, Fail, PublishFailed, FirstPhase, EnterPhase, CardThen
  <1>2. CASE BenchSettles \/ BenchAdmits
    BY <1>2
       DEF BenchSettles, DispatchDeclined, DispatchReturns, DispatchSettles, ClearRun, BenchAdmits, DispatchAdmits,
           benchVars
  <1>3. CASE HearthWakeStep
    BY <1>3, PromiseTypes DEF HearthWakeStep, HearthAdmits, HearthReturnsToClock, ClearRun, benchVars
  <1>4. CASE BenchFires
    BY <1>4 DEF BenchFires, DispatchClaims, DispatchTooSoon, DispatchPolls, TimerFires, Yielded, runVars, AtAwait,
                sourceVars
  <1>5. CASE Crash \/ Exit \/ HearthFires \/ HearthByOperator \/ \E w \in Wake : Submit(w)
    BY <1>5 DEF Crash, Exit, Stop, ClearRun, HearthFires, HearthByOperator, HearthTimerFires, HearthRunNow, HearthOpens,
                HearthPolls, Yielded, runVars, AtAwait, Submit, Admit
  <1>6. CASE (\E s \in Session : Boot(s)) \/ ForestSettles \/ Close \/ Tick \/ Manual
    BY <1>6, PromiseTypes DEF Boot, ForestSettles, Close, Tick, Manual, ManualRest, Yielded, runVars, AtAwait
  <1>7. QED
    BY <1>1, <1>2, <1>3, <1>4, <1>5, <1>6 DEF Next, Progress

\* A wake of an autonomous origin is admitted as its origin requires.
LEMMA AdmissionHonoursItsOrigin ==
  ASSUME HubInv, ClaimInv, AnnouncementInv, FreshIsUntouched, PromiseInv, [Next]_vars
  PROVE  AutonomousWakeHonoursItsOrigin'
  <1> SUFFICES ASSUME pc' = "admitted" PROVE AutonomousWakeHonoursItsOrigin'
    BY DEF AutonomousWakeHonoursItsOrigin
  <1>1. ASSUME NEW w \in Wake, NEW origin \in Origin, NEW plan \in Plan \cup {NoPlan}, NEW refused \in Wakeless,
               Admission(w, origin, plan, refused)
        PROVE  AutonomousWakeHonoursItsOrigin'
    <2>1. /\ CreateWake(w, origin, plan, session) /\ active' = w
          /\ UNCHANGED <<hostVars, planVars, clockVars, seat>>
      BY <1>1 DEF Admission, Admit, Wakeless
    <2>2. /\ wakes'[w].origin = origin /\ wakes'[w].plan = plan
          /\ \A v \in Wake \ {w} : wakes'[v] = wakes[v]
      BY <2>1, RunTypes, RowCreated
    <2>3. ASSUME origin = "self_directed"
          PROVE  /\ dispatched = plan /\ Status(plan)' = "claimed"
                 /\ planRow[plan].session = session /\ planRow[plan].seat = seat[session] /\ planRow[plan].due <= now
      <3>1. pc = "claimed" /\ plan = dispatched /\ dispatched # NoPlan
        BY <1>1, <2>3 DEF Admission
      <3>2. Status(plan)' = Status(plan)
        BY <2>1 DEF planVars, Status, StatusIn
      <3>3. planRow[plan].session = session
        BY <2>1, <2>3 DEF CreateWake, MayCreate
      <3>4. QED
        BY <3>1, <3>2, <3>3 DEF ClaimInv, ClaimIsHeldByItsDispatch, PromiseInv, ClaimIsDue
    <2>4. ASSUME origin = "hearth_origin"
          PROVE  /\ scroll'[session] = <<>> /\ session \notin tended'
                 /\ \A v \in Wake \ {w} : wakes'[v].session # session
      <3>1. scroll[session] = <<>> /\ session \notin tended /\ \A v \in Wake : wakes[v].session # session
        BY <1>1, <2>4 DEF Admission, FreshIsUntouched, TurnsOf
      <3>2. scroll' = scroll /\ tended' = tended
        BY <2>1, <2>4 DEF CreateWake
      <3>3. QED
        BY <2>2, <3>1, <3>2
    <2>5. /\ dispatched' = dispatched /\ planRow' = planRow /\ seat' = seat /\ session' = session /\ now' = now
      BY <2>1 DEF clockVars, planVars, hostVars
    <2>6. QED
      BY <2>1, <2>2, <2>3, <2>4, <2>5 DEF AutonomousWakeHonoursItsOrigin
  <1>2. CASE pc = "admitted" /\ UNCHANGED <<active, wakes>> /\ wakes[active].origin = "human_present"
    BY <1>2 DEF AutonomousWakeHonoursItsOrigin
  <1>3. CASE UNCHANGED vars
    BY <1>3 DEF PromiseInv, AutonomousWakeHonoursItsOrigin, vars, runVars, sourceVars, planVars, clockVars, hostVars,
                Status, StatusIn
  <1>4. QED
    BY <1>1, <1>2, <1>3, AdmittedMoves

\* What a step does to the standing of a plan: only its dispatch gives it a verdict.
LEMMA StandingMoves ==
  ASSUME HubInv, [Next]_vars
  PROVE  \A p \in Plan :
           /\ Status(p) \in {"claimed", "completed", "failed"} => Status(p)' \in {"claimed", "completed", "failed"}
           /\ Status(p) \in {"completed", "failed"} => Status(p)' = Status(p)
           /\ Status(p)' \in {"completed", "failed"} /\ Status(p) # Status(p)' =>
                dispatched = p /\ dispatched' = NoPlan /\ up'
  <1>1. /\ PlanInv /\ now \in Nat /\ seat \in [Session -> Seat] /\ tended \subseteq Session
        /\ dispatched \in Plan \cup {NoPlan} /\ (dispatched # NoPlan => up)
    BY PromiseTypes DEF HubInv, SourceTypeOK
  <1>2. CASE \E p \in Plan, s \in tended, duration \in Nat : SchedulePlan(p, s, seat[s], now, duration)
    <2>1. PICK p \in Plan, s \in tended, duration \in Nat : SchedulePlan(p, s, seat[s], now, duration)
      BY <1>2
    <2>2. s \in Session /\ seat[s] \in Seat
      BY <1>1
    <2>3. /\ Status(p) = "unborn"
          /\ \A q \in Plan : Status(q)' = IF q = p THEN "scheduled"
                                         ELSE IF q = PendingOf(s) THEN "cancelled" ELSE Status(q)
      BY <1>1, <2>1, <2>2, ScheduleStatus
    <2>4. \A q \in Plan : PendingOf(s) = q => Status(q) = "scheduled"
      BY <1>1, <2>2, PendingOfIsThePendingPlan DEF PlanInv
    <2>5. QED
      BY <2>3, <2>4
  <1>3. CASE \E p \in Plan : ClaimPlan(p)
    <2>1. PICK p \in Plan : ClaimPlan(p)
      BY <1>3
    <2>2. Status(p) = "scheduled" /\ \A q \in Plan : Status(q)' = IF q = p THEN "claimed" ELSE Status(q)
      BY <1>1, <2>1, ClaimStatus
    <2>3. QED
      BY <2>2
  <1>4. CASE /\ dispatched' = NoPlan /\ UNCHANGED <<lifespan, up>>
             /\ dispatched \in Plan /\ \E outcome \in Outcome : SettlePlan(dispatched, outcome)
    <2>1. PICK outcome \in Outcome : SettlePlan(dispatched, outcome)
      BY <1>4
    <2>2. /\ Status(dispatched) = "claimed"
          /\ \A q \in Plan : Status(q)' = IF q = dispatched THEN outcome ELSE Status(q)
      BY <1>1, <1>4, <2>1, SettleStatus
    <2>3. up'
      BY <1>1, <1>4, PlanLedgerAssumption DEF PlanLedgerAssumption
    <2>4. QED
      BY <1>4, <2>2, <2>3 DEF Outcome
  <1>5. CASE UNCHANGED planVars
    BY <1>5 DEF planVars, Status, StatusIn
  <1>6. QED
    BY <1>2, <1>3, <1>4, <1>5, PlanStep DEF PlanEffect

\* A dispatch ends when it settles its plan, or with its process.
LEMMA DispatchEnds ==
  ASSUME HubInv, [Next]_vars, dispatched # NoPlan, dispatched' = NoPlan, up'
  PROVE  BenchSettles
  <1>1. pc # "idle" /\ up /\ pc # "opened"
    BY PromiseTypes
  <1>2. CASE Run
    BY <1>2 DEF Run, ToolStep, RestStep, RestFor, RestRefused, Schedule, HumanReturns, clockVars, benchVars
  <1>3. CASE BenchAdmits \/ BenchFires \/ Manual
    BY <1>3, PromiseTypes DEF BenchAdmits, DispatchAdmits, BenchFires, DispatchTooSoon, DispatchPolls, DispatchClaims,
                              Manual, ManualRest, Schedule, benchVars
  <1>4. CASE HearthWakeStep \/ HearthFires \/ HearthByOperator
    BY <1>1, <1>4 DEF HearthWakeStep, HearthAdmits, HearthReturnsToClock, HearthFires, HearthByOperator,
                      HearthTimerFires, HearthRunNow, HearthOpens, HearthPolls, benchVars
  <1>5. CASE (\E s \in Session : Boot(s)) \/ \E w \in Wake : Submit(w)
    BY <1>1, <1>5 DEF Boot, Submit
  <1>6. CASE ForestSettles \/ Close \/ Tick \/ Exit \/ Crash \/ UNCHANGED vars
    BY <1>6 DEF ForestSettles, Close, Tick, Exit, Crash, Stop, vars, clockVars, benchVars
  <1>7. QED
    BY <1>2, <1>3, <1>4, <1>5, <1>6 DEF Next, Progress

LEMMA ClaimIsDueNext ==
  ASSUME HubInv, PromiseInv, [Next]_vars
  PROVE  ClaimIsDue'
  <1> SUFFICES ASSUME pc' = "claimed" PROVE ClaimIsDue'
    BY DEF ClaimIsDue
  <1>1. ASSUME NEW p \in Plan, DispatchClaims(p), UNCHANGED <<wakes, now, seat>>
        PROVE  ClaimIsDue'
    <2>1. /\ planRow[p].seat = seat[planRow[p].session] /\ planRow[p].due <= now
          /\ dispatched' = p /\ planRow' = planRow /\ Status(p) = "scheduled"
      BY <1>1 DEF DispatchClaims, IsDue, ClaimPlan
    <2>2. \A w \in Wake : wakes[w].plan # p
      BY <1>1, <2>1, PromiseTypes DEF PromiseInv, WakeServesItsPlan
    <2>3. QED
      BY <1>1, <2>1, <2>2 DEF ClaimIsDue
  <1>2. CASE UNCHANGED vars
    BY <1>2 DEF PromiseInv, ClaimIsDue, vars, runVars, sourceVars, planVars, clockVars
  <1>3. QED
    BY <1>1, <1>2, ClaimedMoves

\* The plans of wakes: the same, or one more for the claimed plan that no wake has.
LEMMA PlansOfWakes ==
  ASSUME HubInv, AnnouncementInv, PromiseInv, [Next]_vars
  PROVE  \/ \A w \in Wake : wakes'[w].plan = wakes[w].plan
         \/ \E w \in Wake :
              /\ \A v \in Wake \ {w} : wakes'[v] = wakes[v]
              /\ wakes'[w].status = "assembling" /\ wakes[w] = Unwoken
              /\ active = NoWake
              /\ \/ wakes'[w].plan = NoPlan
                 \/ /\ pc = "claimed" /\ dispatched # NoPlan /\ wakes'[w].plan = dispatched
                    /\ \A v \in Wake : wakes[v].plan # dispatched
  <1>1. ASSUME NEW w \in Wake, NEW origin \in Origin, NEW plan \in Plan \cup {NoPlan}, NEW refused \in Wakeless,
               Admission(w, origin, plan, refused), wakes'[w].plan = plan
        PROVE  \/ wakes'[w].plan = NoPlan
               \/ /\ pc = "claimed" /\ dispatched # NoPlan /\ wakes'[w].plan = dispatched
                  /\ \A v \in Wake : wakes[v].plan # dispatched
    BY <1>1 DEF Admission, PromiseInv, ClaimIsDue
  <1>2. QED
    BY <1>1, TurnsMove

LEMMA ServesNext ==
  ASSUME HubInv, ClaimInv, AnnouncementInv, PromiseInv, [Next]_vars
  PROVE  WakeServesItsPlan'
  <1>1. (\A w \in Wake : wakes[w].plan # NoPlan => Status(wakes[w].plan) \in {"claimed", "completed", "failed"})'
    <2> DEFINE Kept(p) == StatusIn(planLog', p) \in {"claimed", "completed", "failed"}
    <2>1. \A p \in Plan : Status(p) \in {"claimed", "completed", "failed"} => Kept(p)
      BY StandingMoves DEF Status
    <2>2. \A w \in Wake : wakes[w].plan # NoPlan =>
            wakes[w].plan \in Plan /\ Status(wakes[w].plan) \in {"claimed", "completed", "failed"}
      BY PromiseTypes DEF PromiseInv, WakeServesItsPlan
    <2>3. dispatched # NoPlan => dispatched \in Plan /\ Status(dispatched) = "claimed"
      BY PromiseTypes DEF ClaimInv, ClaimIsHeldByItsDispatch
    <2> HIDE DEF Kept
    <2>4. \A w \in Wake : wakes'[w].plan # NoPlan => Kept(wakes'[w].plan)
      <3>1. CASE \A w \in Wake : wakes'[w].plan = wakes[w].plan
        BY <2>1, <2>2, <3>1
      <3>2. ASSUME NEW w \in Wake, \A v \in Wake \ {w} : wakes'[v] = wakes[v],
                   \/ wakes'[w].plan = NoPlan
                   \/ dispatched # NoPlan /\ wakes'[w].plan = dispatched
            PROVE  \A v \in Wake : wakes'[v].plan # NoPlan => Kept(wakes'[v].plan)
        BY <2>1, <2>2, <2>3, <3>2
      <3>3. QED
        BY <3>1, <3>2, PlansOfWakes
    <2>5. QED
      BY <2>4 DEF Kept, Status
  <1>2. \A v, w \in Wake : wakes'[v].plan = wakes'[w].plan /\ wakes'[v].plan # NoPlan => v = w
    BY PlansOfWakes DEF PromiseInv, WakeServesItsPlan
  <1>3. active' # NoWake => wakes'[active'].plan = dispatched'
    <2> SUFFICES ASSUME active' # NoWake PROVE wakes'[active'].plan = dispatched'
      OBVIOUS
    <2>1. /\ HubInv' /\ active' \in Wake /\ up'
          /\ dispatched' # NoPlan <=> wakes'[active'].origin = "self_directed"
      <3>1. HubInv'
        BY HubNextInv
      <3>2. QED
        BY <3>1, RunTypes, PromiseTypes DEF HubInv, RunShape, WakeServiceTypeOK, Wakeless
    <2>2. CASE active' = active
      <3>1. /\ wakes'[active].plan = wakes[active].plan /\ wakes'[active].origin = wakes[active].origin
            /\ dispatched # NoPlan <=> wakes[active].origin = "self_directed"
            /\ wakes[active].plan = dispatched
        <4>1. wakes[active].status # "none"
          BY <2>1, <2>2, RunTypes DEF AnnouncementInv, RowFollowsRun, RunHasItsRow, Unsettled, Wakeless, Settled, PC, AtAwait
        <4>2. QED
          BY <2>1, <2>2, <4>1, RunTypes, PromiseTypes, WakesStay DEF PromiseInv, WakeServesItsPlan
      <3>2. dispatched' # NoPlan <=> dispatched # NoPlan
        BY <2>1, <2>2, <3>1
      <3>3. dispatched' = dispatched \/ (dispatched = NoPlan /\ dispatched' \in Plan) \/ dispatched' = NoPlan
        BY PlanStep DEF PlanEffect
      <3>4. QED
        BY <2>2, <3>1, <3>2, <3>3, PromiseTypes
    <2>3. CASE active' # active
      <3>1. PICK w \in Wake, origin \in Origin, plan \in Plan \cup {NoPlan}, refused \in Wakeless :
              Admission(w, origin, plan, refused)
        BY <2>3, RowElsewhere
           DEF WakeStep, Begin, ShadowReturns, OrientationReturns, HearthReturns, HearthSettles, ProviderReturns,
               Continue, ToolReturns, RestReturns, CallReturns, RefuseCall, RoundLimitReached, Commit,
               PublishMessage, IngestResident, PublishCompleted, PublishAfterCommit, Fail, PublishFailed
      <3>2. CreateWake(w, origin, plan, session) /\ active' = w /\ dispatched' = dispatched
        BY <3>1 DEF Admission, Admit, clockVars
      <3>3. wakes'[w].plan = plan /\ wakes'[w].origin = origin
        BY <3>2, RunTypes, RowCreated
      <3>4. QED
        BY <2>1, <3>1, <3>2, <3>3 DEF Admission
    <2>4. QED
      BY <2>2, <2>3
  <1>4. pc' = "declined" /\ dispatched' # NoPlan =>
          \A w \in Wake : wakes'[w].plan = dispatched' => wakes'[w].status # "committed"
    <2>1. ASSUME UNCHANGED wakes, NEW p \in Plan, DispatchClaims(p)
          PROVE  \A w \in Wake : wakes'[w].plan # dispatched'
      <3>1. dispatched' = p /\ Status(p) = "scheduled"
        BY <2>1 DEF DispatchClaims, ClaimPlan
      <3>2. \A w \in Wake : wakes[w].plan # p
        BY <3>1, PromiseTypes DEF PromiseInv, WakeServesItsPlan
      <3>3. QED
        BY <2>1, <3>1, <3>2
    <2>2. ASSUME pc = "claimed", dispatched' = dispatched, dispatched # NoPlan
          PROVE  \A w \in Wake : wakes'[w].plan = dispatched' => wakes'[w].status # "committed"
      <3>1. \A w \in Wake : wakes[w].plan # dispatched
        BY <2>2 DEF PromiseInv, ClaimIsDue
      <3>2. QED
        BY <2>2, <3>1, PlansOfWakes
    <2>3. CASE UNCHANGED vars
      BY <2>3 DEF PromiseInv, WakeServesItsPlan, vars, runVars, sourceVars, clockVars
    <2>4. QED
      BY <2>1, <2>2, <2>3, DeclinedMoves
  <1>5. QED
    BY <1>1, <1>2, <1>3, <1>4 DEF WakeServesItsPlan

\* Only the row of the wake in progress changes, and not while it is settled except for
\* the custody that its host failed to keep.
LEMMA OtherWakesStay ==
  ASSUME HubInv, AnnouncementInv, [Next]_vars, NEW w \in Wake, wakes[w].status # "none", active # w
  PROVE  wakes'[w] = wakes[w]
  <1>1. CASE wakes' = wakes
    BY <1>1
  <1>2. CASE /\ active \in Wake
             /\ MarkCalling(active) \/ CommitSessionWake(active) \/ FailSessionWake(active) \/ RecordHostFailure(active)
    BY <1>2, RunTypes, RowMoves
  <1>3. ASSUME NEW v \in Wake, NEW origin \in Origin, NEW plan \in Plan \cup {NoPlan}, NEW refused \in Wakeless,
               Admission(v, origin, plan, refused)
        PROVE  wakes'[w] = wakes[w]
    <2>1. CreateWake(v, origin, plan, session)
      BY <1>3 DEF Admission, Admit
    <2>2. QED
      BY <2>1, RunTypes, RowCreated
  <1>4. QED
    BY <1>1, <1>2, <1>3, WakesMove

\* A verdict is given once, by the dispatch, and is that of the wake then and later.
LEMMA VerdictNext ==
  ASSUME HubInv, ClaimInv, AnnouncementInv, PromiseInv, [Next]_vars
  PROVE  VerdictsStand'
  <1> SUFFICES ASSUME NEW p \in Plan
               PROVE  /\ Status(p)' = "completed" =>
                           \E w \in Wake : wakes'[w].plan = p /\ wakes'[w].status = "committed" /\ ~wakes'[w].custodyFailed
                      /\ Status(p)' = "failed" =>
                           \A w \in Wake : wakes'[w].plan = p /\ wakes'[w].status = "committed" => wakes'[w].custodyFailed
    BY DEF VerdictsStand
  <1>1. /\ dispatched # NoPlan => dispatched \in Plan /\ Status(dispatched) = "claimed"
        /\ active # NoWake => wakes[active].plan = dispatched
        /\ \A v, w \in Wake : wakes[v].plan = wakes[w].plan /\ wakes[v].plan # NoPlan => v = w
        /\ p # NoPlan
    BY PromiseTypes DEF ClaimInv, ClaimIsHeldByItsDispatch, PromiseInv, WakeServesItsPlan
  <1>2. \A w \in Wake : wakes[w].plan # NoPlan => wakes[w].status # "none"
    BY DEF AnnouncementInv, RowFollowsRun, UnwokenIsBlank, Unwoken
  <1>3. CASE Status(p) \in {"completed", "failed"}
    <2>1. Status(p)' = Status(p) /\ dispatched # p
      BY <1>1, <1>3, StandingMoves
    <2>2. \A w \in Wake : wakes[w].plan = p => active # w /\ wakes'[w] = wakes[w]
      <3>1. \A w \in Wake : wakes[w].plan = p => active # w
        BY <1>1, <2>1, RunTypes
      <3>2. QED
        BY <1>1, <1>2, <3>1, OtherWakesStay
    <2>3. \A w \in Wake : wakes'[w].plan = p => wakes[w].plan = p
      <3>1. CASE \A w \in Wake : wakes'[w].plan = wakes[w].plan
        BY <3>1
      <3>2. ASSUME NEW w \in Wake, \A v \in Wake \ {w} : wakes'[v] = wakes[v],
                   wakes'[w].plan = NoPlan \/ wakes'[w].plan = dispatched
            PROVE  \A v \in Wake : wakes'[v].plan = p => wakes[v].plan = p
        BY <1>1, <2>1, <3>2
      <3>3. QED
        BY <3>1, <3>2, PlansOfWakes
    <2>4. QED
      BY <2>1, <2>2, <2>3 DEF PromiseInv, VerdictsStand
  <1>4. CASE Status(p) \notin {"completed", "failed"} /\ Status(p)' \in {"completed", "failed"}
    <2>1. dispatched = p /\ BenchSettles
      <3>1. dispatched = p /\ dispatched' = NoPlan /\ up'
        BY <1>4, StandingMoves
      <3>2. QED
        BY <1>1, <3>1, DispatchEnds
    <2>2. wakes' = wakes
      BY <2>1 DEF BenchSettles, DispatchDeclined, DispatchReturns, DispatchSettles, sourceVars
    <2>3. CASE DispatchDeclined
      <3>1. pc = "declined" /\ SettlePlan(dispatched, "failed")
        BY <2>3 DEF DispatchDeclined, DispatchSettles
      <3>2. Status(p)' = "failed"
        BY <2>1, <3>1, PromiseTypes, SettleStatus DEF Outcome
      <3>3. \A w \in Wake : wakes[w].plan = p => wakes[w].status # "committed"
        BY <1>1, <2>1, <3>1 DEF PromiseInv, WakeServesItsPlan
      <3>4. QED
        BY <2>2, <3>2, <3>3
    <2>4. CASE DispatchReturns
      <3> DEFINE kept == wakes[active].status = "committed" /\ ~wakes[active].custodyFailed
                 outcome == IF kept THEN "completed" ELSE "failed"
      <3>1. pc = "returned" /\ SettlePlan(dispatched, outcome)
        BY <2>4 DEF DispatchReturns, DispatchSettles
      <3>2. outcome \in Outcome
        BY DEF Outcome
      <3> HIDE DEF outcome
      <3>3. Status(p)' = outcome
        BY <2>1, <3>1, <3>2, PromiseTypes, SettleStatus
      <3>4. active \in Wake /\ wakes[active].plan = p
        BY <1>1, <2>1, <3>1, RunTypes DEF Wakeless
      <3>5. CASE kept
        BY <2>2, <3>3, <3>4, <3>5 DEF outcome
      <3>6. CASE ~kept
        <4>1. \A w \in Wake : wakes[w].plan = p => w = active
          BY <1>1, <3>4
        <4>2. Status(p)' = "failed"
          BY <3>3, <3>6 DEF outcome
        <4>3. QED
          BY <2>2, <3>6, <4>1, <4>2
      <3>7. QED
        BY <3>5, <3>6
    <2>5. QED
      BY <2>1, <2>3, <2>4 DEF BenchSettles
  <1>5. CASE Status(p)' \notin {"completed", "failed"}
    BY <1>5
  <1>6. QED
    BY <1>3, <1>4, <1>5

LEMMA PromiseInit == Init => PromiseInv
  <1> SUFFICES ASSUME Init PROVE PromiseInv
    OBVIOUS
  <1>1. \A p \in Plan : Status(p) = "unborn"
    BY StatusOfLog DEF Status, Init, PlanInit
  <1>2. /\ \A w \in Wake : wakes[w].plan = NoPlan
        /\ pc = "idle" /\ active = NoWake
    BY DEF Init, SourceInit, WakeServiceInit, Unwoken
  <1>3. QED
    BY <1>1, <1>2 DEF PromiseInv, AutonomousWakeHonoursItsOrigin, ClaimIsDue, WakeServesItsPlan, VerdictsStand

\* A claimed plan was due, its wake serves it, and its verdict is that wake's
\* (dispatch, settle).
THEOREM PromiseInvariance == Spec => []PromiseInv
  <1>1. HubInv /\ ClaimInv /\ AnnouncementInv /\ TurnInv /\ PromiseInv /\ [Next]_vars => PromiseInv'
    BY AdmissionHonoursItsOrigin, ClaimIsDueNext, ServesNext, VerdictNext DEF PromiseInv, TurnInv
  <1>2. QED
    BY <1>1, PromiseInit, HubInvariance, ClaimInvariance, AnnouncementInvariance, TurnInvariance, PTL DEF Spec

\* A promise is honoured by the wake it was made for, and judged by it: at its time and
\* seat, in its own lifespan, by one wake at most, with the verdict of that wake, however
\* timers, refusals and crashes fall (dispatch, createAutonomousSessionWake, settle).
THEOREM HubPromisesAreHonoured == Spec => []PromisesAreHonoured
  <1>1. ASSUME HubInv, PromiseInv
        PROVE  VerdictIsTheWakes
    <2> SUFFICES ASSUME NEW p \in Plan
                 PROVE  LET caused == {w \in Wake : wakes[w].plan = p}
                            whole == {w \in caused : wakes[w].status = "committed" /\ ~wakes[w].custodyFailed}
                        IN /\ Cardinality(caused) <= 1
                           /\ Status(p) = "completed" => whole # {}
                           /\ Status(p) = "failed" => whole = {}
      BY DEF VerdictIsTheWakes
    <2> DEFINE caused == {w \in Wake : wakes[w].plan = p}
    <2>1. p # NoPlan
      BY <1>1, PromiseTypes
    <2>2. \A v, w \in caused : v = w
      BY <1>1, <2>1 DEF PromiseInv, WakeServesItsPlan
    <2>3. Cardinality(caused) <= 1
      <3> HIDE DEF caused
      <3>1. CASE caused = {}
        <4>1. Cardinality(caused) = 0
          BY <3>1, FS_EmptySet
        <4>2. QED
          BY <4>1
      <3>2. CASE caused # {}
        <4>1. PICK w \in caused : TRUE
          BY <3>2
        <4>2. caused = {w}
          BY <2>2, <4>1
        <4>3. Cardinality(caused) = 1
          BY <4>2, FS_Singleton
        <4>4. QED
          BY <4>3
      <3>3. QED
        BY <3>1, <3>2
    <2>4. QED
      BY <1>1, <2>3 DEF PromiseInv, VerdictsStand
  <1>2. HubInv /\ PromiseInv => PromisesAreHonoured
    BY <1>1 DEF PromiseInv, PromisesAreHonoured
  <1>3. QED
    BY <1>2, HubInvariance, PromiseInvariance, PTL
=============================================================================
