-------------------------- MODULE AutonomousWakes --------------------------
(***************************************************************************)
(* src/src/runtime/autonomous-wakes.js: the controller that keeps bench    *)
(* rests.  It owns one process timer, aimed at the first pending plan of   *)
(* any lifespan, and dispatches that plan's wake through WakeService.      *)
(*                                                                         *)
(* A Node timer may run early or late against the wall clock, so the       *)
(* timer fires at any moment and dispatch() re-reads everything it relies  *)
(* on.  life() is a constant of a lifespan (context generation 1), so the  *)
(* branch that compares lives cannot be taken and is left out.             *)
(***************************************************************************)
EXTENDS WakeService

CONSTANT HomeSeat   \* where ensureLifespan puts the Resident

ASSUME AutonomousWakesAssumption == HomeSeat \in Seat

VARIABLES
  now,          \* the wall clock, in units of the least rest
  seat,         \* World and Forest footing of each lifespan (durable)
  benchTimer,   \* the plan the process timer was set for, or NoPlan
  dispatched    \* the plan whose dispatch() is in progress, or NoPlan

benchVars == <<benchTimer, dispatched>>

AutonomousWakesInit ==
  /\ now = 0
  /\ seat = [s \in Session |-> HomeSeat]
  /\ benchTimer = NoPlan
  /\ dispatched = NoPlan

\* arm(): a closed controller arms nothing.
Arm == benchTimer' = IF closing THEN benchTimer
                     ELSE FirstPending(planLog', planRow', Session)

\* schedule() at the current verified seat
Schedule(p, s, duration) ==
  /\ s \in tended
  /\ SchedulePlan(p, s, seat[s], now, duration)
  /\ Arm
  /\ UNCHANGED dispatched

\* executeRestTool(): rest_for within a wake, at least one unit from now
RestFor(p, duration) ==
  /\ RestReturns
  /\ Schedule(p, wakes[active].session, duration)

\* ... with arguments that are refused
RestRefused == RestReturns /\ UNCHANGED <<planVars, benchVars>>

\* manual(): a plan that is due at once
ManualRest(p) ==
  /\ up /\ Yielded
  /\ Schedule(p, session, 0)
  /\ UNCHANGED <<sourceVars, runVars>>

\* dispatch(planId): what is read again when the timer fires
IsHead(p) == FirstPending(planLog, planRow, Session) = p
IsDue(p) == planRow[p].due <= now
WakeIdsLeft == \E w \in Wake : wakes[w].status = "none"   \* bound

TimerFires(p) == up /\ ~closing /\ Yielded /\ benchTimer = p /\ p # NoPlan

\* Not the first pending plan any more, or not due yet: look again.
DispatchTooSoon(p) ==
  /\ TimerFires(p)
  /\ ~IsHead(p) \/ ~IsDue(p)
  /\ UNCHANGED <<planVars, sourceVars, runVars, dispatched>>
  /\ Arm

\* Variant: the poll forgets to set the timer again.
DispatchPolls_Once(p) ==
  /\ TimerFires(p) /\ IsHead(p) /\ IsDue(p)
  /\ pc # "idle" \/ ~ForestReady
  /\ benchTimer' = NoPlan
  /\ UNCHANGED <<planVars, sourceVars, runVars, dispatched>>

\* A wake is in progress or the Hub is not ready: poll in a second.
DispatchPolls(p) ==
  /\ TimerFires(p) /\ IsHead(p) /\ IsDue(p)
  /\ pc # "idle" \/ ~ForestReady
  /\ UNCHANGED <<planVars, sourceVars, runVars, benchVars>>

\* Variant: the seat is not compared again.
DispatchClaims_AnySeat(p) ==
  /\ TimerFires(p) /\ IsHead(p) /\ IsDue(p)
  /\ pc = "idle" /\ ForestReady
  /\ WakeIdsLeft
  /\ ClaimPlan(p)
  /\ pc' = "claimed"
  /\ benchTimer' = NoPlan
  /\ dispatched' = p
  /\ UNCHANGED <<sourceVars, active, firstTurn, round, left, stream, faults>>

\* The plan is claimed; its wake is refused at once when the Resident has moved.
DispatchClaims(p) ==
  /\ TimerFires(p) /\ IsHead(p) /\ IsDue(p)
  /\ pc = "idle" /\ ForestReady
  /\ WakeIdsLeft
  /\ ClaimPlan(p)
  /\ pc' = IF planRow[p].seat = seat[planRow[p].session] THEN "claimed" ELSE "declined"
  /\ benchTimer' = NoPlan
  /\ dispatched' = p
  /\ UNCHANGED <<sourceVars, active, firstTurn, round, left, stream, faults>>

\* prepareWake throws before a row exists: Glass or Roots verification found drift.
DriftFound ==
  /\ RefuseAppend
  /\ pc' = "declined"
  /\ UNCHANGED <<sourceVars, active, firstTurn, round, left, stream>>

\* wakeService.wake() for the claimed plan; the ledger refuses a plan of a
\* lifespan that is no longer open.
DispatchAdmits(w) ==
  /\ pc = "claimed"
  /\ \/ Admit(w, "self_directed", dispatched, "declined")
     \/ DriftFound
     \/ /\ ~MayCreate("self_directed", dispatched, session)
        /\ pc' = "declined"
        /\ UNCHANGED <<sourceVars, active, firstTurn, round, left, stream, faults>>
  /\ UNCHANGED <<planVars, benchVars>>

\* The wake was refused before admission, or it returned: the plan gets its
\* outcome and the timer is armed again.
DispatchSettles(outcome) ==
  /\ SettlePlan(dispatched, outcome)
  /\ Arm
  /\ dispatched' = NoPlan
  /\ ClearRun
  /\ UNCHANGED sourceVars

\* Variant: a wake that was refused before admission settles nothing.
DispatchDeclined_Unsettled ==
  /\ pc = "declined" /\ dispatched # NoPlan
  /\ UNCHANGED planVars
  /\ Arm
  /\ dispatched' = NoPlan
  /\ ClearRun
  /\ UNCHANGED sourceVars

DispatchDeclined ==
  /\ pc = "declined" /\ dispatched # NoPlan
  /\ DispatchSettles("failed")

\* Variant: a custody failure does not count.
DispatchReturns_IgnoresCustody ==
  /\ pc = "returned" /\ RunningOrigin = "self_directed"
  /\ DispatchSettles(IF wakes[active].status = "committed" THEN "completed" ELSE "failed")

DispatchReturns ==
  /\ pc = "returned" /\ RunningOrigin = "self_directed"
  /\ DispatchSettles(IF wakes[active].status = "committed" /\ ~wakes[active].custodyFailed
                     THEN "completed" ELSE "failed")

AutonomousWakesTypeOK ==
  /\ now \in 0..MaxTime
  /\ seat \in [Session -> Seat]
  /\ benchTimer \in Plan \cup {NoPlan}
  /\ dispatched \in Plan \cup {NoPlan}
=============================================================================
