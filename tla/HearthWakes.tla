---------------------------- MODULE HearthWakes ----------------------------
(***************************************************************************)
(* src/src/runtime/hearth-wakes.js: the opt-in clock that opens a fresh    *)
(* lifespan and wakes the Resident at its Hearth.  The process timer is    *)
(* set exactly while `next` is, so one variable stands for both.           *)
(***************************************************************************)
EXTENDS AutonomousWakes

CONSTANTS
  HearthInterval,   \* HUB_HEARTH_WAKE_INTERVAL_SECONDS in clock units, 0 is off
  NoTime

ASSUME HearthWakesAssumption == HearthInterval \in Nat /\ NoTime \notin Nat

VARIABLE hearthNext   \* next.dueAt, or NoTime

HearthWakesInit == hearthNext = NoTime

\* arm()
HearthArm == hearthNext' = IF closing \/ HearthInterval = 0 THEN hearthNext
                           ELSE now + HearthInterval

\* Variant: pending bench promises are not asked for.
HearthBlocked_IgnoresBench == pc # "idle" \/ ~ForestReady

\* Variant: a wake in progress does not hold the clock back.
HearthBlocked_IgnoresWake == ~Yielded \/ ~ForestReady \/ PendingOf(session) # NoPlan

\* The wake gate: a bench promise of the current lifespan comes first.
HearthBlocked == pc # "idle" \/ ~ForestReady \/ PendingOf(session) # NoPlan

\* The timer finds the Hub busy and polls in a second.
HearthPolls ==
  /\ up /\ ~closing /\ Yielded
  /\ hearthNext # NoTime /\ hearthNext <= now
  /\ HearthBlocked
  /\ UNCHANGED <<planVars, sourceVars, runVars, hostVars, benchVars, hearthNext>>

\* dispatch(): beginHearthLifespan() and ensureLifespan()
HearthOpens(s) ==
  /\ up /\ ~closing /\ ~HearthBlocked
  /\ WakeIdsLeft
  /\ OpenSession(s)
  /\ session' = s
  /\ seat' = [seat EXCEPT ![s] = HomeSeat]
  /\ pc' = "opened"
  /\ UNCHANGED <<up, closing, stage, active, firstTurn, round, left, stream, faults>>
  /\ UNCHANGED <<planVars, benchVars>>

HearthTimerFires(s) ==
  /\ hearthNext # NoTime /\ hearthNext <= now
  /\ HearthOpens(s)
  /\ hearthNext' = NoTime

\* runNow(): the operator's crossing leaves the recurrence alone.
HearthRunNow(s) ==
  /\ HearthOpens(s)
  /\ UNCHANGED hearthNext

HearthAdmits(w) ==
  /\ pc = "opened"
  /\ Admit(w, "hearth_origin", NoPlan, "declined") \/ DriftFound
  /\ UNCHANGED <<planVars, benchVars, hearthNext>>

\* Variant: the clock is armed again only after a wake was admitted.
HearthReturnsToClock_OnlyAfterWake ==
  /\ \/ pc = "declined" /\ dispatched = NoPlan /\ UNCHANGED hearthNext
     \/ /\ pc = "returned" /\ RunningOrigin = "hearth_origin"
        /\ IF hearthNext = NoTime THEN HearthArm ELSE UNCHANGED hearthNext
  /\ ClearRun
  /\ UNCHANGED <<planVars, sourceVars, benchVars>>

\* dispatch() ends, with or without a wake; only the timer's own run left
\* `next` empty, and only that run arms again.
HearthReturnsToClock ==
  /\ \/ pc = "declined" /\ dispatched = NoPlan
     \/ pc = "returned" /\ RunningOrigin = "hearth_origin"
  /\ IF hearthNext = NoTime THEN HearthArm ELSE UNCHANGED hearthNext
  /\ ClearRun
  /\ UNCHANGED <<planVars, sourceVars, benchVars>>

HearthWakesTypeOK == hearthNext \in Nat \cup {NoTime}
=============================================================================
