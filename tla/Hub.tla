-------------------------------- MODULE Hub --------------------------------
(***************************************************************************)
(* The Hub process (src/src/server/app.js) around one Source database:     *)
(* startup, requests, the two wake clocks, graceful close, crash and       *)
(* restart, composed with WakeService, the bench and the Hearth.           *)
(***************************************************************************)
EXTENDS HearthWakes

clockVars == <<now, benchTimer, dispatched, hearthNext>>
vars == <<hostVars, runVars, sourceVars, planVars, clockVars, seat>>

Init ==
  /\ PlanInit /\ SourceInit /\ WakeServiceInit /\ AutonomousWakesInit /\ HearthWakesInit

(* The process *)

\* createHub(): opening the database always opens a new lifespan; both clocks
\* are armed from what the ledger holds.  A progressive Hub serves before its
\* Forest is verified.
Boot(s) ==
  /\ ~up
  /\ OpenSession(s)
  /\ up' = TRUE /\ closing' = FALSE /\ session' = s
  /\ stage' \in IF ForestInstalled THEN {"pending", "ready"} ELSE {"ready"}
  /\ seat' = [seat EXCEPT ![s] = HomeSeat]
  /\ benchTimer' = FirstPending(planLog, planRow, Session)
  /\ HearthArm
  /\ UNCHANGED <<runVars, planVars, now, dispatched>>

\* ReadinessProjection.settle and revoke for the Forest stage
ForestSettles ==
  /\ up /\ Yielded
  /\ \/ stage = "pending" /\ stage' \in {"ready", "failed"}
     \/ stage = "ready" /\ ForestInstalled /\ stage' = "failed"
  /\ UNCHANGED <<up, closing, session, runVars, sourceVars, planVars, clockVars, seat>>

\* close(): intake stops and both clocks are disarmed; a provider crossing is aborted.
Close ==
  /\ up /\ ~closing /\ Yielded
  /\ closing' = TRUE
  /\ benchTimer' = NoPlan /\ hearthNext' = NoTime
  /\ UNCHANGED <<up, session, stage, runVars, sourceVars, planVars, now, dispatched, seat>>

\* Process memory is gone; what the databases hold stays.
Stop ==
  /\ up' = FALSE /\ closing' = FALSE /\ session' = NoSession /\ stage' = "pending"
  /\ benchTimer' = NoPlan /\ dispatched' = NoPlan /\ hearthNext' = NoTime
  /\ ClearRun
  /\ UNCHANGED <<sourceVars, planVars, now, seat>>

\* The stores close once the wake in progress has returned.
Exit == up /\ closing /\ pc = "idle" /\ Stop

Crash == up /\ Stop

Tick ==
  /\ now < MaxTime                 \* bound
  /\ ~up \/ Yielded
  /\ now' = now + 1
  /\ UNCHANGED <<hostVars, runVars, sourceVars, planVars, benchVars, hearthNext, seat>>

(* Requests *)

\* POST /api/wakes
Submit(w) ==
  /\ up /\ ~closing /\ pc = "idle" /\ ForestReady
  /\ Admit(w, "human_present", NoPlan, "idle")
  /\ UNCHANGED <<hostVars, planVars, clockVars, seat>>

\* Variant: the finally clause that frees the Hub is missing.
HumanReturns_StaysBusy ==
  /\ pc = "returned" /\ RunningOrigin = "human_present"
  /\ UNCHANGED vars

HumanReturns ==
  /\ pc = "returned" /\ RunningOrigin = "human_present"
  /\ ClearRun
  /\ UNCHANGED <<hostVars, sourceVars, planVars, clockVars, seat>>

(* The wake in progress *)

\* A tool may move the Resident.
ToolStep ==
  /\ ToolReturns
  /\ \E x \in Seat : seat' = [seat EXCEPT ![wakes[active].session] = x]
  /\ UNCHANGED <<hostVars, planVars, clockVars>>

RestStep ==
  /\ \/ \E p \in Plan, duration \in 1..(MaxTime - now) : RestFor(p, duration)
     \/ RestRefused
  /\ UNCHANGED <<hostVars, now, hearthNext, seat>>

Run ==
  \/ WakeStep /\ UNCHANGED <<hostVars, planVars, clockVars, seat>>
  \/ ToolStep
  \/ RestStep
  \/ HumanReturns

(* The clocks *)

BenchSettles ==
  /\ DispatchDeclined \/ DispatchReturns
  /\ UNCHANGED <<hostVars, now, hearthNext, seat>>

BenchFires ==
  /\ \E p \in Plan : DispatchTooSoon(p) \/ DispatchPolls(p) \/ DispatchClaims(p)
  /\ UNCHANGED <<hostVars, now, hearthNext, seat>>

BenchAdmits ==
  /\ \E w \in Wake : DispatchAdmits(w)
  /\ UNCHANGED <<hostVars, now, hearthNext, seat>>

Manual ==
  /\ \E p \in Plan : ManualRest(p)
  /\ UNCHANGED <<hostVars, now, hearthNext, seat>>

HearthFires ==
  /\ \/ \E s \in Session : HearthTimerFires(s)
     \/ HearthPolls /\ UNCHANGED seat
  /\ UNCHANGED now

HearthByOperator == \E s \in Session : HearthRunNow(s) /\ UNCHANGED now

HearthWakeStep ==
  /\ (\E w \in Wake : HearthAdmits(w)) \/ HearthReturnsToClock
  /\ UNCHANGED <<hostVars, now, seat>>

\* Code that is running or whose await has been answered
Progress == Run \/ BenchSettles \/ BenchAdmits \/ HearthWakeStep

Next ==
  \/ \E s \in Session : Boot(s)
  \/ ForestSettles \/ Close \/ Exit \/ Crash \/ Tick
  \/ \E w \in Wake : Submit(w)
  \/ Manual \/ BenchFires \/ HearthFires \/ HearthByOperator
  \/ Progress

Spec == Init /\ [][Next]_vars

\* A provider may never answer; once the Hub is closing, the abort grace of
\* 250 ms settles the crossing in its place.
ProviderWaits == pc \in {"orienting", "provider"}

Fairness ==
  /\ WF_vars(Progress /\ (ProviderWaits => closing))
  /\ WF_vars(Exit)
  /\ WF_vars(Tick)
  /\ WF_vars(BenchFires)

FairSpec == Spec /\ Fairness

-----------------------------------------------------------------------------
(* Properties *)

TypeOK ==
  /\ PlanTypeOK /\ SourceTypeOK /\ WakeServiceTypeOK
  /\ AutonomousWakesTypeOK /\ HearthWakesTypeOK

\* The lifespan that is open is the one the process believes in.
OneOpenLifespan == up => OpenLifespans = {session}

\* No two share a predecessor, none descends from one that is open or not yet born,
\* and there is no cycle.
AncestryIsOneLine ==
  LET Born == {s \in Session : lifespan[s] # "unborn"}
  IN /\ \A s, t \in Born : predecessor[s] = predecessor[t] => s = t
     /\ \A s \in Born : predecessor[s] \in (Born \cup {SessionZero}) \ OpenLifespans
     /\ \A S \in (SUBSET Born) \ {{}} : \E s \in S : predecessor[s] \notin S

\* Startup, restarts and the Hearth clock between them never leave two lifespans open
\* or none, and lifespans descend in one line from Session Zero: a branch or a cycle is
\* what priorSessionTail would report while the Hearth packet is built (openSession).
LifespansAreOneLine == OneOpenLifespan /\ AncestryIsOneLine

\* The lifespan of the wake in progress stays open and current until the wake
\* returns: neither clock replaces the ground under it.
RunKeepsItsLifespan ==
  active # NoWake => wakes[active].session = session /\ lifespan[session] = "open"

\* Lifespans are one line, and the wake in progress belongs to the end of it.
LifespansHold == LifespansAreOneLine /\ RunKeepsItsLifespan

\* A wake whose acceptance was announced is either settled, or in progress, or
\* its process has died: a live Hub never abandons it half done.
AcceptedWakeIsOwned ==
  \A w \in Wake : stream[w] # <<>> /\ ~Settled(w) =>
    active = w \/ lifespan[wakes[w].session] = "closed" \/ ~up

\* No two wakes of a lifespan have the same turn ordinal, although ordinals are
\* counted outside the transaction and a Hearth wake takes 1 unasked.
TurnOrdinalsDiffer ==
  \A v, w \in Wake : wakes[v].session = wakes[w].session /\ wakes[v].ordinal = wakes[w].ordinal
                      /\ wakes[v].session # NoSession => v = w

\* A committed turn reads as the provider protocol requires: every message with
\* n tool calls is followed by exactly n results, the Resident's words come
\* last and once; a turn that did not commit has no Resident row.
CommittedTurnIsWhole ==
  \A s \in Session :
    LET rows == scroll[s]
        Kind(i) == IF i \in DOMAIN rows THEN rows[i].kind ELSE "none"
        Of(w) == {i \in DOMAIN rows : rows[i].wake = w}
    IN \A w \in {rows[i].wake : i \in DOMAIN rows} :
         /\ {i \in Of(w) : Kind(i) = "resident"} =
              IF wakes[w].status = "committed" THEN {CHOOSE i \in Of(w) : \A j \in Of(w) : j <= i} ELSE {}
         /\ wakes[w].status = "committed" =>
              \A i \in Of(w) : Kind(i) = "assistant_tool_call" =>
                /\ \A k \in 1..rows[i].calls : Kind(i + k) = "tool_result"
                /\ Kind(i + rows[i].calls + 1) # "tool_result"

\* Every lifespan reads as whole turns, each under an ordinal of its own.
TurnsAreWhole == TurnOrdinalsDiffer /\ CommittedTurnIsWhole

\* What the stream announced is what the ledger holds: acceptance first, at most
\* one terminal event, message.committed before wake.completed, and neither
\* without a committed row, nor wake.failed without a failed one.
StreamTellsTheLedger ==
  \A w \in Wake :
    \/ stream[w] \in {<<>>, <<"wake.accepted">>}
    \/ stream[w] = <<"wake.accepted", "wake.failed">> /\ wakes[w].status = "failed"
    \/ /\ wakes[w].status = "committed"
       /\ stream[w] \in {<<"wake.accepted">> \o tail : tail \in
            {<<"message.committed">>, <<"wake.completed">>, <<"message.committed", "wake.completed">>}}

\* What was announced holds: a live Hub neither abandons an accepted wake nor tells
\* the renderer of an ending the ledger does not have.
AnnouncementsHold == AcceptedWakeIsOwned /\ StreamTellsTheLedger

\* A self-directed wake is admitted only as its promise was made: in its own
\* lifespan, still open, at the seat it rested at, when due, by a plan that was
\* claimed for it; a Hearth wake only as the first of an untended lifespan.
AutonomousWakeHonoursItsOrigin ==
  pc = "admitted" =>
    LET wake == wakes[active] IN
    /\ wake.origin = "self_directed" =>
         /\ dispatched = wake.plan /\ Status(wake.plan) = "claimed"
         /\ planRow[wake.plan].session = session
         /\ planRow[wake.plan].seat = seat[session]
         /\ planRow[wake.plan].due <= now
    /\ wake.origin = "hearth_origin" =>
         /\ scroll[session] = <<>> /\ session \notin tended
         /\ \A w \in Wake \ {active} : wakes[w].session # session

\* settle() never throws: the plan in dispatch is claimed until it is settled.
\* Any other claimed plan was orphaned by the death of its process.
ClaimIsHeldByItsDispatch ==
  /\ dispatched # NoPlan => Status(dispatched) = "claimed"
  /\ \A p \in Plan : Status(p) = "claimed" /\ p # dispatched =>
       ~up \/ lifespan[planRow[p].session] = "closed"

\* A promise is never completed on paper only: its verdict is that of the one
\* wake it caused, if it caused one.
VerdictIsTheWakes ==
  \A p \in Plan :
    LET caused == {w \in Wake : wakes[w].plan = p}
        whole == {w \in caused : wakes[w].status = "committed" /\ ~wakes[w].custodyFailed}
    IN /\ Cardinality(caused) <= 1
       /\ Status(p) = "completed" => whole # {}
       /\ Status(p) = "failed" => whole = {}

\* A promise is honoured by the wake it was made for, and judged by it.
PromisesAreHonoured == AutonomousWakeHonoursItsOrigin /\ VerdictIsTheWakes

\* The bench timer is aimed at the first pending promise, unless a dispatch is under way that will arm it again.
BenchTimerNeverLost ==
  up /\ ~closing =>
    \/ benchTimer = FirstPending(planLog, planRow, Session)
    \/ dispatched # NoPlan /\ benchTimer = NoPlan

\* While the Hearth clock is not set, the run that it started is still going.
HearthClockNeverLost ==
  up /\ ~closing /\ HearthInterval > 0 =>
    hearthNext # NoTime \/ (pc # "idle" /\ dispatched = NoPlan)

\* Neither clock stops by itself in a live Hub: no pending promise is forgotten and
\* no Hearth interval, whichever way the wake they started ends (arm, dispatch).
ClocksAreNeverLost == BenchTimerNeverLost /\ HearthClockNeverLost

\* A live Hub ends a lifespan only when that lifespan holds no bench promise
\* and no wake is in progress: a fresh life must not falsify a promised return.
HearthBreaksNoPromise ==
  [][up /\ up' /\ session' # session =>
       PendingOf(session) = NoPlan /\ \A p \in Plan : Status(p) = "claimed" =>
                                        lifespan[planRow[p].session] # "open"]_vars

\* A settled turn is sealed: its status never changes again and its part of the
\* Scroll never grows.
SettledTurnIsSealed ==
  [][\A w \in Wake : Settled(w) =>
       /\ wakes'[w].status = wakes[w].status
       /\ LET s == wakes[w].session
          IN \A i \in DOMAIN scroll'[s] \ DOMAIN scroll[s] : scroll'[s][i].wake # w]_vars

\* The Hub always comes back to rest, unless a provider leaves it waiting.
WakeReturns == []<>(pc = "idle") \/ <>[]ProviderWaits

\* A graceful close always ends, whatever the provider does.
ShutdownCompletes == closing ~> ~up

\* Neither a wake nor a close is stuck for ever, whatever the provider and the clocks
\* do, except that a provider may leave a wake waiting.
HubComesToRest == WakeReturns /\ ShutdownCompletes

\* A pending promise is taken up or replaced, as long as the Hub goes on
\* serving and no provider leaves it waiting.
Serving == up /\ ~closing /\ ForestReady /\ WakeIdsLeft
PromiseIsKept ==
  \/ \A p \in Plan : Status(p) = "scheduled" /\ Serving ~> Status(p) # "scheduled" \/ ~Serving
  \/ <>[]ProviderWaits

-----------------------------------------------------------------------------
(* What the documents say and the code does not do *)

\* "A crash leaves the plan pending; startup may claim an overdue plan once"
\* (src/docs/specs/AUTONOMOUS_WAKES_V1.md): while the Hub is down no plan is
\* claimed.  The code claims before it wakes and never revisits a claimed plan.
CrashLeavesPlanPending == ~up => \A p \in Plan : Status(p) # "claimed"
=============================================================================
