---------------------------- MODULE WakeService ----------------------------
(***************************************************************************)
(* src/src/runtime/wake-service.js and tool-continuation.js: the one       *)
(* orchestrator of a wake, from admission to its terminal row and event.   *)
(*                                                                         *)
(* The orchestration is a single async function.  Its control point is     *)
(* `pc`; each action below is the synchronous code between two points      *)
(* where something else can happen: an await (Yielded), where requests and *)
(* timers may run, or the gap between two SQLite transactions, where only  *)
(* a crash can.  What the provider, the Forest and the tools answer is     *)
(* chosen freely.  A wake-stream append may be refused (a credential in a  *)
(* payload, a busy database): `faults` counts the refusals, at most        *)
(* MaxFaults of them.                                                      *)
(***************************************************************************)
EXTENDS SourceLedger

CONSTANTS
  ForestInstalled,          \* a Forest store is configured
  MaxToolRounds,            \* HUB_MAX_TOOL_ROUNDS, for human wakes
  AutonomousMaxToolRounds,  \* the same for wakes that no human asked for
  MaxCalls,                 \* bound: tool calls in one provider message
  MaxFaults                 \* bound: refused wake-stream appends

ASSUME WakeServiceAssumption ==
  /\ ForestInstalled \in BOOLEAN
  /\ MaxToolRounds \in Nat
  /\ AutonomousMaxToolRounds \in Nat
  /\ MaxCalls \in Nat \ {0}
  /\ MaxFaults \in Nat

VARIABLES
  up,          \* the process runs
  closing,     \* WakeService.closing and the two controllers' closed, set together
  session,     \* db.session.id, process memory
  stage,       \* readiness of the Forest stage
  pc,          \* where the orchestration is; "idle" is wakeInProgress = false
  active,      \* activeWakeId
  firstTurn,   \* read once, in prepareWake
  round,       \* index of the provider round
  left,        \* calls of the current message that have no result yet
  stream,      \* wake_stream_events of each wake: its lifecycle kinds, in order
  faults       \* refused appends so far

hostVars == <<up, closing, session, stage>>
runVars == <<pc, active, firstTurn, round, left, stream, faults>>

Stage == {"pending", "ready", "failed"}
StreamKind == {"wake.accepted", "message.committed", "wake.completed", "wake.failed"}
Terminal == {"wake.completed", "wake.failed"}

\* Points where the orchestration awaits something outside it.
AtAwait == {"shadow", "orienting", "provider", "tool"}
PC == {"idle", "admitted", "hearthCalled", "hearthReturned", "calling", "resting",
       "refusing", "committing", "committed", "ingesting", "completing", "throwing",
       "failed", "returned", "claimed", "opened", "declined"} \cup AtAwait

WakeServiceInit ==
  /\ up = FALSE /\ closing = FALSE /\ session = NoSession /\ stage = "pending"
  /\ pc = "idle" /\ active = NoWake /\ firstTurn = FALSE /\ round = 0 /\ left = 0
  /\ stream = [w \in Wake |-> <<>>]
  /\ faults = 0

RunningOrigin == wakes[active].origin
RoundLimit == IF RunningOrigin = "human_present" THEN MaxToolRounds ELSE AutonomousMaxToolRounds

\* Requests and timers run only here.  A human wake admitted over HTTP is
\* deferred to a later turn of the event loop, an autonomous one is not.
Yielded ==
  \/ pc \in {"idle"} \cup AtAwait
  \/ pc = "admitted" /\ RunningOrigin = "human_present"

ForestReady == stage = "ready"

RefuseAppend == faults < MaxFaults /\ faults' = faults + 1
Publish(kind) ==
  /\ stream' = [stream EXCEPT ![active] = Append(@, kind)]
  /\ UNCHANGED faults

\* publish(): the append happens and control goes to `next`, or it throws.
PublishThen(kind, next) ==
  \/ Publish(kind) /\ pc' = next
  \/ RefuseAppend /\ pc' = "throwing" /\ UNCHANGED stream

\* Tool cards are published the same way; they are not lifecycle kinds.
CardThen(next) ==
  \/ UNCHANGED faults /\ pc' = next
  \/ RefuseAppend /\ pc' = "throwing"

\* providerPhase.run() refuses to begin once the Hub is closing.
EnterPhase(phase) == pc' = IF closing THEN "throwing" ELSE phase
FirstPhase == IF firstTurn THEN "orienting" ELSE "provider"

(* Admission *)

\* beginWake + prepareWake for wake w.  `refused` is where the caller continues
\* when wake.accepted cannot be appended: the exception clears wakeInProgress
\* and leaves the wake row behind.
Admit(w, origin, plan, refused) ==
  /\ CreateWake(w, origin, plan, session)
  /\ firstTurn' = (session \notin tended)
  /\ \/ /\ stream' = [stream EXCEPT ![w] = Append(@, "wake.accepted")]
        /\ pc' = "admitted" /\ active' = w
        /\ UNCHANGED faults
     \/ RefuseAppend /\ pc' = refused /\ active' = NoWake /\ UNCHANGED stream
  /\ UNCHANGED <<round, left>>

\* settleAdmittedWake and performAdmittedWake up to the first await: the Forest
\* takes in the human utterance and must be caught up, or the wake fails.
Begin ==
  /\ pc = "admitted"
  /\ \/ closing /\ pc' = "throwing" /\ UNCHANGED sourceVars
     \/ ~closing /\ ForestInstalled /\ RunningOrigin = "human_present"
        /\ pc' \in {"shadow", "throwing"} /\ UNCHANGED sourceVars
     \/ ~closing /\ ~(ForestInstalled /\ RunningOrigin = "human_present")
        /\ MarkCalling(active) /\ pc' \in {FirstPhase, "throwing"}
  /\ round' = 0
  /\ UNCHANGED <<active, firstTurn, left, stream, faults>>

\* The ambient shadow answers; Roots retains the decision or the wake fails.
ShadowReturns ==
  /\ pc = "shadow"
  /\ \/ pc' = "throwing" /\ UNCHANGED sourceVars
     \/ MarkCalling(active) /\ EnterPhase(FirstPhase)
  /\ UNCHANGED <<active, firstTurn, round, left, stream, faults>>

(* The two-breath orientation of a lifespan's first turn *)

\* awaitProviderWithAbort: once the Hub is closing a provider can only fail.
OrientationReturns ==
  /\ pc = "orienting"
  /\ \/ ~closing /\ RecordToolCall(active, 1) /\ pc' = "hearthCalled"
     \/ pc' = "throwing" /\ UNCHANGED sourceVars
  /\ UNCHANGED <<active, firstTurn, round, left, stream, faults>>

HearthReturns ==
  /\ pc = "hearthCalled"
  /\ \/ RecordHearthReturn(active) /\ UNCHANGED faults /\ pc' = "hearthReturned"
     \/ RefuseAppend /\ pc' = "throwing" /\ UNCHANGED sourceVars
  /\ UNCHANGED <<active, firstTurn, round, left, stream>>

HearthSettles ==
  /\ pc = "hearthReturned"
  /\ CardThen("provider")
  /\ UNCHANGED <<active, firstTurn, round, left, stream, sourceVars>>

(* runResidentRounds *)

\* Variant: an aborted crossing is not rejected.
ProviderReturns_IgnoresAbort ==
  /\ pc = "provider" /\ ~closing
  /\ \/ pc' = "committing" /\ UNCHANGED <<left, sourceVars>>
     \/ \E n \in 1..MaxCalls : RecordToolCall(active, n) /\ left' = n /\ pc' = "calling"
     \/ pc' = "throwing" /\ UNCHANGED <<left, sourceVars>>
  /\ UNCHANGED <<active, firstTurn, round, stream, faults>>

\* The provider answers with content, with n tool calls, or it fails (empty
\* content, ceiling, Scrub, network, cancellation).
ProviderReturns ==
  /\ pc = "provider"
  /\ \/ ~closing /\ pc' = "committing" /\ UNCHANGED <<left, sourceVars>>
     \/ \E n \in 1..MaxCalls : ~closing /\ RecordToolCall(active, n) /\ left' = n /\ pc' = "calling"
     \/ pc' = "throwing" /\ UNCHANGED <<left, sourceVars>>
  /\ UNCHANGED <<active, firstTurn, round, stream, faults>>

\* Variant: the round ends one call early.
Continue_OneCallEarly ==
  /\ pc = "calling"
  /\ \/ round = RoundLimit /\ CardThen("refusing") /\ UNCHANGED round
     \/ round < RoundLimit /\ left > 1 /\ UNCHANGED round
        /\ \E next \in {"tool", "resting"} : CardThen(next)
     \/ round < RoundLimit /\ left <= 1
        /\ \/ EnterPhase("provider") /\ round' = round + 1 /\ UNCHANGED faults
           \/ RefuseAppend /\ pc' = "throwing" /\ UNCHANGED round
  /\ UNCHANGED <<active, firstTurn, left, stream, sourceVars>>

\* Publishes what is due (tool_call.ready, the last result's cards,
\* tool.started) and turns to the next call, to the next round, or to the
\* refusal of a message that came after the last opportunity.
Continue ==
  /\ pc = "calling"
  /\ \/ round = RoundLimit /\ CardThen("refusing") /\ UNCHANGED round
     \/ round < RoundLimit /\ left > 0 /\ UNCHANGED round
        /\ \E next \in {"tool", "resting"} : CardThen(next)
     \/ round < RoundLimit /\ left = 0
        /\ \/ EnterPhase("provider") /\ round' = round + 1 /\ UNCHANGED faults
           \/ RefuseAppend /\ pc' = "throwing" /\ UNCHANGED round
  /\ UNCHANGED <<active, firstTurn, left, stream, sourceVars>>

\* A tool's result, or gateway.refuse()'s, is recorded.
CallReturns(where) ==
  /\ pc = where
  /\ RecordToolResult(active)
  /\ left' = left - 1
  /\ pc' = "calling"
  /\ UNCHANGED <<active, firstTurn, round, stream, faults>>

ToolReturns == CallReturns("tool")
RestReturns == CallReturns("resting")

\* Variant: one call too many is refused.
RefuseCall_OneTooMany ==
  /\ pc = "refusing"
  /\ RecordToolResult(active)
  /\ left' = left - 1
  /\ CardThen("refusing")
  /\ UNCHANGED <<active, firstTurn, round, stream>>

\* At the round limit every call is refused with a recorded result; then the
\* loop throws world_tool_round_limit.
RefuseCall ==
  /\ pc = "refusing" /\ left > 0
  /\ RecordToolResult(active)
  /\ left' = left - 1
  /\ CardThen("refusing")
  /\ UNCHANGED <<active, firstTurn, round, stream>>

RoundLimitReached ==
  /\ pc = "refusing" /\ left = 0
  /\ pc' = "throwing"
  /\ UNCHANGED <<active, firstTurn, round, left, stream, faults, sourceVars>>

(* Commit, and what follows it; publishAfterCommit swallows a refused append *)

Commit ==
  /\ pc = "committing"
  /\ CommitSessionWake(active)
  /\ pc' = "committed"
  /\ UNCHANGED <<active, firstTurn, round, left, stream, faults>>

\* Variant: a refused append after the commit is thrown like any other.
PublishAfterCommit_Throws(at, kind, next) ==
  /\ pc = at
  /\ PublishThen(kind, next)
  /\ UNCHANGED <<active, firstTurn, round, left, sourceVars>>

PublishAfterCommit(at, kind, next) ==
  /\ pc = at
  /\ Publish(kind) \/ (RefuseAppend /\ UNCHANGED stream)
  /\ pc' = next
  /\ UNCHANGED <<active, firstTurn, round, left, sourceVars>>

PublishMessage == PublishAfterCommit("committed", "message.committed", "ingesting")
PublishCompleted == PublishAfterCommit("completing", "wake.completed", "returned")

\* Variant: a custody failure after the commit fails the wake.
IngestResident_Throws ==
  /\ pc = "ingesting"
  /\ UNCHANGED sourceVars
  /\ pc' \in {"completing", "throwing"}
  /\ UNCHANGED <<active, firstTurn, round, left, stream, faults>>

IngestResident ==
  /\ pc = "ingesting"
  /\ UNCHANGED sourceVars \/ (ForestInstalled /\ RecordHostFailure(active))
  /\ pc' = "completing"
  /\ UNCHANGED <<active, firstTurn, round, left, stream, faults>>

(* Failure: the row first, then wake.failed, which has no fallback payload *)

\* Variant: wake.failed is published without failing the row.
Fail_WithoutRow ==
  /\ pc = "throwing"
  /\ pc' = "failed"
  /\ UNCHANGED <<active, firstTurn, round, left, stream, faults, sourceVars>>

Fail ==
  /\ pc = "throwing"
  /\ FailSessionWake(active)
  /\ pc' = "failed"
  /\ UNCHANGED <<active, firstTurn, round, left, stream, faults>>

PublishFailed ==
  /\ pc = "failed"
  /\ Publish("wake.failed") \/ (RefuseAppend /\ UNCHANGED stream)
  /\ pc' = "returned"
  /\ UNCHANGED <<active, firstTurn, round, left, sourceVars>>

\* The finally of beginWake: wakeInProgress and activeWakeId are cleared.
ClearRun ==
  /\ pc' = "idle" /\ active' = NoWake
  /\ firstTurn' = FALSE /\ round' = 0 /\ left' = 0
  /\ UNCHANGED <<stream, faults>>

\* Steps that involve no bench rest and no clock
WakeStep ==
  \/ Begin \/ ShadowReturns
  \/ OrientationReturns \/ HearthReturns \/ HearthSettles
  \/ ProviderReturns \/ Continue \/ RefuseCall \/ RoundLimitReached
  \/ Commit \/ PublishMessage \/ IngestResident \/ PublishCompleted
  \/ Fail \/ PublishFailed

WakeServiceTypeOK ==
  /\ up \in BOOLEAN /\ closing \in BOOLEAN
  /\ session \in Session \cup {NoSession}
  /\ stage \in Stage
  /\ pc \in PC
  /\ active \in Wake \cup {NoWake}
  /\ firstTurn \in BOOLEAN
  /\ round \in Nat /\ left \in Nat
  /\ stream \in [Wake -> Seq(StreamKind)]
  /\ faults \in 0..MaxFaults
=============================================================================
