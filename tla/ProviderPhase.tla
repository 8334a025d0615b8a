--------------------------- MODULE ProviderPhase ---------------------------
(* One provider crossing: ProviderPhase.run() (src/src/runtime/provider-phase.js)*)
(* with the provider adapter it awaits (src/src/providers/deepseek.js), the       *)
(* provisional collector, the request row and its Roots exposure in SQLite, and   *)
(* the Spine.                                                                     *)
(*                                                                                *)
(* Everything between two awaits runs without interleaving, but each durable      *)
(* write is a step of its own, because the process may die between two of them.   *)
(* The adapter is a second actor: after the abort grace it may still be running,  *)
(* and calls back into a phase that has returned.                                 *)
(*                                                                                *)
(* Abstracted: what is presented (Glass, Scrub, fold) and what is answered.       *)
EXTENDS Spine, TLC
CONSTANTS Channel,        \* thinking, content, one per tool call index
          MaxFragments,   \* the collector's fragment bound
          MaxOffered,     \* bounds the fragments each request's answer streams
          MaxFaults,      \* bounds refused writes and deaths of the process
          MaxCrashes,     \* bounds the deaths alone
          NoRequest
ASSUME FragmentsAssumption == MaxFragments \in Nat /\ MaxFragments > 1
ASSUME OfferedAssumption == MaxOffered \in [Request -> Nat]
ASSUME NoRequestAssumption == NoRequest \notin Request
VARIABLES
  rows,      \* provider_requests
  exposure,  \* root_attention_exposure_events: the latest disposition
  stream,    \* what the wake stream says of provider phases
  adapter,   \* the adapter's call for each request
  open,      \* requests whose callbacks still reach the phase
  here,      \* the locals of the running phase
  pc, closing, up, faults, crashes

storeVars == <<rows, exposure, stream>>
lifeVars == <<closing, up, crashes>>
vars == <<spineVars, storeVars, adapter, open, here, pc, lifeVars, faults>>

Disposition == {"none", "prepared", "presented", "never_dispatched"}
Fragment == [chan : Channel, n : Nat]
Phase(r) == [req |-> r, dispatched |-> FALSE, raw |-> FALSE, outcome |-> NoCode,
             aborted |-> FALSE, answer |-> "none", pending |-> <<>>, offered |-> <<>>,
             hushed |-> {}, failed |-> FALSE]
Row(stage, outcome, response) == [stage |-> stage, outcome |-> outcome, response |-> response]
Event(kind, r) == [kind |-> kind, req |-> r, frags |-> <<>>, omitted |-> FALSE]
DeltaEvent(r, frags, omitted) == [kind |-> "delta", req |-> r, frags |-> frags, omitted |-> omitted]

Init ==
  /\ SpineInit
  /\ rows = [r \in Request |-> Row("none", NoCode, FALSE)]
  /\ exposure = [r \in Request |-> "none"]
  /\ stream = <<>>
  /\ adapter = [r \in Request |-> "none"]
  /\ open = {} /\ here = Phase(NoRequest) /\ pc = "idle"
  /\ closing = FALSE /\ up = TRUE /\ faults = 0 /\ crashes = 0

At(p) == up /\ pc = p
Goto(p) == pc' = p
Fault == faults + crashes < MaxFaults /\ faults' = faults + 1
Keeps == UNCHANGED faults
\* A Spine append that the disk takes, or refuses by throwing.
Appends(f) == AppendFrame(f) /\ Keeps
AppendThrows(f) == AppendFails(f) /\ Fault

(* Before the crossing: outside run()'s try *)

\* prepareWake() admits no wake while verifyRoots() finds an exposure unclosed; the
\* later phases of a wake follow phases that succeeded.
RootsVerified == \A r \in Request : exposure[r] # "prepared"

\* Past the closing check and the attention ceiling, the exact request is
\* prepared in the Spine.
Prepare(r) ==
  /\ At("idle") /\ ~closing /\ RootsVerified
  /\ rows[r].stage = "none" /\ ~Has(held, r, "prepared")
  /\ \/ Appends(FrameOf("prepared", r)) /\ Goto("prepared")
     \/ AppendThrows(FrameOf("prepared", r)) /\ Goto("idle")
  /\ here' = Phase(r)
  /\ UNCHANGED <<storeVars, adapter, open, lifeVars>>

\* recordProviderRequest()
RecordRow ==
  /\ At("prepared") /\ Goto("recorded")
  /\ rows' = [rows EXCEPT ![here.req] = Row("open", NoCode, FALSE)]
  /\ UNCHANGED <<spineVars, exposure, stream, adapter, open, here, lifeVars, faults>>

\* One transaction: ground receipts, Glass cast, trace manifest, and the exposure
\* of a crossing that presents a result or a Forest packet.
CastGlass ==
  /\ At("recorded")
  /\ \/ /\ exposure' \in {exposure, [exposure EXCEPT ![here.req] = "prepared"]}
        /\ Goto("cast") /\ Keeps
     \/ Fault /\ Goto("idle") /\ UNCHANGED exposure
  /\ UNCHANGED <<spineVars, rows, stream, adapter, open, here, lifeVars>>

\* phase.started: a refused append is thrown past the catch below.
Announce ==
  /\ At("cast")
  /\ \/ stream' = Append(stream, Event("started", here.req)) /\ Goto("announced") /\ Keeps
     \/ Fault /\ Goto("idle") /\ UNCHANGED stream
  /\ UNCHANGED <<spineVars, rows, exposure, adapter, open, here, lifeVars>>

(* The crossing *)

\* complete() runs up to its fetch in the same breath: the presentation boundary
\* (which may throw), then the dispatch receipt.  An injected provider may call
\* none of the callbacks.
Dispatch ==
  /\ At("announced")
  /\ open' = open \cup {here.req}
  /\ \/ Appends(FrameOf("dispatched", here.req)) /\ Goto("dispatching") /\ UNCHANGED adapter
     \/ AppendThrows(FrameOf("dispatched", here.req)) /\ Goto("landed")
        /\ adapter' = [adapter EXCEPT ![here.req] = "done"]
     \/ Fault /\ Goto("landed") /\ UNCHANGED spineVars
        /\ adapter' = [adapter EXCEPT ![here.req] = "done"]
     \/ Keeps /\ Goto("awaiting") /\ UNCHANGED spineVars
        /\ adapter' = [adapter EXCEPT ![here.req] = "silent"]
  /\ UNCHANGED <<storeVars, here, lifeVars>>

Presented(r) == IF exposure[r] = "prepared" THEN [exposure EXCEPT ![r] = "presented"] ELSE exposure

\* onDispatch marks the exposure; then fetch is under way.
Present ==
  /\ At("dispatching")
  /\ \/ /\ exposure' = Presented(here.req) /\ Keeps
        /\ here' = [here EXCEPT !.dispatched = TRUE]
        /\ adapter' = [adapter EXCEPT ![here.req] = "calling"] /\ Goto("awaiting")
     \/ /\ Fault /\ UNCHANGED <<exposure, here>>
        /\ adapter' = [adapter EXCEPT ![here.req] = "done"] /\ Goto("landed")
  /\ UNCHANGED <<spineVars, rows, stream, open, lifeVars>>

\* Variant: a callback reaches a phase that has returned.
Reaches_Always(r) == r \in Request

\* providerCallbacksOpen
Reaches(r) == r \in open

(* The provisional collector *)

\* flush(): what is pending becomes one event.  The journal may refuse it as
\* credential-shaped (its channel is hushed and an omission is published) or
\* refuse it outright, which throws.  `now` is the phase before the flush.
Emits(now, then) ==
  IF now.pending = <<>> THEN here' = then /\ UNCHANGED stream /\ Keeps
  ELSE \/ /\ stream' = Append(stream, DeltaEvent(now.req, now.pending, FALSE))
          /\ here' = [then EXCEPT !.pending = SubSeq(then.pending, Len(now.pending) + 1, Len(then.pending))]
          /\ Keeps
       \/ /\ stream' = Append(stream, DeltaEvent(now.req, now.pending, TRUE))
          /\ here' = [then EXCEPT !.pending = SubSeq(then.pending, Len(now.pending) + 1, Len(then.pending)),
                                  !.hushed = @ \cup {now.pending[1].chan}]
          /\ Keeps

EmitThrows(now, then) == now.pending # <<>> /\ Fault /\ here' = then /\ UNCHANGED stream

IsFull(n) == n >= MaxFragments

\* onDelta: one fragment reaches the collector.  A change of channel flushes what
\* is pending first, a full collector flushes at once; if either throws, or an
\* earlier flush failed, the parser fails and the adapter can only end unusable.
Delta(c) ==
  LET r == here.req
      f == [chan |-> c, n |-> Len(here.offered) + 1]
      took == [here EXCEPT !.pending = Append(@, f), !.offered = Append(@, f)]
      turn == here.pending # <<>> /\ here.pending[1].chan # c
      full == IsFull(Len(took.pending))
      break == adapter' = [adapter EXCEPT ![r] = "broken"]
  IN /\ At("awaiting") /\ adapter[r] = "calling" /\ Reaches(r)
     /\ c \notin here.hushed /\ Len(here.offered) < MaxOffered[r]
     /\ \/ here.failed /\ break /\ UNCHANGED <<here, stream, faults>>
        \/ ~here.failed /\ turn /\ Emits(here, took) /\ UNCHANGED adapter
        \/ ~here.failed /\ turn /\ EmitThrows(here, [here EXCEPT !.pending = <<>>]) /\ break
        \/ ~here.failed /\ ~turn /\ full /\ Emits(took, took) /\ UNCHANGED adapter
        \/ ~here.failed /\ ~turn /\ full /\ EmitThrows(took, [took EXCEPT !.pending = <<>>]) /\ break
        \/ ~here.failed /\ ~turn /\ ~full /\ here' = took /\ UNCHANGED <<stream, adapter, faults>>
     /\ UNCHANGED <<spineVars, rows, exposure, open, pc, lifeVars>>

\* Variant: the failure of a timed flush is forgotten.
FlushTimer_Forgets ==
  /\ At("awaiting") /\ here.pending # <<>> /\ ~here.failed
  /\ Emits(here, here) \/ EmitThrows(here, [here EXCEPT !.pending = <<>>])
  /\ UNCHANGED <<spineVars, rows, exposure, adapter, open, pc, lifeVars>>

\* The 200 ms timer; a failure is kept for the next collect() or flush().
FlushTimer ==
  /\ At("awaiting") /\ here.pending # <<>> /\ ~here.failed
  /\ Emits(here, here) \/ EmitThrows(here, [here EXCEPT !.pending = <<>>, !.failed = TRUE])
  /\ UNCHANGED <<spineVars, rows, exposure, adapter, open, pc, lifeVars>>

(* The adapter answers *)

\* A fetch that failed returns no body; every other ending hands the exact bytes
\* to onRawReturn before it names its outcome.
Ending == {[raw |-> FALSE, code |-> "fetch_failed"], [raw |-> FALSE, code |-> "aborted"]}
          \cup {[raw |-> TRUE, code |-> c] : c \in Code \ {"fetch_failed"}}
\* Which endings the adapter's state and the abort signal allow
MayEnd(r, e) ==
  /\ adapter[r] \in {"calling", "broken"}
  /\ adapter[r] = "broken" => e.raw /\ e.code = "unusable"
  /\ r = here.req /\ pc = "awaiting" =>
       IF here.aborted THEN e.code \notin {"fetch_failed", "interrupted"} ELSE e.code # "aborted"

\* awaitProviderWithAbort(): after an abort every answer is a cancellation.
Answer(code) == IF here.aborted \/ code # "success" THEN "error" ELSE "value"

AdapterEnds(r, e) ==
  LET f == FrameOf("raw", r)
      Ends(phase) == IF pc = "awaiting" THEN Goto("landed") /\ here' = phase ELSE UNCHANGED <<pc, here>>
      took == [here EXCEPT !.raw = e.raw, !.outcome = e.code, !.answer = Answer(e.code)]
      threw == [here EXCEPT !.answer = "error"]
  IN /\ up /\ pc \in {"idle", "awaiting"} /\ MayEnd(r, e)
     /\ adapter' = [adapter EXCEPT ![r] = "done"]
     /\ \/ ~Reaches(r) /\ UNCHANGED <<spineVars, faults, here, pc>>
        \/ Reaches(r) /\ ~e.raw /\ Ends(took) /\ UNCHANGED <<spineVars, faults>>
        \/ Reaches(r) /\ e.raw /\ Appends(f) /\ Ends(took)
        \/ Reaches(r) /\ e.raw /\ AppendThrows(f) /\ Ends(threw)
     /\ UNCHANGED <<storeVars, open, lifeVars>>

\* A provider that uses no callback settles its promise.
SilentEnds ==
  /\ At("awaiting") /\ adapter[here.req] = "silent"
  /\ adapter' = [adapter EXCEPT ![here.req] = "done"]
  /\ here' \in {[here EXCEPT !.answer = "error"], [here EXCEPT !.answer = Answer("success")]}
  /\ Goto("landed")
  /\ UNCHANGED <<spineVars, storeVars, open, lifeVars, faults>>

\* beginClose(): aborts the controller of the phase that awaits.
BeginClose ==
  /\ up /\ ~closing /\ pc \in {"idle", "awaiting"}
  /\ closing' = TRUE
  /\ here' = IF pc = "awaiting" THEN [here EXCEPT !.aborted = TRUE] ELSE here
  /\ UNCHANGED <<spineVars, storeVars, adapter, open, pc, up, crashes, faults>>

\* Variant: the phase waits for an adapter that ignores its signal.
AbortGrace_WaitsForAdapter ==
  /\ At("awaiting") /\ here.aborted /\ adapter[here.req] = "done"
  /\ here' = [here EXCEPT !.answer = "error"] /\ Goto("landed")
  /\ UNCHANGED <<spineVars, storeVars, adapter, open, lifeVars, faults>>

\* 250 ms after the abort the phase stops waiting, whatever the adapter does.
AbortGrace ==
  /\ At("awaiting") /\ here.aborted
  /\ here' = [here EXCEPT !.answer = "error"] /\ Goto("landed")
  /\ UNCHANGED <<spineVars, storeVars, adapter, open, lifeVars, faults>>

(* After the await *)

\* The last flush while callbacks are open, then the finally.
Land ==
  /\ At("landed")
  /\ open' = open \ {here.req}
  /\ IF here.answer = "value" /\ ~here.failed
     THEN \/ Emits(here, here) /\ Goto("returned")
          \/ EmitThrows(here, [here EXCEPT !.pending = <<>>]) /\ Goto("failing")
     ELSE Goto("failing") /\ UNCHANGED <<stream, here, faults>>
  /\ UNCHANGED <<spineVars, rows, exposure, adapter, lifeVars>>

\* What an injected provider did not record is recorded for it.
FallbackDispatch ==
  /\ At("returned") /\ ~here.dispatched
  /\ \/ /\ Appends(FrameOf("dispatched", here.req)) /\ exposure' = Presented(here.req)
        /\ here' = [here EXCEPT !.dispatched = TRUE] /\ UNCHANGED pc
     \/ /\ AppendThrows(FrameOf("dispatched", here.req)) /\ Goto("failing") /\ UNCHANGED <<exposure, here>>
  /\ UNCHANGED <<rows, stream, adapter, open, lifeVars>>

FallbackReturn ==
  /\ At("returned") /\ here.dispatched /\ ~here.raw
  /\ \/ /\ Appends(FrameOf("raw", here.req)) /\ UNCHANGED pc
        /\ here' = [here EXCEPT !.raw = TRUE, !.outcome = "success"]
     \/ AppendThrows(FrameOf("raw", here.req)) /\ Goto("failing") /\ UNCHANGED here
  /\ UNCHANGED <<storeVars, adapter, open, lifeVars>>

\* Return Scrub admits the message and the row is completed in one transaction;
\* or the return is refused.
CompleteRow ==
  /\ At("returned") /\ here.dispatched /\ here.raw
  /\ \/ Goto("rowed") /\ rows' = [rows EXCEPT ![here.req] = Row("done", here.outcome, TRUE)]
     \/ Goto("failing") /\ UNCHANGED rows
  /\ UNCHANGED <<spineVars, exposure, stream, adapter, open, here, lifeVars, faults>>

SealOutcome ==
  /\ At("rowed")
  /\ \/ Appends(OutcomeFrame(here.req, here.outcome)) /\ Goto("sealed")
     \/ AppendThrows(OutcomeFrame(here.req, here.outcome)) /\ Goto("failing")
  /\ UNCHANGED <<storeVars, adapter, open, here, lifeVars>>

\* provider.message.ready, with and then without its content
PublishReady ==
  /\ At("sealed")
  /\ \/ stream' = Append(stream, Event("ready", here.req)) /\ Goto("idle") /\ Keeps
     \/ Fault /\ Goto("failing") /\ UNCHANGED stream
  /\ UNCHANGED <<spineVars, rows, exposure, adapter, open, here, lifeVars>>

(* The catch *)

\* Variant: the exposure is closed as never dispatched whatever was observed.
CatchExposure_Always ==
  /\ At("failing") /\ Goto("caught")
  /\ exposure' = [exposure EXCEPT ![here.req] = IF @ = "none" THEN @ ELSE "never_dispatched"]
  /\ here' = [here EXCEPT !.pending = <<>>, !.failed = FALSE, !.hushed = {},
                          !.outcome = IF here.aborted THEN "aborted" ELSE @]
  /\ UNCHANGED <<spineVars, rows, stream, adapter, open, lifeVars, faults>>

\* An exposure whose dispatch was not observed is closed; the collector forgets;
\* a cancelled crossing has no outcome but aborted.
CatchExposure ==
  /\ At("failing") /\ Goto("caught")
  /\ exposure' = IF here.dispatched \/ exposure[here.req] # "prepared" THEN exposure
                 ELSE [exposure EXCEPT ![here.req] = "never_dispatched"]
  /\ here' = [here EXCEPT !.pending = <<>>, !.failed = FALSE, !.hushed = {},
                          !.outcome = IF here.aborted THEN "aborted" ELSE @]
  /\ UNCHANGED <<spineVars, rows, stream, adapter, open, lifeVars, faults>>

\* Variant: the row keeps what was observed before the cancellation.
CatchRow_Unnamed ==
  /\ At("caught") /\ Goto("closing")
  /\ rows' = [rows EXCEPT ![here.req] = Row("done", NoCode, FALSE)]
  /\ UNCHANGED <<spineVars, exposure, stream, adapter, open, here, lifeVars, faults>>

\* completeProviderRequest(requestId, {}, observedOutcome): also over a row that
\* was already completed.
CatchRow ==
  /\ At("caught") /\ Goto("closing")
  /\ rows' = [rows EXCEPT ![here.req] = Row("done", here.outcome, FALSE)]
  /\ UNCHANGED <<spineVars, exposure, stream, adapter, open, here, lifeVars, faults>>

\* The outcome reaches the Spine if its lifecycle admits one; the phase throws.
CatchOutcome ==
  LET f == OutcomeFrame(here.req, here.outcome)
  IN /\ At("closing") /\ Goto("idle")
     /\ \/ (here.outcome = NoCode \/ ~Lawful(held, f)) /\ UNCHANGED <<spineVars, faults>>
        \/ here.outcome # NoCode /\ Appends(f)
        \/ here.outcome # NoCode /\ AppendThrows(f)
     /\ UNCHANGED <<storeVars, adapter, open, here, lifeVars>>

(* The process ends and starts again *)

\* The frame a synchronous step is about to write when the process dies
NextFrame == CASE pc = "announced" -> {FrameOf("dispatched", here.req)}
               [] pc = "awaiting" -> {FrameOf("raw", here.req)}
               [] pc \in {"rowed", "closing"} /\ here.outcome # NoCode -> {OutcomeFrame(here.req, here.outcome)}
               [] OTHER -> {}

Restarts(lines) ==
  /\ file' = lines
  /\ IF Readable(lines) THEN held' = Frames(lines) /\ UNCHANGED up ELSE up' = FALSE /\ UNCHANGED held
  /\ adapter' = [r \in Request |-> IF adapter[r] = "none" THEN "none" ELSE "done"]
  /\ open' = {} /\ here' = Phase(NoRequest) /\ pc' = "idle" /\ closing' = FALSE

Crash ==
  /\ up /\ crashes < MaxCrashes /\ faults + crashes < MaxFaults /\ crashes' = crashes + 1
  /\ Restarts(file) \/ \E f \in NextFrame : Lawful(held, f) /\ Restarts(Torn(file, f))
  /\ UNCHANGED <<storeVars, faults>>

Restart ==
  /\ At("idle") /\ closing /\ Restarts(file)
  /\ UNCHANGED <<storeVars, faults, crashes>>

HostStep ==
  \/ RecordRow \/ CastGlass \/ Announce \/ Dispatch \/ Present
  \/ Land \/ FallbackDispatch \/ FallbackReturn \/ CompleteRow \/ SealOutcome \/ PublishReady
  \/ CatchExposure \/ CatchRow \/ CatchOutcome

Next ==
  \/ \E r \in Request : Prepare(r)
  \/ HostStep \/ AbortGrace
  \/ \E c \in Channel : Delta(c)
  \/ FlushTimer \/ SilentEnds \/ BeginClose \/ Crash \/ Restart
  \/ \E r \in Request, e \in Ending : AdapterEnds(r, e)

Spec == Init /\ [][Next]_vars
\* The host's own steps and its grace timer; an adapter owes nothing.
FairSpec == Spec /\ WF_vars(HostStep) /\ WF_vars(AbortGrace)
-----------------------------------------------------------------------------
\* Every variable keeps its type, and the collector never holds more than its
\* fragment bound lets it.
PhaseTypeOK ==
  /\ SpineTypeOK
  /\ rows \in [Request -> [stage : {"none", "open", "done"}, outcome : Code \cup {NoCode}, response : BOOLEAN]]
  /\ exposure \in [Request -> Disposition]
  /\ adapter \in [Request -> {"none", "calling", "broken", "silent", "done"}]
  /\ open \subseteq Request
  /\ pc \in {"idle", "prepared", "recorded", "cast", "announced", "dispatching", "awaiting", "landed",
             "returned", "rowed", "sealed", "failing", "caught", "closing"}
  /\ here.req \in Request \cup {NoRequest} /\ here.outcome \in Code \cup {NoCode}
  /\ here.pending \in Seq(Fragment) /\ Len(here.pending) < MaxFragments
  /\ closing \in BOOLEAN /\ up \in BOOLEAN /\ faults \in Nat /\ crashes \in Nat

Running(r) == pc # "idle" /\ here.req = r
\* All the fragments a stream published for r, in the order of its events.
FragmentsOf(s, r) ==
  LET upTo[i \in 0..Len(s)] ==
        IF i = 0 THEN <<>>
        ELSE IF s[i].req = r THEN upTo[i - 1] \o s[i].frags ELSE upTo[i - 1]
  IN  upTo[Len(s)]
Streamed(s, r) == \E i \in DOMAIN s : s[i].kind = "delta" /\ s[i].req = r

\* Whatever outcome the Spine retains, the request row names the same one: the
\* two ledgers are written in two steps, in the success path and again in the
\* catch, across cancellations and deaths of the process.
SpineOutcomeIsTheRows == \A r \in Request : CodeIn(held, r) # NoCode => rows[r].outcome = CodeIn(held, r)

\* Roots never claims more than the Spine: an exposure is presented only if the
\* crossing was dispatched, and one closed as never dispatched has neither a
\* return in the Spine nor a fragment in the stream.
ExposureTellsTheDispatch ==
  \A r \in Request :
    /\ exposure[r] = "presented" => Has(held, r, "dispatched")
    /\ exposure[r] = "never_dispatched" => ~Has(held, r, "raw") /\ ~Streamed(stream, r)

\* The request row, the Spine, Roots and the stream tell one crossing.
RecordsAgree == PhaseTypeOK /\ SpineOutcomeIsTheRows /\ ExposureTellsTheDispatch

\* A message announced as ready was offered whole: everything the collector took
\* was published before it, in order, or named as omitted.
ReadyWasWhole ==
  \A i \in DOMAIN stream :
    stream[i].kind = "ready" /\ stream[i].req = here.req => FragmentsOf(stream, here.req) = here.offered

\* What a restart reads back is exactly what the last process held, or the ledger
\* is refused: a torn or half-taken append is never mistaken for another history.
SpineReadsBack == Readable(file) => Frames(file) = held

\* A phase that has returned is sealed: whatever its adapter still does, its
\* frames, its row and its part of the stream never change again.
ReturnedPhaseIsSealed ==
  [][\A r \in Request : ~Running(r) /\ ~Running(r)' =>
       /\ Seen(held, r)' = Seen(held, r)
       /\ rows[r]' = rows[r]
       /\ \A i \in DOMAIN stream' : stream'[i].req = r => i \in DOMAIN stream /\ stream'[i] = stream[i]]_vars

\* beginClose() ends the phase, even if the adapter never answers.
ClosingEndsThePhase == closing ~> pc = "idle"

\* FOREST_EXHALE_V2.md:235 says a prepared exposure whose request never dispatches
\* is closed as never_dispatched.  A refused phase.started, or a crash, leaves one
\* prepared for ever; RootsVerified then admits no wake again.
PreparedExposureIsClosed == \A r \in Request : exposure[r] = "prepared" => Running(r)
=============================================================================
