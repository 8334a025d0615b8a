------------------------------- MODULE Corner -------------------------------
(***************************************************************************)
(* The Corner renderer (src/public/live-state.js, src/public/app.js): how  *)
(* it follows the wake stream through one EventSource, recovers from gaps  *)
(* by paging the journal, and locks and releases the composer around the   *)
(* wake it submitted.  The Hub behind it is HubEventBus with one wake at a *)
(* time.                                                                   *)
(*                                                                         *)
(* JavaScript runs to completion between awaits; an action is one such     *)
(* stretch, or one request reaching the Hub.  A request is asked by the    *)
(* renderer, answered by the Hub and heard by the renderer in three steps, *)
(* and answers of different requests overtake each other.  Slips, threads, *)
(* readiness and what the live view shows of a wake are left out.          *)
(***************************************************************************)
EXTENDS HubEventBus

CONSTANTS
  PageLimit,    \* events in one history page, 1000 in the code
  MaxPages,     \* pages in one recovery, 100 in the code
  MaxJournal,   \* bound: events published
  MaxBreaks,    \* bound: lost connections and lost answers
  MaxStops      \* bound: times the Hub stops

ASSUME CornerAssumption ==
  /\ PageLimit \in Nat \ {0} /\ MaxPages \in Nat \ {0}
  /\ MaxJournal \in Nat /\ MaxBreaks \in Nat /\ MaxStops \in Nat

VARIABLES
  active,       \* the Hub's activeWakeId
  breaks, stops,
  source,       \* liveEventSource: "none", "waiting" for the Hub, or "open"
  sourceAfter,  \* the `after` parameter of its URL, or NoCursor
  lastEventId,  \* the SSE id the browser would reconnect with, or NoCursor
  live,         \* liveState
  recovery,     \* resyncLiveEvents(): where it is
  recovered,    \* the state inside recoverHubEventHistory
  page,         \* the history page it has been answered
  pages,        \* pages asked for so far
  busy,         \* the composer is locked
  submitted,    \* submittedWakeId
  submission,   \* submitWake(): the state of POST /api/wakes
  poll,         \* pollSlips(): the state of its health request
  reconciling,  \* terminalReconciliations of each wake
  reconciled    \* terminalReconcileSequence

hubVars == <<busVars, active, stops>>
sourceVars == <<source, sourceAfter, lastEventId>>
recoveryVars == <<recovery, recovered, page, pages>>
composerVars == <<busy, submitted, submission, poll, reconciling, reconciled>>
vars == <<hubVars, breaks, sourceVars, live, recoveryVars, composerVars>>

\* `applied` is no field of the code: the events that made the state what it is.
LiveState == [cursor : Nat, resync : BOOLEAN, connection : {"connecting", "open", "disconnected"},
              wake : Wake \cup {NoWake}, terminal : Nat, applied : SUBSET Nat]

createLiveState == [cursor |-> 0, resync |-> FALSE, connection |-> "connecting",
                    wake |-> NoWake, terminal |-> 0, applied |-> {}]

\* Where a request of the renderer is, and the wake it is about
Request == [is : {"none", "asked", "refused", "heard", "releasing", "settling"},
            wake : Wake \cup {NoWake}]
At(point, w) == [is |-> point, wake |-> w]
Nothing == At("none", NoWake)

Init ==
  /\ BusInit
  /\ active = NoWake /\ breaks = 0 /\ stops = 0
  /\ source = "waiting" /\ sourceAfter = NoCursor /\ lastEventId = NoCursor
  /\ live = createLiveState
  /\ recovery = "off" /\ recovered = createLiveState
  /\ page = [upto |-> 0, latest |-> 0] /\ pages = 0
  /\ busy = FALSE /\ submitted = NoWake /\ submission = Nothing /\ poll = Nothing
  /\ reconciling = [w \in Wake |-> "no"]
  /\ reconciled = 0

(* reduceHubEvent *)

\* What event n does to a state that takes it.  An event of another wake than
\* the one on show only moves the cursor, unless it announces its wake.
Take(state, n) ==
  LET event == journal[n]
      shown == IF event.kind # "accepted" /\ state.wake # NoWake THEN state.wake ELSE event.wake
  IN [state EXCEPT !.cursor = n, !.applied = @ \cup {n}, !.wake = shown,
        !.terminal = IF event.kind = "terminal" /\ shown = event.wake THEN n
                     ELSE IF shown # state.wake THEN 0
                     ELSE state.terminal]

\* Old events are ignored; after the first, only the next one is taken.
Reduce(state, n) ==
  IF n <= state.cursor THEN state
  ELSE IF state.cursor > 0 /\ n # state.cursor + 1 THEN [state EXCEPT !.resync = TRUE]
  ELSE Take(state, n)

\* clearLiveWake: nothing, when another wake is on show.
ClearLiveWake(state, w) ==
  IF w # NoWake /\ state.wake \notin {NoWake, w} THEN state
  ELSE [state EXCEPT !.wake = NoWake, !.terminal = 0]

(* The Hub *)

\* beginWake publishes wake.accepted.  Bound: room is left for the terminal event.
Accepted(w) ==
  /\ active = NoWake /\ Len(journal) + 1 < MaxJournal
  /\ \A n \in DOMAIN journal : journal[n].wake # w
  /\ Publish([wake |-> w, kind |-> "accepted"])
  /\ active' = w

\* A wake that no composer asked for
WakeAccepted(w) ==
  /\ Accepted(w)
  /\ UNCHANGED <<stops, breaks, sourceVars, live, recoveryVars, composerVars>>

\* Any event of a wake between its first and its last
WakeNotes ==
  /\ active # NoWake /\ Len(journal) + 1 < MaxJournal
  /\ Publish([wake |-> active, kind |-> "note"])
  /\ UNCHANGED <<active, stops, breaks, sourceVars, live, recoveryVars, composerVars>>

WakeEnds ==
  /\ active # NoWake /\ Len(journal) < MaxJournal
  /\ Publish([wake |-> active, kind |-> "terminal"])
  /\ active' = NoWake
  /\ UNCHANGED <<stops, breaks, sourceVars, live, recoveryVars, composerVars>>

HubStops ==
  /\ stops < MaxStops
  /\ BusStops
  /\ active' = NoWake /\ stops' = stops + 1
  /\ UNCHANGED <<breaks, sourceVars, live, recoveryVars, composerVars>>

HubStarts ==
  /\ BusStarts
  /\ UNCHANGED <<active, stops, breaks, sourceVars, live, recoveryVars, composerVars>>

(* reconcileWakeOnce and releaseWakeUi *)

\* reconcileTerminal of the state `next`, from receiveHubEvent or a recovery
Reconcile(next) ==
  IF next.terminal > reconciled
  THEN /\ reconciled' = next.terminal
       /\ reconciling' = [reconciling EXCEPT ![next.wake] = IF @ = "no" THEN "running" ELSE @]
  ELSE UNCHANGED <<reconciled, reconciling>>

releaseWakeUi == busy' = FALSE /\ submitted' = NoWake

\* Variant: only the reconciliation of the submitted wake releases the composer.
ReconcileFinishes_OnlySubmitted(w) ==
  /\ reconciling[w] = "running"
  /\ reconciling' = [reconciling EXCEPT ![w] = "done"]
  /\ live' = ClearLiveWake(live, w)
  /\ IF submitted = w THEN releaseWakeUi ELSE UNCHANGED <<busy, submitted>>
  /\ UNCHANGED <<hubVars, breaks, sourceVars, recoveryVars, submission, poll, reconciled>>

\* Slips and thread are fetched, or could not be; then the view is cleared and
\* the composer released, whichever wake it was.
ReconcileFinishes(w) ==
  /\ reconciling[w] = "running"
  /\ reconciling' = [reconciling EXCEPT ![w] = "done"]
  /\ live' = ClearLiveWake(live, w)
  /\ releaseWakeUi
  /\ UNCHANGED <<hubVars, breaks, sourceVars, recoveryVars, submission, poll, reconciled>>

(* pollSlips *)

\* The health request is sent when the composer is locked and the stream is not open.
PollIfLocked(locked, state) ==
  poll' = IF locked /\ poll = Nothing /\ state.connection # "open" THEN At("asked", NoWake) ELSE poll

\* the 400 ms interval
PollAsks ==
  /\ poll = Nothing /\ busy /\ live.connection # "open"
  /\ PollIfLocked(busy, live)
  /\ UNCHANGED <<hubVars, breaks, sourceVars, live, recoveryVars, busy, submitted, submission,
                 reconciling, reconciled>>

HubAnswersPoll ==
  /\ poll.is = "asked"
  /\ poll' = IF running THEN At("heard", active) ELSE Nothing
  /\ UNCHANGED <<hubVars, breaks, sourceVars, live, recoveryVars, busy, submitted, submission,
                 reconciling, reconciled>>

\* No wake in progress: the submitted one, as it is known now, has ended.
PollHears ==
  /\ poll.is = "heard"
  /\ poll' = IF poll.wake = NoWake /\ submitted # NoWake THEN At("releasing", submitted) ELSE Nothing
  /\ UNCHANGED <<hubVars, breaks, sourceVars, live, recoveryVars, busy, submitted, submission,
                 reconciling, reconciled>>

PollReleases ==
  /\ poll.is = "releasing"
  /\ poll' = Nothing
  /\ live' = ClearLiveWake(live, poll.wake)
  /\ releaseWakeUi
  /\ UNCHANGED <<hubVars, breaks, sourceVars, recoveryVars, submission, reconciling, reconciled>>

(* submitWake *)

Submit ==
  /\ ~busy
  /\ \E w \in Wake : \A n \in DOMAIN journal : journal[n].wake # w   \* bound
  /\ Len(journal) + 1 < MaxJournal                                     \* bound
  /\ busy' = TRUE
  /\ submission' = At("asked", NoWake)
  /\ PollIfLocked(TRUE, live)
  /\ UNCHANGED <<hubVars, breaks, sourceVars, live, recoveryVars, submitted, reconciling, reconciled>>

\* POST /api/wakes?delivery=accepted: admitted; admitted, but the answer is
\* lost; or refused (a wake in progress, a Hub that is not ready or not there).
HubAnswersSubmission ==
  /\ submission.is = "asked"
  /\ \/ /\ submission' = At("refused", NoWake)
        /\ UNCHANGED <<busVars, active, breaks>>
     \/ \E w \in Wake :
          /\ Accepted(w)
          /\ \/ submission' = At("heard", w) /\ UNCHANGED breaks
             \/ breaks < MaxBreaks /\ breaks' = breaks + 1 /\ submission' = At("refused", NoWake)
  /\ UNCHANGED <<stops, sourceVars, live, recoveryVars, busy, submitted, poll, reconciling, reconciled>>

\* The wake is left to the stream, unless the stream has already ended it.
SubmissionHeard ==
  /\ submission.is = "heard"
  /\ submitted' = submission.wake
  /\ submission' = IF reconciling[submission.wake] = "no" THEN Nothing
                   ELSE At("settling", submission.wake)
  /\ UNCHANGED <<hubVars, breaks, sourceVars, live, recoveryVars, busy, poll, reconciling, reconciled>>

SubmissionSettles ==
  /\ submission.is = "settling" /\ reconciling[submission.wake] = "done"
  /\ submission' = Nothing
  /\ releaseWakeUi
  /\ UNCHANGED <<hubVars, breaks, sourceVars, live, recoveryVars, poll, reconciling, reconciled>>

SubmissionFails ==
  /\ submission.is = "refused"
  /\ submission' = Nothing
  /\ live' = ClearLiveWake(live, NoWake)
  /\ releaseWakeUi
  /\ UNCHANGED <<hubVars, breaks, sourceVars, recoveryVars, poll, reconciling, reconciled>>

(* The EventSource.  Connecting, reconnecting and Last-Event-ID are the browser's. *)

OpenSource(after) == source' = "waiting" /\ sourceAfter' = after /\ lastEventId' = NoCursor
CloseSource == source' = "none" /\ sourceAfter' = NoCursor /\ lastEventId' = NoCursor

\* A query cursor goes before Last-Event-ID.
SourceConnects ==
  /\ source = "waiting"
  /\ Subscribe(IF sourceAfter # NoCursor THEN sourceAfter ELSE lastEventId)
  /\ source' = "open"
  /\ UNCHANGED <<active, breaks, stops, sourceAfter, lastEventId, live, recoveryVars, composerVars>>

\* the error event
SourceFails ==
  /\ source = "open"
  /\ Unsubscribe
  /\ source' = "waiting"
  /\ live' = [live EXCEPT !.connection = "disconnected"]
  /\ PollIfLocked(busy, live')
  /\ UNCHANGED <<active, stops, sourceAfter, lastEventId, recoveryVars, busy, submitted, submission,
                 reconciling, reconciled>>

SourceBreaks == breaks < MaxBreaks /\ breaks' = breaks + 1 /\ SourceFails

\* The other end is gone and nothing is left to read.
SourceEnds == subscriber = NoCursor /\ wire = <<>> /\ SourceFails /\ UNCHANGED breaks

\* resyncLiveEvents() up to its first await
StartRecovery(state) ==
  /\ CloseSource
  /\ live' = [state EXCEPT !.connection = "disconnected"]
  /\ recovery' = "asked" /\ recovered' = live' /\ pages' = 1
  /\ UNCHANGED page

\* receiveHubEvent, and the open event
SourceReceives ==
  /\ source = "open" /\ wire # <<>>
  /\ LET frame == Head(wire)
         next == CASE frame.kind = "open" -> [live EXCEPT !.connection = "open"]
                   [] frame.kind = "event" -> Reduce(live, frame.sequence)
                   [] frame.kind = "resync" -> [live EXCEPT !.resync = TRUE]
     IN IF next.resync
        THEN StartRecovery(next) /\ Unsubscribe /\ UNCHANGED <<reconciling, reconciled>>
        ELSE /\ live' = next
             /\ wire' = Tail(wire)
             /\ lastEventId' = IF frame.kind = "event" THEN frame.sequence ELSE lastEventId
             /\ IF frame.kind = "event" THEN Reconcile(next) ELSE UNCHANGED <<reconciling, reconciled>>
             /\ UNCHANGED <<running, journal, buffer, subscriber, source, sourceAfter, recoveryVars>>
  /\ UNCHANGED <<active, breaks, stops, busy, submitted, submission, poll>>

(* recoverHubEventHistory *)

HubAnswersHistory ==
  /\ recovery = "asked" /\ running
  /\ page' = HistoryPage(recovered.cursor, PageLimit)
  /\ recovery' = "answered"
  /\ UNCHANGED <<hubVars, breaks, sourceVars, live, recovered, pages, composerVars>>

\* Variant: no retry is scheduled.
FailRecovery_WithoutRetry ==
  /\ recovery' = "off"
  /\ recovered' = createLiveState /\ page' = [upto |-> 0, latest |-> 0] /\ pages' = 0
  /\ live' = [live EXCEPT !.connection = "disconnected"]
  /\ PollIfLocked(busy, live')
  /\ UNCHANGED <<hubVars, sourceVars, busy, submitted, submission, reconciling, reconciled>>

\* The failed recovery forgets its pages; the retry timer starts it over.
FailRecovery ==
  /\ recovery' = "retrying"
  /\ recovered' = createLiveState /\ page' = [upto |-> 0, latest |-> 0] /\ pages' = 0
  /\ live' = [live EXCEPT !.connection = "disconnected"]
  /\ PollIfLocked(busy, live')
  /\ UNCHANGED <<hubVars, sourceVars, busy, submitted, submission, reconciling, reconciled>>

HistoryFails ==
  /\ recovery = "asked"
  /\ \/ ~running /\ UNCHANGED breaks
     \/ breaks < MaxBreaks /\ breaks' = breaks + 1
  /\ FailRecovery

\* What was recovered, after each event of the page
OverPage ==
  LET after[n \in 0..(page.upto - recovered.cursor)] ==
        IF n = 0 THEN recovered ELSE Reduce(after[n - 1], recovered.cursor + n)
  IN  after
WithPage == OverPage[page.upto - recovered.cursor]

LastPage == recovery = "answered" /\ page.upto = page.latest

RecoveryAsksOn ==
  /\ recovery = "answered" /\ ~LastPage /\ pages < MaxPages
  /\ recovery' = "asked" /\ recovered' = WithPage /\ pages' = pages + 1
  /\ UNCHANGED <<hubVars, breaks, sourceVars, live, page, composerVars>>

RecoveryGivesUp ==
  /\ recovery = "answered" /\ ~LastPage /\ pages = MaxPages
  /\ FailRecovery /\ UNCHANGED breaks

\* Variant: after one page the reader takes the head of the journal for its place.
RecoveryEnds_AtHead ==
  /\ recovery = "answered"
  /\ live' = [WithPage EXCEPT !.resync = FALSE, !.cursor = page.latest]
  /\ recovered' = live'
  /\ Reconcile(live')
  /\ IF live'.terminal > reconciled
     THEN recovery' = "reconciling" /\ UNCHANGED sourceVars
     ELSE recovery' = "off" /\ OpenSource(live'.cursor)
  /\ UNCHANGED <<hubVars, breaks, page, pages, busy, submitted, submission, poll>>

\* What was recovered replaces liveState, whatever became of it meanwhile; a
\* terminal event that was recovered is reconciled before the source reopens.
RecoveryEnds ==
  /\ LastPage
  /\ live' = [WithPage EXCEPT !.resync = FALSE]
  /\ recovered' = live'
  /\ Reconcile(live')
  /\ IF live'.terminal > reconciled
     THEN recovery' = "reconciling" /\ UNCHANGED sourceVars
     ELSE recovery' = "off" /\ OpenSource(live'.cursor)
  /\ UNCHANGED <<hubVars, breaks, page, pages, busy, submitted, submission, poll>>

RecoveryReopens ==
  /\ recovery = "reconciling" /\ reconciling[recovered.wake] = "done"
  /\ recovery' = "off" /\ OpenSource(live.cursor)
  /\ UNCHANGED <<hubVars, breaks, live, recovered, page, pages, composerVars>>

\* scheduleLiveRecovery: resyncRequired still holds, so it starts over.
RetryTimer ==
  /\ recovery = "retrying"
  /\ StartRecovery(live)
  /\ UNCHANGED <<hubVars, breaks, composerVars>>

-----------------------------------------------------------------------------

Next ==
  \/ \E w \in Wake : WakeAccepted(w)
  \/ WakeNotes \/ WakeEnds \/ HubStops \/ HubStarts
  \/ \E w \in Wake : ReconcileFinishes(w)
  \/ PollAsks \/ HubAnswersPoll \/ PollHears \/ PollReleases
  \/ Submit \/ HubAnswersSubmission \/ SubmissionHeard \/ SubmissionSettles \/ SubmissionFails
  \/ SourceConnects \/ SourceBreaks \/ SourceEnds \/ SourceReceives
  \/ HubAnswersHistory \/ HistoryFails \/ RecoveryAsksOn \/ RecoveryGivesUp
  \/ RecoveryEnds \/ RecoveryReopens \/ RetryTimer

Spec == Init /\ [][Next]_vars

\* Requests are answered, timers fire, the browser reconnects, a Hub that
\* stopped is started again.  A wake need not end.
Fairness ==
  /\ WF_vars(HubStarts)
  /\ WF_vars(\E w \in Wake : ReconcileFinishes(w))
  /\ WF_vars(PollAsks) /\ WF_vars(HubAnswersPoll) /\ WF_vars(PollHears) /\ WF_vars(PollReleases)
  /\ WF_vars(HubAnswersSubmission) /\ WF_vars(SubmissionHeard)
  /\ WF_vars(SubmissionSettles) /\ WF_vars(SubmissionFails)
  /\ WF_vars(SourceConnects) /\ WF_vars(SourceEnds) /\ WF_vars(SourceReceives)
  /\ WF_vars(HubAnswersHistory) /\ WF_vars(HistoryFails /\ ~running)
  /\ WF_vars(RecoveryAsksOn) /\ WF_vars(RecoveryGivesUp) /\ WF_vars(RecoveryEnds)
  /\ WF_vars(RecoveryReopens) /\ WF_vars(RetryTimer)

FairSpec == Spec /\ Fairness

-----------------------------------------------------------------------------
(* Properties *)

CornerTypeOK ==
  /\ BusTypeOK
  /\ active \in Wake \cup {NoWake} /\ breaks \in 0..MaxBreaks /\ stops \in 0..MaxStops
  /\ source \in {"none", "waiting", "open"}
  /\ {sourceAfter, lastEventId} \subseteq Nat \cup {NoCursor}
  /\ live \in LiveState /\ recovered \in LiveState
  /\ recovery \in {"off", "asked", "answered", "reconciling", "retrying"}
  /\ page \in [upto : Nat, latest : Nat] /\ pages \in 0..MaxPages
  /\ busy \in BOOLEAN /\ submitted \in Wake \cup {NoWake}
  /\ submission \in Request /\ poll \in Request
  /\ reconciling \in [Wake -> {"no", "running", "done"}] /\ reconciled \in Nat

\* The renderer takes the journal in order and without gaps, whatever the
\* buffer drops, the connection loses or the recovery overwrites.
Delivery == INSTANCE OrderedDelivery WITH published <- Len(journal), taken <- live.applied
DeliversInOrder == Delivery!Spec

\* A renderer with a place in the journal that believes it is following has
\* missed nothing: what it has not taken is on the wire, in order.
NothingMissedSilently ==
  CornerTypeOK /\ (source = "open" /\ subscriber # NoCursor /\ live.cursor > 0
    /\ (\A i \in DOMAIN wire : wire[i].kind # "resync")
  => {n \in 1..Len(journal) : n > live.cursor} \subseteq {wire[i].sequence : i \in DOMAIN wire})

\* What the renderer has missed fits in one recovery.  A longer gap is never
\* closed: each attempt starts at the same cursor and gives up at the same page.
WithinOneRecovery == live.cursor > 0 => Len(journal) - live.cursor <= MaxPages * PageLimit

\* A renderer with a place in the journal reaches its head, through breaks,
\* restarts and overflows of the buffer.
CatchesUp == []WithinOneRecovery => (live.cursor > 0 ~> live.cursor = Len(journal))

\* A renderer with a place in the journal releases its composer once the Hub has
\* no wake in progress: the terminal event of its wake cannot be missed.  A Hub
\* that stops in the middle of a wake publishes none, hence the second hypothesis.
FollowerIsReleased ==
  []WithinOneRecovery /\ [](stops = 0) =>
    (busy /\ active = NoWake /\ live.cursor > 0 ~> ~busy \/ active # NoWake)

\* A renderer that has its place is brought up to date, and given back its composer.
FollowerCatchesUp == CatchesUp /\ FollowerIsReleased
=============================================================================
