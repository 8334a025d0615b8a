---------------------------- MODULE HubEventBus ----------------------------
(***************************************************************************)
(* src/src/runtime/hub-event-bus.js over the wake_stream_events journal of *)
(* src/src/ledger/wake-stream.js, and the SSE route that subscribes one    *)
(* renderer to it (src/src/server/app.js).                                 *)
(*                                                                         *)
(* The journal is durable and gapless; an event is known by its sequence,  *)
(* which is its index.  The bus holds the last BufferSize of them in       *)
(* process memory.  The wire is the response of one SSE request: frames    *)
(* arrive in order or, when the connection breaks, not at all.  Envelope   *)
(* validation, hashes and credential suppression carry no control here.    *)
(***************************************************************************)
EXTENDS Naturals, SequencesExt

CONSTANTS
  Wake, NoWake,
  NoCursor,       \* no `after` parameter, no Last-Event-ID, no subscriber
  BufferSize      \* bufferSize of the bus, 256 in the code

ASSUME HubEventBusAssumption ==
  /\ NoWake \notin Wake
  /\ NoCursor \notin Nat
  /\ BufferSize \in Nat \ {0}

VARIABLES
  running,      \* the Hub process runs
  journal,      \* wake_stream_events by sequence
  buffer,       \* HubEventBus.buffer, as sequence numbers
  subscriber,   \* lastSequence of the renderer's subscriber, or NoCursor
  wire          \* frames on their way to the renderer

busVars == <<running, journal, buffer, subscriber, wire>>

Event == [wake : Wake, kind : {"accepted", "note", "terminal"}]

OpenFrame == [kind |-> "open", sequence |-> 0]
EventFrame(n) == [kind |-> "event", sequence |-> n]
ResyncFrame(n) == [kind |-> "resync", sequence |-> n]
Frame == [kind : {"open", "event", "resync"}, sequence : Nat]

LastOf(s, k) == SubSeq(s, Max({1, Len(s) - k + 1}), Len(s))

BusInit ==
  /\ running = TRUE
  /\ journal = <<>> /\ buffer = <<>> /\ wire = <<>>
  /\ subscriber = NoCursor

\* latestSequence
Latest == IF buffer # <<>> THEN Last(buffer) ELSE Len(journal)

\* publish(): journal first, then the buffer, then the subscriber.
Publish(event) ==
  /\ running
  /\ journal' = Append(journal, event)
  /\ LET n == Len(journal) + 1 IN
     /\ buffer' = LastOf(Append(buffer, n), BufferSize)
     /\ IF subscriber = NoCursor
        THEN UNCHANGED <<subscriber, wire>>
        ELSE subscriber' = n /\ wire' = Append(wire, EventFrame(n))
  /\ UNCHANGED running

\* Variant: a cursor older than the buffer gets what the buffer still has.
Replay_WithoutResync(after) ==
  LET earliest == IF buffer # <<>> THEN Head(buffer) ELSE Latest + 1
  IN IF after = NoCursor THEN <<>>
     ELSE IF after > Latest \/ after + 1 < earliest
     THEN [i \in 1..Len(buffer) |-> EventFrame(buffer[i])]
     ELSE [i \in 1..(Latest - after) |-> EventFrame(after + i)]

\* What subscribe() sends at once to a reader whose cursor is `after`.
Replay(after) ==
  LET earliest == IF buffer # <<>> THEN Head(buffer) ELSE Latest + 1
  IN IF after = NoCursor THEN <<>>
     ELSE IF after > Latest \/ after + 1 < earliest THEN <<ResyncFrame(Latest)>>
     ELSE [i \in 1..(Latest - after) |-> EventFrame(after + i)]

\* GET /api/events: the response opens, the replay is written, and the
\* subscriber stands at the latest event.
Subscribe(after) ==
  /\ running
  /\ wire' = <<OpenFrame>> \o Replay(after)
  /\ subscriber' = Latest
  /\ UNCHANGED <<running, journal, buffer>>

\* cleanup(): the response closed; what was on the wire is lost with it.
Unsubscribe ==
  /\ subscriber' = NoCursor /\ wire' = <<>>
  /\ UNCHANGED <<running, journal, buffer>>

\* The process ends: close() or a crash.  Written frames may still arrive.
BusStops ==
  /\ running
  /\ running' = FALSE /\ buffer' = <<>> /\ subscriber' = NoCursor
  /\ UNCHANGED <<journal, wire>>

\* The constructor reloads the buffer from the journal.
BusStarts ==
  /\ ~running
  /\ running' = TRUE
  /\ buffer' = LET n == Len(journal) IN LastOf([i \in 1..n |-> i], BufferSize)
  /\ UNCHANGED <<journal, subscriber, wire>>

\* GET /api/events/history: one page, and the head of the journal.
HistoryPage(after, limit) == [upto |-> Min({after + limit, Len(journal)}), latest |-> Len(journal)]

BusTypeOK ==
  /\ running \in BOOLEAN
  /\ journal \in Seq(Event)
  /\ buffer \in Seq(1..Len(journal)) /\ Len(buffer) <= BufferSize
  /\ subscriber \in Nat \cup {NoCursor}
  /\ wire \in Seq(Frame)
=============================================================================
