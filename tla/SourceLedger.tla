---------------------------- MODULE SourceLedger ----------------------------
(***************************************************************************)
(* src/src/ledger/source.js: the Source database of the Hub, as far as a   *)
(* wake touches it.  Lifespans (sessions rows of kind 'lifespan'), wake    *)
(* rows, the Scroll (session_history) and the Hearth receipts are durable: *)
(* a crash leaves them as they are.  Every operator below is one SQLite    *)
(* transaction of the code, so each happens entirely or not at all.        *)
(*                                                                         *)
(* Message contents, hashes, Scrub receipts and Roots artifacts written in *)
(* the same transactions carry no control here and are left out.  A write  *)
(* that SQLite itself refuses is indistinguishable, for these tables, from *)
(* a crash before the transaction.                                         *)
(***************************************************************************)
EXTENDS PlanLedger, FiniteSets

CONSTANTS
  Wake,           \* ids a wake may be given
  NoWake,
  NoSession,
  SessionZero     \* the historical ancestry every first lifespan descends from

ASSUME SourceLedgerAssumption ==
  /\ IsFiniteSet(Wake)
  /\ NoWake \notin Wake
  /\ NoSession \notin Session
  /\ SessionZero \notin Session

VARIABLES
  lifespan,       \* sessions.status, "unborn" before the row exists
  predecessor,    \* sessions.predecessor_session_id
  tended,         \* lifespans with a hearth_receipts row
  wakes,          \* wakes joined with wake_origin_receipts / hearth_wake_receipts
  scroll          \* session_history of each lifespan, by ordinal

sourceVars == <<lifespan, predecessor, tended, wakes, scroll>>

Origin == {"human_present", "self_directed", "hearth_origin"}
WakeStatus == {"none", "assembling", "calling_provider", "committed", "failed"}
RowKind == {"user", "assistant_tool_call", "tool_result", "resident"}

WakeRow == [status : WakeStatus, session : Session \cup {NoSession}, ordinal : Nat,
            origin : Origin, plan : Plan \cup {NoPlan}, custodyFailed : BOOLEAN]
ScrollRow == [wake : Wake, kind : RowKind, calls : Nat]

Unwoken == [status |-> "none", session |-> NoSession, ordinal |-> 0,
            origin |-> "human_present", plan |-> NoPlan, custodyFailed |-> FALSE]

SourceInit ==
  /\ lifespan = [s \in Session |-> "unborn"]
  /\ predecessor = [s \in Session |-> SessionZero]
  /\ tended = {}
  /\ wakes = [w \in Wake |-> Unwoken]
  /\ scroll = [s \in Session |-> <<>>]

OpenLifespans == {s \in Session : lifespan[s] = "open"}
Settled(w) == wakes[w].status \in {"committed", "failed"}

\* Variant: the predecessor is looked up after the open lifespans were closed.
OpenSession_ForgetsPredecessor(s) ==
  /\ lifespan[s] = "unborn"
  /\ lifespan' = [t \in Session |-> IF t = s THEN "open"
                                    ELSE IF lifespan[t] = "open" THEN "closed"
                                    ELSE lifespan[t]]
  /\ UNCHANGED <<predecessor, tended, wakes, scroll>>

\* openSession(): closes every open lifespan and opens s, which descends from
\* the lifespan that was open, from Session Zero when none was.
OpenSession(s) ==
  /\ lifespan[s] = "unborn"
  /\ lifespan' = [t \in Session |-> IF t = s THEN "open"
                                    ELSE IF lifespan[t] = "open" THEN "closed"
                                    ELSE lifespan[t]]
  /\ predecessor' = [predecessor EXCEPT
       ![s] = IF OpenLifespans = {} THEN SessionZero ELSE CHOOSE t \in OpenLifespans : TRUE]
  /\ UNCHANGED <<tended, wakes, scroll>>

\* The guards of createSessionWake, createAutonomousSessionWake and
\* createHearthOriginWake; the last two throw when theirs fails.
MayCreate(origin, plan, s) ==
  /\ lifespan[s] = "open"
  /\ origin = "self_directed" => planRow[plan].session = s /\ s \in tended
  /\ origin = "hearth_origin" => s \notin tended

\* Variant: only committed turns are counted.
TurnOrdinal_OfCommitted(origin, s) ==
  IF origin = "hearth_origin" THEN 1
  ELSE Cardinality({v \in Wake : wakes[v].session = s /\ wakes[v].status = "committed"}) + 1

\* Turn ordinals are a count taken before the transaction; a Hearth-origin wake
\* is given ordinal 1 outright.
TurnOrdinal(origin, s) ==
  IF origin = "hearth_origin" THEN 1 ELSE Cardinality({v \in Wake : wakes[v].session = s}) + 1

\* Only a human wake puts its trigger in the Scroll.
CreateWake(w, origin, plan, s) ==
  /\ wakes[w].status = "none"
  /\ MayCreate(origin, plan, s)
  /\ wakes' = [wakes EXCEPT ![w] = [status |-> "assembling", session |-> s,
                                    ordinal |-> TurnOrdinal(origin, s), origin |-> origin,
                                    plan |-> plan, custodyFailed |-> FALSE]]
  /\ scroll' = IF origin = "human_present"
               THEN [scroll EXCEPT ![s] = Append(@, [wake |-> w, kind |-> "user", calls |-> 0])]
               ELSE scroll
  /\ UNCHANGED <<lifespan, predecessor, tended>>

\* appendSessionHistory(), alone or inside a larger transaction
ScrollWith(w, kind, calls) ==
  [scroll EXCEPT ![wakes[w].session] = Append(@, [wake |-> w, kind |-> kind, calls |-> calls])]

MarkCalling(w) ==
  /\ wakes' = [wakes EXCEPT ![w].status = "calling_provider"]
  /\ UNCHANGED <<lifespan, predecessor, tended, scroll>>

\* recordToolCall(), recordHearthAction(): one row, however many calls it carries
RecordToolCall(w, calls) ==
  /\ scroll' = ScrollWith(w, "assistant_tool_call", calls)
  /\ UNCHANGED <<lifespan, predecessor, tended, wakes>>

\* recordToolResult()
RecordToolResult(w) ==
  /\ scroll' = ScrollWith(w, "tool_result", 0)
  /\ UNCHANGED <<lifespan, predecessor, tended, wakes>>

\* recordHearthReturn(): the row and the receipt that settles the orientation
RecordHearthReturn(w) ==
  /\ scroll' = ScrollWith(w, "tool_result", 0)
  /\ tended' = tended \cup {wakes[w].session}
  /\ UNCHANGED <<lifespan, predecessor, wakes>>

CommitSessionWake(w) ==
  /\ scroll' = ScrollWith(w, "resident", 0)
  /\ wakes' = [wakes EXCEPT ![w].status = "committed"]
  /\ UNCHANGED <<lifespan, predecessor, tended>>

FailSessionWake(w) ==
  /\ wakes' = [wakes EXCEPT ![w].status = "failed"]
  /\ UNCHANGED <<lifespan, predecessor, tended, scroll>>

\* recordHostFailure(): custody failed after the wake had committed
RecordHostFailure(w) ==
  /\ wakes' = [wakes EXCEPT ![w].custodyFailed = TRUE]
  /\ UNCHANGED <<lifespan, predecessor, tended, scroll>>

SourceTypeOK ==
  /\ lifespan \in [Session -> {"unborn", "open", "closed"}]
  /\ predecessor \in [Session -> Session \cup {SessionZero}]
  /\ tended \subseteq Session
  /\ wakes \in [Wake -> WakeRow]
  /\ scroll \in [Session -> Seq(ScrollRow)]
=============================================================================
