----------------------------- MODULE WorldStores -----------------------------
(* The processes that open one World: the Hub, which serves commands and keeps  *)
(* its lifespan, and the operator's scripts, which migrate it generation by      *)
(* generation or revise a room.  Nothing keeps a script from running while the   *)
(* Hub does; SQLite's write lock, the contiguity trigger and the verification    *)
(* before and after are all there is.  A process may die at any step.            *)
(*                                                                              *)
(* BEGIN IMMEDIATE does not wait: a lock held elsewhere is an error.             *)
EXTENDS WorldJournal
CONSTANTS Hub, Script, MaxEvents, Nobody, Nothing
VARIABLES world,  \* the committed database
          draft,  \* the database as the open transaction sees it, or Nothing
          lock,   \* who holds SQLite's write lock, or Nobody
          store   \* each process's WorldGraphStore

vars == <<world, draft, lock, store>>
Store == {Hub} \cup Script
ASSUME NobodyAssumption == Nobody \notin Store

\* topologyVersion: "spotlight" stands for the shell and its door.
Version == (2..Top) \ {Top - 1}
Closed == [pc |-> "closed", version |-> Top, grown |-> 0, job |-> Nothing]

\* A World an earlier release left, at generation g.
Older(g, rooms) ==
  [schema |-> IF g = 1 THEN "journal" ELSE "passages",
   journal |-> [i \in 1..g |-> [kind |-> "installed", of |-> Generation(i), by |-> "world", rev |-> 1]],
   rows |-> [NoRows EXCEPT !.gen = g], receipts |-> <<>>, rooms |-> rooms]
OlderReceipts(g) ==
  {{}, {[room |-> "workshop", package |-> Package - 1, event |-> 1, revises |-> FALSE]}}
NoWorld == [schema |-> "none", journal |-> <<>>, rows |-> NoRows, receipts |-> <<>>, rooms |-> {}]

Init ==
  /\ world \in {NoWorld} \cup UNION {{Older(g, r) : r \in OlderReceipts(g)} : g \in 1..Top}
  /\ draft = Nothing /\ lock = Nobody
  /\ store = [p \in Store |-> Closed]

At(p, pc) == store[p].pc = pc
Becomes(p, s) == store' = [store EXCEPT ![p] = s]
\* The process goes on; a constructor that threw has closed its database.
After(p, done) ==
  IF store[p].job.path # "boot" THEN [store[p] EXCEPT !.pc = "open", !.job = Nothing]
  ELSE IF done THEN [store[p] EXCEPT !.pc = "growing", !.grown = @ + 1, !.job = Nothing]
  ELSE Closed

(* ---- the constructor ----                                                    *)
\* A database with a journal is taken as it is.
Open(p) ==
  /\ At(p, "closed")
  /\ \E v \in IF p = Hub THEN {Top} ELSE Version :
       Becomes(p, [Closed EXCEPT !.version = v,
                                 !.pc = IF world.schema = "none" THEN "schema" ELSE "open"])
  /\ UNCHANGED <<world, draft, lock>>

\* Each statement of the bootstrap commits on its own, under SQLite's lock.
InstallSchema(p) ==
  /\ At(p, "schema") /\ lock = Nobody
  /\ world' = [world EXCEPT !.schema = IF @ = "none" THEN "journal" ELSE @]
  /\ Becomes(p, [store[p] EXCEPT !.pc = "passages"]) /\ UNCHANGED <<draft, lock>>

InstallPassages(p) ==
  /\ At(p, "passages") /\ lock = Nobody /\ world' = [world EXCEPT !.schema = "passages"]
  /\ Becomes(p, [store[p] EXCEPT !.pc = "growing"]) /\ UNCHANGED <<draft, lock>>

Job(path, op, event, at, prior, version) ==
  [path |-> path, op |-> op, event |-> event, at |-> at, prior |-> prior, version |-> version]
\* _appendPhysicalEvent() up to its transaction: head and prior are read now.
Prepared(p, path, op, prior) ==
  LET e == EventFor(world, op) IN
  IF Reduced(prior, e) = Refused THEN [store[p] EXCEPT !.job = Job(path, op, e, 0, prior, 0), !.pc = "failed"]
  ELSE [store[p] EXCEPT !.job = Job(path, op, e, Len(world.journal) + 1, prior, store[p].version),
                        !.pc = "prepared"]

Installing(g) == [kind |-> "installed", of |-> Generation(g), by |-> "world"]

\* bootstrapFreshTopology(): the root from nothing, every extension from a replay.
Grow(p) ==
  /\ At(p, "growing") /\ store[p].grown < store[p].version
  /\ LET g == store[p].grown + 1 IN
     Becomes(p, Prepared(p, "boot", Installing(g), IF g = 1 THEN NoRows ELSE Replay(world.journal)))
  /\ UNCHANGED <<world, draft, lock>>

Grown(p) == /\ At(p, "growing") /\ store[p].grown = store[p].version
            /\ Becomes(p, [store[p] EXCEPT !.pc = "open"]) /\ UNCHANGED <<world, draft, lock>>

(* ---- what a process asks of an open World ----                               *)
\* Hub start: a World that does not verify is served as it is, refusing every
\* command; a room of an older package ends the start.
CheckIn ==
  /\ At(Hub, "open") /\ lock = Nobody
  /\ \/ ~Verified(world, Top) /\ Becomes(Hub, [store[Hub] EXCEPT !.pc = "serving"]) /\ UNCHANGED world
     \/ /\ Verified(world, Top)
        /\ \E room \in Room : RoomStatus(world, room) \notin {"current", "missing_original_receipt"}
        /\ Becomes(Hub, Closed) /\ UNCHANGED world
     \/ /\ Verified(world, Top)
        /\ \A room \in Room : RoomStatus(world, room) \in {"current", "missing_original_receipt"}
        /\ world' = Established(world) /\ Becomes(Hub, [store[Hub] EXCEPT !.pc = "serving"])
  /\ UNCHANGED <<draft, lock>>

Serving(p) == At(p, "serving") /\ p = Hub /\ Len(world.journal) < MaxEvents
Op(kind, of, by) == [kind |-> kind, of |-> of, by |-> by]

\* Events of the World's own: each is verified, prepared, then written.
OwnOps == {Op("started", Lifespan, "world")}
          \cup {Op(s, ApprovalOf(a), "world") : s \in {"cancelled", "reconciliation_required"}, a \in Approval}
Own == /\ Serving(Hub) /\ Verified(world, Top)
       /\ \E op \in OwnOps :
            /\ Lawful(world.rows, EventFor(world, op))
            /\ Becomes(Hub, Prepared(Hub, "own", op, world.rows))
       /\ UNCHANGED <<world, draft, lock>>

\* A command of the resident or the builder: verified, then everything is read
\* and written inside its transaction.
CommandOps == {Op("moved", Lifespan, "command"), Op("set", Timer, "command"), Op("cleared", Timer, "command")}
              \cup {Op(s, ApprovalOf(a), "command") :
                      s \in {"pending", "applying", "confirmed", "rejected"}, a \in Approval}
Command == /\ Serving(Hub) /\ Verified(world, Top) /\ world.rows.life > 0
           /\ \E op \in CommandOps :
                Becomes(Hub, [store[Hub] EXCEPT !.pc = "prepared",
                                !.job = Job("command", op, Nothing, 0, Nothing, Top)])
           /\ UNCHANGED <<world, draft, lock>>

\* world-migrate-*.js: inspected before the transaction, read again inside it.
Migrate(p) ==
  /\ p # Hub /\ At(p, "open")
  /\ \E g \in 2..Top :
       /\ UpgradeRequired(world, g)
       /\ Becomes(p, [store[p] EXCEPT !.pc = "prepared",
                        !.job = Job("migrate", Installing(g), Nothing, 0, Nothing, g)])
  /\ UNCHANGED <<world, draft, lock>>

\* room-migrate-*.js: appendRoomInstallationRevisionEvent()
Revise(p) ==
  /\ p # Hub /\ At(p, "open") /\ store[p].version = Top /\ Verified(world, Top)
  /\ \E room \in Room :
       /\ RoomStatus(world, room) = "upgrade_required"
       /\ Becomes(p, Prepared(p, "own", Op("revised", Installation(room), "world"), Replay(world.journal)))
  /\ UNCHANGED <<world, draft, lock>>

\* What the processes write, and the events it becomes.
Ops == {Installing(g) : g \in 1..Top} \cup OwnOps \cup CommandOps
       \cup {Op("revised", Installation(room), "world") : room \in Room}
EventsOf(op) == [kind : {op.kind}, of : {op.of}, by : {op.by}, rev : Nat]
ASSUME NothingAssumption == \A op \in Ops : Nothing \notin EventsOf(op)

(* ---- the transaction ----                                                    *)
Resume(p, s) == IF s.pc = "open" /\ p = Hub THEN [s EXCEPT !.pc = "serving"] ELSE s
Abort(p) == /\ draft' = Nothing /\ lock' = Nobody
            /\ Becomes(p, Resume(p, After(p, FALSE))) /\ UNCHANGED world

\* The reducer refused before there was a transaction, or the lock was taken.
GiveUp(p) == /\ At(p, "failed") \/ (At(p, "prepared") /\ lock # Nobody)
             /\ Becomes(p, Resume(p, After(p, FALSE))) /\ UNCHANGED <<world, draft, lock>>

Begin(p) == /\ At(p, "prepared") /\ lock = Nobody
            /\ lock' = p /\ draft' = world
            /\ Becomes(p, [store[p] EXCEPT !.pc = "begun"]) /\ UNCHANGED world

\* A job prepared outside keeps its event; the others make theirs here.
EventOf(p) == IF store[p].job.event = Nothing THEN EventFor(draft, store[p].job.op) ELSE store[p].job.event
PriorOf(p) == IF store[p].job.event = Nothing THEN Replay(draft.journal) ELSE store[p].job.prior
\* The trigger: the next sequence and no other.
Contiguous(p) == store[p].job.at \in {0, Len(draft.journal) + 1}

\* Variant: the event is committed at once, and its projection on its own later.
Insert_Autocommits(p) ==
  /\ At(p, "begun")
  /\ LET e == EventOf(p) IN
     IF Contiguous(p) /\ Reduced(PriorOf(p), e) # Refused
     THEN /\ draft' = [draft EXCEPT !.journal = Append(@, e)] /\ world' = draft'
          /\ Becomes(p, [store[p] EXCEPT !.pc = "inserted", !.job.event = e, !.job.prior = PriorOf(p)])
          /\ UNCHANGED lock
     ELSE Abort(p)
Insert(p) ==
  /\ At(p, "begun")
  /\ LET e == EventOf(p) IN
     IF Contiguous(p) /\ Reduced(PriorOf(p), e) # Refused
     THEN /\ draft' = [draft EXCEPT !.journal = Append(@, e)]
          /\ Becomes(p, [store[p] EXCEPT !.pc = "inserted", !.job.event = e, !.job.prior = PriorOf(p)])
          /\ UNCHANGED <<world, lock>>
     ELSE Abort(p)

\* Variant: what is there already is written over.
Conflicts_Overwritten(p) == FALSE
\* A second root meets the nodes of the first, created at another instant.
Conflicts(p) == store[p].job.op = Installing(1) /\ draft.rows.gen > 0
\* The projection, then what is written with it: the tables of B1, the receipts.
Project(p) ==
  /\ At(p, "inserted")
  /\ IF Conflicts(p) THEN Abort(p)
     ELSE LET j == store[p].job  i == Len(draft.journal) IN
          /\ draft' = [schema |-> IF j.path = "migrate" THEN "passages" ELSE draft.schema,
                       journal |-> draft.journal,
                       rows |-> Materialised(draft.rows, Reduced(j.prior, j.event), j.prior),
                       receipts |-> draft.receipts \o ReceiptsOfCommand(j.event, i),
                       rooms |-> RoomsAfter(draft, j.event, i)]
          /\ Becomes(p, [store[p] EXCEPT !.pc = "projected"]) /\ UNCHANGED <<world, lock>>

\* The bootstrap alone commits what nobody verified.
Accepted(p) == store[p].job.path = "boot" \/ Verified(draft, store[p].job.version)
Finish(p) ==
  /\ At(p, "projected")
  /\ IF Accepted(p)
     THEN /\ world' = draft /\ draft' = Nothing /\ lock' = Nobody
          /\ Becomes(p, Resume(p, After(p, TRUE)))
     ELSE Abort(p)

Die(p) == /\ store[p].pc # "closed" /\ Becomes(p, Closed)
          /\ IF lock = p THEN lock' = Nobody /\ draft' = Nothing ELSE UNCHANGED <<lock, draft>>
          /\ UNCHANGED world

Next == \/ CheckIn \/ Own \/ Command
        \/ \E p \in Store : \/ Open(p) \/ InstallSchema(p) \/ InstallPassages(p) \/ Grow(p) \/ Grown(p)
                            \/ Migrate(p) \/ Revise(p) \/ GiveUp(p) \/ Begin(p) \/ Insert(p)
                            \/ Project(p) \/ Finish(p) \/ Die(p)
Spec == Init /\ [][Next]_vars

(* ---- properties ----                                                         *)
\* Every World a transaction has left is whole: its journal starts at the root,
\* every aggregate's revisions are contiguous, the projection is the replay, and
\* every command's event has its one action receipt and, for an approval, its one
\* approval receipt, whoever raced, died or was refused (verifyWorldSqlite,
\* `transaction`, `_appendPhysicalEvent`).
CommittedWorldHolds ==
  world.journal # <<>> =>
    /\ \A i \in DOMAIN world.journal :
         /\ world.journal[i].of = Generation(1) <=> i = 1
         /\ world.journal[i].rev =
              1 + Cardinality({k \in 1..(i-1) : world.journal[k].of = world.journal[i].of})
         /\ world.journal[i].by = "command" => Cardinality(ReceiptsFor(world, "action", i)) = 1
    /\ world.rows = Replay(world.journal)

\* The verification before COMMIT is a last defence that lawful work never meets:
\* what was verified, prepared at the head and let through by the trigger always
\* verifies again, so no timer, approval or migration is refused for what the
\* store itself wrote (aggregateRevision, `_materializeProjection`, actionReceipt).
LawfulWorkVerifies ==
  \A p \in Store : At(p, "projected") /\ store[p].job.path # "boot" =>
    Verified(draft, store[p].job.version)

\* Once B1 is committed no death strands a World: it verifies at the newest
\* generation or some migration script accepts it, and no installed room is left
\* with a revision that has no receipt (inspectTopologyUpgrade,
\* inspectWorkshopInstallationUpgrade, appendRoomInstallationRevisionEvent).
NeverStranded ==
  world.rows.gen > 1 =>
    /\ Verified(world, Top) \/ \E g \in 3..Top : UpgradeRequired(world, g)
    /\ \A room \in Room : RoomStatus(world, room) # "corrupt"

\* Seen from outside, the stores keep a chronicle: no interleaving of the Hub, the
\* scripts and their deaths shows an event without its receipts, loses one, or
\* writes one over another (`_appendPhysicalEvent`, `transaction`).
Told == INSTANCE Chronicle WITH log <- world.journal, receipts <- world.receipts, rooms <- world.rooms
ChronicleIsKept == Told!Keeps
=============================================================================
