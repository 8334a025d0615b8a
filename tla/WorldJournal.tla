---------------------------- MODULE WorldJournal ----------------------------
(* The World database: one contiguous journal of events, the projection every  *)
(* event is materialised into in the same transaction, the receipts of the     *)
(* commands that caused them, and the receipts of the installed rooms          *)
(* (src/src/world/graph.js, event-journal.js, event-reducer.js,                *)
(* event-verifier.js, topology-version-migrations.js, src/src/rooms/).         *)
(*                                                                              *)
(* Hashes are not modelled: the journal is append-only, so the sequence an      *)
(* event was prepared for names its predecessor.  One lifespan, one timer.      *)
EXTENDS Naturals, Sequences, FiniteSets
CONSTANTS Top,      \* generations of the topology; the last is the Spotlight door
          Package,  \* version of the room packages this code installs
          Approval,
          Refused   \* what the reducer throws
ASSUME TopAssumption == Top \in Nat /\ Top >= 4
ASSUME PackageAssumption == Package \in Nat /\ Package > 1

Room == {"workshop", "spotlight"}
Status == {"pending", "applying", "confirmed", "rejected", "cancelled", "reconciliation_required"}

\* Aggregates: each keeps its own contiguous revisions.
Generation(g) == <<"topology_extension", g>>
Lifespan == <<"lifespan", "session">>
Timer == <<"timer", "session">>
ApprovalOf(a) == <<"approval", a>>
Installation(room) == <<"room_installation", room>>

(* ---- the reducer ----                                                        *)
Rows == [gen : Nat, life : Nat, timer : Nat, approvals : [Approval -> {"none"} \cup Status]]
ASSUME RefusedAssumption == Refused \notin Rows
NoRows == [gen |-> 0, life |-> 0, timer |-> 0, approvals |-> [a \in Approval |-> "none"]]

ApprovalPath == {<<"none", "pending">>, <<"pending", "applying">>, <<"applying", "confirmed">>,
                 <<"pending", "rejected">>, <<"pending", "cancelled">>,
                 <<"applying", "reconciliation_required">>}

\* Every generation is installed exactly once, on exactly the one before it.
InstallsNext(rows, e) == e.kind = "installed" /\ e.of = Generation(rows.gen + 1)

Lawful(rows, e) ==
  \/ InstallsNext(rows, e)
  \/ e.kind = "started" /\ rows.gen > 1 /\ rows.life = 0
  \/ e.kind = "moved" /\ rows.life > 0 /\ e.rev = rows.life + 1
  \/ e.kind = "set" /\ rows.life > 0 /\ (rows.timer > 0 => e.rev = rows.timer + 1)
  \/ e.kind = "cleared" /\ rows.timer > 0 /\ e.rev = rows.timer + 1
  \/ \E a \in Approval : e.of = ApprovalOf(a) /\ <<rows.approvals[a], e.kind>> \in ApprovalPath
  \/ e.kind = "revised"

Effect(rows, e) ==
  [gen |-> IF e.kind = "installed" THEN rows.gen + 1 ELSE rows.gen,
   life |-> IF e.of = Lifespan THEN e.rev ELSE rows.life,
   timer |-> IF e.kind = "set" THEN e.rev ELSE IF e.kind = "cleared" THEN 0 ELSE rows.timer,
   approvals |-> [a \in Approval |-> IF e.of = ApprovalOf(a) THEN e.kind ELSE rows.approvals[a]]]

Reduced(rows, e) == IF rows # Refused /\ Lawful(rows, e) THEN Effect(rows, e) ELSE Refused

\* replayWorldEvents()
Replay(journal) ==
  LET after[n \in 0..Len(journal)] == IF n = 0 THEN NoRows ELSE Reduced(after[n-1], journal[n])
  IN after[Len(journal)]

(* ---- revisions ----                                                          *)
Greatest(S) == CHOOSE x \in S : \A y \in S : y <= x
\* Variant: only the standing row is asked, which a cleared timer no longer has.
AggregateRevision_FromTheRow(db, of) ==
  IF of = Timer THEN db.rows.timer
  ELSE Greatest({0} \cup {db.journal[i].rev : i \in {k \in DOMAIN db.journal : db.journal[k].of = of}})
\* aggregateRevision(): the journal remembers revisions whose row is gone.
AggregateRevision(db, of) ==
  Greatest({0} \cup {db.journal[i].rev : i \in {k \in DOMAIN db.journal : db.journal[k].of = of}})

(* ---- the verifier ----                                                       *)
ReceiptsFor(db, sort, i) == {k \in DOMAIN db.receipts : db.receipts[k] = [sort |-> sort, event |-> i]}
OfApproval(e) == \E a \in Approval : e.of = ApprovalOf(a)

\* verifyCustody()
CustodyHolds(db) ==
  /\ \A k \in DOMAIN db.receipts : db.receipts[k].event \in DOMAIN db.journal
  /\ \A i \in DOMAIN db.journal : db.journal[i].by = "command" =>
       /\ Cardinality(ReceiptsFor(db, "action", i)) = 1
       /\ OfApproval(db.journal[i]) => Cardinality(ReceiptsFor(db, "approval", i)) = 1

JournalHolds(db) ==
  /\ db.journal # <<>>
  /\ \A i \in DOMAIN db.journal :
       /\ db.journal[i].of = Generation(1) <=> i = 1
       /\ db.journal[i].rev = 1 + Cardinality({k \in 1..(i-1) : db.journal[k].of = db.journal[i].of})
  /\ db.rows = Replay(db.journal)

\* The door may stand in a World that only the Spotlight shell is required of.
Admits(g) == IF g = Top - 1 THEN {Top - 1, Top} ELSE {g}

\* verifyWorldSqlite() for the generation g
Verified(db, g) ==
  /\ db.schema = IF g = 1 THEN "journal" ELSE "passages"
  /\ JournalHolds(db) /\ CustodyHolds(db)
  /\ db.rows.gen \in Admits(g)

\* inspectB1Upgrade(), inspectTopologyUpgrade()
UpgradeRequired(db, g) == ~Verified(db, g) /\ Verified(db, g - 1)

(* ---- rooms ----                                                              *)
ReceiptsOf(db, room) == {r \in db.rooms : r.room = room}
\* The topology event an original receipt points to.
Anchor(db, room) ==
  IF room = "workshop" THEN 1
  ELSE Greatest({0} \cup {i \in DOMAIN db.journal :
                            db.journal[i].of \in {Generation(Top - 1), Generation(Top)}})
Paired(db, room, i) == \E r \in ReceiptsOf(db, room) : r.event = i /\ r.revises

\* inspectWorkshopInstallationUpgrade(), inspectSpotlightInstallationUpgrade()
RoomStatus(db, room) ==
  LET exact == {r \in ReceiptsOf(db, room) : r.package = Package}
      revisions == {i \in DOMAIN db.journal : db.journal[i].of = Installation(room)}
  IN CASE Anchor(db, room) = 0 -> "missing_topology"
       [] Anchor(db, room) # 0 /\ exact # {} ->
            IF \A r \in exact : IF r.revises THEN r.event \in revisions
                                ELSE room = "spotlight" => r.event = Anchor(db, room)
            THEN "current" ELSE "corrupt"
       [] Anchor(db, room) # 0 /\ ReceiptsOf(db, room) = {} -> "missing_original_receipt"
       [] OTHER -> IF \A i \in revisions : Paired(db, room, i) THEN "upgrade_required" ELSE "corrupt"

\* appendRoomInstallationReceipt(): the receipt of the package this code installs
RoomReceipt(room, event, revises) ==
  [room |-> room, package |-> Package, event |-> event, revises |-> revises]
\* establishInstalledRoomReceipts(): originals for the rooms that have none
Established(db) ==
  [db EXCEPT !.rooms = @ \cup {RoomReceipt(room, Anchor(db, room), FALSE) :
       room \in {r \in Room : RoomStatus(db, r) = "missing_original_receipt"}}]

(* ---- one event ----                                                          *)
\* createWorldEvent() for an operation [kind, of, by]
EventFor(db, op) ==
  [kind |-> op.kind, of |-> op.of, by |-> op.by,
   rev |-> IF op.kind \in {"installed", "started", "pending"} THEN 1 ELSE AggregateRevision(db, op.of) + 1]

\* _materializeProjection(): upserts, and deletes the timer the prior projection had
Materialised(rows, next, prior) ==
  [next EXCEPT !.timer = IF next.timer = 0 /\ prior.timer = 0 THEN rows.timer ELSE next.timer]

\* recordToolCrossing(), recordApprovalCrossing(): the receipts of a command
ReceiptsOfCommand(e, i) ==
  IF e.by # "command" THEN <<>>
  ELSE <<[sort |-> "action", event |-> i]>>
       \o (IF OfApproval(e) THEN <<[sort |-> "approval", event |-> i]>> ELSE <<>>)

\* Variant: the receipt of a room revision is left for after the transaction.
RoomsAfter_LeftForLater(db, e, i) == db.rooms
\* afterProjection: the forward receipt of a revised room
RoomsAfter(db, e, i) ==
  IF e.kind = "revised" THEN db.rooms \cup {RoomReceipt(e.of[2], i, TRUE)} ELSE db.rooms
=============================================================================
