-------------------------- MODULE WorldStoresProofs --------------------------
(***************************************************************************)
(* The World keeps its chronicle for any number of generations, scripts,   *)
(* approvals and events.  Whoever holds SQLite's write lock has a draft    *)
(* that is the committed World plus at most the one event it is writing,   *)
(* and nobody else writes; that is the first inductive invariant, and every *)
(* commit then is one whole entry of the chronicle.                        *)
(*                                                                         *)
(* The second says what the database is and what each process is about to  *)
(* add to it: the revisions count the events, the projection is the replay *)
(* of the journal, the receipts pair the commands, and an event prepared   *)
(* outside the transaction is right when the trigger lets it in, or is a   *)
(* second root.  The replay is recursive; what one event more does to it   *)
(* is proved by induction.                                                 *)
(***************************************************************************)
EXTENDS WorldStores, TLAPS, SequenceTheorems, FiniteSetTheorems

-----------------------------------------------------------------------------
(* Induction on the naturals, with a set in place of a predicate *)

\* A set of naturals that is not empty has a least element.
LEMMA LeastOfNats ==
  ASSUME NEW T, T \subseteq Nat, T # {}
  PROVE  \E n \in T : \A m \in T : n <= m
  <1> DEFINE R == OpToRel(<, Nat)
  <1>1. IsWellFoundedOn(R, Nat)
    BY NatLessThanWellFounded
  <1>2. \A x, y \in Nat : <<y, x>> \in R <=> y < x
    BY DEF OpToRel
  <1> HIDE DEF R
  <1>3. PICK x \in T : \A y \in T : ~(<<y, x>> \in R)
    BY <1>1, WFMin
  <1>4. ASSUME NEW y \in T PROVE x <= y
    <2>1. x \in Nat /\ y \in Nat
      OBVIOUS
    <2>2. ~(y < x)
      BY <1>2, <1>3, <2>1
    <2>3. QED
      BY <2>1, <2>2
  <1>5. QED
    BY <1>4

\* A set with zero in it and with the successor of each of its numbers holds them all.
LEMMA NatsByInduction ==
  ASSUME NEW S, 0 \in S, \A n \in Nat : n \in S => n + 1 \in S
  PROVE  \A n \in Nat : n \in S
  <1> SUFFICES ASSUME Nat \ S # {} PROVE FALSE
    OBVIOUS
  <1>1. PICK n \in Nat \ S : \A m \in Nat \ S : n <= m
    BY LeastOfNats
  <1>2. n # 0 /\ n - 1 \in Nat
    BY <1>1
  <1>3. n - 1 \in S
    BY <1>1, <1>2
  <1>4. QED
    BY <1>1, <1>2, <1>3

\* The same up to a bound.
LEMMA IntervalByInduction ==
  ASSUME NEW N \in Nat, NEW S, 0 \in S, \A n \in 0..N : n < N /\ n \in S => n + 1 \in S
  PROVE  \A n \in 0..N : n \in S
  <1> DEFINE T == { n \in Nat : n <= N => n \in S }
  <1>1. 0 \in T
    OBVIOUS
  <1>2. \A n \in Nat : n \in T => n + 1 \in T
    OBVIOUS
  <1> HIDE DEF T
  <1>3. \A n \in Nat : n \in T
    BY <1>1, <1>2, NatsByInduction
  <1>4. QED
    BY <1>3 DEF T

\* A bounded set of naturals that is not empty has a greatest element.
LEMMA GreatestOfNats ==
  ASSUME NEW N \in Nat, NEW T, T \subseteq 0..N, T # {}
  PROVE  \E n \in T : \A m \in T : m <= n
  <1> DEFINE U == { k \in Nat : \E m \in T : k = N - m }
  <1>1. U \subseteq Nat /\ U # {}
    <2>1. PICK m \in T : TRUE
      OBVIOUS
    <2>2. m \in 0..N /\ N - m \in Nat
      BY <2>1
    <2>3. N - m \in U
      BY <2>1, <2>2
    <2>4. QED
      BY <2>3
  <1>2. PICK k \in U : \A l \in U : k <= l
    <2> HIDE DEF U
    <2> QED BY <1>1, LeastOfNats
  <1>3. PICK n \in T : k = N - n
    BY <1>2
  <1>4. \A m \in T : N - m \in U
    OBVIOUS
  <1> HIDE DEF U
  <1>5. \A m \in T : m <= n
    BY <1>2, <1>3, <1>4
  <1>6. QED
    BY <1>5

-----------------------------------------------------------------------------

\* A database, a store and a job have their fields; the journal is a sequence.
Whole(db) ==
  /\ db = [schema |-> db.schema, journal |-> db.journal, rows |-> db.rows,
           receipts |-> db.receipts, rooms |-> db.rooms]
  /\ \E E : db.journal \in Seq(E)
Shaped(s) == \E P, V, G, J : s \in [pc : P, version : V, grown : G, job : J]
JobShaped(j) ==
  \E P, O, E, A, R, V : j \in [path : P, op : O, event : E, at : A, prior : R, version : V]

\* `next` is `db` with one event and all that belongs to it.
OneEntryMore(db, next) ==
  /\ Whole(next)
  /\ \E e : /\ next.journal = Append(db.journal, e)
            /\ next.receipts = db.receipts \o ReceiptsOfCommand(e, Len(db.journal) + 1)
            /\ next.rooms = RoomsAfter(db, e, Len(db.journal) + 1)

\* What the holder of the lock has in its draft at each step of its transaction.
Transaction(p) ==
  /\ At(p, "begun") => lock = p /\ draft = world
  /\ At(p, "inserted") =>
       /\ lock = p
       /\ draft.journal = Append(world.journal, store[p].job.event)
       /\ draft.receipts = world.receipts /\ draft.rooms = world.rooms
  /\ At(p, "projected") => lock = p /\ OneEntryMore(world, draft)

Fit(s) == Shaped(s) /\ (s.pc \in {"prepared", "begun"} => JobShaped(s.job))
Inside == {"begun", "inserted", "projected"}

WorldInv ==
  /\ Whole(world)
  /\ store = [p \in Store |-> store[p]]
  /\ \A p \in Store : Fit(store[p]) /\ Transaction(p)

-----------------------------------------------------------------------------
(* Two ways to keep the invariant *)

LEMMA OutsideTheTransaction ==
  ASSUME WorldInv, NEW p \in Store, NEW s, Becomes(p, s), Fit(s), s.pc \notin Inside,
         UNCHANGED <<world, draft, lock>>
  PROVE  WorldInv'
  <1>1. store' = [q \in Store |-> store'[q]] /\ store'[p] = s
    BY DEF WorldInv, Becomes
  <1>2. \A q \in Store \ {p} : store'[q] = store[q]
    BY DEF WorldInv, Becomes
  <1>3. Transaction(p)'
    BY <1>1 DEF Transaction, At, Inside
  <1>4. \A q \in Store \ {p} : Transaction(q)'
    BY <1>2 DEF WorldInv, Transaction, At
  <1>5. \A q \in Store : Fit(store'[q])
    BY <1>1, <1>2 DEF WorldInv
  <1>6. QED
    BY <1>1, <1>3, <1>4, <1>5 DEF WorldInv

\* Under the lock, or with nobody holding it, no other process is in a transaction.
LEMMA UnderTheLock ==
  ASSUME WorldInv, NEW p \in Store, NEW s, Becomes(p, s), Fit(s), lock \in {p, Nobody},
         Whole(world'), Transaction(p)'
  PROVE  WorldInv'
  <1>1. store' = [q \in Store |-> store'[q]] /\ store'[p] = s
    BY DEF WorldInv, Becomes
  <1>2. \A q \in Store \ {p} : store'[q] = store[q]
    BY DEF WorldInv, Becomes
  <1>3. \A q \in Store \ {p} : store[q].pc \notin Inside
    BY NobodyAssumption DEF WorldInv, Transaction, At, Inside
  <1>4. \A q \in Store \ {p} : Transaction(q)'
    BY <1>2, <1>3 DEF Transaction, At, Inside
  <1>5. \A q \in Store : Fit(store'[q])
    BY <1>1, <1>2 DEF WorldInv
  <1>6. QED
    BY <1>1, <1>4, <1>5 DEF WorldInv

LEMMA AtRest ==
  ASSUME WorldInv, NEW p \in Store, NEW s, Becomes(p, s), Fit(s), s.pc \notin Inside,
         lock \in {p, Nobody}, Whole(world')
  PROVE  WorldInv'
  <1>1. store'[p] = s
    BY DEF WorldInv, Becomes
  <1>2. Transaction(p)'
    BY <1>1 DEF Transaction, At, Inside
  <1>3. QED
    BY <1>2, UnderTheLock

-----------------------------------------------------------------------------
(* One event *)

LEMMA OneMore ==
  ASSUME NEW E, NEW s \in Seq(E), NEW e
  PROVE  /\ Append(s, e) \in Seq(E \cup {e}) /\ Append(s, e) # <<>>
         /\ Len(Append(s, e)) = Len(s) + 1 /\ Append(s, e)[Len(s) + 1] = e
  <1>1. s \in Seq(E \cup {e})
    OBVIOUS
  <1>2. QED
    BY <1>1, AppendProperties

\* One entry more is, seen from outside, a record of the chronicle.
LEMMA EntryIsRecorded ==
  ASSUME Whole(world), OneEntryMore(world, world')
  PROVE  Told!Record
  <1>1. PICK e : /\ world'.journal = Append(world.journal, e)
                 /\ world'.receipts = world.receipts \o ReceiptsOfCommand(e, Len(world.journal) + 1)
                 /\ world'.rooms = RoomsAfter(world, e, Len(world.journal) + 1)
    BY DEF OneEntryMore
  <1>2. /\ world'.journal # <<>>
        /\ Len(world'.journal) = Len(world.journal) + 1
        /\ world'.journal[Len(world'.journal)] = e
    BY SMTT(30), <1>1, OneMore DEF Whole
  <1>3. Told!ReceiptsOfCommand(e, Len(world.journal) + 1) = ReceiptsOfCommand(e, Len(world.journal) + 1)
    BY DEF Told!ReceiptsOfCommand, ReceiptsOfCommand, Told!OfApproval, OfApproval, Told!ApprovalOf, ApprovalOf
  <1>4. world'.rooms = IF e.kind = "revised"
                       THEN world.rooms \cup {Told!RoomReceipt(e.of[2], Len(world.journal) + 1, TRUE)}
                       ELSE world.rooms
    BY <1>1 DEF RoomsAfter, RoomReceipt, Told!RoomReceipt
  <1>5. QED
    BY <1>1, <1>2, <1>3, <1>4 DEF Told!Record

LEMMA SameChronicle ==
  ASSUME world'.journal = world.journal, world'.receipts = world.receipts, world'.rooms = world.rooms
  PROVE  UNCHANGED Told!chronicle
  BY DEF Told!chronicle

-----------------------------------------------------------------------------
(* The steps *)

\* A step that keeps the invariant and that the chronicle understands.
Sound == WorldInv' /\ [Told!Record \/ Told!Establish]_(Told!chronicle)

LEMMA QuietStep ==
  ASSUME WorldInv, NEW p \in Store, NEW s, Becomes(p, s), Fit(s), s.pc \notin Inside,
         UNCHANGED <<world, draft, lock>>
  PROVE  Sound
  <1>1. WorldInv'
    BY OutsideTheTransaction
  <1>2. UNCHANGED Told!chronicle
    BY SameChronicle
  <1>3. QED
    BY <1>1, <1>2 DEF Sound

LEMMA JobThenPc ==
  ASSUME NEW s, Shaped(s), NEW x, NEW j
  PROVE  /\ Shaped([s EXCEPT !.job = j, !.pc = x])
         /\ [s EXCEPT !.job = j, !.pc = x].pc = x
  <1>1. PICK P, V, G, J : s \in [pc : P, version : V, grown : G, job : J]
    BY DEF Shaped
  <1> DEFINE t == [s EXCEPT !.job = j, !.pc = x]
  <1>2. t \in [pc : P \cup {x}, version : V, grown : G, job : J \cup {j}]
    BY <1>1
  <1>3. t.pc = x
    BY <1>1
  <1> HIDE DEF t
  <1>4. Shaped(t)
    BY <1>2 DEF Shaped
  <1>5. QED
    BY <1>3, <1>4 DEF t

LEMMA PcThenJob ==
  ASSUME NEW s, Shaped(s), NEW x, NEW j
  PROVE  /\ Shaped([s EXCEPT !.pc = x, !.job = j])
         /\ [s EXCEPT !.pc = x, !.job = j].pc = x
  <1>1. PICK P, V, G, J : s \in [pc : P, version : V, grown : G, job : J]
    BY DEF Shaped
  <1> DEFINE t == [s EXCEPT !.pc = x, !.job = j]
  <1>2. t \in [pc : P \cup {x}, version : V, grown : G, job : J \cup {j}]
    BY <1>1
  <1>3. t.pc = x
    BY <1>1
  <1> HIDE DEF t
  <1>4. Shaped(t)
    BY <1>2 DEF Shaped
  <1>5. QED
    BY <1>3, <1>4 DEF t

LEMMA PcAlone ==
  ASSUME NEW s, Shaped(s), NEW x
  PROVE  /\ Shaped([s EXCEPT !.pc = x])
         /\ [s EXCEPT !.pc = x].pc = x
         /\ [s EXCEPT !.pc = x].job = s.job
  <1>1. PICK P, V, G, J : s \in [pc : P, version : V, grown : G, job : J]
    BY DEF Shaped
  <1> DEFINE t == [s EXCEPT !.pc = x]
  <1>2. t \in [pc : P \cup {x}, version : V, grown : G, job : J]
    BY <1>1
  <1>3. t.pc = x /\ t.job = s.job
    BY <1>1
  <1> HIDE DEF t
  <1>4. Shaped(t)
    BY <1>2 DEF Shaped
  <1>5. QED
    BY <1>3, <1>4 DEF t

LEMMA GrownToo ==
  ASSUME NEW s, Shaped(s), NEW x, NEW j
  PROVE  /\ Shaped([s EXCEPT !.pc = x, !.grown = @ + 1, !.job = j])
         /\ [s EXCEPT !.pc = x, !.grown = @ + 1, !.job = j].pc = x
  <1>1. PICK P, V, G, J : s \in [pc : P, version : V, grown : G, job : J]
    BY DEF Shaped
  <1> DEFINE t == [s EXCEPT !.pc = x, !.grown = @ + 1, !.job = j]
  <1>2. t \in [pc : P \cup {x}, version : V, grown : G \cup {s.grown + 1}, job : J \cup {j}]
    <2> DEFINE g == s.grown + 1
    <2>1. t = [s EXCEPT !.pc = x, !.grown = g, !.job = j]
      OBVIOUS
    <2> HIDE DEF g, t
    <2>2. [s EXCEPT !.pc = x, !.grown = g, !.job = j] \in [pc : P \cup {x}, version : V, grown : G \cup {g}, job : J \cup {j}]
      BY <1>1
    <2>3. QED
      BY <2>1, <2>2 DEF g
  <1>3. t.pc = x
    BY <1>1
  <1> DEFINE P2 == P \cup {x}
             G2 == G \cup {s.grown + 1}
             J2 == J \cup {j}
  <1>4. \E A, B, C, D : t \in [pc : A, version : B, grown : C, job : D]
    <2>1. t \in [pc : P2, version : V, grown : G2, job : J2]
      BY <1>2
    <2> HIDE DEF t, P2, G2, J2
    <2>2. QED
      BY <2>1
  <1> HIDE DEF t
  <1>5. Shaped(t)
    BY <1>4 DEF Shaped
  <1>6. QED
    BY <1>3, <1>5 DEF t

LEMMA JobIsShaped ==
  ASSUME NEW path, NEW op, NEW event, NEW at, NEW prior, NEW version
  PROVE  JobShaped(Job(path, op, event, at, prior, version))
  <1>1. Job(path, op, event, at, prior, version)
          \in [path : {path}, op : {op}, event : {event}, at : {at}, prior : {prior}, version : {version}]
    BY DEF Job
  <1>2. QED
    BY ZenonT(60), <1>1 DEF JobShaped

LEMMA ClosedIsFit == Fit(Closed) /\ Closed.pc \notin Inside
  <1>1. Closed \in [pc : {"closed"}, version : {Top}, grown : {0}, job : {Nothing}]
    BY DEF Closed
  <1>2. Shaped(Closed)
    BY <1>1 DEF Shaped
  <1>3. QED
    BY <1>2 DEF Closed, Fit, Inside

LEMMA PreparedIsFit ==
  ASSUME WorldInv, NEW p \in Store, NEW path, NEW op, NEW prior
  PROVE  Fit(Prepared(p, path, op, prior)) /\ Prepared(p, path, op, prior).pc \notin Inside
  <1>1. Shaped(store[p])
    BY DEF WorldInv, Fit
  <1>2. \A event, at, version : JobShaped(Job(path, op, event, at, prior, version))
    BY JobIsShaped
  <1>3. PICK j, pc : /\ Prepared(p, path, op, prior) = [store[p] EXCEPT !.job = j, !.pc = pc]
                     /\ JobShaped(j) /\ pc \in {"failed", "prepared"}
    BY <1>2 DEF Prepared
  <1> DEFINE s == [store[p] EXCEPT !.job = j, !.pc = pc]
  <1>4. Shaped(s) /\ s.pc = pc
    BY <1>1, JobThenPc
  <1>5. s.job = j
    BY <1>1 DEF Shaped
  <1>6. Prepared(p, path, op, prior) = s
    BY <1>3
  <1> HIDE DEF s
  <1>7. QED
    BY <1>3, <1>4, <1>5, <1>6 DEF Fit, Inside

\* Where a process resumes after a transaction, it is in none.
LEMMA ResumedIsFit ==
  ASSUME WorldInv, NEW p \in Store, NEW done \in BOOLEAN
  PROVE  Fit(Resume(p, After(p, done))) /\ Resume(p, After(p, done)).pc \notin Inside
  <1>1. Shaped(store[p])
    BY DEF WorldInv, Fit
  <1>2. Shaped(After(p, done)) /\ After(p, done).pc \in {"open", "growing", "closed"}
    <2> DEFINE s == [store[p] EXCEPT !.pc = "open", !.job = Nothing]
               t == [store[p] EXCEPT !.pc = "growing", !.grown = @ + 1, !.job = Nothing]
    <2>1. Shaped(s) /\ s.pc = "open"
      BY <1>1, PcThenJob
    <2>2. Shaped(t) /\ t.pc = "growing"
      BY <1>1, GrownToo
    <2>3. Shaped(Closed) /\ Closed.pc = "closed"
      BY ClosedIsFit DEF Fit, Closed
    <2>4. After(p, done) \in {s, t, Closed}
      BY DEF After
    <2> HIDE DEF s, t
    <2>5. QED
      BY <2>1, <2>2, <2>3, <2>4
  <1>3. Shaped(Resume(p, After(p, done)))
        /\ Resume(p, After(p, done)).pc \in {"open", "growing", "closed", "serving"}
    BY <1>2, PcAlone DEF Resume
  <1>4. QED
    BY <1>3 DEF Fit, Inside

LEMMA AbortIsSound ==
  ASSUME WorldInv, NEW p \in Store, Abort(p), lock = p
  PROVE  Sound
  <1>1. WorldInv'
    BY ResumedIsFit, AtRest DEF Abort, WorldInv
  <1>2. UNCHANGED Told!chronicle
    BY SameChronicle DEF Abort
  <1>3. QED
    BY <1>1, <1>2 DEF Sound

LEMMA AskedIsFit ==
  ASSUME WorldInv, NEW p \in Store, NEW j, JobShaped(j)
  PROVE  /\ Fit([store[p] EXCEPT !.pc = "prepared", !.job = j])
         /\ [store[p] EXCEPT !.pc = "prepared", !.job = j].pc \notin Inside
  <1>1. Shaped(store[p])
    BY DEF WorldInv, Fit
  <1> DEFINE s == [store[p] EXCEPT !.pc = "prepared", !.job = j]
  <1>2. Shaped(s) /\ s.pc = "prepared"
    BY <1>1, PcThenJob
  <1>3. s.job = j
    BY <1>1 DEF Shaped
  <1> HIDE DEF s
  <1>4. Fit(s) /\ s.pc \notin Inside
    BY <1>2, <1>3 DEF Fit, Inside
  <1>5. QED
    BY <1>4 DEF s

LEMMA LeavesUnprepared ==
  ASSUME WorldInv, NEW p \in Store, NEW x \in {"open", "serving", "growing", "passages"}
  PROVE  /\ Fit([store[p] EXCEPT !.pc = x])
         /\ [store[p] EXCEPT !.pc = x].pc \notin Inside
  <1>1. Shaped(store[p])
    BY DEF WorldInv, Fit
  <1> DEFINE s == [store[p] EXCEPT !.pc = x]
  <1>2. Shaped(s) /\ s.pc = x
    BY <1>1, PcAlone
  <1> HIDE DEF s
  <1>3. Fit(s) /\ s.pc \notin Inside
    BY <1>2 DEF Fit, Inside
  <1>4. QED
    BY <1>3 DEF s

LEMMA OpenIsSound ==
  ASSUME WorldInv, NEW p \in Store, Open(p)
  PROVE  Sound
  <1>1. PICK v, x : /\ Becomes(p, [Closed EXCEPT !.version = v, !.pc = x])
                    /\ x \in {"schema", "open"}
    BY DEF Open
  <1> DEFINE s == [Closed EXCEPT !.version = v, !.pc = x]
  <1>2. s \in [pc : {"schema", "open"}, version : {v}, grown : {0}, job : {Nothing}]
    BY <1>1 DEF Closed
  <1>3. Becomes(p, s) /\ UNCHANGED <<world, draft, lock>>
    BY <1>1 DEF Open
  <1> HIDE DEF s
  <1>4. Fit(s) /\ s.pc \notin Inside
    BY <1>2 DEF Fit, Shaped, Inside
  <1>5. QED
    BY <1>3, <1>4, QuietStep

\* The bootstrap's own statements write no event.
LEMMA SchemaIsSound ==
  ASSUME WorldInv, NEW p \in Store, NEW x \in {"passages", "growing"}, NEW schema,
         lock = Nobody, world' = [world EXCEPT !.schema = schema],
         Becomes(p, [store[p] EXCEPT !.pc = x])
  PROVE  Sound
  <1>1. Whole(world') /\ world'.journal = world.journal
        /\ world'.receipts = world.receipts /\ world'.rooms = world.rooms
    BY DEF WorldInv, Whole
  <1>2. WorldInv'
    BY <1>1, LeavesUnprepared, AtRest
  <1>3. QED
    BY <1>1, <1>2, SameChronicle DEF Sound

\* Receipts established at the Hub's start are originals.
LEMMA CheckInIsSound ==
  ASSUME WorldInv, CheckIn
  PROVE  Sound
  <1>1. Hub \in Store
    BY DEF Store
  <1>2. CASE Becomes(Hub, [store[Hub] EXCEPT !.pc = "serving"]) /\ UNCHANGED world
    BY <1>1, <1>2, LeavesUnprepared, QuietStep DEF CheckIn
  <1>3. CASE Becomes(Hub, Closed) /\ UNCHANGED world
    BY <1>1, <1>3, ClosedIsFit, QuietStep DEF CheckIn
  <1>4. CASE world' = Established(world) /\ Becomes(Hub, [store[Hub] EXCEPT !.pc = "serving"])
    <2> DEFINE R == {RoomReceipt(room, Anchor(world, room), FALSE) :
                       room \in {r \in Room : RoomStatus(world, r) = "missing_original_receipt"}}
    <2>1. world' = [world EXCEPT !.rooms = world.rooms \cup R] /\ \A r \in R : ~r.revises
      <3>1. world' = [world EXCEPT !.rooms = world.rooms \cup R]
        BY <1>4 DEF Established
      <3>2. \A r \in R : ~r.revises
        BY DEF RoomReceipt
      <3>3. QED
        BY <3>1, <3>2
    <2> HIDE DEF R
    <2>2. /\ Whole(world') /\ world'.journal = world.journal
          /\ world'.receipts = world.receipts /\ world'.rooms = world.rooms \cup R
      BY <2>1 DEF WorldInv, Whole
    <2>3. Told!Establish
      BY <2>1, <2>2 DEF Told!Establish
    <2>4. WorldInv'
      BY <1>1, <1>4, <2>2, LeavesUnprepared, AtRest DEF CheckIn
    <2>5. QED
      BY <2>3, <2>4 DEF Sound
  <1>5. QED
    BY <1>2, <1>3, <1>4 DEF CheckIn

LEMMA AskingIsSound ==
  ASSUME WorldInv, NEW p \in Store, Grow(p) \/ Grown(p) \/ Migrate(p) \/ Revise(p)
  PROVE  Sound
  <1>1. CASE Grow(p)
    BY <1>1, PreparedIsFit, QuietStep DEF Grow
  <1>2. CASE Grown(p)
    BY <1>2, LeavesUnprepared, QuietStep DEF Grown
  <1>3. CASE Migrate(p)
    <2>1. PICK g : Becomes(p, [store[p] EXCEPT !.pc = "prepared",
                                 !.job = Job("migrate", Installing(g), Nothing, 0, Nothing, g)])
      BY <1>3 DEF Migrate
    <2>2. QED
      BY <1>3, <2>1, AskedIsFit, JobIsShaped, QuietStep DEF Migrate
  <1>4. CASE Revise(p)
    BY <1>4, PreparedIsFit, QuietStep DEF Revise
  <1>5. QED
    BY <1>1, <1>2, <1>3, <1>4

LEMMA ServingIsSound ==
  ASSUME WorldInv, Own \/ Command
  PROVE  Sound
  <1>1. Hub \in Store
    BY DEF Store
  <1>2. CASE Own
    BY <1>1, <1>2, PreparedIsFit, QuietStep DEF Own
  <1>3. CASE Command
    <2>1. PICK op \in CommandOps :
            Becomes(Hub, [store[Hub] EXCEPT !.pc = "prepared", !.job = Job("command", op, Nothing, 0, Nothing, Top)])
      BY <1>3 DEF Command
    <2>2. QED
      BY <1>1, <1>3, <2>1, AskedIsFit, JobIsShaped, QuietStep DEF Command
  <1>4. QED
    BY <1>2, <1>3

LEMMA GiveUpIsSound ==
  ASSUME WorldInv, NEW p \in Store, GiveUp(p)
  PROVE  Sound
  BY ResumedIsFit, QuietStep DEF GiveUp

\* With the lock, the draft is the committed World itself.
LEMMA BeginIsSound ==
  ASSUME WorldInv, NEW p \in Store, Begin(p)
  PROVE  Sound
  <1>1. Shaped(store[p]) /\ JobShaped(store[p].job)
    BY DEF WorldInv, Fit, Begin, At
  <1> DEFINE s == [store[p] EXCEPT !.pc = "begun"]
  <1>2. Shaped(s) /\ s.pc = "begun"
    BY <1>1, PcAlone
  <1>3. s.job = store[p].job
    BY <1>1, PcAlone
  <1>4. Becomes(p, s)
    BY DEF Begin
  <1> HIDE DEF s
  <1>5. Fit(s)
    BY <1>1, <1>2, <1>3 DEF Fit
  <1>6. store'[p] = s
    BY <1>4 DEF Becomes, WorldInv
  <1>7. Transaction(p)'
    BY <1>2, <1>6 DEF Begin, Transaction, At
  <1>8. WorldInv'
    BY <1>4, <1>5, <1>7, UnderTheLock DEF Begin, WorldInv
  <1>9. QED
    BY <1>8, SameChronicle DEF Sound, Begin

\* The event goes into the draft, and nowhere else yet.
LEMMA InsertIsSound ==
  ASSUME WorldInv, NEW p \in Store, Insert(p)
  PROVE  Sound
  <1>1. lock = p /\ draft = world /\ Shaped(store[p]) /\ JobShaped(store[p].job)
    BY DEF WorldInv, Transaction, Fit, Insert, At
  <1>2. CASE Abort(p)
    BY <1>1, <1>2, AbortIsSound
  <1>3. CASE ~Abort(p)
    <2> DEFINE e == EventOf(p)
               j == [store[p].job EXCEPT !.event = e, !.prior = PriorOf(p)]
               s == [store[p] EXCEPT !.pc = "inserted", !.job = j]
    <2>1. /\ draft' = [draft EXCEPT !.journal = Append(draft.journal, e)]
          /\ UNCHANGED <<world, lock>>
          /\ Becomes(p, [store[p] EXCEPT !.pc = "inserted", !.job.event = e, !.job.prior = PriorOf(p)])
      BY <1>3 DEF Insert
    <2>2. [store[p] EXCEPT !.pc = "inserted", !.job.event = e, !.job.prior = PriorOf(p)] = s
      <3>1. PICK P, V, G, J : store[p] \in [pc : P, version : V, grown : G, job : J]
        BY <1>1 DEF Shaped
      <3>2. QED
        BY <3>1
    <2>3. j.event = e
      BY <1>1 DEF JobShaped
    <2>4. Shaped(s) /\ s.pc = "inserted"
      BY <1>1, PcThenJob
    <2>5. s.job = j
      BY <1>1 DEF Shaped
    <2>6. /\ draft'.journal = Append(world.journal, e)
          /\ draft'.receipts = world.receipts /\ draft'.rooms = world.rooms
      BY <1>1, <2>1 DEF WorldInv, Whole
    <2>7. Becomes(p, s)
      BY <2>1, <2>2
    <2> HIDE DEF e, j, s
    <2>8. store'[p] = s /\ Fit(s)
      BY <2>4, <2>7 DEF Becomes, WorldInv, Fit
    <2>9. Transaction(p)'
      BY <1>1, <2>1, <2>3, <2>4, <2>5, <2>6, <2>8 DEF Transaction, At
    <2>10. WorldInv'
      BY <1>1, <2>1, <2>7, <2>8, <2>9, UnderTheLock DEF WorldInv
    <2>11. QED
      BY <2>1, <2>10, SameChronicle DEF Sound
  <1>4. QED
    BY <1>2, <1>3

\* With the projection the draft is one whole entry ahead.
LEMMA ProjectIsSound ==
  ASSUME WorldInv, NEW p \in Store, Project(p)
  PROVE  Sound
  <1> DEFINE e == store[p].job.event
             s == [store[p] EXCEPT !.pc = "projected"]
  <1>1. /\ lock = p /\ Shaped(store[p])
        /\ draft.journal = Append(world.journal, e)
        /\ draft.receipts = world.receipts /\ draft.rooms = world.rooms
    BY DEF WorldInv, Transaction, Fit, Project, At
  <1>2. CASE Abort(p)
    BY <1>1, <1>2, AbortIsSound
  <1>3. CASE ~Abort(p)
    <2>1. PICK schema, rows :
          /\ UNCHANGED <<world, lock>> /\ Becomes(p, s)
          /\ draft' = [schema |-> schema, journal |-> draft.journal, rows |-> rows,
                       receipts |-> draft.receipts \o ReceiptsOfCommand(e, Len(draft.journal)),
                       rooms |-> RoomsAfter(draft, e, Len(draft.journal))]
      BY <1>3 DEF Project
    <2>2. Shaped(s) /\ s.pc = "projected"
      BY <1>1, PcAlone
    <2>3. PICK E : world.journal \in Seq(E)
      BY DEF WorldInv, Whole
    <2> HIDE DEF e, s
    <2>4. Len(draft.journal) = Len(world.journal) + 1 /\ draft.journal \in Seq(E \cup {e})
      BY <1>1, <2>3, OneMore
    <2>5. RoomsAfter(draft, e, Len(draft.journal)) = RoomsAfter(world, e, Len(world.journal) + 1)
      BY <1>1, <2>4 DEF RoomsAfter
    <2>6. /\ draft'.journal = Append(world.journal, e)
          /\ draft'.receipts = world.receipts \o ReceiptsOfCommand(e, Len(world.journal) + 1)
          /\ draft'.rooms = RoomsAfter(world, e, Len(world.journal) + 1)
      <3>1. /\ draft'.journal = draft.journal
            /\ draft'.receipts = draft.receipts \o ReceiptsOfCommand(e, Len(draft.journal))
            /\ draft'.rooms = RoomsAfter(draft, e, Len(draft.journal))
        BY <2>1
      <3>2. draft'.receipts = world.receipts \o ReceiptsOfCommand(e, Len(world.journal) + 1)
        BY <1>1, <2>4, <3>1
      <3>3. QED
        BY <1>1, <2>5, <3>1, <3>2
    <2>7. Whole(draft')
      BY <1>1, <2>1, <2>4 DEF Whole
    <2>8. OneEntryMore(world, draft')
      BY <2>6, <2>7 DEF OneEntryMore
    <2>9. store'[p] = s /\ Fit(s)
      BY <2>1, <2>2 DEF Becomes, WorldInv, Fit
    <2>10. Transaction(p)'
      BY <1>1, <2>1, <2>2, <2>8, <2>9 DEF Transaction, At
    <2>11. WorldInv'
      BY <1>1, <2>1, <2>9, <2>10, UnderTheLock DEF WorldInv
    <2>12. QED
      BY <2>1, <2>11, SameChronicle DEF Sound
  <1>4. QED
    BY <1>2, <1>3

\* COMMIT shows the entry all at once.
LEMMA FinishIsSound ==
  ASSUME WorldInv, NEW p \in Store, Finish(p)
  PROVE  Sound
  <1>1. lock = p /\ OneEntryMore(world, draft)
    BY DEF WorldInv, Transaction, Finish, At
  <1>2. CASE Abort(p)
    BY <1>1, <1>2, AbortIsSound
  <1>3. CASE ~Abort(p)
    <2>1. world' = draft /\ Becomes(p, Resume(p, After(p, TRUE)))
      BY <1>3 DEF Finish
    <2>2. OneEntryMore(world, world')
      BY <1>1, <2>1
    <2>3. Told!Record
      BY <2>2, EntryIsRecorded DEF WorldInv
    <2>4. WorldInv'
      BY <1>1, <2>1, <2>2, ResumedIsFit, AtRest DEF OneEntryMore
    <2>5. QED
      BY <2>3, <2>4 DEF Sound
  <1>4. QED
    BY <1>2, <1>3

LEMMA DeathIsSound ==
  ASSUME WorldInv, NEW p \in Store, Die(p)
  PROVE  Sound
  <1>1. CASE lock = p
    <2>1. WorldInv'
      BY <1>1, ClosedIsFit, AtRest DEF Die, WorldInv
    <2>2. QED
      BY <2>1, SameChronicle DEF Die, Sound
  <1>2. CASE lock # p
    BY <1>2, ClosedIsFit, QuietStep DEF Die
  <1>3. QED
    BY <1>1, <1>2

-----------------------------------------------------------------------------
(* The chronicle *)

LEMMA InitHolds == Init => WorldInv /\ Told!Begins
  <1>1. SUFFICES ASSUME Init
                 PROVE  WorldInv /\ Told!Begins
    OBVIOUS
  <1> DEFINE E == [kind : {"installed"}, of : {Generation(g) : g \in 1..Top}, by : {"world"}, rev : {1}]
             Good == /\ Whole(world) /\ world.journal \in Seq(E)
                     /\ world.receipts = <<>> /\ \A r \in world.rooms : ~r.revises
  <1>2. ASSUME world = NoWorld
        PROVE  Good
    <2>1. world.journal = <<>> /\ world.receipts = <<>> /\ world.rooms = {}
      BY <1>2 DEF NoWorld
    <2>2. <<>> \in Seq(E)
      OBVIOUS
    <2> HIDE DEF E
    <2>3. Whole(world)
      BY <1>2, <2>1, <2>2 DEF NoWorld, Whole
    <2>4. QED
      BY <2>1, <2>2, <2>3
  <1>3. ASSUME NEW g \in 1..Top, NEW R \in OlderReceipts(g), world = Older(g, R)
        PROVE  Good
    <2> DEFINE J == [i \in 1..g |-> [kind |-> "installed", of |-> Generation(i), by |-> "world", rev |-> 1]]
    <2>1. J \in Seq(E)
      <3>1. g \in Nat /\ \A i \in 1..g : i \in 1..Top
        BY TopAssumption
      <3>2. \A i \in 1..g : [kind |-> "installed", of |-> Generation(i), by |-> "world", rev |-> 1] \in E
        BY <3>1
      <3>3. J \in [1..g -> E]
        BY <3>2
      <3>4. QED
        BY <3>1, <3>3, SeqDef
    <2>2. \A r \in R : ~r.revises
      BY DEF OlderReceipts
    <2>3. world.journal = J /\ world.receipts = <<>> /\ world.rooms = R
      BY <1>3 DEF Older
    <2>4. Whole(world)
      BY <1>3, <2>1, <2>3 DEF Older, Whole
    <2>5. QED
      BY <2>1, <2>2, <2>3, <2>4
  <1> HIDE DEF Good
  <1>4. Good
    <2>1. ASSUME NEW g \in 1..Top, world \in {Older(g, r) : r \in OlderReceipts(g)}
          PROVE  Good
      BY <2>1, <1>3
    <2>2. QED
      BY <1>1, <1>2, <2>1 DEF Init
  <1> USE DEF Good
  <1>5. Told!Begins
    <2>1. E = [kind : {"installed"}, of : {Told!Generation(g) : g \in 1..Top}, by : {"world"}, rev : {1}]
      BY DEF Generation, Told!Generation
    <2> HIDE DEF E
    <2>2. QED
      BY <1>4, <2>1 DEF Told!Begins
  <1>6. WorldInv
    BY <1>1, <1>4, ClosedIsFit DEF Init, WorldInv, Transaction, At, Inside
  <1>7. QED
    BY <1>5, <1>6

LEMMA EveryStepIsSound ==
  ASSUME WorldInv, [Next]_vars
  PROVE  Sound
  <1>1. CASE CheckIn \/ Own \/ Command
    BY <1>1, CheckInIsSound, ServingIsSound
  <1>2. ASSUME NEW p \in Store, InstallSchema(p) \/ InstallPassages(p)
        PROVE  Sound
    BY <1>2, SchemaIsSound DEF InstallSchema, InstallPassages
  <1>3. ASSUME NEW p \in Store,
               Open(p) \/ Grow(p) \/ Grown(p) \/ Migrate(p) \/ Revise(p) \/ GiveUp(p)
        PROVE  Sound
    BY <1>3, OpenIsSound, AskingIsSound, GiveUpIsSound
  <1>4. ASSUME NEW p \in Store, Begin(p) \/ Insert(p) \/ Project(p) \/ Finish(p) \/ Die(p)
        PROVE  Sound
    BY <1>4, BeginIsSound, InsertIsSound, ProjectIsSound, FinishIsSound, DeathIsSound
  <1>5. CASE UNCHANGED vars
    BY <1>5, SameChronicle DEF vars, Sound, WorldInv, Transaction, At, OneEntryMore, Whole
  <1>6. QED
    BY <1>1, <1>2, <1>3, <1>4, <1>5 DEF Next

\* Seen from outside the stores keep a chronicle: for any number of operator
\* scripts beside the Hub, dying at any step, the journal grows by one event at a
\* time, with its receipts and a revised room's receipt (`transaction`,
\* `_appendPhysicalEvent`, appendRoomInstallationRevisionEvent).
THEOREM StoresKeepTheChronicle == Spec => ChronicleIsKept
  <1>1. Init => WorldInv /\ Told!Begins
    BY InitHolds
  <1>2. WorldInv /\ [Next]_vars => WorldInv' /\ [Told!Record \/ Told!Establish]_(Told!chronicle)
    BY EveryStepIsSound DEF Sound
  <1>3. QED
    BY <1>1, <1>2, PTL DEF Spec, ChronicleIsKept, Told!Keeps

Runs(j, f) == f = [n \in 0..Len(j) |-> IF n = 0 THEN NoRows ELSE Reduced(f[n-1], j[n])]

LEMMA ReplayEnds ==
  ASSUME NEW j
  PROVE  Replay(j) = (CHOOSE f : Runs(j, f))[Len(j)]
  BY DEF Replay, Runs

LEMMA ReplayRuns ==
  ASSUME NEW j, Len(j) \in Nat
  PROVE  \E f : Runs(j, f)
  <1> DEFINE R(N, f) == f = [n \in 0..N |-> IF n = 0 THEN NoRows ELSE Reduced(f[n-1], j[n])]
             S == { N \in Nat : \E f : R(N, f) }
  <1>1. 0 \in S
    <2> DEFINE f == [n \in 0..0 |-> NoRows]
    <2>1. R(0, f)
      OBVIOUS
    <2>2. QED
      BY <2>1
  <1>2. ASSUME NEW N \in Nat, N \in S PROVE N + 1 \in S
    <2>1. PICK f : R(N, f)
      BY <1>2
    <2> DEFINE g == [n \in 0..N+1 |-> IF n = 0 THEN NoRows ELSE Reduced(f[n-1], j[n])]
    <2>2. \A n \in 0..N : g[n] = f[n]
      <3> TAKE n \in 0..N
      <3>1. n \in 0..N+1
        OBVIOUS
      <3>2. f[n] = IF n = 0 THEN NoRows ELSE Reduced(f[n-1], j[n])
        BY <2>1
      <3>3. QED
        BY <3>1, <3>2
    <2>3. ASSUME NEW n \in 0..N+1
          PROVE g[n] = IF n = 0 THEN NoRows ELSE Reduced(g[n-1], j[n])
      <3>1. n # 0 => n - 1 \in 0..N
        OBVIOUS
      <3>2. n # 0 => g[n-1] = f[n-1]
        BY <2>2, <3>1
      <3> QED BY <3>2
    <2>4. R(N + 1, g)
      <3>1. g = [n \in 0..N+1 |-> g[n]]
        OBVIOUS
      <3> HIDE DEF g
      <3> QED BY <2>3, <3>1
    <2>5. \E h : R(N + 1, h)
      BY <2>4
    <2>6. QED
      BY <2>5
  <1> HIDE DEF S
  <1>3. \A N \in Nat : N \in S
    BY <1>1, <1>2, NatsByInduction
  <1>4. Len(j) \in S
    BY <1>3
  <1>5. QED
    BY <1>4 DEF S, Runs

LEMMA ReplayOfNothing == Replay(<<>>) = NoRows
  <1> DEFINE f == CHOOSE f : Runs(<<>>, f)
  <1>1. Runs(<<>>, f)
    BY ReplayRuns
  <1>2. Replay(<<>>) = f[0]
    BY ReplayEnds
  <1> HIDE DEF f
  <1>3. QED
    BY <1>1, <1>2 DEF Runs

LEMMA ReplayOfOneMore ==
  ASSUME NEW E, NEW j \in Seq(E), NEW e
  PROVE  Replay(Append(j, e)) = Reduced(Replay(j), e)
  <1> DEFINE k == Append(j, e)
             f == CHOOSE f : Runs(j, f)
             g == CHOOSE g : Runs(k, g)
             S == { n \in Nat : g[n] = f[n] }
  <1>1. Len(j) \in Nat /\ Len(k) = Len(j) + 1 /\ k[Len(j) + 1] = e
        /\ \A n \in 1..Len(j) : k[n] = j[n]
    OBVIOUS
  <1>2. Runs(j, f) /\ Runs(k, g)
    BY <1>1, ReplayRuns
  <1>3. Replay(j) = f[Len(j)] /\ Replay(k) = g[Len(j) + 1]
    BY <1>1, ReplayEnds
  <1> HIDE DEF f, g, k
  <1>4. 0 \in S
    BY <1>1, <1>2 DEF Runs
  <1>5. ASSUME NEW n \in 0..Len(j), n < Len(j), n \in S PROVE n + 1 \in S
    <2>1. n + 1 \in 1..Len(j) /\ n + 1 \in 0..Len(k) /\ n + 1 # 0 /\ n + 1 - 1 = n
      BY <1>1, <1>5
    <2>2. f[n + 1] = Reduced(f[n], j[n + 1])
      BY <1>2, <2>1 DEF Runs
    <2>3. g[n + 1] = Reduced(g[n], k[n + 1])
      BY <1>2, <2>1 DEF Runs
    <2>4. QED
      BY <1>1, <1>5, <2>1, <2>2, <2>3
  <1> HIDE DEF S
  <1>6. Len(j) \in S
    <2>1. \A n \in 0..Len(j) : n \in S
      BY <1>1, <1>4, <1>5, IntervalByInduction
    <2>2. QED
      BY <1>1, <2>1
  <1>7. g[Len(j) + 1] = Reduced(g[Len(j)], e)
    <2>1. Len(j) + 1 \in 0..Len(k) /\ Len(j) + 1 # 0 /\ Len(j) + 1 - 1 = Len(j)
      BY <1>1
    <2>2. QED
      BY <1>1, <1>2, <2>1 DEF Runs
  <1>8. QED
    BY <1>3, <1>6, <1>7 DEF S, k
-----------------------------------------------------------------------------
(* What every committed World is, and what a process is about to add to it *)

Event == UNION {EventsOf(op) : op \in Ops}
Receipt == [sort : {"action", "approval"}, event : Nat]

\* How many events of an aggregate there are.
Chapter(journal, of) == {k \in DOMAIN journal : journal[k].of = of}
RevRight(db, e) == e.rev = 1 + Cardinality(Chapter(db.journal, e.of))

RevisionsHold(journal) ==
  \A i \in DOMAIN journal :
    /\ journal[i].of = Generation(1) <=> i = 1
    /\ journal[i].rev = 1 + Cardinality({k \in 1..(i-1) : journal[k].of = journal[i].of})

\* What the projection says of the journal beyond what the verifier compares.
RowsTell(rows, journal) ==
  /\ rows \in Rows /\ rows.gen <= Top
  /\ rows = Replay(journal)
  /\ journal # <<>> => rows.gen >= 1
  /\ \A i \in DOMAIN journal :
       /\ \A g \in 1..Top : journal[i].of = Generation(g) => g <= rows.gen
       /\ journal[i].of = Lifespan => rows.life > 0
       /\ \A a \in Approval : journal[i].of = ApprovalOf(a) => rows.approvals[a] # "none"

\* A revised room has its forward receipt, and an original receipt of the Spotlight
\* is established when no generation can come any more that would move its anchor.
RoomsHold(db) ==
  /\ \A i \in DOMAIN db.journal, room \in Room :
       db.journal[i].of = Installation(room) => Paired(db, room, i)
  /\ \A r \in db.rooms :
       /\ r.revises => r.event \in DOMAIN db.journal /\ db.journal[r.event].of = Installation(r.room)
       /\ r.room = "spotlight" /\ ~r.revises /\ r.package = Package =>
            db.rows.gen = Top /\ r.event = Anchor(db, "spotlight")

Good(db) ==
  /\ db.journal \in Seq(Event) /\ db.receipts \in Seq(Receipt)
  /\ RevisionsHold(db.journal) /\ RowsTell(db.rows, db.journal)
  /\ CustodyHolds(db) /\ RoomsHold(db)

\* An event prepared outside the transaction is still right when the journal has
\* not grown since; or it is a second root, which the projection will refuse.
Ready(db, j) ==
  \/ j.prior = db.rows /\ RevRight(db, j.event)
  \/ j.op = Installing(1) /\ db.rows.gen > 0

Errand(j) ==
  /\ j.op \in Ops /\ j.path \in {"boot", "own", "command", "migrate"}
  /\ j.path = "boot" => world.schema = "passages" /\ \E g \in 1..Top : j.op = Installing(g)
  /\ j.path \in {"own", "command"} => world.schema = "passages" /\ world.rows.gen = Top /\ j.version = Top
  /\ j.path = "migrate" => world.journal # <<>> /\ j.version \in 2..Top /\ j.op = Installing(j.version)

Timely(j) ==
  \/ j.event = Nothing /\ j.at = 0 /\ j.path # "boot"
  \/ /\ j.event \in EventsOf(j.op)
     /\ j.at \in 1..Len(world.journal) + 1
     /\ j.at = Len(world.journal) + 1 => Ready(world, j)

Entered(j) ==
  /\ j.event \in EventsOf(j.op)
  /\ draft.rows = world.rows /\ draft.schema = world.schema
  /\ \/ j.prior = world.rows /\ RevRight(world, j.event) /\ Lawful(world.rows, j.event)
     \/ j.op = Installing(1) /\ world.rows.gen > 0

Written(j) ==
  /\ Good(draft)
  /\ draft.schema = "passages" /\ draft.rows.gen >= world.rows.gen
  /\ j.path # "boot" => Verified(draft, j.version)

Busy == {"prepared", "begun", "inserted", "projected"}
\* What a process that stands as s is about to do is right.
Fares(p, s) ==
  /\ s.version \in 2..Top /\ s.grown \in Nat
  /\ p = Hub => s.version = Top
  /\ s.pc = "growing" => world.schema = "passages"
  /\ s.pc \in Busy => JobShaped(s.job) /\ Errand(s.job)
  /\ s.pc \in {"prepared", "begun"} => Timely(s.job)
  /\ s.pc = "inserted" => Entered(s.job)
  /\ s.pc = "projected" => Written(s.job)
Works(p) == Fares(p, store[p])

StandInv ==
  /\ Good(world)
  /\ world.rows.gen > 1 => world.schema = "passages"
  /\ \A p \in Store : Works(p)
-----------------------------------------------------------------------------
(* Aggregates and operations *)

LEMMA AggregatesDiffer ==
  /\ \A g, h : Generation(g) = Generation(h) => g = h
  /\ \A a, b : ApprovalOf(a) = ApprovalOf(b) => a = b
  /\ \A r, s : Installation(r) = Installation(s) => r = s
  /\ \A g : Generation(g) # Lifespan /\ Generation(g) # Timer
            /\ \A x : Generation(g) # ApprovalOf(x) /\ Generation(g) # Installation(x)
  /\ Lifespan # Timer
  /\ \A x : Lifespan # ApprovalOf(x) /\ Lifespan # Installation(x)
  /\ \A x : Timer # ApprovalOf(x) /\ Timer # Installation(x)
  /\ \A x, y : ApprovalOf(x) # Installation(y)
  BY DEF Generation, Lifespan, Timer, ApprovalOf, Installation

OpForm(op) ==
  \/ op.kind = "installed" /\ op.by = "world" /\ \E g \in 1..Top : op = Installing(g) /\ op.of = Generation(g)
  \/ op.kind \in {"started", "moved"} /\ op.of = Lifespan
  \/ op.kind \in {"set", "cleared"} /\ op.of = Timer
  \/ op.kind \in Status /\ \E a \in Approval : op.of = ApprovalOf(a)
  \/ op.kind = "revised" /\ op.by = "world" /\ \E r \in Room : op.of = Installation(r)

LEMMA OpsHaveForm == \A op \in Ops : OpForm(op) /\ op.by \in {"world", "command"}
  <1>1. ASSUME NEW g \in 1..Top
        PROVE  OpForm(Installing(g)) /\ Installing(g).by \in {"world", "command"}
    BY DEF Installing, OpForm
  <1>2. ASSUME NEW op \in OwnOps
        PROVE  OpForm(op) /\ op.by \in {"world", "command"}
    <2>1. CASE op = Op("started", Lifespan, "world")
      BY <2>1 DEF Op, OpForm
    <2>2. ASSUME NEW s \in {"cancelled", "reconciliation_required"}, NEW a \in Approval, op = Op(s, ApprovalOf(a), "world")
          PROVE  OpForm(op) /\ op.by \in {"world", "command"}
      BY <2>2 DEF Op, OpForm, Status
    <2>3. QED
      BY <2>1, <2>2 DEF OwnOps
  <1>3. ASSUME NEW op \in CommandOps
        PROVE  OpForm(op) /\ op.by \in {"world", "command"}
    <2>1. CASE op \in {Op("moved", Lifespan, "command"), Op("set", Timer, "command"), Op("cleared", Timer, "command")}
      BY <2>1 DEF Op, OpForm
    <2>2. ASSUME NEW s \in {"pending", "applying", "confirmed", "rejected"}, NEW a \in Approval, op = Op(s, ApprovalOf(a), "command")
          PROVE  OpForm(op) /\ op.by \in {"world", "command"}
      BY <2>2 DEF Op, OpForm, Status
    <2>3. QED
      BY <2>1, <2>2 DEF CommandOps
  <1>4. ASSUME NEW r \in Room
        PROVE  LET op == Op("revised", Installation(r), "world")
               IN OpForm(op) /\ op.by \in {"world", "command"}
    BY DEF Op, OpForm
  <1>5. QED
    BY <1>1, <1>2, <1>3, <1>4 DEF Ops

\* What the kind of an event says of its aggregate, and the other way round.
EventForm(e) ==
  /\ e = [kind |-> e.kind, of |-> e.of, by |-> e.by, rev |-> e.rev]
  /\ e.rev \in Nat /\ e.by \in {"world", "command"}
  /\ \/ e.kind = "installed" /\ e.by = "world" /\ \E g \in 1..Top : e.of = Generation(g)
     \/ e.kind \in {"started", "moved"} /\ e.of = Lifespan
     \/ e.kind \in {"set", "cleared"} /\ e.of = Timer
     \/ e.kind \in Status /\ \E a \in Approval : e.of = ApprovalOf(a)
     \/ e.kind = "revised" /\ e.by = "world" /\ \E r \in Room : e.of = Installation(r)

LEMMA EventsHaveForm == \A e \in Event : EventForm(e)
  <1> SUFFICES ASSUME NEW op \in Ops, NEW e \in EventsOf(op)
               PROVE  EventForm(e)
    BY DEF Event
  <1>1. /\ e = [kind |-> e.kind, of |-> e.of, by |-> e.by, rev |-> e.rev]
        /\ e.kind = op.kind /\ e.of = op.of /\ e.by = op.by /\ e.rev \in Nat
    BY DEF EventsOf
  <1>2. OpForm(op) /\ op.by \in {"world", "command"}
    BY OpsHaveForm
  <1>3. QED
    BY <1>1, <1>2 DEF OpForm, EventForm

LEMMA EventsAreEvents ==
  ASSUME NEW op \in Ops, NEW e \in EventsOf(op)
  PROVE  /\ e \in Event /\ e.kind = op.kind /\ e.of = op.of /\ e.by = op.by
         /\ e # Nothing
  BY NothingAssumption DEF Event, EventsOf

-----------------------------------------------------------------------------
(* Counting *)

LEMMA ChapterIsFinite ==
  ASSUME NEW E, NEW j \in Seq(E), NEW of
  PROVE  IsFiniteSet(Chapter(j, of)) /\ Cardinality(Chapter(j, of)) \in Nat
         /\ Cardinality(Chapter(j, of)) <= Len(j)
  <1>1. Len(j) \in Nat /\ DOMAIN j = 1..Len(j)
    OBVIOUS
  <1>2. IsFiniteSet(1..Len(j)) /\ Cardinality(1..Len(j)) = Len(j)
    <2>1. PICK l \in Nat : l = Len(j)
      BY <1>1
    <2>2. IsFiniteSet(1..l) /\ Cardinality(1..l) = IF 1 > l THEN 0 ELSE l - 1 + 1
      BY FS_Interval
    <2>3. IsFiniteSet(1..l) /\ Cardinality(1..l) = l
      BY <2>2
    <2>4. QED
      BY <2>1, <2>3
  <1>3. Chapter(j, of) \subseteq 1..Len(j)
    BY <1>1 DEF Chapter
  <1>4. QED
    BY <1>2, <1>3, FS_Subset, FS_CardinalityType

\* An event more, in its own chapter and in the others.
LEMMA ChapterOfOneMore ==
  ASSUME NEW E, NEW j \in Seq(E), NEW e, NEW of
  PROVE  Chapter(Append(j, e), of) = Chapter(j, of) \cup (IF e.of = of THEN {Len(j) + 1} ELSE {})
  <1>1. /\ Len(j) \in Nat /\ DOMAIN j = 1..Len(j)
        /\ DOMAIN Append(j, e) = 1..Len(j) + 1
        /\ Append(j, e)[Len(j) + 1] = e /\ \A k \in 1..Len(j) : Append(j, e)[k] = j[k]
    OBVIOUS
  <1>2. QED
    BY <1>1 DEF Chapter

LEMMA RevisionsOfOneMore ==
  ASSUME NEW E, NEW j \in Seq(E), NEW e, RevisionsHold(j),
         e.rev = 1 + Cardinality(Chapter(j, e.of)),
         e.of = Generation(1) <=> j = <<>>
  PROVE  RevisionsHold(Append(j, e))
  <1>1. /\ Len(j) \in Nat /\ DOMAIN j = 1..Len(j)
        /\ DOMAIN Append(j, e) = 1..Len(j) + 1
        /\ Append(j, e)[Len(j) + 1] = e /\ \A k \in 1..Len(j) : Append(j, e)[k] = j[k]
    OBVIOUS
  <1> DEFINE k == Append(j, e)
             Before(i, s) == {n \in 1..(i-1) : s[n].of = s[i].of}
  <1>2. ASSUME NEW i \in 1..Len(j)
        PROVE  k[i] = j[i] /\ Before(i, k) = Before(i, j)
    <2>1. k[i] = j[i] /\ \A n \in 1..(i-1) : k[n] = j[n]
      BY <1>1
    <2>2. QED
      BY <2>1
  <1>3. Before(Len(j) + 1, k) = Chapter(j, e.of)
    BY <1>1 DEF Chapter
  <1>4. j = <<>> <=> Len(j) + 1 = 1
    OBVIOUS
  <1>5. ASSUME NEW i \in 1..Len(j) + 1
        PROVE  /\ k[i].of = Generation(1) <=> i = 1
               /\ k[i].rev = 1 + Cardinality(Before(i, k))
    <2>1. CASE i = Len(j) + 1
      <3>1. k[i] = e
        BY <1>1, <2>1
      <3>2. Before(i, k) = Chapter(j, e.of)
        BY <1>3, <2>1
      <3> HIDE DEF k, Before
      <3>3. QED
        BY <1>4, <2>1, <3>1, <3>2
    <2>2. CASE i # Len(j) + 1
      <3>1. i \in 1..Len(j)
        BY <1>1, <2>2
      <3>2. k[i] = j[i] /\ Before(i, k) = Before(i, j)
        BY <1>2, <3>1
      <3>3. /\ j[i].of = Generation(1) <=> i = 1
            /\ j[i].rev = 1 + Cardinality(Before(i, j))
        BY <1>1, <3>1 DEF RevisionsHold
      <3> HIDE DEF k, Before
      <3>4. QED
        BY <3>2, <3>3
    <2>3. QED
      BY <2>1, <2>2
  <1>6. QED
    BY <1>1, <1>5 DEF RevisionsHold

LEMMA GreatestIs ==
  ASSUME NEW S, S \subseteq Nat, NEW c \in S, \A x \in S : x <= c
  PROVE  Greatest(S) = c
  <1>1. \A x \in S : (\A y \in S : y <= x) => x = c
    OBVIOUS
  <1>2. \A y \in S : y <= c
    OBVIOUS
  <1>3. QED
    BY <1>1, <1>2 DEF Greatest

\* The journal's memory of an aggregate is the number of its events.
LEMMA RevisionIsCounted ==
  ASSUME NEW db, NEW E, db.journal \in Seq(E), RevisionsHold(db.journal), NEW of
  PROVE  AggregateRevision(db, of) = Cardinality(Chapter(db.journal, of))
  <1> DEFINE j == db.journal
             C == Chapter(j, of)
             R == {j[i].rev : i \in C}
             Before(i) == {n \in 1..(i-1) : j[n].of = j[i].of}
  <1>1. Len(j) \in Nat /\ DOMAIN j = 1..Len(j)
    OBVIOUS
  <1>2. IsFiniteSet(C) /\ Cardinality(C) \in Nat
    BY ChapterIsFinite
  <1>3. ASSUME NEW i \in C
        PROVE  /\ i \in 1..Len(j) /\ j[i].rev = 1 + Cardinality(Before(i))
               /\ Before(i) \subseteq C \ {i}
    BY <1>1 DEF RevisionsHold, Chapter
  <1>4. ASSUME NEW i \in C
        PROVE  j[i].rev \in Nat /\ j[i].rev <= Cardinality(C)
    <2>1. IsFiniteSet(C \ {i}) /\ Cardinality(C \ {i}) = Cardinality(C) - 1
      BY <1>2, FS_RemoveElement
    <2>2. IsFiniteSet(Before(i)) /\ Cardinality(Before(i)) <= Cardinality(C \ {i})
      BY <1>3, <2>1, FS_Subset
    <2>3. Cardinality(Before(i)) \in Nat
      BY <2>2, FS_CardinalityType
    <2>4. j[i].rev = 1 + Cardinality(Before(i))
      BY <1>3
    <2> HIDE DEF C, Before, j
    <2>5. QED
      BY <1>2, <2>1, <2>2, <2>3, <2>4
  <1>5. CASE C = {}
    <2>1. Cardinality(C) = 0
      BY <1>5, FS_EmptySet
    <2>2. {0} \cup R = {0}
      BY <1>5
    <2>3. Greatest({0}) = 0
      BY DEF Greatest
    <2>4. AggregateRevision(db, of) = Greatest({0} \cup R)
      BY DEF AggregateRevision, Chapter
    <2>5. QED
      BY <2>1, <2>2, <2>3, <2>4
  <1>6. CASE C # {}
    <2>1. C \subseteq 0..Len(j)
      BY <1>1 DEF Chapter
    <2>2. PICK m \in C : \A i \in C : i <= m
      <3> HIDE DEF C
      <3> QED BY <1>1, <1>6, <2>1, GreatestOfNats
    <2>3. m \in 1..Len(j) /\ j[m].of = of /\ j[m].rev = 1 + Cardinality(Before(m))
      BY <1>3, <2>2 DEF Chapter
    <2>4. Before(m) = C \ {m}
      BY <1>1, <2>2, <2>3 DEF Chapter
    <2>5. Cardinality(C \ {m}) = Cardinality(C) - 1
      BY <1>2, FS_RemoveElement
    <2>6. j[m].rev = Cardinality(C)
      <3> HIDE DEF C, Before, j
      <3> QED BY <1>2, <2>3, <2>4, <2>5
    <2>7. /\ {0} \cup R \subseteq Nat
          /\ Cardinality(C) \in {0} \cup R
          /\ \A x \in {0} \cup R : x <= Cardinality(C)
      <3>1. j[m].rev \in R
        OBVIOUS
      <3>2. \A x \in R : x \in Nat /\ x <= Cardinality(C)
        BY <1>4
      <3> HIDE DEF C, R, j
      <3> QED BY <1>2, <2>6, <3>1, <3>2
    <2>8. Greatest({0} \cup R) = Cardinality(C)
      <3> HIDE DEF C, R
      <3> QED BY <2>7, GreatestIs
    <2>9. AggregateRevision(db, of) = Greatest({0} \cup R)
      BY DEF AggregateRevision, Chapter
    <2>10. QED
      BY <2>8, <2>9
  <1>7. QED
    BY <1>5, <1>6

-----------------------------------------------------------------------------
(* The projection *)

LEMMA RowsFields ==
  ASSUME NEW r \in Rows
  PROVE  /\ r = [gen |-> r.gen, life |-> r.life, timer |-> r.timer, approvals |-> r.approvals]
         /\ r.gen \in Nat /\ r.life \in Nat /\ r.timer \in Nat
         /\ r.approvals \in [Approval -> {"none"} \cup Status]
         /\ r # Refused
  BY RefusedAssumption DEF Rows

LEMMA NoRowsAreRows == NoRows \in Rows
  BY DEF NoRows, Rows

\* A lawful event leads to rows, and tells more than there was to tell.
LEMMA EffectIsRows ==
  ASSUME NEW r \in Rows, NEW e \in Event, Lawful(r, e)
  PROVE  /\ Effect(r, e) \in Rows
         /\ Reduced(r, e) = Effect(r, e)
         /\ Effect(r, e).gen = IF e.kind = "installed" THEN r.gen + 1 ELSE r.gen
         /\ Effect(r, e).life = IF e.of = Lifespan THEN e.rev ELSE r.life
         /\ Effect(r, e).timer = IF e.kind = "set" THEN e.rev ELSE IF e.kind = "cleared" THEN 0 ELSE r.timer
         /\ \A a \in Approval : Effect(r, e).approvals[a] = IF e.of = ApprovalOf(a) THEN e.kind ELSE r.approvals[a]
  <1>1. EventForm(e)
    BY EventsHaveForm
  <1>2. /\ r.gen \in Nat /\ r.life \in Nat /\ r.timer \in Nat
        /\ r.approvals \in [Approval -> {"none"} \cup Status] /\ r # Refused
    BY RowsFields
  <1>3. \A a \in Approval : e.of = ApprovalOf(a) => e.kind \in Status
    BY <1>1, AggregatesDiffer DEF EventForm
  <1>4. [a \in Approval |-> IF e.of = ApprovalOf(a) THEN e.kind ELSE r.approvals[a]]
          \in [Approval -> {"none"} \cup Status]
    BY <1>2, <1>3
  <1>5. Effect(r, e) \in Rows
    BY <1>1, <1>2, <1>4 DEF Effect, Rows, EventForm
  <1>6. Reduced(r, e) = Effect(r, e)
    BY <1>2 DEF Reduced
  <1>7. QED
    BY <1>5, <1>6 DEF Effect

LEMMA LawfulInstallation ==
  ASSUME NEW r \in Rows, NEW e \in Event, Lawful(r, e)
  PROVE  /\ \A g : e.of = Generation(g) => e.kind = "installed" /\ g = r.gen + 1
         /\ e.kind = "installed" => e.of = Generation(r.gen + 1) /\ r.gen + 1 \in 1..Top
  <1>1. EventForm(e)
    BY EventsHaveForm
  <1>2. ASSUME NEW g, e.of = Generation(g)
        PROVE  e.kind = "installed"
    BY <1>1, <1>2, AggregatesDiffer DEF EventForm
  <1>3. ASSUME e.kind = "installed"
        PROVE  e.of = Generation(r.gen + 1)
    <2>1. PICK g \in 1..Top : e.of = Generation(g)
      BY <1>1, <1>3 DEF EventForm, Status
    <2>2. \A a \in Approval : e.of # ApprovalOf(a)
      BY <2>1, AggregatesDiffer
    <2>3. InstallsNext(r, e)
      BY <1>3, <2>2 DEF Lawful
    <2>4. QED
      BY <2>3 DEF InstallsNext
  <1>4. ASSUME e.kind = "installed"
        PROVE  r.gen + 1 \in 1..Top
    <2>1. PICK g \in 1..Top : e.of = Generation(g)
      BY <1>1, <1>4 DEF EventForm, Status
    <2>2. g = r.gen + 1
      BY <1>3, <1>4, <2>1, AggregatesDiffer
    <2>3. QED
      BY <2>2
  <1>5. QED
    BY <1>2, <1>3, <1>4, AggregatesDiffer
\* The new event takes the next revision of its aggregate.
LEMMA NextRevision ==
  ASSUME NEW db, db.journal \in Seq(Event), RevisionsHold(db.journal), RowsTell(db.rows, db.journal),
         NEW op \in Ops, Lawful(db.rows, EventFor(db, op))
  PROVE  RevRight(db, EventFor(db, op))
  <1> DEFINE e == EventFor(db, op)
             C == Chapter(db.journal, op.of)
  <1>1. Cardinality(C) \in Nat /\ AggregateRevision(db, op.of) = Cardinality(C)
    BY ChapterIsFinite, RevisionIsCounted
  <1>2. /\ e.kind = op.kind /\ e.of = op.of /\ e.by = op.by
        /\ e.rev = IF op.kind \in {"installed", "started", "pending"} THEN 1 ELSE AggregateRevision(db, op.of) + 1
    BY DEF EventFor
  <1>3. e \in EventsOf(op)
    BY <1>1 DEF EventFor, EventsOf
  <1>4. e \in Event
    BY <1>3 DEF Event
  <1>5. EventForm(e)
    BY <1>4, EventsHaveForm
  <1>6. \A i \in DOMAIN db.journal : db.journal[i] \in Event
    OBVIOUS
  <1>7. CASE op.kind \notin {"installed", "started", "pending"}
    <2>1. e.rev = 1 + Cardinality(C)
      BY <1>1, <1>2, <1>7
    <2>2. QED
      BY <1>2, <2>1 DEF RevRight
  <1>8. ASSUME C = {}, op.kind \in {"installed", "started", "pending"}
        PROVE  RevRight(db, e)
    <2>1. Cardinality(C) = 0 /\ e.rev = 1
      BY <1>2, <1>8, FS_EmptySet
    <2>2. QED
      BY <1>2, <2>1 DEF RevRight
  <1>9. CASE op.kind = "installed"
    <2>1. e.of = Generation(db.rows.gen + 1) /\ db.rows.gen + 1 \in 1..Top /\ db.rows.gen \in Nat
      BY <1>2, <1>4, <1>9, LawfulInstallation, RowsFields DEF RowsTell
    <2>2. \A i \in DOMAIN db.journal : db.journal[i].of # op.of
      BY <1>2, <2>1 DEF RowsTell
    <2>3. C = {}
      BY <2>2 DEF Chapter
    <2>4. QED
      BY <1>8, <1>9, <2>3
  <1>10. CASE op.kind = "started"
    <2>1. e.of = Lifespan
      BY <1>2, <1>5, <1>10 DEF EventForm, Status
    <2>2. db.rows.life = 0
      <3>1. \A a \in Approval : e.of # ApprovalOf(a)
        BY <2>1, AggregatesDiffer
      <3>2. QED
        BY <1>2, <1>10, <3>1 DEF Lawful, InstallsNext
    <2>3. \A i \in DOMAIN db.journal : db.journal[i].of # op.of
      BY <1>2, <2>1, <2>2 DEF RowsTell
    <2>4. C = {}
      BY <2>3 DEF Chapter
    <2>5. QED
      BY <1>8, <1>10, <2>4
  <1>11. CASE op.kind = "pending"
    <2>1. PICK a \in Approval : e.of = ApprovalOf(a)
      BY <1>2, <1>5, <1>11 DEF EventForm, Status
    <2>2. PICK b \in Approval : e.of = ApprovalOf(b) /\ <<db.rows.approvals[b], "pending">> \in ApprovalPath
      BY <1>2, <1>11 DEF Lawful, InstallsNext
    <2>3. db.rows.approvals[a] = "none"
      <3>1. \A x : <<x, "pending">> \in ApprovalPath => x = "none"
        BY DEF ApprovalPath
      <3>2. a = b
        BY <2>1, <2>2, AggregatesDiffer
      <3>3. QED
        BY <2>2, <3>1, <3>2
    <2>4. \A i \in DOMAIN db.journal : db.journal[i].of # op.of
      BY <1>2, <2>1, <2>3 DEF RowsTell
    <2>5. C = {}
      BY <2>4 DEF Chapter
    <2>6. QED
      BY <1>8, <1>11, <2>5
  <1>12. QED
    BY <1>7, <1>9, <1>10, <1>11

\* The projection goes on telling the journal.
LEMMA RowsTellOneMore ==
  ASSUME NEW j \in Seq(Event), NEW rows, RowsTell(rows, j), NEW e \in Event, Lawful(rows, e),
         e.rev > 0, j = <<>> => e.of = Generation(1)
  PROVE  RowsTell(Effect(rows, e), Append(j, e))
  <1> DEFINE next == Effect(rows, e)
  <1>1. /\ Len(j) \in Nat /\ DOMAIN j = 1..Len(j)
        /\ DOMAIN Append(j, e) = 1..Len(j) + 1
        /\ Append(j, e)[Len(j) + 1] = e /\ \A k \in 1..Len(j) : Append(j, e)[k] = j[k]
    OBVIOUS
  <1>2. rows \in Rows /\ rows.gen \in Nat /\ rows.life \in Nat
    BY RowsFields DEF RowsTell
  <1>3. /\ next \in Rows
        /\ Reduced(rows, e) = next
        /\ next.gen = IF e.kind = "installed" THEN rows.gen + 1 ELSE rows.gen
        /\ next.life = IF e.of = Lifespan THEN e.rev ELSE rows.life
        /\ \A a \in Approval : next.approvals[a] = IF e.of = ApprovalOf(a) THEN e.kind ELSE rows.approvals[a]
    BY <1>2, EffectIsRows
  <1>4. next = Replay(Append(j, e))
    BY <1>3, ReplayOfOneMore DEF RowsTell
  <1>5. next.gen <= Top /\ next.gen >= rows.gen
    BY <1>2, <1>3, LawfulInstallation, TopAssumption DEF RowsTell
  <1> HIDE DEF next
  <1>6. EventForm(e)
    BY EventsHaveForm
  <1>7. next.gen >= 1
    <2>1. CASE j # <<>>
      BY <1>2, <1>3, <1>5, <2>1 DEF RowsTell
    <2>2. CASE j = <<>>
      <3>1. e.kind = "installed"
        BY <1>2, <2>2, LawfulInstallation
      <3>2. QED
        BY <1>2, <1>3, <3>1
    <2>3. QED
      BY <2>1, <2>2
  <1>8. ASSUME NEW i \in 1..Len(j) + 1
        PROVE  /\ \A g \in 1..Top : Append(j, e)[i].of = Generation(g) => g <= next.gen
               /\ Append(j, e)[i].of = Lifespan => next.life > 0
               /\ \A a \in Approval : Append(j, e)[i].of = ApprovalOf(a) => next.approvals[a] # "none"
    <2>1. CASE i = Len(j) + 1
      <3>1. Append(j, e)[i] = e
        BY <1>1, <2>1
      <3>2. \A g \in 1..Top : e.of = Generation(g) => g <= next.gen
        BY <1>2, <1>3, LawfulInstallation
      <3>3. e.of = Lifespan => next.life > 0
        BY <1>3
      <3>4. \A a \in Approval : e.of = ApprovalOf(a) => e.kind \in Status
        BY <1>6, AggregatesDiffer DEF EventForm
      <3>5. \A a \in Approval : e.of = ApprovalOf(a) => next.approvals[a] # "none"
        BY <1>3, <3>4 DEF Status
      <3>6. QED
        BY <3>1, <3>2, <3>3, <3>5
    <2>2. CASE i # Len(j) + 1
      <3>1. i \in DOMAIN j /\ Append(j, e)[i] = j[i]
        BY <1>1, <2>2
      <3>2. \A g \in 1..Top : j[i].of = Generation(g) => g <= next.gen
        BY <1>2, <1>3, <1>5, <3>1 DEF RowsTell, Rows
      <3>3. j[i].of = Lifespan => next.life > 0
        BY <1>3, <3>1 DEF RowsTell
      <3>4. \A a \in Approval : e.of = ApprovalOf(a) => e.kind \in Status
        BY <1>6, AggregatesDiffer DEF EventForm
      <3>5. \A a \in Approval : j[i].of = ApprovalOf(a) => next.approvals[a] # "none"
        BY <1>3, <3>1, <3>4 DEF RowsTell, Status
      <3>6. QED
        BY <3>1, <3>2, <3>3, <3>5
    <2>3. QED
      BY <2>1, <2>2
  <1>9. QED
    BY <1>1, <1>3, <1>4, <1>5, <1>7, <1>8 DEF RowsTell, next
-----------------------------------------------------------------------------
(* The receipts and the rooms *)

LEMMA SeqOfOneMore ==
  ASSUME NEW E, NEW j \in Seq(E), NEW e
  PROVE  /\ Len(j) \in Nat /\ DOMAIN j = 1..Len(j)
         /\ Len(Append(j, e)) = Len(j) + 1
         /\ DOMAIN Append(j, e) = 1..Len(j) + 1
         /\ Append(j, e)[Len(j) + 1] = e /\ \A k \in 1..Len(j) : Append(j, e)[k] = j[k]
  OBVIOUS

LEMMA PairOf ==
  ASSUME NEW a, NEW b
  PROVE  <<a>> \o <<b>> = <<a, b>> /\ <<a>> \o <<>> = <<a>>
  <1>1. <<a>> \in Seq({a, b}) /\ <<b>> \in Seq({a, b}) /\ <<>> \in Seq({a, b})
    OBVIOUS
  <1>2. Len(<<a>> \o <<b>>) = 2 /\ (<<a>> \o <<b>>)[1] = a /\ (<<a>> \o <<b>>)[2] = b
    BY <1>1, ConcatProperties
  <1>3. <<a>> \o <<b>> \in Seq({a, b}) /\ <<a, b>> \in Seq({a, b})
    BY <1>1, ConcatProperties
  <1>4. <<a>> \o <<b>> = <<a, b>>
    <2> DEFINE s == <<a>> \o <<b>>
               t == <<a, b>>
    <2>1. s \in Seq({a, b}) /\ t \in Seq({a, b}) /\ Len(s) = 2 /\ Len(t) = 2
          /\ s[1] = a /\ s[2] = b /\ t[1] = a /\ t[2] = b
      BY <1>2, <1>3
    <2> HIDE DEF s, t
    <2>2. Len(s) = Len(t) /\ \A i \in 1..Len(s) : s[i] = t[i]
      BY <2>1
    <2>3. s = t
      BY <2>1, <2>2, SeqEqual
    <2>4. QED
      BY <2>3 DEF s, t
  <1>5. <<a>> \o <<>> = <<a>>
    BY <1>1, ConcatEmptySeq
  <1>6. QED
    BY <1>4, <1>5

LEMMA Joined ==
  ASSUME NEW E, NEW s \in Seq(E), NEW t \in Seq(E)
  PROVE  /\ s \o t \in Seq(E) /\ Len(s) \in Nat /\ Len(t) \in Nat
         /\ DOMAIN s = 1..Len(s) /\ DOMAIN (s \o t) = 1..Len(s) + Len(t)
         /\ \A k \in 1..Len(s) : k \in 1..Len(s) + Len(t) /\ (s \o t)[k] = s[k]
         /\ \A k \in 1..Len(t) : Len(s) + k \in 1..Len(s) + Len(t) /\ (s \o t)[Len(s) + k] = t[k]
         /\ \A k \in 1..Len(s) + Len(t) : k \notin 1..Len(s) => k - Len(s) \in 1..Len(t) /\ Len(s) + (k - Len(s)) = k
  <1>1. s \o t \in Seq(E) /\ Len(s) \in Nat /\ Len(t) \in Nat /\ DOMAIN s = 1..Len(s)
        /\ Len(s \o t) = Len(s) + Len(t)
        /\ \A i \in 1..Len(s) + Len(t) : (s \o t)[i] = IF i <= Len(s) THEN s[i] ELSE t[i - Len(s)]
    BY ConcatProperties, LenProperties
  <1>2. DOMAIN (s \o t) = 1..Len(s) + Len(t)
    BY <1>1, LenProperties
  <1> DEFINE u == s \o t
  <1> HIDE DEF u
  <1>3. \A k \in 1..Len(s) : k \in 1..Len(s) + Len(t) /\ u[k] = s[k]
    BY <1>1 DEF u
  <1>4. \A k \in 1..Len(t) : Len(s) + k \in 1..Len(s) + Len(t) /\ u[Len(s) + k] = t[k]
    <2> TAKE k \in 1..Len(t)
    <2>1. Len(s) + k \in 1..Len(s) + Len(t) /\ ~(Len(s) + k <= Len(s)) /\ Len(s) + k - Len(s) = k
      BY <1>1
    <2>2. QED
      BY <1>1, <2>1 DEF u
  <1>5. \A k \in 1..Len(s) + Len(t) : k \notin 1..Len(s) => k - Len(s) \in 1..Len(t) /\ Len(s) + (k - Len(s)) = k
    BY <1>1
  <1>6. QED
    BY <1>1, <1>2, <1>3, <1>4, <1>5 DEF u

LEMMA ReceiptFields == \A r, s, i : r = [sort |-> s, event |-> i] => r.event = i /\ r.sort = s
  OBVIOUS

LEMMA ReceiptsOfOneMore ==
  ASSUME NEW e \in Event, NEW n \in Nat
  PROVE  LET R == ReceiptsOfCommand(e, n) IN
         /\ R \in Seq(Receipt) /\ \A k \in 1..Len(R) : R[k].event = n
         /\ e.by = "command" =>
              /\ {k \in 1..Len(R) : R[k].sort = "action"} = {1}
              /\ OfApproval(e) => {k \in 1..Len(R) : R[k].sort = "approval"} = {2}
  <1> DEFINE a == [sort |-> "action", event |-> n]
             b == [sort |-> "approval", event |-> n]
             R == ReceiptsOfCommand(e, n)
  <1>1. a \in Receipt /\ b \in Receipt /\ a.event = n /\ b.event = n /\ a.sort = "action" /\ b.sort = "approval"
    BY DEF Receipt
  <1>2. R = IF e.by # "command" THEN <<>> ELSE IF OfApproval(e) THEN <<a>> \o <<b>> ELSE <<a>> \o <<>>
    BY DEF ReceiptsOfCommand
  <1> HIDE DEF a, b
  <1>3. <<a>> \o <<b>> = <<a, b>> /\ <<a>> \o <<>> = <<a>>
    BY PairOf
  <1>4. R = IF e.by # "command" THEN <<>> ELSE IF OfApproval(e) THEN <<a, b>> ELSE <<a>>
    BY <1>2, <1>3
  <1> HIDE DEF R
  <1>5. CASE e.by # "command"
    <2>1. R = <<>> /\ Len(R) = 0 /\ R \in Seq(Receipt)
      BY <1>4, <1>5
    <2>2. QED
      BY <1>5, <2>1 DEF R
  <1>6. CASE e.by = "command" /\ OfApproval(e)
    <2>1. R = <<a, b>> /\ Len(R) = 2 /\ R[1] = a /\ R[2] = b /\ R \in Seq(Receipt)
      BY <1>1, <1>4, <1>6
    <2>2. {k \in 1..Len(R) : R[k].sort = "action"} = {1}
      BY <1>1, <2>1
    <2>3. {k \in 1..Len(R) : R[k].sort = "approval"} = {2}
      BY <1>1, <2>1
    <2>4. \A k \in 1..Len(R) : R[k].event = n
      BY <1>1, <2>1
    <2>5. QED
      BY <1>6, <2>1, <2>2, <2>3, <2>4 DEF R
  <1>7. CASE e.by = "command" /\ ~OfApproval(e)
    <2>1. R = <<a>> /\ Len(R) = 1 /\ R[1] = a /\ R \in Seq(Receipt)
      BY <1>1, <1>4, <1>7
    <2>2. {k \in 1..Len(R) : R[k].sort = "action"} = {1}
      BY <1>1, <2>1
    <2>3. \A k \in 1..Len(R) : R[k].event = n
      BY <1>1, <2>1
    <2>4. QED
      BY <1>7, <2>1, <2>2, <2>3 DEF R
  <1>8. QED
    BY <1>5, <1>6, <1>7 DEF R

LEMMA CustodyOfOneMore ==
  ASSUME NEW db, db.journal \in Seq(Event), db.receipts \in Seq(Receipt), CustodyHolds(db), NEW e \in Event,
         NEW next, next.journal = Append(db.journal, e),
         next.receipts = db.receipts \o ReceiptsOfCommand(e, Len(db.journal) + 1)
  PROVE  next.receipts \in Seq(Receipt) /\ CustodyHolds(next)
  <1> DEFINE j == db.journal
             n == Len(j) + 1
             R == ReceiptsOfCommand(e, n)
             m == Len(db.receipts)
  <1>1. /\ Len(j) \in Nat /\ n \in Nat /\ DOMAIN j = 1..Len(j) /\ DOMAIN next.journal = 1..n
        /\ next.journal[n] = e /\ \A k \in 1..Len(j) : next.journal[k] = j[k]
    BY SeqOfOneMore
  <1>2. /\ R \in Seq(Receipt) /\ \A k \in 1..Len(R) : R[k].event = n
        /\ e.by = "command" =>
             /\ {k \in 1..Len(R) : R[k].sort = "action"} = {1}
             /\ OfApproval(e) => {k \in 1..Len(R) : R[k].sort = "approval"} = {2}
    BY <1>1, ReceiptsOfOneMore
  <1> HIDE DEF R
  <1>3. /\ next.receipts \in Seq(Receipt)
        /\ m \in Nat /\ Len(R) \in Nat /\ DOMAIN db.receipts = 1..m
        /\ DOMAIN next.receipts = 1..m + Len(R)
        /\ \A k \in 1..m : k \in 1..m + Len(R) /\ next.receipts[k] = db.receipts[k]
        /\ \A k \in 1..Len(R) : m + k \in 1..m + Len(R) /\ next.receipts[m + k] = R[k]
        /\ \A k \in 1..m + Len(R) : k \notin 1..m => k - m \in 1..Len(R) /\ m + (k - m) = k
    <2>1. next.receipts = db.receipts \o R
      BY DEF R
    <2>2. /\ db.receipts \o R \in Seq(Receipt) /\ m \in Nat /\ Len(R) \in Nat
          /\ DOMAIN db.receipts = 1..m /\ DOMAIN (db.receipts \o R) = 1..m + Len(R)
          /\ \A k \in 1..m : k \in 1..m + Len(R) /\ (db.receipts \o R)[k] = db.receipts[k]
          /\ \A k \in 1..Len(R) : m + k \in 1..m + Len(R) /\ (db.receipts \o R)[m + k] = R[k]
          /\ \A k \in 1..m + Len(R) : k \notin 1..m => k - m \in 1..Len(R) /\ m + (k - m) = k
      BY <1>2, Joined
    <2> HIDE DEF m
    <2>3. QED
      BY <2>1, <2>2
  <1>4. \A k \in 1..m : next.receipts[k].event \in 1..Len(j)
    BY <1>1, <1>3 DEF CustodyHolds
  <1>5. \A k \in 1..m + Len(R) : k \notin 1..m => k - m \in 1..Len(R) /\ next.receipts[k] = R[k - m] /\ next.receipts[k].event = n
    <2> TAKE k \in 1..m + Len(R)
    <2>1. k \notin 1..m => k - m \in 1..Len(R) /\ m + (k - m) = k
      BY <1>3
    <2>2. \A x \in 1..Len(R) : next.receipts[m + x] = R[x] /\ R[x].event = n
      BY <1>2, <1>3
    <2> HIDE DEF m, n
    <2>3. QED
      BY <2>1, <2>2
  <1> HIDE DEF n, m
  <1>6. \A k \in DOMAIN next.receipts : next.receipts[k].event \in DOMAIN next.journal
    <2>1. 1..Len(j) \subseteq 1..n /\ n \in 1..n
      BY <1>1 DEF n
    <2>2. QED
      BY <1>1, <1>3, <1>4, <1>5, <2>1
  <1>7. ASSUME NEW i \in 1..Len(j), NEW sort
        PROVE  ReceiptsFor(next, sort, i) = ReceiptsFor(db, sort, i)
    <2>1. i # n
      BY <1>1 DEF n
    <2>2. ASSUME NEW k \in 1..m + Len(R), next.receipts[k] = [sort |-> sort, event |-> i]
          PROVE  k \in 1..m
      <3>1. next.receipts[k].event = i
        BY <2>2, ReceiptFields
      <3>2. QED
        BY <1>5, <2>1, <3>1
    <2>3. 1..m \subseteq 1..m + Len(R)
      BY <1>3
    <2>4. QED
      BY <1>3, <2>2, <2>3 DEF ReceiptsFor
  <1>8. ASSUME NEW sort, NEW x \in 1..Len(R),
               {k \in 1..Len(R) : R[k].sort = sort} = {x}
        PROVE  Cardinality(ReceiptsFor(next, sort, n)) = 1
    <2>1. R[x] = [sort |-> sort, event |-> n] /\ R[x].sort = sort
      <3>1. R[x] \in Receipt /\ R[x].event = n /\ R[x].sort = sort
        BY <1>2, <1>8
      <3>2. QED
        BY <3>1 DEF Receipt
    <2>2. m + x \in 1..m + Len(R) /\ next.receipts[m + x] = R[x]
      BY <1>3
    <2>3. ASSUME NEW k \in 1..m + Len(R), next.receipts[k] = [sort |-> sort, event |-> n]
          PROVE  k = m + x
      <3>1. n \notin 1..Len(j)
        BY <1>1 DEF n
      <3>2. next.receipts[k].event = n /\ next.receipts[k].sort = sort
        BY <2>3, ReceiptFields
      <3>3. k \notin 1..m
        BY <1>4, <3>1, <3>2
      <3>4. k - m \in 1..Len(R) /\ R[k - m].sort = sort
        BY <1>5, <3>2, <3>3
      <3>5. k - m = x
        BY <1>8, <3>4
      <3>6. QED
        BY <1>3, <1>5, <3>3, <3>5
    <2>4. ReceiptsFor(next, sort, n) = {m + x}
      BY <1>3, <2>1, <2>2, <2>3 DEF ReceiptsFor
    <2>5. QED
      BY <2>4, FS_Singleton
  <1>9. e.by = "command" =>
          /\ Cardinality(ReceiptsFor(next, "action", n)) = 1
          /\ OfApproval(e) => Cardinality(ReceiptsFor(next, "approval", n)) = 1
    <2>1. ASSUME e.by = "command"
          PROVE  Cardinality(ReceiptsFor(next, "action", n)) = 1
      <3>1. {k \in 1..Len(R) : R[k].sort = "action"} = {1}
        BY <1>2, <2>1
      <3>2. 1 \in 1..Len(R)
        BY <3>1
      <3>3. QED
        BY <1>8, <3>1, <3>2
    <2>2. ASSUME e.by = "command", OfApproval(e)
          PROVE  Cardinality(ReceiptsFor(next, "approval", n)) = 1
      <3>1. {k \in 1..Len(R) : R[k].sort = "approval"} = {2}
        BY <1>2, <2>2
      <3>2. 2 \in 1..Len(R)
        BY <3>1
      <3>3. QED
        BY <1>8, <3>1, <3>2
    <2>3. QED
      BY <2>1, <2>2
  <1>10. ASSUME NEW i \in 1..n, next.journal[i].by = "command"
         PROVE  /\ Cardinality(ReceiptsFor(next, "action", i)) = 1
                /\ OfApproval(next.journal[i]) => Cardinality(ReceiptsFor(next, "approval", i)) = 1
    <2>1. CASE i = n
      BY <1>1, <1>9, <1>10, <2>1
    <2>2. CASE i # n
      <3>1. i \in 1..Len(j) /\ next.journal[i] = j[i]
        BY <1>1, <2>2 DEF n
      <3>2. /\ Cardinality(ReceiptsFor(db, "action", i)) = 1
            /\ OfApproval(j[i]) => Cardinality(ReceiptsFor(db, "approval", i)) = 1
        BY <1>1, <1>10, <3>1 DEF CustodyHolds
      <3>3. QED
        BY <1>7, <3>1, <3>2
    <2>3. QED
      BY <2>1, <2>2
  <1>11. QED
    BY <1>1, <1>3, <1>6, <1>10 DEF CustodyHolds

LEMMA RoomsOfOneMore ==
  ASSUME NEW db, db.journal \in Seq(Event), RoomsHold(db), db.rows \in Rows, NEW e \in Event, Lawful(db.rows, e),
         NEW next, next.journal = Append(db.journal, e), next.rows = Effect(db.rows, e),
         next.rooms = RoomsAfter(db, e, Len(db.journal) + 1)
  PROVE  RoomsHold(next)
  <1> DEFINE j == db.journal
             n == Len(j) + 1
  <1>1. /\ Len(j) \in Nat /\ n \in Nat /\ DOMAIN j = 1..Len(j) /\ DOMAIN next.journal = 1..n
        /\ next.journal[n] = e /\ \A k \in 1..Len(j) : next.journal[k] = j[k]
    BY SeqOfOneMore
  <1>2. EventForm(e)
    BY EventsHaveForm
  <1>3. db.rooms \subseteq next.rooms
    BY DEF RoomsAfter
  <1>4. ASSUME NEW room \in Room, e.of = Installation(room)
        PROVE  Paired(next, room, n)
    <2>1. e.kind = "revised"
      BY <1>2, <1>4, AggregatesDiffer DEF EventForm
    <2>2. e.of[2] = room
      BY <1>4 DEF Installation
    <2>3. RoomReceipt(room, n, TRUE) \in next.rooms
      BY <2>1, <2>2 DEF RoomsAfter
    <2>4. QED
      BY <2>3 DEF Paired, ReceiptsOf, RoomReceipt
  <1>5. ASSUME NEW i \in 1..n, NEW room \in Room, next.journal[i].of = Installation(room)
        PROVE  Paired(next, room, i)
    <2>1. CASE i = n
      BY <1>1, <1>4, <1>5, <2>1
    <2>2. CASE i # n
      <3>1. i \in 1..Len(j) /\ next.journal[i] = j[i]
        BY <1>1, <2>2
      <3>2. Paired(db, room, i)
        BY <1>1, <1>5, <3>1 DEF RoomsHold
      <3>3. QED
        BY <1>3, <3>2 DEF Paired, ReceiptsOf
    <2>3. QED
      BY <2>1, <2>2
  <1>6. ASSUME NEW r \in next.rooms, r \notin db.rooms
        PROVE  r.revises /\ r.event \in 1..n /\ next.journal[r.event].of = Installation(r.room)
    <2>1. e.kind = "revised" /\ r = RoomReceipt(e.of[2], n, TRUE)
      BY <1>6 DEF RoomsAfter
    <2>2. PICK room \in Room : e.of = Installation(room)
      BY <1>2, <2>1 DEF EventForm, Status
    <2>3. e.of[2] = room
      BY <2>2 DEF Installation
    <2>4. r.revises /\ r.event = n /\ r.room = room
      BY <2>1, <2>3 DEF RoomReceipt
    <2>5. QED
      BY <1>1, <2>2, <2>4
  <1>7. ASSUME NEW r \in db.rooms, r.revises
        PROVE  r.event \in 1..n /\ next.journal[r.event].of = Installation(r.room)
    <2>1. r.event \in 1..Len(j) /\ j[r.event].of = Installation(r.room)
      BY <1>1, <1>7 DEF RoomsHold
    <2>2. QED
      BY <1>1, <2>1
  <1>8. ASSUME NEW r \in db.rooms, r.room = "spotlight", ~r.revises, r.package = Package
        PROVE  next.rows.gen = Top /\ r.event = Anchor(next, "spotlight")
    <2>1. db.rows.gen = Top /\ r.event = Anchor(db, "spotlight")
      BY <1>8 DEF RoomsHold
    <2>2. e.kind # "installed"
      BY <2>1, LawfulInstallation, TopAssumption
    <2>3. \A g : e.of # Generation(g)
      BY <2>2, LawfulInstallation
    <2>4. next.rows.gen = Top
      BY <2>1, <2>2, EffectIsRows
    <2>5. {i \in DOMAIN next.journal : next.journal[i].of \in {Generation(Top - 1), Generation(Top)}}
            = {i \in DOMAIN j : j[i].of \in {Generation(Top - 1), Generation(Top)}}
      <3> DEFINE G == {Generation(Top - 1), Generation(Top)}
      <3>1. e.of \notin G
        BY <2>3
      <3> HIDE DEF G
      <3>2. \A i \in 1..n : i = n \/ i \in 1..Len(j)
        BY <1>1
      <3>3. 1..Len(j) \subseteq 1..n
        BY <1>1
      <3> HIDE DEF n
      <3>4. {i \in 1..n : next.journal[i].of \in G} = {i \in 1..Len(j) : j[i].of \in G}
        BY <1>1, <3>1, <3>2, <3>3
      <3>5. QED
        BY <1>1, <3>4 DEF G
    <2>6. Anchor(next, "spotlight") = Anchor(db, "spotlight")
      BY <2>5 DEF Anchor
    <2>7. QED
      BY <2>1, <2>4, <2>6
  <1>9. QED
    BY <1>1, <1>5, <1>6, <1>7, <1>8 DEF RoomsHold

-----------------------------------------------------------------------------
(* A good World with one lawful event more is a good World *)

LEMMA GoodOfOneMore ==
  ASSUME NEW db, Good(db), NEW e \in Event, Lawful(db.rows, e), RevRight(db, e),
         db.journal = <<>> => e.of = Generation(1),
         NEW next, next.journal = Append(db.journal, e), next.rows = Effect(db.rows, e),
         next.receipts = db.receipts \o ReceiptsOfCommand(e, Len(db.journal) + 1),
         next.rooms = RoomsAfter(db, e, Len(db.journal) + 1)
  PROVE  Good(next)
  <1>1. /\ db.journal \in Seq(Event) /\ db.receipts \in Seq(Receipt)
        /\ RevisionsHold(db.journal) /\ RowsTell(db.rows, db.journal)
        /\ CustodyHolds(db) /\ RoomsHold(db) /\ db.rows \in Rows
    BY DEF Good, RowsTell
  <1>2. next.journal \in Seq(Event)
    BY <1>1, AppendProperties
  <1>3. e.of = Generation(1) <=> db.journal = <<>>
    <2>1. ASSUME db.journal # <<>>, e.of = Generation(1) PROVE FALSE
      <3>1. db.rows.gen \in Nat /\ db.rows.gen >= 1
        BY <1>1, <2>1, RowsFields DEF RowsTell
      <3>2. 1 = db.rows.gen + 1
        BY <1>1, <2>1, LawfulInstallation
      <3>3. QED
        BY <3>1, <3>2
    <2>2. QED
      BY <2>1
  <1>4. e.rev = 1 + Cardinality(Chapter(db.journal, e.of)) /\ e.rev > 0
    <2>1. Cardinality(Chapter(db.journal, e.of)) \in Nat
      BY <1>1, ChapterIsFinite
    <2>2. QED
      BY <2>1 DEF RevRight
  <1>5. RevisionsHold(next.journal)
    BY <1>1, <1>3, <1>4, RevisionsOfOneMore
  <1>6. RowsTell(next.rows, next.journal)
    BY <1>1, <1>4, RowsTellOneMore
  <1>7. next.receipts \in Seq(Receipt) /\ CustodyHolds(next)
    BY <1>1, CustodyOfOneMore
  <1>8. RoomsHold(next)
    BY <1>1, RoomsOfOneMore
  <1>9. QED
    BY <1>2, <1>5, <1>6, <1>7, <1>8 DEF Good

\* A World that an earlier release left is good.
OlderJournal(g) == [i \in 1..g |-> [kind |-> "installed", of |-> Generation(i), by |-> "world", rev |-> 1]]
OlderRows(g) == [NoRows EXCEPT !.gen = g]

LEMMA OlderEvents ==
  ASSUME NEW g \in Nat, g <= Top
  PROVE  /\ OlderJournal(g) \in Seq(Event) /\ Len(OlderJournal(g)) = g
         /\ DOMAIN OlderJournal(g) = 1..g
         /\ \A i \in 1..g : OlderJournal(g)[i] = [kind |-> "installed", of |-> Generation(i), by |-> "world", rev |-> 1]
  <1>1. ASSUME NEW i \in 1..g
        PROVE  [kind |-> "installed", of |-> Generation(i), by |-> "world", rev |-> 1] \in Event
    <2>1. i \in 1..Top
      BY TopAssumption
    <2>2. Installing(i) \in Ops
      BY <2>1 DEF Ops
    <2>3. [kind |-> "installed", of |-> Generation(i), by |-> "world", rev |-> 1] \in EventsOf(Installing(i))
      BY DEF EventsOf, Installing
    <2>4. QED
      BY <2>2, <2>3 DEF Event
  <1>2. OlderJournal(g) \in [1..g -> Event]
    BY <1>1 DEF OlderJournal
  <1>3. OlderJournal(g) \in Seq(Event) /\ Len(OlderJournal(g)) = g
    BY <1>2
  <1>4. QED
    BY <1>3 DEF OlderJournal

LEMMA OlderGrows ==
  ASSUME NEW g \in Nat, g < Top
  PROVE  OlderJournal(g + 1) = Append(OlderJournal(g), [kind |-> "installed", of |-> Generation(g + 1), by |-> "world", rev |-> 1])
  <1> DEFINE e == [kind |-> "installed", of |-> Generation(g + 1), by |-> "world", rev |-> 1]
             j == OlderJournal(g)
             k == OlderJournal(g + 1)
  <1>1. /\ j \in Seq(Event) /\ Len(j) = g /\ k \in Seq(Event) /\ Len(k) = g + 1
        /\ \A i \in 1..g : j[i] = [kind |-> "installed", of |-> Generation(i), by |-> "world", rev |-> 1]
        /\ \A i \in 1..g + 1 : k[i] = [kind |-> "installed", of |-> Generation(i), by |-> "world", rev |-> 1]
    BY TopAssumption, OlderEvents
  <1>2. \A i \in 1..g : k[i] = j[i]
    BY <1>1
  <1>3. k[g + 1] = e
    BY <1>1
  <1>4. e \in Event
    <2>1. g + 1 \in 1..g + 1
      OBVIOUS
    <2>2. k[g + 1] \in Event
      BY <1>1, <2>1
    <2>3. QED
      BY <1>3, <2>2
  <1> HIDE DEF e, j, k
  <1>5. /\ Append(j, e) \in Seq(Event) /\ Len(Append(j, e)) = g + 1
        /\ Append(j, e)[g + 1] = e /\ \A i \in 1..g : Append(j, e)[i] = j[i]
    BY <1>1, <1>4
  <1>6. \A i \in 1..g + 1 : k[i] = Append(j, e)[i]
    <2>1. \A i \in 1..g + 1 : i = g + 1 \/ i \in 1..g
      OBVIOUS
    <2>2. QED
      BY <1>2, <1>3, <1>5, <2>1
  <1>7. k = Append(j, e)
    BY <1>1, <1>5, <1>6, SeqEqual
  <1>8. QED
    BY <1>7 DEF e, j, k

LEMMA OlderIsTold ==
  \A g \in 0..Top : RowsTell(OlderRows(g), OlderJournal(g))
  <1> DEFINE S == {g \in Nat : RowsTell(OlderRows(g), OlderJournal(g))}
  <1>1. Top \in Nat
    BY TopAssumption
  <1>2. 0 \in S
    <2>1. OlderJournal(0) = <<>>
      BY DEF OlderJournal
    <2>2. OlderRows(0) = NoRows
      BY DEF OlderRows, NoRows
    <2>3. NoRows.gen <= Top
      BY <1>1 DEF NoRows
    <2>4. RowsTell(NoRows, <<>>)
      BY <2>3, NoRowsAreRows, ReplayOfNothing DEF RowsTell
    <2>5. QED
      BY <2>1, <2>2, <2>4
  <1>3. ASSUME NEW g \in 0..Top, g < Top, g \in S
        PROVE  g + 1 \in S
    <2> DEFINE e == [kind |-> "installed", of |-> Generation(g + 1), by |-> "world", rev |-> 1]
    <2>1. RowsTell(OlderRows(g), OlderJournal(g)) /\ g \in Nat /\ g + 1 \in Nat /\ g + 1 <= Top
      BY <1>1, <1>3
    <2>2. OlderJournal(g) \in Seq(Event) /\ OlderJournal(g + 1) = Append(OlderJournal(g), e)
      BY <1>3, <2>1, OlderEvents, OlderGrows
    <2>3. e \in Event
      <3>1. OlderJournal(g + 1)[g + 1] = e /\ OlderJournal(g + 1) \in Seq(Event)
            /\ Len(OlderJournal(g + 1)) = g + 1 /\ g + 1 \in 1..g + 1
        BY <2>1, OlderEvents
      <3> HIDE DEF e
      <3>2. QED
        BY <3>1, ElementOfSeq
    <2>4. /\ OlderRows(g) = [gen |-> g, life |-> 0, timer |-> 0, approvals |-> [a \in Approval |-> "none"]]
          /\ OlderRows(g + 1) = [gen |-> g + 1, life |-> 0, timer |-> 0, approvals |-> [a \in Approval |-> "none"]]
      BY DEF OlderRows, NoRows
    <2>5. Lawful(OlderRows(g), e)
      BY <2>4 DEF Lawful, InstallsNext
    <2>6. OlderJournal(g) = <<>> => e.of = Generation(1)
      <3>1. OlderJournal(g) = <<>> => g = 0
        <4>1. Len(OlderJournal(g)) = g
          BY <2>1, OlderEvents
        <4>2. QED
          BY <4>1
      <3>2. QED
        BY <3>1
    <2>7. Effect(OlderRows(g), e) = OlderRows(g + 1)
      <3>1. e.of # Lifespan /\ e.kind = "installed" /\ \A a \in Approval : e.of # ApprovalOf(a)
        BY AggregatesDiffer
      <3>2. [a \in Approval |-> IF e.of = ApprovalOf(a) THEN e.kind ELSE [b \in Approval |-> "none"][a]]
              = [a \in Approval |-> "none"]
        BY <3>1
      <3> HIDE DEF e
      <3>3. QED
        BY <2>4, <3>1, <3>2 DEF Effect
    <2>8. e.rev > 0
      OBVIOUS
    <2> HIDE DEF e
    <2>9. RowsTell(Effect(OlderRows(g), e), Append(OlderJournal(g), e))
      BY <2>1, <2>2, <2>3, <2>5, <2>6, <2>8, RowsTellOneMore
    <2>10. QED
      BY <2>1, <2>2, <2>7, <2>9
  <1> HIDE DEF S
  <1>4. \A g \in 0..Top : g \in S
    BY <1>1, <1>2, <1>3, IntervalByInduction
  <1>5. QED
    BY <1>4 DEF S

LEMMA OlderIsGood ==
  ASSUME NEW db, NEW g \in 0..Top, db.journal = OlderJournal(g), db.rows = OlderRows(g), db.receipts = <<>>,
         \A r \in db.rooms : ~r.revises /\ r.room # "spotlight"
  PROVE  Good(db)
  <1> DEFINE j == db.journal
  <1>1. g \in Nat /\ g <= Top
    BY TopAssumption
  <1>2. /\ j \in Seq(Event) /\ DOMAIN j = 1..g
        /\ \A i \in 1..g : j[i].of = Generation(i) /\ j[i].by = "world" /\ j[i].rev = 1
    <2>1. /\ j \in Seq(Event) /\ DOMAIN j = 1..g
          /\ \A i \in 1..g : j[i] = [kind |-> "installed", of |-> Generation(i), by |-> "world", rev |-> 1]
      BY <1>1, OlderEvents
    <2> HIDE DEF j
    <2>2. QED
      BY <2>1
  <1> HIDE DEF j
  <1>3. RevisionsHold(j)
    <2> SUFFICES ASSUME NEW i \in 1..g
                 PROVE  /\ j[i].of = Generation(1) <=> i = 1
                        /\ j[i].rev = 1 + Cardinality({k \in 1..(i-1) : j[k].of = j[i].of})
      BY <1>2 DEF RevisionsHold
    <2>1. j[i].of = Generation(1) <=> i = 1
      BY <1>2, AggregatesDiffer
    <2>2. {k \in 1..(i-1) : j[k].of = j[i].of} = {}
      <3>1. \A k \in 1..(i-1) : k \in 1..g /\ k # i
        BY <1>1
      <3>2. QED
        BY <1>2, <3>1, AggregatesDiffer
    <2>3. Cardinality({k \in 1..(i-1) : j[k].of = j[i].of}) = 0
      BY <2>2, FS_EmptySet
    <2>4. j[i].rev = 1 + 0
      BY <1>2
    <2>5. QED
      BY <2>1, <2>3, <2>4
  <1>4. CustodyHolds(db)
    BY <1>2 DEF CustodyHolds, j
  <1>5. RoomsHold(db)
    BY <1>2, AggregatesDiffer DEF RoomsHold, j
  <1>6. RowsTell(db.rows, db.journal)
    BY OlderIsTold
  <1>7. db.receipts \in Seq(Receipt)
    OBVIOUS
  <1>8. QED
    BY <1>2, <1>3, <1>4, <1>5, <1>6, <1>7 DEF Good, j

-----------------------------------------------------------------------------
(* The verifier *)

LEMMA VerifiedTells ==
  ASSUME NEW db, NEW g, Verified(db, g)
  PROVE  db.journal # <<>> /\ (g = Top => db.schema = "passages" /\ db.rows.gen = Top)
  <1>1. db.journal # <<>>
    BY DEF Verified, JournalHolds
  <1>2. ASSUME g = Top
        PROVE  db.schema = "passages" /\ db.rows.gen = Top
    <2>1. Top # 1 /\ Top # Top - 1
      BY TopAssumption
    <2>2. QED
      BY <1>2, <2>1 DEF Verified, Admits
  <1>3. QED
    BY <1>1, <1>2

\* A good World verifies at each generation that admits it.
LEMMA GoodVerifies ==
  ASSUME NEW db, Good(db), db.journal # <<>>, db.schema = "passages", NEW g \in 2..Top, db.rows.gen \in Admits(g)
  PROVE  Verified(db, g)
  <1>1. JournalHolds(db)
    BY DEF Good, RevisionsHold, RowsTell, JournalHolds
  <1>2. CustodyHolds(db)
    BY DEF Good
  <1>3. g # 1
    OBVIOUS
  <1>4. QED
    BY <1>1, <1>2, <1>3 DEF Verified

\* What is good does not depend on the schema.
LEMMA SameIsGood ==
  ASSUME NEW db, Good(db), NEW next, next.journal = db.journal, next.rows = db.rows,
         next.receipts = db.receipts, next.rooms = db.rooms
  PROVE  Good(next)
  <1>1. CustodyHolds(next)
    BY DEF Good, CustodyHolds, ReceiptsFor
  <1>2. RoomsHold(next)
    <2>1. \A room, i : Paired(next, room, i) = Paired(db, room, i)
      BY DEF Paired, ReceiptsOf
    <2>2. \A room : Anchor(next, room) = Anchor(db, room)
      BY DEF Anchor
    <2>3. RoomsHold(db)
      BY DEF Good
    <2>4. QED
      BY <2>1, <2>2, <2>3 DEF RoomsHold
  <1>3. QED
    BY <1>1, <1>2 DEF Good

LEMMA GoodFacts ==
  ASSUME NEW db, Good(db)
  PROVE  /\ db.journal \in Seq(Event) /\ Len(db.journal) \in Nat
         /\ db.rows \in Rows /\ db.rows.gen \in Nat /\ db.rows.gen <= Top
         /\ db.rows = Replay(db.journal)
         /\ db.rows.gen >= 1 <=> db.journal # <<>>
  <1>1. /\ db.journal \in Seq(Event) /\ db.rows \in Rows /\ db.rows.gen <= Top
        /\ db.rows = Replay(db.journal) /\ (db.journal # <<>> => db.rows.gen >= 1)
    BY DEF Good, RowsTell
  <1>2. db.rows.gen \in Nat
    BY <1>1, RowsFields
  <1>3. db.journal = <<>> => db.rows.gen = 0
    BY <1>1, ReplayOfNothing DEF NoRows
  <1>4. QED
    BY <1>1, <1>2, <1>3

-----------------------------------------------------------------------------
(* The stores *)

LEMMA PcFields ==
  ASSUME NEW s, Shaped(s), NEW x
  PROVE  LET t == [s EXCEPT !.pc = x] IN
         t.pc = x /\ t.version = s.version /\ t.grown = s.grown /\ t.job = s.job
  BY DEF Shaped

LEMMA JobPcFields ==
  ASSUME NEW s, Shaped(s), NEW x, NEW j
  PROVE  LET t == [s EXCEPT !.job = j, !.pc = x] IN
         t.pc = x /\ t.version = s.version /\ t.grown = s.grown /\ t.job = j
  BY DEF Shaped

LEMMA PcJobFields ==
  ASSUME NEW s, Shaped(s), NEW x, NEW j
  PROVE  LET t == [s EXCEPT !.pc = x, !.job = j] IN
         t.pc = x /\ t.version = s.version /\ t.grown = s.grown /\ t.job = j
  BY DEF Shaped

LEMMA GrownFields ==
  ASSUME NEW s, Shaped(s), NEW x, NEW j
  PROVE  LET t == [s EXCEPT !.pc = x, !.grown = @ + 1, !.job = j] IN
         t.pc = x /\ t.version = s.version /\ t.grown = s.grown + 1 /\ t.job = j
  BY DEF Shaped

LEMMA ClosedFields == Closed.pc = "closed" /\ Closed.version = Top /\ Closed.grown = 0
  BY DEF Closed

\* A process that is about to write nothing has nothing to get wrong.
LEMMA AtLeisure ==
  ASSUME NEW p \in Store, NEW s, s.pc \notin Busy, s.version \in 2..Top, s.grown \in Nat,
         p = Hub => s.version = Top, s.pc = "growing" => world.schema = "passages"
  PROVE  Fares(p, s)
  BY DEF Fares, Busy

LEMMA ClosedFares ==
  ASSUME NEW p \in Store
  PROVE  Fares(p, Closed)
  <1>1. /\ Closed.pc \notin Busy /\ Closed.pc # "growing"
        /\ Closed.version = Top /\ Closed.version \in 2..Top /\ Closed.grown \in Nat
    BY ClosedFields, TopAssumption DEF Busy
  <1>2. QED
    BY <1>1, AtLeisure

-----------------------------------------------------------------------------
(* Two ways to keep what stands *)

LEMMA WorldStays ==
  ASSUME WorldInv, StandInv, NEW p \in Store, NEW s, Becomes(p, s), Fares(p, s), UNCHANGED <<world, draft>>
  PROVE  StandInv'
  <1>1. store'[p] = s /\ \A q \in Store \ {p} : store'[q] = store[q]
    BY DEF WorldInv, Becomes
  <1>2. \A q \in Store : Fares(q, store'[q])
    BY <1>1 DEF StandInv, Works
  <1>3. ASSUME NEW q \in Store
        PROVE  Works(q)'
    <2>1. Fares(q, store'[q])
      BY <1>2
    <2>2. QED
      BY <2>1 DEF Works, Fares, Errand, Timely, Entered, Written
  <1>4. QED
    BY <1>3 DEF StandInv

\* The World goes on: nothing that was told is taken back.
Onward ==
  /\ Good(world') /\ (world'.rows.gen > 1 => world'.schema = "passages")
  /\ world.schema = "passages" => world'.schema = "passages"
  /\ world'.rows.gen >= world.rows.gen
  /\ \/ world'.journal = world.journal /\ world'.rows = world.rows
     \/ Len(world'.journal) = Len(world.journal) + 1

LEMMA OthersGoOn ==
  ASSUME StandInv, Onward, NEW q \in Store, store'[q] = store[q], store[q].pc \notin Inside
  PROVE  Works(q)'
  <1> DEFINE s == store[q]
             j == s.job
  <1>1. /\ s.version \in 2..Top /\ s.grown \in Nat /\ (q = Hub => s.version = Top)
        /\ s.pc = "growing" => world.schema = "passages"
        /\ s.pc = "prepared" => JobShaped(j) /\ Errand(j) /\ Timely(j)
    BY DEF StandInv, Works, Fares, Busy
  <1>2. /\ Len(world.journal) \in Nat /\ Len(world'.journal) \in Nat
        /\ Len(world.journal) <= Len(world'.journal)
        /\ world.rows.gen \in Nat /\ world'.rows.gen \in Nat /\ world'.rows.gen <= Top
        /\ world'.rows.gen >= 1 <=> world'.journal # <<>>
        /\ world.rows.gen >= 1 <=> world.journal # <<>>
    <2>1. Good(world) /\ Good(world')
      BY DEF StandInv, Onward
    <2>2. Len(world'.journal) = Len(world.journal) \/ Len(world'.journal) = Len(world.journal) + 1
      BY DEF Onward
    <2>3. Len(world.journal) \in Nat /\ Len(world'.journal) \in Nat
      BY <2>1, GoodFacts
    <2>4. QED
      BY <2>1, <2>2, <2>3, GoodFacts
  <1>3. s.pc # "begun" /\ s.pc # "inserted" /\ s.pc # "projected"
    BY DEF Inside
  <1> HIDE DEF s, j
  <1>4. ASSUME Errand(j)
        PROVE  Errand(j)'
    <2>1. j.path \in {"own", "command"} => world'.rows.gen = Top
      <3>1. j.path \in {"own", "command"} => world.rows.gen = Top
        BY <1>4 DEF Errand
      <3>2. world'.rows.gen >= world.rows.gen
        BY DEF Onward
      <3>3. QED
        BY <1>2, <3>1, <3>2, TopAssumption
    <2>2. j.path = "migrate" => world'.journal # <<>>
      <3>1. j.path = "migrate" => world.journal # <<>>
        BY <1>4 DEF Errand
      <3>2. world'.rows.gen >= world.rows.gen
        BY DEF Onward
      <3>3. QED
        BY <1>2, <3>1, <3>2
    <2>3. j' = j
      BY DEF j, s
    <2>4. QED
      BY <1>4, <2>1, <2>2, <2>3 DEF Errand, Onward
  <1>5. ASSUME Timely(j)
        PROVE  Timely(j)'
    <2>1. j' = j
      BY DEF j, s
    <2>2. CASE j.event = Nothing /\ j.at = 0 /\ j.path # "boot"
      BY <2>1, <2>2 DEF Timely
    <2>3. CASE /\ j.event \in EventsOf(j.op)
               /\ j.at \in 1..Len(world.journal) + 1
               /\ j.at = Len(world.journal) + 1 => Ready(world, j)
      <3>1. j.at \in 1..Len(world'.journal) + 1
        BY <1>2, <2>3
      <3>2. ASSUME j.at = Len(world'.journal) + 1
            PROVE  Ready(world', j)
        <4>1. world'.journal = world.journal /\ world'.rows = world.rows
          BY <1>2, <2>3, <3>2 DEF Onward
        <4>2. Ready(world, j)
          BY <2>3, <3>2, <4>1
        <4>3. QED
          BY <4>1, <4>2 DEF Ready, RevRight
      <3>3. QED
        BY <2>1, <2>3, <3>1, <3>2 DEF Timely
    <2>4. QED
      BY <1>5, <2>2, <2>3 DEF Timely
  <1>6. s' = s /\ store'[q] = s
    BY DEF s
  <1>7. QED
    <2>1. s.pc \in Busy => JobShaped(j) /\ Errand(j)'
      BY <1>1, <1>3, <1>4 DEF Busy
    <2>2. s.pc \in {"prepared", "begun"} => Timely(j)'
      BY <1>1, <1>3, <1>5
    <2>3. s.pc = "growing" => world'.schema = "passages"
      BY <1>1 DEF Onward
    <2>4. j' = s'.job /\ j = s.job
      BY DEF j
    <2>5. QED
      BY <1>1, <1>3, <1>6, <2>1, <2>2, <2>3, <2>4 DEF Works, Fares

LEMMA WorldGoesOn ==
  ASSUME WorldInv, StandInv, Onward, NEW p \in Store, NEW s, Becomes(p, s), lock \in {p, Nobody}, Works(p)'
  PROVE  StandInv'
  <1>1. \A q \in Store \ {p} : store'[q] = store[q]
    BY DEF WorldInv, Becomes
  <1>2. \A q \in Store \ {p} : store[q].pc \notin Inside
    BY NobodyAssumption DEF WorldInv, Transaction, At, Inside
  <1>3. \A q \in Store \ {p} : Works(q)'
    BY <1>1, <1>2, OthersGoOn
  <1>4. QED
    BY <1>3 DEF StandInv, Onward

LEMMA WorldAsItWas ==
  ASSUME StandInv, UNCHANGED world
  PROVE  Onward
  <1>1. world.rows.gen \in Nat
    BY GoodFacts DEF StandInv
  <1>2. QED
    BY <1>1 DEF StandInv, Onward

-----------------------------------------------------------------------------
(* Outside the transaction *)

LEMMA StoreFacts ==
  ASSUME WorldInv, StandInv, NEW p \in Store
  PROVE  /\ Shaped(store[p]) /\ store[p].version \in 2..Top /\ store[p].grown \in Nat
         /\ p = Hub => store[p].version = Top
         /\ store[p].pc = "growing" => world.schema = "passages"
         /\ store[p].pc \in Busy => JobShaped(store[p].job) /\ Errand(store[p].job)
  BY DEF WorldInv, Fit, StandInv, Works, Fares

\* A step of a process that has no event on its hands.
LEMMA IdleStep ==
  ASSUME WorldInv, StandInv, NEW p \in Store, NEW x \in {"open", "serving", "failed"},
         Becomes(p, [store[p] EXCEPT !.pc = x]), UNCHANGED <<world, draft>>
  PROVE  StandInv'
  <1> DEFINE s == [store[p] EXCEPT !.pc = x]
  <1>1. s.pc = x /\ s.version = store[p].version /\ s.grown = store[p].grown
    BY StoreFacts, PcFields
  <1>2. Becomes(p, s)
    OBVIOUS
  <1> HIDE DEF s
  <1>3. s.pc \notin Busy /\ s.pc # "growing"
    BY <1>1 DEF Busy
  <1>4. Fares(p, s)
    BY <1>1, <1>3, StoreFacts, AtLeisure
  <1>5. QED
    BY <1>2, <1>4, WorldStays

LEMMA OpenStands ==
  ASSUME WorldInv, StandInv, NEW p \in Store, Open(p)
  PROVE  StandInv'
  <1>1. PICK v \in 2..Top, x \in {"schema", "open"} :
             Becomes(p, [Closed EXCEPT !.version = v, !.pc = x]) /\ (p = Hub => v = Top)
    <2>1. PICK v \in (IF p = Hub THEN {Top} ELSE Version) :
            Becomes(p, [Closed EXCEPT !.version = v, !.pc = IF world.schema = "none" THEN "schema" ELSE "open"])
      BY DEF Open
    <2>2. v \in 2..Top /\ (p = Hub => v = Top)
      BY TopAssumption DEF Version
    <2>3. QED
      BY <2>1, <2>2
  <1> DEFINE s == [Closed EXCEPT !.version = v, !.pc = x]
  <1>2. s.pc = x /\ s.version = v /\ s.grown = 0
    BY DEF Closed
  <1>3. Becomes(p, s)
    BY <1>1
  <1> HIDE DEF s
  <1>4. s.pc \notin Busy /\ s.pc # "growing"
    BY <1>2 DEF Busy
  <1>5. Fares(p, s)
    BY <1>1, <1>2, <1>4, AtLeisure
  <1>6. QED
    BY <1>3, <1>5, WorldStays DEF Open

\* The bootstrap's own statements leave everything but the schema.
LEMMA SchemaStands ==
  ASSUME WorldInv, StandInv, NEW p \in Store, InstallSchema(p) \/ InstallPassages(p)
  PROVE  StandInv'
  <1>1. PICK x, schema :
          /\ x \in {"passages", "growing"}
          /\ Becomes(p, [store[p] EXCEPT !.pc = x])
          /\ world' = [world EXCEPT !.schema = schema] /\ lock = Nobody
          /\ world.schema = "passages" => schema = "passages"
          /\ x = "growing" => schema = "passages"
    BY DEF InstallSchema, InstallPassages
  <1>2. /\ world'.journal = world.journal /\ world'.rows = world.rows
        /\ world'.receipts = world.receipts /\ world'.rooms = world.rooms /\ world'.schema = schema
    BY <1>1 DEF WorldInv, Whole
  <1>3. Good(world')
    BY <1>2, SameIsGood DEF StandInv
  <1>4. world.rows.gen \in Nat
    BY GoodFacts DEF StandInv
  <1>5. Onward
    BY <1>1, <1>2, <1>3, <1>4 DEF StandInv, Onward
  <1> DEFINE s == [store[p] EXCEPT !.pc = x]
  <1>6. s.pc = x /\ s.version = store[p].version /\ s.grown = store[p].grown
    BY StoreFacts, PcFields
  <1>7. Becomes(p, s)
    BY <1>1
  <1> HIDE DEF s
  <1>8. store'[p] = s
    BY <1>7 DEF Becomes, WorldInv
  <1>9. Works(p)'
    <2>1. s.pc \notin Busy /\ (s.pc = "growing" => world'.schema = "passages")
      BY <1>1, <1>2, <1>6 DEF Busy
    <2>2. s.version \in 2..Top /\ s.grown \in Nat /\ (p = Hub => s.version = Top)
      BY <1>6, StoreFacts
    <2>3. QED
      BY <1>8, <2>1, <2>2 DEF Works, Fares, Busy
  <1>10. QED
    BY <1>1, <1>5, <1>7, <1>9, WorldGoesOn

LEMMA EventForIsEvent ==
  ASSUME NEW db, Good(db), NEW op \in Ops
  PROVE  EventFor(db, op) \in EventsOf(op)
  <1>1. AggregateRevision(db, op.of) = Cardinality(Chapter(db.journal, op.of))
        /\ Cardinality(Chapter(db.journal, op.of)) \in Nat
    BY RevisionIsCounted, ChapterIsFinite DEF Good
  <1>2. QED
    BY <1>1 DEF EventFor, EventsOf

\* What the reducer accepted is lawful.
LEMMA ReducedIsLawful ==
  ASSUME NEW rows, NEW e, Reduced(rows, e) # Refused
  PROVE  Lawful(rows, e) /\ Reduced(rows, e) = Effect(rows, e)
  BY DEF Reduced

LEMMA JobFields ==
  ASSUME NEW path, NEW op, NEW event, NEW at, NEW prior, NEW version
  PROVE  LET j == Job(path, op, event, at, prior, version) IN
         /\ JobShaped(j) /\ j.path = path /\ j.op = op /\ j.event = event /\ j.at = at
         /\ j.prior = prior /\ j.version = version
  BY JobIsShaped DEF Job

\* An event is prepared from what the World says now.
LEMMA PreparedStands ==
  ASSUME WorldInv, StandInv, NEW p \in Store, NEW path, NEW op \in Ops, NEW prior,
         prior = world.rows \/ (op = Installing(1) /\ prior = NoRows),
         path \in {"boot", "own"},
         path = "boot" => world.schema = "passages" /\ \E g \in 1..Top : op = Installing(g),
         path = "own" => Verified(world, Top) /\ store[p].version = Top,
         Becomes(p, Prepared(p, path, op, prior)), UNCHANGED <<world, draft>>
  PROVE  StandInv'
  <1> DEFINE e == EventFor(world, op)
             n == Len(world.journal) + 1
  <1>1. Good(world) /\ n \in Nat /\ n \in 1..n /\ e \in EventsOf(op)
    BY GoodFacts, EventForIsEvent DEF StandInv
  <1>2. CASE Reduced(prior, e) = Refused
    <2> DEFINE j == Job(path, op, e, 0, prior, 0)
               s == [store[p] EXCEPT !.job = j, !.pc = "failed"]
    <2>1. s.pc = "failed" /\ s.version = store[p].version /\ s.grown = store[p].grown
      BY StoreFacts, JobPcFields
    <2>2. Becomes(p, s)
      BY <1>2 DEF Prepared
    <2> HIDE DEF s
    <2>3. s.pc \notin Busy /\ s.pc # "growing"
      BY <2>1 DEF Busy
    <2>4. Fares(p, s)
      BY <2>1, <2>3, StoreFacts, AtLeisure
    <2>5. QED
      BY <2>2, <2>4, WorldStays
  <1>3. CASE Reduced(prior, e) # Refused
    <2> DEFINE j == Job(path, op, e, n, prior, store[p].version)
               s == [store[p] EXCEPT !.job = j, !.pc = "prepared"]
    <2>1. s.pc = "prepared" /\ s.version = store[p].version /\ s.grown = store[p].grown /\ s.job = j
      BY StoreFacts, JobPcFields
    <2>2. Becomes(p, s)
      BY <1>3 DEF Prepared
    <2>3. /\ JobShaped(j) /\ j.path = path /\ j.op = op /\ j.event = e /\ j.at = n
          /\ j.prior = prior /\ j.version = store[p].version
      BY JobFields
    <2> HIDE DEF s, j
    <2>4. Ready(world, j)
      <3>1. Lawful(prior, e)
        BY <1>3, ReducedIsLawful
      <3>2. CASE prior = world.rows
        <4>1. RevRight(world, e)
          BY <1>1, <3>1, <3>2, NextRevision DEF Good
        <4>2. QED
          BY <2>3, <3>2, <4>1 DEF Ready
      <3>3. CASE op = Installing(1) /\ prior = NoRows /\ world.rows.gen > 0
        BY <2>3, <3>3 DEF Ready
      <3>4. CASE op = Installing(1) /\ prior = NoRows /\ ~(world.rows.gen > 0)
        <4>1. world.rows.gen \in Nat /\ (world.rows.gen >= 1 <=> world.journal # <<>>) /\ world.rows = Replay(world.journal)
          BY <1>1, GoodFacts
        <4>2. world.journal = <<>>
          BY <3>4, <4>1
        <4>3. world.rows = NoRows
          BY <4>1, <4>2, ReplayOfNothing
        <4>4. QED
          BY <3>2, <3>4, <4>3
      <3>5. QED
        BY <3>2, <3>3, <3>4
    <2>5. Timely(j)
      BY <1>1, <2>3, <2>4 DEF Timely
    <2>6. Errand(j)
      BY <2>3, VerifiedTells DEF Errand
    <2>7. Fares(p, s)
      BY <2>1, <2>3, <2>5, <2>6, StoreFacts DEF Fares
    <2>8. QED
      BY <2>2, <2>7, WorldStays
  <1>4. QED
    BY <1>2, <1>3

LEMMA BootstrapStands ==
  ASSUME WorldInv, StandInv, NEW p \in Store, Grow(p) \/ Grown(p)
  PROVE  StandInv'
  <1>1. CASE Grown(p)
    BY <1>1, IdleStep DEF Grown
  <1>2. CASE Grow(p)
    <2> DEFINE g == store[p].grown + 1
               prior == IF g = 1 THEN NoRows ELSE Replay(world.journal)
    <2>1. g \in 1..Top /\ world.schema = "passages"
      BY <1>2, StoreFacts, TopAssumption DEF Grow, At
    <2>2. prior = world.rows \/ (Installing(g) = Installing(1) /\ prior = NoRows)
      BY GoodFacts DEF StandInv
    <2>3. Installing(g) \in Ops
      BY <2>1 DEF Ops
    <2>4. Becomes(p, Prepared(p, "boot", Installing(g), prior)) /\ UNCHANGED <<world, draft>>
      BY <1>2 DEF Grow
    <2>5. \E h \in 1..Top : Installing(g) = Installing(h)
      BY <2>1
    <2> HIDE DEF g, prior
    <2>6. QED
      BY <2>1, <2>2, <2>3, <2>4, <2>5, PreparedStands
  <1>3. QED
    BY <1>1, <1>2

LEMMA OpsAre == OwnOps \subseteq Ops /\ CommandOps \subseteq Ops
                /\ \A room \in Room : Op("revised", Installation(room), "world") \in Ops
  BY DEF Ops

LEMMA OwnStands ==
  ASSUME WorldInv, StandInv, Own
  PROVE  StandInv'
  <1>1. Hub \in Store /\ Verified(world, Top) /\ UNCHANGED <<world, draft>>
    BY DEF Store, Own
  <1>2. PICK op \in OwnOps : Becomes(Hub, Prepared(Hub, "own", op, world.rows))
    BY DEF Own
  <1>3. op \in Ops
    BY OpsAre
  <1>4. store[Hub].version = Top
    BY <1>1, StoreFacts
  <1>5. QED
    BY <1>1, <1>2, <1>3, <1>4, PreparedStands

LEMMA ReviseStands ==
  ASSUME WorldInv, StandInv, NEW p \in Store, Revise(p)
  PROVE  StandInv'
  <1>1. Verified(world, Top) /\ store[p].version = Top /\ UNCHANGED <<world, draft>>
    BY DEF Revise
  <1>2. PICK room \in Room :
          Becomes(p, Prepared(p, "own", Op("revised", Installation(room), "world"), Replay(world.journal)))
    BY DEF Revise
  <1>3. Op("revised", Installation(room), "world") \in Ops
    BY OpsAre
  <1>4. Replay(world.journal) = world.rows
    BY GoodFacts DEF StandInv
  <1>5. QED
    BY <1>1, <1>2, <1>3, <1>4, PreparedStands

\* A job that makes its event inside the transaction.
LEMMA AskedStands ==
  ASSUME WorldInv, StandInv, NEW p \in Store, NEW path, NEW op, NEW version,
         Errand(Job(path, op, Nothing, 0, Nothing, version)), path # "boot",
         Becomes(p, [store[p] EXCEPT !.pc = "prepared", !.job = Job(path, op, Nothing, 0, Nothing, version)]),
         UNCHANGED <<world, draft>>
  PROVE  StandInv'
  <1> DEFINE j == Job(path, op, Nothing, 0, Nothing, version)
             s == [store[p] EXCEPT !.pc = "prepared", !.job = j]
  <1>1. s.pc = "prepared" /\ s.version = store[p].version /\ s.grown = store[p].grown /\ s.job = j
    BY StoreFacts, PcJobFields
  <1>2. JobShaped(j) /\ Errand(j) /\ j.event = Nothing /\ j.at = 0 /\ j.path # "boot"
    BY JobFields
  <1>3. Becomes(p, s)
    OBVIOUS
  <1> HIDE DEF s, j
  <1>4. Fares(p, s)
    BY <1>1, <1>2, StoreFacts DEF Fares, Timely
  <1>5. QED
    BY <1>3, <1>4, WorldStays

LEMMA CommandStands ==
  ASSUME WorldInv, StandInv, Command
  PROVE  StandInv'
  <1>1. PICK op \in CommandOps :
          Becomes(Hub, [store[Hub] EXCEPT !.pc = "prepared", !.job = Job("command", op, Nothing, 0, Nothing, Top)])
    BY DEF Command
  <1>2. op \in Ops
    BY OpsAre
  <1> DEFINE j == Job("command", op, Nothing, 0, Nothing, Top)
  <1>3. j.path = "command" /\ j.op = op /\ j.version = Top
    BY JobFields
  <1>4. world.schema = "passages" /\ world.rows.gen = Top
    BY VerifiedTells DEF Command
  <1> HIDE DEF j
  <1>5. Errand(j)
    BY <1>2, <1>3, <1>4 DEF Errand
  <1>6. Hub \in Store /\ UNCHANGED <<world, draft>>
    BY DEF Store, Command
  <1>7. QED
    BY <1>1, <1>5, <1>6, AskedStands DEF j

LEMMA MigrateStands ==
  ASSUME WorldInv, StandInv, NEW p \in Store, Migrate(p)
  PROVE  StandInv'
  <1>1. PICK g \in 2..Top :
          /\ UpgradeRequired(world, g)
          /\ Becomes(p, [store[p] EXCEPT !.pc = "prepared", !.job = Job("migrate", Installing(g), Nothing, 0, Nothing, g)])
    BY DEF Migrate
  <1> DEFINE j == Job("migrate", Installing(g), Nothing, 0, Nothing, g)
  <1>2. j.path = "migrate" /\ j.op = Installing(g) /\ j.version = g
    BY JobFields
  <1>3. world.journal # <<>>
    BY <1>1, VerifiedTells DEF UpgradeRequired
  <1>4. Installing(g) \in Ops
    BY <1>1, TopAssumption DEF Ops
  <1> HIDE DEF j
  <1>5. Errand(j)
    BY <1>1, <1>2, <1>3, <1>4 DEF Errand
  <1>6. UNCHANGED <<world, draft>>
    BY DEF Migrate
  <1>7. QED
    BY <1>1, <1>5, <1>6, AskedStands DEF j

\* Where a process goes on from a transaction, it is idle.
LEMMA ResumedFields ==
  ASSUME WorldInv, StandInv, NEW p \in Store, NEW done \in BOOLEAN
  PROVE  LET s == Resume(p, After(p, done)) IN
         /\ s.pc \notin Busy /\ s.version \in 2..Top /\ s.grown \in Nat /\ (p = Hub => s.version = Top)
         /\ s.pc = "growing" => done /\ store[p].job.path = "boot"
  <1> DEFINE a == After(p, done)
             o == [store[p] EXCEPT !.pc = "open", !.job = Nothing]
             t == [store[p] EXCEPT !.pc = "growing", !.grown = @ + 1, !.job = Nothing]
  <1>1. Shaped(store[p]) /\ store[p].version \in 2..Top /\ store[p].grown \in Nat
        /\ (p = Hub => store[p].version = Top)
    BY StoreFacts
  <1>2. o.pc = "open" /\ o.version = store[p].version /\ o.grown = store[p].grown
    BY <1>1, PcJobFields
  <1>3. t.pc = "growing" /\ t.version = store[p].version /\ t.grown = store[p].grown + 1
    BY <1>1, GrownFields
  <1>4. Closed.pc = "closed" /\ Closed.version = Top /\ Closed.grown = 0 /\ Top \in 2..Top
    BY ClosedFields, TopAssumption
  <1>5. \/ a = o
        \/ a = t /\ done /\ store[p].job.path = "boot"
        \/ a = Closed
    BY DEF After
  <1>6. Shaped(a)
    <2>1. Shaped(o)
      BY <1>1, PcThenJob
    <2>2. Shaped(t)
      BY <1>1, GrownToo
    <2>3. Shaped(Closed)
      BY ClosedIsFit DEF Fit
    <2> HIDE DEF a, o, t
    <2>4. QED
      BY <1>5, <2>1, <2>2, <2>3
  <1> HIDE DEF a, o, t
  <1>7. /\ a.pc \in {"open", "growing", "closed"} /\ a.version \in 2..Top /\ a.grown \in Nat
        /\ p = Hub => a.version = Top
        /\ a.pc = "growing" => done /\ store[p].job.path = "boot"
    BY <1>1, <1>2, <1>3, <1>4, <1>5
  <1>8. Resume(p, a) = a \/ Resume(p, a) = [a EXCEPT !.pc = "serving"]
    BY DEF Resume
  <1>9. /\ [a EXCEPT !.pc = "serving"].pc = "serving" /\ [a EXCEPT !.pc = "serving"].version = a.version
        /\ [a EXCEPT !.pc = "serving"].grown = a.grown
    BY <1>6, PcFields
  <1>10. /\ Resume(p, a).pc \notin Busy /\ Resume(p, a).version \in 2..Top /\ Resume(p, a).grown \in Nat
         /\ p = Hub => Resume(p, a).version = Top
         /\ Resume(p, a).pc = "growing" => done /\ store[p].job.path = "boot"
    BY <1>7, <1>8, <1>9 DEF Busy
  <1>11. QED
    BY <1>10 DEF a

LEMMA GiveUpStands ==
  ASSUME WorldInv, StandInv, NEW p \in Store, GiveUp(p)
  PROVE  StandInv'
  <1> DEFINE s == Resume(p, After(p, FALSE))
  <1>1. /\ s.pc \notin Busy /\ s.version \in 2..Top /\ s.grown \in Nat
        /\ p = Hub => s.version = Top
        /\ s.pc # "growing"
    BY ResumedFields
  <1>2. Becomes(p, s) /\ UNCHANGED <<world, draft>>
    BY DEF GiveUp
  <1> HIDE DEF s
  <1>3. Fares(p, s)
    BY <1>1, AtLeisure
  <1>4. QED
    BY <1>2, <1>3, WorldStays

\* The originals are established when the World stands at its last generation.
LEMMA EstablishedIsGood ==
  ASSUME Good(world), world.rows.gen = Top, NEW R, \A r \in R : ~r.revises /\ (r.room = "spotlight" => r.event = Anchor(world, "spotlight")),
         world'.journal = world.journal, world'.rows = world.rows, world'.receipts = world.receipts,
         world'.rooms = world.rooms \cup R
  PROVE  Good(world')
  <1>1. CustodyHolds(world')
    <2>1. \A sort, i : ReceiptsFor(world', sort, i) = ReceiptsFor(world, sort, i)
      BY DEF ReceiptsFor
    <2>2. QED
      BY <2>1 DEF Good, CustodyHolds
  <1>2. RoomsHold(world) /\ \A room : Anchor(world', room) = Anchor(world, room)
    BY DEF Good, Anchor
  <1>3. \A room, i : Paired(world, room, i) => Paired(world', room, i)
    BY DEF Paired, ReceiptsOf
  <1>4. RoomsHold(world')
    BY <1>2, <1>3 DEF RoomsHold
  <1>5. QED
    BY <1>1, <1>4 DEF Good

LEMMA CheckInStands ==
  ASSUME WorldInv, StandInv, CheckIn
  PROVE  StandInv'
  <1>1. Hub \in Store /\ draft' = draft
    BY DEF Store, CheckIn
  <1>2. CASE Becomes(Hub, [store[Hub] EXCEPT !.pc = "serving"]) /\ UNCHANGED world
    BY <1>1, <1>2, IdleStep
  <1>3. CASE Becomes(Hub, Closed) /\ UNCHANGED world
    BY <1>1, <1>3, ClosedFares, WorldStays
  <1>4. CASE /\ Verified(world, Top) /\ world' = Established(world)
             /\ Becomes(Hub, [store[Hub] EXCEPT !.pc = "serving"])
    <2> DEFINE R == {RoomReceipt(room, Anchor(world, room), FALSE) :
                       room \in {r \in Room : RoomStatus(world, r) = "missing_original_receipt"}}
               s == [store[Hub] EXCEPT !.pc = "serving"]
    <2>1. world' = [world EXCEPT !.rooms = world.rooms \cup R]
      BY <1>4 DEF Established
    <2>2. \A r \in R : ~r.revises /\ (r.room = "spotlight" => r.event = Anchor(world, "spotlight"))
      BY DEF RoomReceipt
    <2> HIDE DEF R
    <2>3. /\ world'.journal = world.journal /\ world'.rows = world.rows
          /\ world'.receipts = world.receipts /\ world'.rooms = world.rooms \cup R
          /\ world'.schema = world.schema
      BY <2>1 DEF WorldInv, Whole
    <2>4. Good(world) /\ world.rows.gen = Top /\ world.schema = "passages" /\ world.rows.gen \in Nat
      BY <1>4, VerifiedTells, GoodFacts DEF StandInv
    <2>5. Good(world')
      BY <2>2, <2>3, <2>4, EstablishedIsGood
    <2>6. Onward
      BY <2>3, <2>4, <2>5 DEF Onward
    <2>7. s.pc = "serving" /\ s.version = store[Hub].version /\ s.grown = store[Hub].grown
      BY <1>1, StoreFacts, PcFields
    <2>8. Becomes(Hub, s)
      BY <1>4
    <2> HIDE DEF s
    <2>9. store'[Hub] = s
      BY <1>1, <2>8 DEF Becomes, WorldInv
    <2>10. Works(Hub)'
      <3>1. s.pc \notin Busy
        BY <2>7 DEF Busy
      <3>2. s.version \in 2..Top /\ s.grown \in Nat /\ s.version = Top
        BY <1>1, <2>7, StoreFacts
      <3>3. QED
        BY <2>7, <2>9, <3>1, <3>2 DEF Works, Fares, Busy
    <2>11. lock = Nobody
      BY DEF CheckIn
    <2>12. QED
      BY <1>1, <2>6, <2>8, <2>10, <2>11, WorldGoesOn
  <1>5. QED
    BY <1>2, <1>3, <1>4 DEF CheckIn

-----------------------------------------------------------------------------
(* The transaction *)

\* A process that leaves a transaction without writing.
LEMMA LeavesTheWorld ==
  ASSUME WorldInv, StandInv, NEW p \in Store, NEW s, Becomes(p, s), lock \in {p, Nobody}, UNCHANGED world,
         s.pc \notin Busy, s.pc # "growing", s.version \in 2..Top, s.grown \in Nat, p = Hub => s.version = Top
  PROVE  StandInv'
  <1>1. store'[p] = s
    BY DEF Becomes, WorldInv
  <1>2. Works(p)'
    BY <1>1 DEF Works, Fares, Busy
  <1>3. QED
    BY <1>2, WorldAsItWas, WorldGoesOn

LEMMA AbortStands ==
  ASSUME WorldInv, StandInv, NEW p \in Store, Abort(p), lock = p
  PROVE  StandInv'
  <1> DEFINE s == Resume(p, After(p, FALSE))
  <1>1. /\ s.pc \notin Busy /\ s.version \in 2..Top /\ s.grown \in Nat
        /\ p = Hub => s.version = Top
        /\ s.pc # "growing"
    BY ResumedFields
  <1>2. Becomes(p, s) /\ UNCHANGED world
    BY DEF Abort
  <1> HIDE DEF s
  <1>3. QED
    BY <1>1, <1>2, LeavesTheWorld

LEMMA DeathStands ==
  ASSUME WorldInv, StandInv, NEW p \in Store, Die(p)
  PROVE  StandInv'
  <1>1. /\ Closed.pc \notin Busy /\ Closed.pc # "growing"
        /\ Closed.version = Top /\ Closed.version \in 2..Top /\ Closed.grown \in Nat
    BY ClosedFields, TopAssumption DEF Busy
  <1>2. CASE lock = p
    BY <1>1, <1>2, LeavesTheWorld DEF Die
  <1>3. CASE lock # p
    BY <1>3, ClosedFares, WorldStays DEF Die
  <1>4. QED
    BY <1>2, <1>3

LEMMA BeginStands ==
  ASSUME WorldInv, StandInv, NEW p \in Store, Begin(p)
  PROVE  StandInv'
  <1> DEFINE s == [store[p] EXCEPT !.pc = "begun"]
             j == store[p].job
  <1>1. s.pc = "begun" /\ s.version = store[p].version /\ s.grown = store[p].grown /\ s.job = j
    BY StoreFacts, PcFields
  <1>2. JobShaped(j) /\ Errand(j) /\ Timely(j)
    BY DEF Begin, At, StandInv, Works, Fares, Busy
  <1>3. Becomes(p, s) /\ world' = world
    BY DEF Begin
  <1> HIDE DEF s, j
  <1>4. store'[p] = s
    BY <1>3 DEF Becomes, WorldInv
  <1>5. j = store'[p].job
    BY <1>1, <1>4
  <1>6. Works(p)'
    <2>1. Fares(p, s)
      BY <1>1, <1>2, StoreFacts DEF Fares
    <2>2. Fares(p, store'[p])
      BY <1>4, <2>1
    <2>3. QED
      BY <1>1, <1>3, <1>4, <2>2 DEF Works, Fares, Errand, Timely
  <1>7. lock = Nobody
    BY DEF Begin
  <1>8. QED
    BY <1>3, <1>6, <1>7, WorldAsItWas, WorldGoesOn

WithEvent(j, e, prior) == [j EXCEPT !.event = e, !.prior = prior]

LEMMA JobWithEvent ==
  ASSUME NEW j, JobShaped(j), NEW e, NEW r
  PROVE  LET k == WithEvent(j, e, r) IN
         /\ JobShaped(k) /\ k.path = j.path /\ k.op = j.op /\ k.event = e
         /\ k.prior = r /\ k.version = j.version
  <1>1. PICK P, O, E, A, R, V : j \in [path : P, op : O, event : E, at : A, prior : R, version : V]
    BY DEF JobShaped
  <1> DEFINE k == WithEvent(j, e, r)
             F == E \cup {e}
             S == R \cup {r}
  <1>2. k \in [path : P, op : O, event : F, at : A, prior : S, version : V]
    BY <1>1 DEF WithEvent
  <1>3. k.path = j.path /\ k.op = j.op /\ k.event = e /\ k.prior = r /\ k.version = j.version
    BY <1>1 DEF WithEvent
  <1> HIDE DEF k, F, S
  <1>4. JobShaped(k)
    BY <1>2 DEF JobShaped
  <1>5. QED
    BY <1>3, <1>4 DEF k

\* What the trigger lets in was made for this very World, or is a second root.
LEMMA InsertedEvent ==
  ASSUME WorldInv, StandInv, NEW p \in Store, At(p, "begun"), Contiguous(p),
         Reduced(PriorOf(p), EventOf(p)) # Refused
  PROVE  LET j == store[p].job IN
         /\ EventOf(p) \in EventsOf(j.op)
         /\ \/ PriorOf(p) = world.rows /\ RevRight(world, EventOf(p)) /\ Lawful(world.rows, EventOf(p))
            \/ j.op = Installing(1) /\ world.rows.gen > 0
  <1> DEFINE j == store[p].job
             e == EventOf(p)
  <1>1. draft = world /\ Timely(j) /\ j.op \in Ops /\ Good(world)
    BY DEF At, WorldInv, Transaction, StandInv, Works, Fares, Busy, Errand
  <1>2. Lawful(PriorOf(p), e)
    BY ReducedIsLawful
  <1>3. Len(world.journal) \in Nat /\ world.rows = Replay(world.journal)
    BY <1>1, GoodFacts
  <1>4. CASE j.event = Nothing
    <2>1. e = EventFor(world, j.op) /\ PriorOf(p) = world.rows
      BY <1>1, <1>3, <1>4 DEF EventOf, PriorOf
    <2>2. e \in EventsOf(j.op)
      BY <1>1, <2>1, EventForIsEvent
    <2>3. RevRight(world, e)
      BY <1>1, <1>2, <2>1, NextRevision DEF Good
    <2>4. QED
      BY <1>2, <2>1, <2>2, <2>3
  <1>5. CASE j.event # Nothing
    <2>1. /\ j.event \in EventsOf(j.op)
          /\ j.at \in 1..Len(world.journal) + 1
          /\ j.at = Len(world.journal) + 1 => Ready(world, j)
      BY <1>1, <1>5 DEF Timely
    <2>2. j.at \in {0, Len(world.journal) + 1}
      BY <1>1 DEF Contiguous
    <2>3. j.at = Len(world.journal) + 1
      BY <1>3, <2>1, <2>2
    <2>4. Ready(world, j)
      BY <2>1, <2>3
    <2>5. e = j.event /\ PriorOf(p) = j.prior
      BY <1>5 DEF EventOf, PriorOf
    <2>6. QED
      BY <1>2, <2>1, <2>4, <2>5 DEF Ready
  <1>6. QED
    BY <1>4, <1>5

LEMMA InsertStands ==
  ASSUME WorldInv, StandInv, NEW p \in Store, Insert(p)
  PROVE  StandInv'
  <1>1. lock = p /\ draft = world /\ At(p, "begun") /\ JobShaped(store[p].job) /\ Errand(store[p].job)
    BY DEF WorldInv, Transaction, Insert, At, StandInv, Works, Fares, Busy
  <1>2. CASE Abort(p)
    BY <1>1, <1>2, AbortStands
  <1>3. CASE ~Abort(p)
    <2> DEFINE e == EventOf(p)
               r == PriorOf(p)
               j == store[p].job
               k == WithEvent(j, e, r)
               s == [store[p] EXCEPT !.pc = "inserted", !.job = k]
    <2>1. /\ Contiguous(p) /\ Reduced(r, e) # Refused
          /\ draft' = [draft EXCEPT !.journal = Append(draft.journal, e)]
          /\ UNCHANGED <<world, lock>>
          /\ Becomes(p, [store[p] EXCEPT !.pc = "inserted", !.job.event = e, !.job.prior = r])
      BY <1>3 DEF Insert
    <2>2. [store[p] EXCEPT !.pc = "inserted", !.job.event = e, !.job.prior = r] = s
      <3>1. Shaped(store[p])
        BY StoreFacts
      <3>2. PICK P, V, G, J : store[p] \in [pc : P, version : V, grown : G, job : J]
        BY <3>1 DEF Shaped
      <3>3. QED
        BY <3>2 DEF WithEvent
    <2>3. /\ JobShaped(k) /\ k.path = j.path /\ k.op = j.op /\ k.event = e
          /\ k.prior = r /\ k.version = j.version
      <3>1. JobShaped(j)
        BY <1>1
      <3> HIDE DEF e, r, j
      <3>2. QED
        BY <3>1, JobWithEvent
    <2>4. s.pc = "inserted" /\ s.version = store[p].version /\ s.grown = store[p].grown /\ s.job = k
      BY StoreFacts, PcJobFields
    <2>5. Becomes(p, s)
      BY <2>1, <2>2
    <2>6. /\ e \in EventsOf(j.op)
          /\ \/ r = world.rows /\ RevRight(world, e) /\ Lawful(world.rows, e)
             \/ j.op = Installing(1) /\ world.rows.gen > 0
      BY <1>1, <2>1, InsertedEvent
    <2>7. draft'.rows = world.rows /\ draft'.schema = world.schema
      BY <1>1, <2>1 DEF WorldInv, Whole
    <2>8. Errand(j)
      BY <1>1
    <2> HIDE DEF e, r, j, k, s
    <2>9. store'[p] = s
      BY <2>5 DEF Becomes, WorldInv
    <2>10. store'[p].job = k /\ world' = world
      BY <2>1, <2>4, <2>9
    <2>11. Errand(store'[p].job)
      BY <2>3, <2>8, <2>10 DEF Errand
    <2>12. Entered(store[p].job)'
      BY <2>3, <2>6, <2>7, <2>10 DEF Entered
    <2>13. Works(p)'
      <3>1. Errand(store[p].job)'
        BY <2>10, <2>11 DEF Errand
      <3>2. JobShaped(store'[p].job)
        BY <2>3, <2>10
      <3>3. /\ store'[p].version \in 2..Top /\ store'[p].grown \in Nat
            /\ p = Hub => store'[p].version = Top
            /\ store'[p].pc = "inserted"
        BY <2>4, <2>9, StoreFacts
      <3>4. QED
        BY <2>12, <3>1, <3>2, <3>3 DEF Works, Fares
    <2>14. QED
      BY <1>1, <2>1, <2>5, <2>13, WorldAsItWas, WorldGoesOn
  <1>4. QED
    BY <1>2, <1>3

\* With what the prior projection had, nothing is left over of the timer.
LEMMA MaterialisedIsNext ==
  ASSUME NEW rows \in Rows, NEW next \in Rows
  PROVE  Materialised(rows, next, rows) = next
  <1>1. rows.timer \in Nat /\ next.timer \in Nat
    BY RowsFields
  <1>2. (IF next.timer = 0 /\ rows.timer = 0 THEN rows.timer ELSE next.timer) = next.timer
    BY <1>1
  <1>3. [next EXCEPT !.timer = next.timer] = next
    BY DEF Rows
  <1>4. QED
    BY <1>2, <1>3 DEF Materialised

\* What its errand makes of the event, once it is lawful.
LEMMA ErrandIsRun ==
  ASSUME Good(world), NEW j, Errand(j), NEW e \in EventsOf(j.op), Lawful(world.rows, e),
         NEW next, Good(next), next.rows = Effect(world.rows, e),
         next.journal # <<>>, next.schema = "passages"
  PROVE  next.rows.gen >= world.rows.gen /\ (j.path # "boot" => Verified(next, j.version))
  <1>1. j.op \in Ops /\ world.rows \in Rows /\ world.rows.gen \in Nat
    BY GoodFacts DEF Errand
  <1>2. e \in Event /\ e.kind = j.op.kind /\ e.of = j.op.of
    BY <1>1, EventsAreEvents
  <1>3. next.rows.gen = IF e.kind = "installed" THEN world.rows.gen + 1 ELSE world.rows.gen
    BY <1>1, <1>2, EffectIsRows
  <1>4. e.kind = "installed" => e.of = Generation(world.rows.gen + 1) /\ world.rows.gen + 1 \in 1..Top
    BY <1>1, <1>2, LawfulInstallation
  <1>5. CASE j.path \in {"own", "command"}
    <2>1. world.rows.gen = Top /\ j.version = Top
      BY <1>5 DEF Errand
    <2>2. next.rows.gen = Top /\ Top \in 2..Top /\ Top \in Admits(Top)
      BY <1>3, <1>4, <2>1, TopAssumption DEF Admits
    <2>3. QED
      BY <1>1, <1>3, <2>1, <2>2, GoodVerifies
  <1>6. CASE j.path = "migrate"
    <2>1. j.version \in 2..Top /\ j.op = Installing(j.version)
      BY <1>6 DEF Errand
    <2>2. e.kind = "installed" /\ e.of = Generation(j.version)
      BY <1>2, <2>1 DEF Installing
    <2>3. next.rows.gen = j.version
      BY <1>3, <1>4, <2>2, AggregatesDiffer
    <2>4. next.rows.gen \in Admits(j.version)
      BY <2>3 DEF Admits
    <2>5. QED
      BY <1>1, <1>3, <2>1, <2>4, GoodVerifies
  <1>7. CASE j.path = "boot"
    BY <1>1, <1>3, <1>7
  <1>8. QED
    BY <1>5, <1>6, <1>7 DEF Errand

LEMMA ProjectStands ==
  ASSUME WorldInv, StandInv, NEW p \in Store, Project(p)
  PROVE  StandInv'
  <1> DEFINE j == store[p].job
             e == j.event
             s == [store[p] EXCEPT !.pc = "projected"]
  <1>1. /\ lock = p /\ draft.journal = Append(world.journal, e)
        /\ draft.receipts = world.receipts /\ draft.rooms = world.rooms
        /\ JobShaped(j) /\ Errand(j) /\ Entered(j)
    BY DEF WorldInv, Transaction, Project, At, StandInv, Works, Fares, Busy
  <1>2. CASE Abort(p)
    BY <1>1, <1>2, AbortStands
  <1>3. CASE ~Abort(p)
    <2> DEFINE n == Len(draft.journal)
               rows == Materialised(draft.rows, Reduced(j.prior, e), j.prior)
               schema == IF j.path = "migrate" THEN "passages" ELSE draft.schema
    <2>1. /\ ~Conflicts(p) /\ UNCHANGED <<world, lock>> /\ Becomes(p, s)
          /\ draft' = [schema |-> schema, journal |-> draft.journal, rows |-> rows,
                       receipts |-> draft.receipts \o ReceiptsOfCommand(e, n),
                       rooms |-> RoomsAfter(draft, e, n)]
      BY <1>3 DEF Project
    <2>2. s.pc = "projected" /\ s.version = store[p].version /\ s.grown = store[p].grown /\ s.job = j
      BY StoreFacts, PcFields
    <2>3. /\ e \in EventsOf(j.op) /\ j.op \in Ops
          /\ draft.rows = world.rows /\ draft.schema = world.schema
          /\ j.prior = world.rows /\ RevRight(world, e) /\ Lawful(world.rows, e)
      BY <1>1, <2>1 DEF Entered, Errand, Conflicts
    <2>4. e \in Event /\ e.kind = j.op.kind /\ e.of = j.op.of
      BY <2>3, EventsAreEvents
    <2>5. /\ Good(world) /\ world.rows \in Rows /\ world.journal \in Seq(Event)
          /\ (world.rows.gen >= 1 <=> world.journal # <<>>) /\ world.rows.gen \in Nat
          /\ world.rows = Replay(world.journal)
      BY GoodFacts DEF StandInv
    <2>6. /\ Effect(world.rows, e) \in Rows /\ Reduced(world.rows, e) = Effect(world.rows, e)
      BY <2>3, <2>4, <2>5, EffectIsRows
    <2>7. rows = Effect(world.rows, e)
      <3> HIDE DEF e, j
      <3> QED BY <2>3, <2>5, <2>6, MaterialisedIsNext
    <2>8. world.journal = <<>> => e.of = Generation(1)
      <3>1. SUFFICES ASSUME world.journal = <<>> PROVE e.of = Generation(1)
        OBVIOUS
      <3>2. world.rows.gen = 0
        BY <2>5, <3>1, ReplayOfNothing DEF NoRows
      <3>3. j.path = "boot"
        BY <1>1, <3>1, <3>2, TopAssumption DEF Errand
      <3>4. e.kind = "installed"
        <4>1. PICK g \in 1..Top : j.op = Installing(g)
          BY <1>1, <3>3 DEF Errand
        <4>2. j.op.kind = "installed"
          BY <4>1 DEF Installing
        <4>3. QED
          BY <2>4, <4>2
      <3>5. QED
        BY <2>3, <2>4, <2>5, <3>2, <3>4, LawfulInstallation
    <2>9. schema = "passages"
      BY <1>1, <2>3 DEF Errand
    <2> HIDE DEF j, e, s, rows, schema
    <2>10. n = Len(world.journal) + 1 /\ draft.journal # <<>>
      <3>1. \A s1 \in Seq(Event) : \A x : Len(Append(s1, x)) = Len(s1) + 1 /\ Append(s1, x) # <<>>
        BY OneMore
      <3>2. Len(Append(world.journal, e)) = Len(world.journal) + 1 /\ Append(world.journal, e) # <<>>
        BY <2>5, <3>1
      <3>3. QED
        BY <1>1, <3>2
    <2>11. RoomsAfter(draft, e, n) = RoomsAfter(world, e, n)
      BY <1>1 DEF RoomsAfter
    <2> HIDE DEF n
    <2>12. /\ draft'.journal = draft.journal /\ draft'.rows = rows /\ draft'.schema = schema
           /\ draft'.receipts = draft.receipts \o ReceiptsOfCommand(e, n)
           /\ draft'.rooms = RoomsAfter(draft, e, n)
      BY <2>1
    <2>13. /\ draft'.journal = Append(world.journal, e) /\ draft'.journal # <<>>
           /\ draft'.rows = Effect(world.rows, e) /\ draft'.schema = "passages"
           /\ draft'.receipts = world.receipts \o ReceiptsOfCommand(e, Len(world.journal) + 1)
           /\ draft'.rooms = RoomsAfter(world, e, Len(world.journal) + 1)
      BY <1>1, <2>7, <2>9, <2>10, <2>11, <2>12
    <2>14. Good(draft')
      BY <2>3, <2>4, <2>5, <2>8, <2>13, GoodOfOneMore
    <2>15. draft'.rows.gen >= world.rows.gen /\ (j.path # "boot" => Verified(draft', j.version))
      BY <1>1, <2>3, <2>5, <2>13, <2>14, ErrandIsRun
    <2>16. store'[p] = s
      BY <2>1 DEF Becomes, WorldInv
    <2>17. store'[p].job = j /\ world' = world
      BY <2>1, <2>2, <2>16
    <2>18. Written(store[p].job)'
      BY <2>13, <2>14, <2>15, <2>17 DEF Written
    <2>19. Works(p)'
      <3>1. Errand(store[p].job)'
        BY <1>1, <2>17 DEF Errand
      <3>2. JobShaped(store'[p].job)
        BY <1>1, <2>17
      <3>3. /\ store'[p].version \in 2..Top /\ store'[p].grown \in Nat
            /\ p = Hub => store'[p].version = Top
            /\ store'[p].pc = "projected"
        BY <2>2, <2>16, StoreFacts
      <3>4. QED
        BY <2>18, <3>1, <3>2, <3>3 DEF Works, Fares
    <2>20. QED
      BY <1>1, <2>1, <2>19, WorldAsItWas, WorldGoesOn
  <1>4. QED
    BY <1>2, <1>3

LEMMA FinishStands ==
  ASSUME WorldInv, StandInv, NEW p \in Store, Finish(p)
  PROVE  StandInv'
  <1>1. lock = p /\ OneEntryMore(world, draft) /\ Written(store[p].job)
    BY DEF WorldInv, Transaction, Finish, At, StandInv, Works, Fares
  <1>2. CASE Abort(p)
    BY <1>1, <1>2, AbortStands
  <1>3. CASE ~Abort(p)
    <2> DEFINE s == Resume(p, After(p, TRUE))
    <2>1. world' = draft /\ Becomes(p, s)
      BY <1>3 DEF Finish
    <2>2. /\ s.pc \notin Busy /\ s.version \in 2..Top /\ s.grown \in Nat
          /\ p = Hub => s.version = Top
      BY ResumedFields
    <2> HIDE DEF s
    <2>3. Good(world') /\ world'.schema = "passages" /\ world'.rows.gen >= world.rows.gen
      BY <1>1, <2>1 DEF Written
    <2>4. Len(world'.journal) = Len(world.journal) + 1
      <3>1. PICK e : draft.journal = Append(world.journal, e)
        BY <1>1 DEF OneEntryMore
      <3>2. world.journal \in Seq(Event)
        BY GoodFacts DEF StandInv
      <3>3. Len(Append(world.journal, e)) = Len(world.journal) + 1
        BY <3>2, OneMore
      <3>4. QED
        BY <2>1, <3>1, <3>3
    <2>5. Onward
      BY <2>3, <2>4 DEF Onward
    <2>6. store'[p] = s
      BY <2>1 DEF Becomes, WorldInv
    <2>7. Works(p)'
      BY <2>2, <2>3, <2>6 DEF Works, Fares, Busy
    <2>8. QED
      BY <1>1, <2>1, <2>5, <2>7, WorldGoesOn
  <1>4. QED
    BY <1>2, <1>3

-----------------------------------------------------------------------------
(* What stands *)

LEMMA InitStands == Init => StandInv
  <1>1. SUFFICES ASSUME Init
                 PROVE  StandInv
    OBVIOUS
  <1>2. ASSUME world = NoWorld
        PROVE  Good(world) /\ (world.rows.gen > 1 => world.schema = "passages")
    <2>1. /\ world.journal = <<>> /\ world.receipts = <<>> /\ world.rooms = {} /\ world.rows = NoRows
      BY <1>2 DEF NoWorld
    <2>2. OlderJournal(0) = <<>> /\ OlderRows(0) = NoRows /\ NoRows.gen = 0
      BY DEF OlderJournal, OlderRows, NoRows
    <2>3. 0 \in 0..Top
      BY TopAssumption
    <2>4. Good(world)
      BY <2>1, <2>2, <2>3, OlderIsGood
    <2>5. QED
      BY <2>1, <2>2, <2>4
  <1>3. ASSUME NEW g \in 1..Top, NEW R \in OlderReceipts(g), world = Older(g, R)
        PROVE  Good(world) /\ (world.rows.gen > 1 => world.schema = "passages")
    <2>1. /\ world.journal = OlderJournal(g) /\ world.rows = OlderRows(g)
          /\ world.receipts = <<>> /\ world.rooms = R
          /\ world.schema = IF g = 1 THEN "journal" ELSE "passages"
      BY <1>3 DEF Older, OlderJournal, OlderRows
    <2>2. \A r \in R : ~r.revises /\ r.room # "spotlight"
      BY DEF OlderReceipts
    <2>3. g \in 0..Top
      BY TopAssumption
    <2>4. Good(world)
      BY <2>1, <2>2, <2>3, OlderIsGood
    <2>5. OlderRows(g).gen = g
      BY DEF OlderRows, NoRows
    <2>6. QED
      BY <2>1, <2>4, <2>5
  <1>4. Good(world) /\ (world.rows.gen > 1 => world.schema = "passages")
    <2>1. ASSUME NEW g \in 1..Top, world \in {Older(g, r) : r \in OlderReceipts(g)}
          PROVE  Good(world) /\ (world.rows.gen > 1 => world.schema = "passages")
      BY <2>1, <1>3
    <2>2. QED
      BY <1>1, <1>2, <2>1 DEF Init
  <1>5. ASSUME NEW p \in Store
        PROVE  Works(p)
    <2>1. store[p] = Closed
      BY <1>1 DEF Init
    <2>2. QED
      BY <2>1, ClosedFares DEF Works
  <1>6. QED
    BY <1>4, <1>5 DEF StandInv

LEMMA EveryStepStands ==
  ASSUME WorldInv, StandInv, [Next]_vars
  PROVE  StandInv'
  <1>1. CASE CheckIn \/ Own \/ Command
    BY <1>1, CheckInStands, OwnStands, CommandStands
  <1>2. ASSUME NEW p \in Store,
               \/ Open(p) \/ InstallSchema(p) \/ InstallPassages(p) \/ Grow(p) \/ Grown(p)
               \/ Migrate(p) \/ Revise(p) \/ GiveUp(p)
        PROVE  StandInv'
    BY <1>2, OpenStands, SchemaStands, BootstrapStands, MigrateStands, ReviseStands, GiveUpStands
  <1>3. ASSUME NEW p \in Store, Begin(p) \/ Insert(p) \/ Project(p) \/ Finish(p) \/ Die(p)
        PROVE  StandInv'
    BY <1>3, BeginStands, InsertStands, ProjectStands, FinishStands, DeathStands
  <1>4. CASE UNCHANGED vars
    <2>1. world' = world /\ draft' = draft /\ store' = store
      BY <1>4 DEF vars
    <2>2. \A p \in Store : Works(p)'
      BY <2>1 DEF StandInv, Works, Fares, Errand, Timely, Entered, Written
    <2>3. QED
      BY <2>1, <2>2 DEF StandInv
  <1>5. QED
    BY <1>1, <1>2, <1>3, <1>4 DEF Next

\* Whatever the Hub, the scripts and their deaths do, the committed World is good:
\* its revisions count its events, its projection is the replay of its journal, its
\* receipts pair its commands and its rooms; and what each process has prepared or
\* written is the right next event of it, or one the trigger or the projection will
\* refuse (`_appendPhysicalEvent`, verifyWorldSqlite, `_materializeProjection`).
THEOREM WorldsStand == Spec => [](WorldInv /\ StandInv)
  <1>1. Init => WorldInv /\ StandInv
    BY InitHolds, InitStands
  <1>2. WorldInv /\ StandInv /\ [Next]_vars => WorldInv' /\ StandInv'
    BY EveryStepIsSound, EveryStepStands DEF Sound
  <1>3. QED
    BY <1>1, <1>2, PTL DEF Spec

\* Every World a transaction has left is whole, for any number of scripts,
\* generations and events: its journal starts at its one root, every aggregate's
\* revisions are contiguous, each command's event has its one action receipt and the
\* projection is the replay (verifyWorldSqlite, `transaction`).
THEOREM CommittedWorldsHold == Spec => []CommittedWorldHolds
  <1>1. StandInv => CommittedWorldHolds
    BY DEF StandInv, Good, RevisionsHold, RowsTell, CustodyHolds, CommittedWorldHolds
  <1>2. QED
    BY <1>1, WorldsStand, PTL

\* The verification before COMMIT never refuses lawful work: what was verified,
\* prepared at the head and let through by the trigger verifies again, so no timer,
\* approval or migration is lost to what the store itself wrote
\* (aggregateRevision, `_materializeProjection`, actionReceipt).
THEOREM LawfulWorkAlwaysVerifies == Spec => []LawfulWorkVerifies
  <1>1. StandInv => LawfulWorkVerifies
    BY DEF StandInv, Works, Fares, Written, LawfulWorkVerifies, At
  <1>2. QED
    BY <1>1, WorldsStand, PTL

\* A room's receipts never contradict the journal.
LEMMA RoomsAreNotCorrupt ==
  ASSUME NEW db, RoomsHold(db), NEW room \in Room
  PROVE  RoomStatus(db, room) # "corrupt"
  <1> DEFINE exact == {r \in ReceiptsOf(db, room) : r.package = Package}
             revisions == {i \in DOMAIN db.journal : db.journal[i].of = Installation(room)}
  <1>1. \A r \in exact : IF r.revises THEN r.event \in revisions
                         ELSE room = "spotlight" => r.event = Anchor(db, room)
    BY DEF RoomsHold, ReceiptsOf
  <1>2. \A i \in revisions : Paired(db, room, i)
    BY DEF RoomsHold
  <1> HIDE DEF exact, revisions
  <1>3. RoomStatus(db, room) = CASE Anchor(db, room) = 0 -> "missing_topology"
          [] Anchor(db, room) # 0 /\ exact # {} ->
               IF \A r \in exact : IF r.revises THEN r.event \in revisions
                                   ELSE room = "spotlight" => r.event = Anchor(db, room)
               THEN "current" ELSE "corrupt"
          [] Anchor(db, room) # 0 /\ ReceiptsOf(db, room) = {} -> "missing_original_receipt"
          [] OTHER -> IF \A i \in revisions : Paired(db, room, i) THEN "upgrade_required" ELSE "corrupt"
    BY DEF RoomStatus, exact, revisions
  <1>4. QED
    BY <1>1, <1>2, <1>3

LEMMA UpgradeIs ==
  ASSUME NEW db, NEW g, NEW n, g - 1 = n, Verified(db, n), ~Verified(db, g)
  PROVE  UpgradeRequired(db, g)
  BY DEF UpgradeRequired

\* No death strands a World past its root: it verifies at the last generation or the
\* next migration accepts it, and no room is left with a revision that has no receipt
\* (inspectTopologyUpgrade, inspectWorkshopInstallationUpgrade,
\* appendRoomInstallationRevisionEvent).
THEOREM NoWorldIsStranded == Spec => []NeverStranded
  <1>1. StandInv => NeverStranded
    <2> SUFFICES ASSUME StandInv, world.rows.gen > 1
                 PROVE  /\ Verified(world, Top) \/ \E g \in 3..Top : UpgradeRequired(world, g)
                        /\ \A room \in Room : RoomStatus(world, room) # "corrupt"
      BY DEF NeverStranded
    <2> DEFINE n == world.rows.gen
    <2>1. Good(world) /\ n \in 2..Top /\ world.journal # <<>> /\ world.schema = "passages"
      BY GoodFacts DEF StandInv
    <2>2. \A room \in Room : RoomStatus(world, room) # "corrupt"
      BY <2>1, RoomsAreNotCorrupt DEF Good
    <2> HIDE DEF n
    <2>3. n \in Admits(n) /\ n = world.rows.gen
      BY DEF Admits, n
    <2>4. Verified(world, n)
      BY <2>1, <2>3, GoodVerifies
    <2>5. CASE n = Top
      BY <2>2, <2>4, <2>5
    <2>6. CASE n # Top
      <3>1. n + 1 \in 3..Top /\ n + 1 - 1 = n /\ Top \in Nat
        BY <2>1, <2>6, TopAssumption
      <3>2. n \notin Admits(n + 1)
        BY <2>1, <3>1 DEF Admits
      <3>3. ~Verified(world, n + 1)
        BY <2>3, <3>2 DEF Verified
      <3> DEFINE m == n + 1
      <3>4. m - 1 = n
        BY <2>1
      <3>5. ~Verified(world, m)
        BY <3>3
      <3> HIDE DEF m
      <3>6. UpgradeRequired(world, m)
        BY <2>4, <3>4, <3>5, UpgradeIs
      <3>7. QED
        BY <2>2, <3>1, <3>6 DEF m
    <2>7. QED
      BY <2>5, <2>6
  <1>2. QED
    BY <1>1, WorldsStand, PTL

=============================================================================
