--------------------------- MODULE ExchangeProofs ---------------------------
(***************************************************************************)
(* The records of a provider crossing agree, for any number of requests,   *)
(* channels, refused writes and deaths of the process.  The inductive      *)
(* invariant says what the Spine's file and its copy in memory have to do  *)
(* with each other, where the running phase stands, and what each record   *)
(* may say of a request at that point.  A message announced as ready was   *)
(* published whole: what the stream tells of a request, followed by what   *)
(* is still pending, is what its collector took.                           *)
(***************************************************************************)
EXTENDS ProviderPhase, TLAPS, SequenceTheorems, WellFoundedInduction

-----------------------------------------------------------------------------
(* Induction on the naturals, with a set in place of a predicate *)

\* A set of naturals that is not empty has a least element.
LEMMA LeastOfNats ==
  ASSUME NEW T, T \subseteq Nat, T # {}
  PROVE  \E n \in T : \A m \in T : n <= m
  <1> DEFINE R == OpToRel(<, Nat)
  <1>1. IsWellFoundedOn(R, Nat)
    BY NatLessThanWellFounded
  <1>2. \A x, y \in Nat : <<y, x>> \in R <=> y < x
    BY DEF OpToRel
  <1> HIDE DEF R
  <1>3. PICK x \in T : \A y \in T : ~(<<y, x>> \in R)
    BY <1>1, WFMin
  <1>4. ASSUME NEW y \in T PROVE x <= y
    <2>1. x \in Nat /\ y \in Nat
      OBVIOUS
    <2>2. ~(y < x)
      BY <1>2, <1>3, <2>1
    <2>3. QED
      BY <2>1, <2>2
  <1>5. QED
    BY <1>4

\* A set with zero in it and with the successor of each of its numbers holds them all.
LEMMA NatsByInduction ==
  ASSUME NEW S, 0 \in S, \A n \in Nat : n \in S => n + 1 \in S
  PROVE  \A n \in Nat : n \in S
  <1> SUFFICES ASSUME Nat \ S # {} PROVE FALSE
    OBVIOUS
  <1>1. PICK n \in Nat \ S : \A m \in Nat \ S : n <= m
    BY LeastOfNats
  <1>2. n # 0 /\ n - 1 \in Nat
    BY <1>1
  <1>3. n - 1 \in S
    BY <1>1, <1>2
  <1>4. QED
    BY <1>1, <1>2, <1>3

\* The same up to a bound.
LEMMA IntervalByInduction ==
  ASSUME NEW N \in Nat, NEW S, 0 \in S, \A n \in 0..N : n < N /\ n \in S => n + 1 \in S
  PROVE  \A n \in 0..N : n \in S
  <1> DEFINE T == { n \in Nat : n <= N => n \in S }
  <1>1. 0 \in T
    OBVIOUS
  <1>2. \A n \in Nat : n \in T => n + 1 \in T
    OBVIOUS
  <1> HIDE DEF T
  <1>3. \A n \in Nat : n \in T
    BY <1>1, <1>2, NatsByInduction
  <1>4. QED
    BY <1>3 DEF T

-----------------------------------------------------------------------------

PhaseRecord ==
  [req : Request \cup {NoRequest}, dispatched : BOOLEAN, raw : BOOLEAN,
   outcome : Code \cup {NoCode}, aborted : BOOLEAN, answer : {"none", "error", "value"},
   pending : Seq(Fragment), offered : Seq(Fragment), hushed : SUBSET Channel, failed : BOOLEAN]
StreamEvent == [kind : {"started", "delta", "ready"}, req : Request,
                frags : Seq(Fragment), omitted : BOOLEAN]

RowRecord == [stage : {"none", "open", "done"}, outcome : Code \cup {NoCode}, response : BOOLEAN]
Places == {"idle", "prepared", "recorded", "cast", "announced", "dispatching", "awaiting", "landed",
           "returned", "rowed", "sealed", "failing", "caught", "closing"}

Shape ==
  /\ rows \in [Request -> RowRecord] /\ exposure \in [Request -> Disposition]
  /\ adapter \in [Request -> {"none", "calling", "broken", "silent", "done"}]
  /\ stream \in Seq(StreamEvent) /\ open \subseteq Request /\ pc \in Places
  /\ here \in PhaseRecord /\ Len(here.pending) < MaxFragments
  /\ closing \in BOOLEAN /\ up \in BOOLEAN /\ faults \in Nat /\ crashes \in Nat
  /\ pc # "idle" => here.req \in Request

\* The file is torn for good, or holds exactly what the store holds.
SpineInv ==
  /\ SpineTypeOK
  /\ EndsTorn(file) \/ ((\A i \in DOMAIN file : file[i].whole) /\ Frames(file) = held)

\* Before an abort can be heard, and after an answer was accepted
Unaborted == {"prepared", "recorded", "cast", "announced", "dispatching", "returned", "rowed", "sealed"}

\* Where the running phase stands.
RunLocal ==
  /\ open \subseteq {here.req}
  /\ open # {} => pc \in {"dispatching", "awaiting", "landed"}
  /\ here.pending # <<>> => here.dispatched
  /\ pc = "awaiting" /\ adapter[here.req] \in {"calling", "broken"} => here.dispatched
  /\ pc \in Unaborted \/ (pc = "landed" /\ here.answer = "value") => ~here.aborted

\* What the records say of the running phase's request.
RunRecords ==
  /\ pc = "dispatching" => Has(held, here.req, "dispatched")
  /\ pc \in {"rowed", "closing"} => rows[here.req].outcome = here.outcome
  /\ pc # "idle" =>
       /\ Has(held, here.req, "raw") \/ Streamed(stream, here.req) => here.dispatched
       /\ exposure[here.req] = "never_dispatched" => pc \in {"caught", "closing"}
       /\ pc # "prepared" => rows[here.req].stage # "none"
       /\ \A f \in Seen(held, here.req) : f.kind = "outcome" =>
            /\ pc \in {"sealed", "failing", "caught", "closing"}
            /\ f.code = here.outcome /\ ~here.aborted

RunInv == RunLocal /\ RunRecords

\* What the records say of every request.
RecordOf(r) ==
    /\ \A f \in Seen(held, r) : f.kind = "outcome" => rows[r].outcome = f.code
    /\ exposure[r] = "presented" => Has(held, r, "dispatched")
    /\ exposure[r] = "never_dispatched" => ~Has(held, r, "raw") /\ ~Streamed(stream, r)
    /\ rows[r].stage = "none" => exposure[r] = "none" /\ ~Streamed(stream, r)
RecordsInv == \A r \in Request : RecordOf(r)

\* A step leaves what the records say of r as it was.
Same(r) ==
  /\ Seen(held', r) = Seen(held, r) /\ rows'[r] = rows[r] /\ exposure'[r] = exposure[r]
  /\ \A i \in DOMAIN stream' : stream'[i].req = r => i \in DOMAIN stream /\ stream'[i] = stream[i]
Sealed == \A r \in Request : ~Running(r) /\ ~Running(r)' => Same(r)

ExchangeInv == Shape /\ SpineInv /\ RunInv /\ RecordsInv

-----------------------------------------------------------------------------
(* The Spine *)

LEMMA SeenAppended ==
  ASSUME NEW log \in Seq(Frame), NEW f \in Frame, NEW r
  PROVE  Seen(Append(log, f), r) = IF f.req = r THEN Seen(log, r) \cup {f} ELSE Seen(log, r)
  <1>1. /\ Len(Append(log, f)) = Len(log) + 1 /\ Append(log, f)[Len(log) + 1] = f
        /\ \A i \in 1..Len(log) : Append(log, f)[i] = log[i]
        /\ Append(log, f) \in Seq(Frame) /\ Len(log) \in Nat
    BY AppendProperties
  <1>2. DOMAIN log = 1..Len(log) /\ DOMAIN Append(log, f) = 1..Len(log) + 1
    BY <1>1, LenProperties
  <1>3. {Append(log, f)[i] : i \in DOMAIN Append(log, f)} = {log[i] : i \in DOMAIN log} \cup {f}
    BY <1>1, <1>2
  <1>4. QED
    BY <1>3 DEF Seen

LEMMA WrittenIsSound ==
  ASSUME SpineInv, NEW f \in Frame, AppendFrame(f)
  PROVE  SpineInv' /\ held' = Append(held, f) /\ Lawful(held, f)
  <1>1. held' = Append(held, f) /\ Lawful(held, f) /\ file' = Written(file, f)
    BY DEF AppendFrame
  <1>2. held \in Seq(Frame) /\ file \in Seq(Line) /\ held' \in Seq(Frame)
    BY <1>1, AppendProperties DEF SpineInv, SpineTypeOK
  <1>3. CASE EndsTorn(file)
    BY <1>1, <1>2, <1>3 DEF SpineInv, SpineTypeOK, Written, EndsTorn
  <1>4. CASE ~EndsTorn(file)
    <2> DEFINE line == [frame |-> f, whole |-> TRUE]
    <2>1. line \in Line
      BY DEF Line
    <2>2. file' = Append(file, line)
      BY <1>1, <1>4 DEF Written
    <2>3. /\ file' \in Seq(Line) /\ Len(file') = Len(file) + 1 /\ file'[Len(file) + 1] = line
          /\ \A i \in 1..Len(file) : file'[i] = file[i]
      BY <1>2, <2>1, <2>2, AppendProperties
    <2>4. /\ DOMAIN file = 1..Len(file) /\ Len(file) \in Nat
          /\ DOMAIN file' = 1..Len(file) + 1 /\ DOMAIN held = 1..Len(held) /\ Len(held) \in Nat
      BY <1>2, <2>3, LenProperties
    <2>5. (\A i \in DOMAIN file : file[i].whole) /\ Frames(file) = held
      BY <1>4 DEF SpineInv
    <2>6. Len(held) = Len(file) /\ \A i \in 1..Len(file) : held[i] = file[i].frame
      <3>1. DOMAIN held = DOMAIN file /\ \A i \in DOMAIN file : held[i] = file[i].frame
        BY <2>5 DEF Frames
      <3>2. Len(held) <= Len(file) /\ Len(file) <= Len(held)
        BY <2>4, <3>1
      <3>3. Len(held) = Len(file)
        <4>1. \A a, b \in Nat : a <= b /\ b <= a => a = b
          OBVIOUS
        <4>2. Len(held) \in Nat /\ Len(file) \in Nat
          BY <2>4
        <4>3. QED
          BY <3>2, <4>1, <4>2
      <3>4. \A i \in 1..Len(file) : held[i] = file[i].frame
        BY <2>4, <3>1
      <3>5. QED
        BY <3>3, <3>4
    <2>7. \A i \in DOMAIN file' : file'[i].whole
      BY <2>3, <2>4, <2>5
    <2>8. Frames(file') = held'
      <3>1. /\ Len(held') = Len(held) + 1 /\ held'[Len(held) + 1] = f
            /\ \A i \in 1..Len(held) : held'[i] = held[i]
        BY <1>1, <1>2, AppendProperties
      <3>2. DOMAIN held' = DOMAIN file'
        BY <1>2, <2>4, <2>6, <3>1, LenProperties
      <3>3. \A i \in DOMAIN file' : held'[i] = file'[i].frame
        BY <2>3, <2>4, <2>6, <3>1
      <3>4. held' = [i \in DOMAIN held' |-> held'[i]]
        BY <1>2
      <3>5. QED
        BY <3>2, <3>3, <3>4 DEF Frames
    <2>9. QED
      BY <1>1, <1>2, <2>3, <2>7, <2>8 DEF SpineInv, SpineTypeOK
  <1>5. QED
    BY <1>1, <1>3, <1>4

LEMMA TornIsTorn ==
  ASSUME file \in Seq(Line), NEW f \in Frame
  PROVE  Torn(file, f) \in Seq(Line) /\ EndsTorn(Torn(file, f)) /\ ~Readable(Torn(file, f))
  <1> DEFINE line == [frame |-> f, whole |-> FALSE]
  <1>1. line \in Line
    BY DEF Line
  <1>2. /\ Append(file, line) \in Seq(Line) /\ Len(Append(file, line)) = Len(file) + 1
        /\ Append(file, line)[Len(file) + 1] = line /\ Len(file) \in Nat
    BY <1>1, AppendProperties
  <1>3. Torn(file, f) \in Seq(Line) /\ EndsTorn(Torn(file, f))
    BY <1>2 DEF Torn, EndsTorn
  <1>4. Len(Torn(file, f)) \in DOMAIN Torn(file, f)
    BY <1>3, LenProperties DEF EndsTorn
  <1>5. QED
    BY <1>3, <1>4 DEF Readable, EndsTorn

LEMMA RefusedIsSound ==
  ASSUME SpineInv, NEW f \in Frame, AppendFails(f)
  PROVE  SpineInv' /\ held' = held
  <1>1. held' = held /\ file' \in {file, Torn(file, f)}
    BY DEF AppendFails
  <1>2. QED
    BY <1>1, TornIsTorn DEF SpineInv, SpineTypeOK

\* A restart finds the history it left, or does not start.
LEMMA RestartsIsSound ==
  ASSUME SpineInv, NEW lines, Restarts(lines),
         lines = file \/ \E f \in Frame : lines = Torn(file, f)
  PROVE  SpineInv' /\ held' = held
  <1>1. file' = lines /\ (IF Readable(lines) THEN held' = Frames(lines) ELSE held' = held)
    BY DEF Restarts
  <1>2. CASE Readable(lines)
    <2>1. lines = file
      BY <1>2, TornIsTorn DEF SpineInv, SpineTypeOK
    <2>2. ~EndsTorn(file)
      <3>1. file \in Seq(Line)
        BY DEF SpineInv, SpineTypeOK
      <3>2. SUFFICES ASSUME EndsTorn(file)
                     PROVE  FALSE
        OBVIOUS
      <3>3. Len(file) \in DOMAIN file
        BY <3>1, <3>2, LenProperties DEF EndsTorn
      <3>4. QED
        BY <1>2, <2>1, <3>2, <3>3 DEF Readable, EndsTorn
    <2>3. held' = held
      BY <1>1, <1>2, <2>1, <2>2 DEF SpineInv
    <2>4. QED
      BY <1>1, <2>1, <2>3 DEF SpineInv, SpineTypeOK
  <1>3. CASE ~Readable(lines)
    <2>1. held' = held
      BY <1>1, <1>3
    <2>2. QED
      BY <1>1, <2>1, TornIsTorn DEF SpineInv, SpineTypeOK
  <1>4. QED
    BY <1>2, <1>3

LEMMA UntouchedSpine ==
  ASSUME SpineInv, UNCHANGED spineVars
  PROVE  SpineInv' /\ held' = held
  BY DEF SpineInv, SpineTypeOK, spineVars, EndsTorn, Frames

LEMMA InvReadsBack == SpineInv => SpineReadsBack
  <1>1. SUFFICES ASSUME SpineInv, Readable(file)
                 PROVE  Frames(file) = held
    BY DEF SpineReadsBack
  <1>2. ASSUME EndsTorn(file)
        PROVE  FALSE
    <2>1. Len(file) \in DOMAIN file
      BY <1>1, <1>2, LenProperties DEF EndsTorn, SpineInv, SpineTypeOK
    <2>2. QED
      BY <1>1, <1>2, <2>1 DEF Readable, EndsTorn
  <1>3. QED
    BY <1>1, <1>2 DEF SpineInv

-----------------------------------------------------------------------------
(* What a step does to the records *)

LEMMA SameIsKept ==
  ASSUME NEW r \in Request, RecordOf(r), Same(r)
  PROVE  RecordOf(r)'
  <1>1. \A kind : Has(held', r, kind) <=> Has(held, r, kind)
    BY DEF Same, Has
  <1>2. Streamed(stream', r) => Streamed(stream, r)
    BY DEF Same, Streamed
  <1>3. QED
    BY <1>1, <1>2 DEF Same, RecordOf

\* Only the running phase's own request is touched.
LEMMA OneIsTouched ==
  ASSUME ExchangeInv, pc # "idle", here'.req = here.req,
         \A r \in Request \ {here.req} : Same(r), RecordOf(here.req)'
  PROVE  RecordsInv' /\ Sealed
  BY SameIsKept DEF ExchangeInv, RecordsInv, Sealed, Running

LEMMA NoneIsTouched ==
  ASSUME ExchangeInv, held' = held, UNCHANGED storeVars
  PROVE  RecordsInv' /\ Sealed
  <1>1. \A r \in Request : Same(r)
    BY DEF Same, storeVars
  <1>2. QED
    BY <1>1, SameIsKept DEF ExchangeInv, RecordsInv, Sealed

LEMMA StreamedAppended ==
  ASSUME NEW s \in Seq(StreamEvent), NEW e \in StreamEvent, NEW r
  PROVE  /\ Append(s, e) \in Seq(StreamEvent)
         /\ Streamed(Append(s, e), r) <=> Streamed(s, r) \/ (e.kind = "delta" /\ e.req = r)
         /\ e.req # r => \A i \in DOMAIN Append(s, e) :
                           Append(s, e)[i].req = r => i \in DOMAIN s /\ Append(s, e)[i] = s[i]
  <1>1. /\ Append(s, e) \in Seq(StreamEvent) /\ Len(Append(s, e)) = Len(s) + 1
        /\ Append(s, e)[Len(s) + 1] = e /\ \A i \in 1..Len(s) : Append(s, e)[i] = s[i]
    BY AppendProperties
  <1>2. Len(s) \in Nat /\ DOMAIN s = 1..Len(s) /\ DOMAIN Append(s, e) = 1..Len(s) + 1
    BY <1>1, LenProperties
  <1>3. \A i \in DOMAIN Append(s, e) : i \in DOMAIN s \/ i = Len(s) + 1
    BY <1>2
  <1>4. DOMAIN s \subseteq DOMAIN Append(s, e) /\ Len(s) + 1 \in DOMAIN Append(s, e)
    BY <1>2
  <1>5. \A i \in DOMAIN s : Append(s, e)[i] = s[i]
    BY <1>1, <1>2
  <1>6. QED
    BY <1>1, <1>3, <1>4, <1>5 DEF Streamed

-----------------------------------------------------------------------------
(* Before the crossing *)

LEMMA RecordRowIsSound ==
  ASSUME ExchangeInv, RecordRow
  PROVE  ExchangeInv' /\ Sealed
  <1>1. SpineInv' /\ held' = held
    BY UntouchedSpine DEF ExchangeInv, RecordRow
  <1>2. pc = "prepared" /\ pc' = "recorded" /\ here.req \in Request
    BY DEF ExchangeInv, Shape, RecordRow, At, Goto
  <1>3. Shape'
    BY <1>2 DEF ExchangeInv, Shape, RecordRow, RowRecord, Row, Places, lifeVars
  <1>4. RunInv'
    BY <1>1, <1>2 DEF ExchangeInv, Shape, RunInv, RunLocal, RunRecords, RecordRow, Row, Unaborted, RowRecord
  <1>5. RecordOf(here.req)'
    BY <1>1, <1>2 DEF ExchangeInv, Shape, RunInv, RunLocal, RunRecords, RecordsInv, RecordOf, RecordRow, Row
  <1>6. \A r \in Request \ {here.req} : Same(r)
    BY <1>1 DEF ExchangeInv, Shape, Same, RecordRow
  <1>7. QED
    BY <1>1, <1>2, <1>3, <1>4, <1>5, <1>6, OneIsTouched DEF ExchangeInv, RecordRow

LEMMA CastGlassIsSound ==
  ASSUME ExchangeInv, CastGlass
  PROVE  ExchangeInv' /\ Sealed
  <1>1. SpineInv' /\ held' = held
    BY UntouchedSpine DEF ExchangeInv, CastGlass
  <1>2. pc = "recorded" /\ pc' \in {"cast", "idle"} /\ here.req \in Request
    BY DEF ExchangeInv, Shape, CastGlass, At, Goto
  <1>3. exposure' \in {exposure, [exposure EXCEPT ![here.req] = "prepared"]} /\ faults' \in {faults, faults + 1}
    BY DEF CastGlass, Fault, Keeps
  <1>4. Shape'
    BY <1>2, <1>3 DEF ExchangeInv, Shape, CastGlass, Disposition, Places, lifeVars
  <1>5. RunInv'
    BY <1>1, <1>2, <1>3 DEF ExchangeInv, Shape, RunInv, RunLocal, RunRecords, CastGlass, Unaborted, Disposition
  <1>6. RecordOf(here.req)'
    BY <1>1, <1>2, <1>3 DEF ExchangeInv, Shape, RunInv, RunLocal, RunRecords, RecordsInv, RecordOf, CastGlass
  <1>7. \A r \in Request \ {here.req} : Same(r)
    BY <1>1, <1>3 DEF ExchangeInv, Shape, Same, CastGlass
  <1>8. QED
    BY <1>1, <1>2, <1>4, <1>5, <1>6, <1>7, OneIsTouched DEF ExchangeInv, CastGlass

LEMMA AnnounceIsSound ==
  ASSUME ExchangeInv, Announce
  PROVE  ExchangeInv' /\ Sealed
  <1> DEFINE e == Event("started", here.req)
  <1>1. SpineInv' /\ held' = held
    BY UntouchedSpine DEF ExchangeInv, Announce
  <1>2. pc = "cast" /\ pc' \in {"announced", "idle"} /\ here.req \in Request
    BY DEF ExchangeInv, Shape, Announce, At, Goto
  <1>3. stream' \in {stream, Append(stream, e)} /\ faults' \in {faults, faults + 1}
    BY DEF Announce, Fault, Keeps
  <1>4. e \in StreamEvent /\ e.kind = "started" /\ e.req = here.req
    BY <1>2 DEF StreamEvent, Event
  <1>5. /\ stream' \in Seq(StreamEvent)
        /\ \A r : Streamed(stream', r) => Streamed(stream, r)
        /\ \A r \in Request \ {here.req} : Same(r)
    <2>1. CASE stream' = stream
      BY <1>1, <2>1 DEF ExchangeInv, Shape, Same, Announce
    <2>2. CASE stream' = Append(stream, e)
      <3> HIDE DEF e
      <3>1. stream \in Seq(StreamEvent)
        BY DEF ExchangeInv, Shape
      <3>2. /\ stream' \in Seq(StreamEvent)
            /\ \A r : Streamed(stream', r) => Streamed(stream, r)
        BY <1>4, <2>2, <3>1, StreamedAppended
      <3>3. \A r \in Request \ {here.req}, i \in DOMAIN stream' :
              stream'[i].req = r => i \in DOMAIN stream /\ stream'[i] = stream[i]
        BY <1>4, <2>2, <3>1, StreamedAppended
      <3>4. QED
        BY <1>1, <3>2, <3>3 DEF Same, Announce
    <2>3. QED
      BY <1>3, <2>1, <2>2
  <1>6. Shape'
    BY <1>2, <1>3, <1>5 DEF ExchangeInv, Shape, Announce, Places, lifeVars
  <1>7. RunInv'
    BY <1>1, <1>2, <1>5 DEF ExchangeInv, RunInv, RunLocal, RunRecords, Announce, Unaborted
  <1>8. RecordOf(here.req)'
    BY <1>1, <1>2, <1>5 DEF ExchangeInv, RunInv, RunLocal, RunRecords, RecordsInv, RecordOf, Announce
  <1>9. QED
    BY <1>1, <1>2, <1>5, <1>6, <1>7, <1>8, OneIsTouched DEF ExchangeInv, Announce

LEMMA PresentIsSound ==
  ASSUME ExchangeInv, Present
  PROVE  ExchangeInv' /\ Sealed
  <1>1. SpineInv' /\ held' = held
    BY UntouchedSpine DEF ExchangeInv, Present
  <1>2. pc = "dispatching" /\ pc' \in {"awaiting", "landed"} /\ here.req \in Request
    BY DEF ExchangeInv, Shape, Present, At, Goto
  <1>3. /\ exposure' \in {exposure, [exposure EXCEPT ![here.req] = "presented"]}
        /\ faults' \in {faults, faults + 1}
    BY DEF Present, Presented, Fault, Keeps
  <1>4. here' \in PhaseRecord /\ (pc' = "landed" \/ here'.dispatched)
    BY DEF ExchangeInv, Shape, Present, PhaseRecord, Goto
  <1>5. /\ here'.req = here.req /\ here'.pending = here.pending /\ here'.aborted = here.aborted
        /\ here'.answer = here.answer /\ here'.outcome = here.outcome
        /\ here.dispatched => here'.dispatched
    BY DEF ExchangeInv, Shape, Present, PhaseRecord
  <1>6. adapter' \in [Request -> {"none", "calling", "broken", "silent", "done"}]
    BY DEF ExchangeInv, Shape, Present
  <1>7. Shape'
    <2>1. UNCHANGED <<rows, stream, open, closing, up, crashes>> /\ pc' \in Places /\ faults' \in Nat
      BY <1>2, <1>3 DEF ExchangeInv, Shape, Present, Places, lifeVars
    <2>2. exposure' \in [Request -> Disposition]
      BY <1>2, <1>3 DEF ExchangeInv, Shape, Disposition
    <2>3. Len(here'.pending) < MaxFragments /\ here'.req \in Request
      BY <1>2, <1>5 DEF ExchangeInv, Shape
    <2>4. here' \in PhaseRecord
      BY <1>4
    <2>5. QED
      BY <1>6, <2>1, <2>2, <2>3, <2>4 DEF ExchangeInv, Shape
  <1>8. RunInv'
    <2>1. RunLocal'
      BY <1>2, <1>4, <1>5 DEF ExchangeInv, Shape, RunInv, RunLocal, Present, Unaborted
    <2>2. RunRecords'
      BY <1>1, <1>2, <1>3, <1>5 DEF ExchangeInv, Shape, RunInv, RunLocal, RunRecords, Present, Unaborted
    <2>3. QED
      BY <2>1, <2>2 DEF RunInv
  <1>9. RecordOf(here.req)'
    BY <1>1, <1>2, <1>3, <1>5 DEF ExchangeInv, Shape, RunInv, RunLocal, RunRecords, RecordsInv, RecordOf, Present
  <1>10. \A r \in Request \ {here.req} : Same(r)
    BY <1>1, <1>3 DEF ExchangeInv, Shape, Same, Present
  <1>11. QED
    BY <1>1, <1>2, <1>5, <1>7, <1>8, <1>9, <1>10, OneIsTouched DEF ExchangeInv, Present

-----------------------------------------------------------------------------
(* Steps that append to the Spine *)

LEMMA AppendsIsSound ==
  ASSUME SpineInv, NEW f \in Frame, Appends(f)
  PROVE  /\ SpineInv' /\ Lawful(held, f) /\ faults' = faults
         /\ \A r : Seen(held', r) = IF f.req = r THEN Seen(held, r) \cup {f} ELSE Seen(held, r)
  <1>1. SpineInv' /\ held' = Append(held, f) /\ Lawful(held, f)
    BY WrittenIsSound DEF Appends
  <1>2. held \in Seq(Frame)
    BY DEF SpineInv, SpineTypeOK
  <1>3. QED
    BY <1>1, <1>2, SeenAppended DEF Appends, Keeps

LEMMA AppendThrowsIsSound ==
  ASSUME SpineInv, NEW f \in Frame, AppendThrows(f)
  PROVE  SpineInv' /\ held' = held /\ faults' = faults + 1
  BY RefusedIsSound DEF AppendThrows, Fault

\* What the Spine says after f was appended to it, if it was.
SpineTold(f) ==
  \A r : \/ Seen(held', r) = Seen(held, r)
         \/ f.req = r /\ Seen(held', r) = Seen(held, r) \cup {f}

LEMMA FramesAreTyped ==
  ASSUME NEW r \in Request, NEW code \in Code \cup {NoCode}
  PROVE  /\ \A kind \in FrameKind : FrameOf(kind, r) \in Frame
         /\ OutcomeFrame(r, code) \in Frame
  BY DEF FrameOf, OutcomeFrame, Frame, FrameKind

LEMMA DispatchIsSound ==
  ASSUME ExchangeInv, Dispatch
  PROVE  ExchangeInv' /\ Sealed
  <1> DEFINE f == FrameOf("dispatched", here.req)
  <1>1. pc = "announced" /\ here.req \in Request /\ pc' \in {"dispatching", "awaiting", "landed"}
    BY DEF ExchangeInv, Shape, Dispatch, At, Goto
  <1>2. f \in Frame /\ f.kind = "dispatched" /\ f.req = here.req
    BY <1>1, FramesAreTyped DEF FrameOf, FrameKind
  <1>3. UNCHANGED <<rows, exposure, stream, here, closing, up, crashes>> /\ open' = open \cup {here.req}
    BY DEF Dispatch, storeVars, lifeVars
  <1>4. /\ SpineInv' /\ faults' \in {faults, faults + 1} /\ SpineTold(f)
        /\ pc' = "dispatching" => f \in Seen(held', here.req)
    <2>1. CASE Appends(f) /\ Goto("dispatching") /\ UNCHANGED adapter
      <3> HIDE DEF f
      <3>1. /\ SpineInv' /\ faults' = faults
            /\ \A r : Seen(held', r) = IF f.req = r THEN Seen(held, r) \cup {f} ELSE Seen(held, r)
        BY <1>2, <2>1, AppendsIsSound DEF ExchangeInv
      <3>2. SpineTold(f) /\ f \in Seen(held', here.req)
        BY <1>2, <3>1 DEF SpineTold
      <3>3. QED
        BY <3>1, <3>2
    <2>2. CASE AppendThrows(f) /\ Goto("landed")
      <3> HIDE DEF f
      <3>1. SpineInv' /\ held' = held /\ faults' = faults + 1
        BY <1>2, <2>2, AppendThrowsIsSound DEF ExchangeInv
      <3>2. pc' = "landed" /\ SpineTold(f)
        BY <2>2, <3>1 DEF SpineTold, Goto
      <3>3. QED
        BY <3>1, <3>2
    <2>3. CASE Fault /\ Goto("landed") /\ UNCHANGED spineVars
      <3> HIDE DEF f
      <3>1. SpineInv' /\ held' = held
        BY <2>3, UntouchedSpine DEF ExchangeInv
      <3>2. pc' = "landed" /\ SpineTold(f) /\ faults' = faults + 1
        BY <2>3, <3>1 DEF SpineTold, Goto, Fault
      <3>3. QED
        BY <3>1, <3>2
    <2>4. CASE Keeps /\ Goto("awaiting") /\ UNCHANGED spineVars
      <3> HIDE DEF f
      <3>1. SpineInv' /\ held' = held
        BY <2>4, UntouchedSpine DEF ExchangeInv
      <3>2. pc' = "awaiting" /\ SpineTold(f) /\ faults' = faults
        BY <2>4, <3>1 DEF SpineTold, Goto, Keeps
      <3>3. QED
        BY <3>1, <3>2
    <2>5. QED
      BY <2>1, <2>2, <2>3, <2>4 DEF Dispatch
  <1>5. /\ adapter' \in {adapter, [adapter EXCEPT ![here.req] = "done"], [adapter EXCEPT ![here.req] = "silent"]}
        /\ pc' = "awaiting" => adapter' = [adapter EXCEPT ![here.req] = "silent"]
    BY DEF Dispatch, Goto
  <1> HIDE DEF f
  <1>6. Shape'
    <2>1. adapter' \in [Request -> {"none", "calling", "broken", "silent", "done"}]
      BY <1>1, <1>5 DEF ExchangeInv, Shape
    <2>2. pc' \in Places /\ faults' \in Nat /\ open' \subseteq Request
      BY <1>1, <1>3, <1>4 DEF ExchangeInv, Shape, Places
    <2>3. QED
      BY <1>1, <1>3, <2>1, <2>2 DEF ExchangeInv, Shape
  <1>7. RunLocal'
    <2>1. pc' = "awaiting" => adapter'[here.req] = "silent"
      BY <1>1, <1>5 DEF ExchangeInv, Shape
    <2>2. QED
      BY <1>1, <1>3, <2>1 DEF ExchangeInv, RunInv, RunLocal, Unaborted
  <1>8. RunRecords'
    BY <1>1, <1>2, <1>3, <1>4 DEF ExchangeInv, RunInv, RunRecords, SpineTold, Has
  <1>9. RecordOf(here.req)'
    BY <1>1, <1>2, <1>3, <1>4 DEF ExchangeInv, RecordsInv, RecordOf, SpineTold, Has
  <1>10. \A r \in Request \ {here.req} : Same(r)
    BY <1>2, <1>3, <1>4 DEF Same, SpineTold
  <1>11. QED
    BY <1>1, <1>3, <1>4, <1>6, <1>7, <1>8, <1>9, <1>10, OneIsTouched DEF ExchangeInv, RunInv

LEMMA PrepareIsSound ==
  ASSUME ExchangeInv, NEW r \in Request, Prepare(r)
  PROVE  ExchangeInv' /\ Sealed
  <1> DEFINE f == FrameOf("prepared", r)
  <1>1. pc = "idle" /\ rows[r].stage = "none" /\ here' = Phase(r)
        /\ UNCHANGED <<rows, exposure, stream, adapter, open, closing, up, crashes>>
    BY DEF Prepare, At, storeVars, lifeVars
  <1>2. f \in Frame /\ f.kind = "prepared" /\ f.req = r
    BY FramesAreTyped DEF FrameOf, FrameKind
  <1>3. /\ here' \in PhaseRecord /\ here'.req = r /\ here'.pending = <<>> /\ ~here'.aborted
        /\ Len(here'.pending) < MaxFragments
    BY <1>1, FragmentsAssumption, EmptySeq DEF Phase, PhaseRecord
  <1>4. CASE Appends(f) /\ Goto("prepared")
    <2> HIDE DEF f
    <2>1. /\ SpineInv' /\ Lawful(held, f) /\ faults' = faults /\ pc' = "prepared"
          /\ \A q : Seen(held', q) = IF f.req = q THEN Seen(held, q) \cup {f} ELSE Seen(held, q)
      BY <1>2, <1>4, AppendsIsSound DEF ExchangeInv, Goto
    <2>2. Seen(held', r) = {f}
      BY <1>2, <2>1 DEF Lawful
    <2>3. Shape'
      BY <1>1, <1>3, <2>1 DEF ExchangeInv, Shape, Places
    <2>4. RunLocal'
      BY <1>1, <1>3, <2>1 DEF ExchangeInv, RunInv, RunLocal
    <2>5. RunRecords'
      BY <1>1, <1>2, <1>3, <2>1, <2>2 DEF ExchangeInv, RecordsInv, RecordOf, RunRecords, Has
    <2>6. RecordOf(r)'
      BY <1>1, <1>2, <2>2 DEF ExchangeInv, RecordsInv, RecordOf, Has
    <2>7. \A q \in Request \ {r} : Same(q)
      BY <1>1, <1>2, <2>1 DEF Same
    <2>8. RecordsInv' /\ Sealed
      BY <1>3, <2>1, <2>6, <2>7, SameIsKept DEF ExchangeInv, RecordsInv, Sealed, Running
    <2>9. QED
      BY <2>1, <2>3, <2>4, <2>5, <2>8 DEF ExchangeInv, RunInv
  <1>5. CASE AppendThrows(f) /\ Goto("idle")
    <2> HIDE DEF f
    <2>1. SpineInv' /\ held' = held /\ faults' = faults + 1 /\ pc' = "idle"
      BY <1>2, <1>5, AppendThrowsIsSound DEF ExchangeInv, Goto
    <2>2. Shape'
      BY <1>1, <1>3, <2>1 DEF ExchangeInv, Shape, Places
    <2>3. RunInv'
      BY <1>1, <1>3, <2>1 DEF ExchangeInv, RunInv, RunLocal, RunRecords, Unaborted
    <2>4. QED
      BY <1>1, <2>1, <2>2, <2>3, NoneIsTouched DEF ExchangeInv, storeVars
  <1>6. QED
    BY <1>4, <1>5 DEF Prepare

-----------------------------------------------------------------------------
(* The collector *)

\* What the step adds to the stream is an event of the running phase.
StreamTold == stream' = stream \/ \E e \in StreamEvent : e.req = here.req /\ stream' = Append(stream, e)

\* Two phases differ in what was collected, and in nothing else.
Agrees(p, q) ==
  /\ p.req = q.req /\ p.dispatched = q.dispatched /\ p.aborted = q.aborted
  /\ p.answer = q.answer /\ p.outcome = q.outcome

LEMMA ToldIsSound ==
  ASSUME Shape, StreamTold
  PROVE  /\ stream' \in Seq(StreamEvent)
         /\ \A r \in Request \ {here.req}, i \in DOMAIN stream' :
              stream'[i].req = r => i \in DOMAIN stream /\ stream'[i] = stream[i]
  <1>1. stream \in Seq(StreamEvent)
    BY DEF Shape
  <1>2. CASE stream' = stream
    BY <1>1, <1>2
  <1>3. ASSUME NEW e \in StreamEvent, e.req = here.req, stream' = Append(stream, e)
        PROVE  /\ stream' \in Seq(StreamEvent)
               /\ \A r \in Request \ {here.req}, i \in DOMAIN stream' :
                    stream'[i].req = r => i \in DOMAIN stream /\ stream'[i] = stream[i]
    <2>1. stream' \in Seq(StreamEvent)
      BY <1>1, <1>3, StreamedAppended
    <2>2. ASSUME NEW r \in Request \ {here.req}
          PROVE  \A i \in DOMAIN stream' : stream'[i].req = r => i \in DOMAIN stream /\ stream'[i] = stream[i]
      BY <1>1, <1>3, <2>2, StreamedAppended
    <2>3. QED
      BY <2>1, <2>2
  <1>4. QED
    BY <1>2, <1>3 DEF StreamTold

LEMMA RestIsTyped ==
  ASSUME NEW S, NEW s \in Seq(S), NEW k \in Nat, k <= Len(s)
  PROVE  SubSeq(s, k + 1, Len(s)) \in Seq(S) /\ Len(SubSeq(s, k + 1, Len(s))) = Len(s) - k
  <1>1. Len(s) \in Nat /\ s \in [1..Len(s) -> S]
    BY LenProperties
  <1> DEFINE n == Len(s)
             m == k + 1
  <1>2. n \in Int /\ m \in Int /\ n = Len(s) /\ m = k + 1
    BY <1>1
  <1>3. \A i \in m..n : i \in 1..n
    BY <1>1
  <1>4. \A i \in m..n : s[i] \in S
    BY <1>1, <1>3
  <1>5. (IF m <= n THEN n - m + 1 ELSE 0) = n - k
    <2>1. \A a, b \in Nat : a <= b => /\ a + 1 <= b => b - (a + 1) + 1 = b - a
                                      /\ ~(a + 1 <= b) => 0 = b - a
      OBVIOUS
    <2>2. QED
      BY <1>1, <2>1
  <1> HIDE DEF m, n
  <1>6. SubSeq(s, m, n) \in Seq(S) /\ Len(SubSeq(s, m, n)) = IF m <= n THEN n - m + 1 ELSE 0
    BY <1>2, <1>4, SubSeqProperties
  <1>7. QED
    BY <1>2, <1>5, <1>6

\* A flush publishes what was pending before it and keeps what came with it.
LEMMA EmitsIsSound ==
  ASSUME Shape, here.req \in Request, NEW now \in PhaseRecord, NEW then \in PhaseRecord,
         now.req = here.req, Len(now.pending) <= Len(then.pending),
         Len(then.pending) <= Len(now.pending) + 1, Emits(now, then)
  PROVE  /\ here' \in PhaseRecord /\ Len(here'.pending) < MaxFragments /\ Agrees(here', then)
         /\ StreamTold /\ (now.pending = <<>> => stream' = stream) /\ faults' = faults
  <1>1. /\ now.pending \in Seq(Fragment) /\ then.pending \in Seq(Fragment)
        /\ Len(now.pending) \in Nat /\ Len(then.pending) \in Nat
    BY LenProperties DEF PhaseRecord
  <1>2. CASE now.pending = <<>>
    <2>1. here' = then /\ stream' = stream /\ faults' = faults
      BY <1>2 DEF Emits, Keeps
    <2>2. Len(now.pending) = 0
      BY <1>2, EmptySeq
    <2>3. Len(then.pending) < MaxFragments
      BY <1>1, <2>2, FragmentsAssumption
    <2>4. QED
      BY <2>1, <2>3 DEF Agrees, StreamTold
  <1>3. CASE now.pending # <<>>
    <2> DEFINE rest == SubSeq(then.pending, Len(now.pending) + 1, Len(then.pending))
    <2>1. rest \in Seq(Fragment) /\ Len(rest) < MaxFragments
      <3>1. \A a, b, m \in Nat : b <= a + 1 /\ m > 1 => b - a < m
        OBVIOUS
      <3>2. Len(then.pending) - Len(now.pending) < MaxFragments
        BY <1>1, <3>1, FragmentsAssumption
      <3>3. rest \in Seq(Fragment) /\ Len(rest) = Len(then.pending) - Len(now.pending)
        BY <1>1, RestIsTyped
      <3>4. QED
        BY <3>2, <3>3
    <2>2. \A b \in BOOLEAN : DeltaEvent(now.req, now.pending, b) \in StreamEvent
      BY <1>1 DEF DeltaEvent, StreamEvent
    <2>3. \A b : DeltaEvent(now.req, now.pending, b).req = here.req
      BY DEF DeltaEvent
    <2>4. now.pending[1].chan \in Channel
      <3>1. Len(now.pending) \in Nat \ {0}
        BY <1>1, <1>3, EmptySeq
      <3>2. 1 \in 1..Len(now.pending)
        BY <3>1
      <3>3. now.pending \in [1..Len(now.pending) -> Fragment]
        BY <1>1, LenProperties
      <3>4. now.pending[1] \in Fragment
        BY <3>2, <3>3
      <3>5. QED
        BY <3>4 DEF Fragment
    <2> HIDE DEF rest
    <2>5. CASE /\ stream' = Append(stream, DeltaEvent(now.req, now.pending, FALSE))
               /\ here' = [then EXCEPT !.pending = rest] /\ faults' = faults
      <3>1. here' \in PhaseRecord /\ here'.pending = rest /\ Agrees(here', then)
        BY <2>1, <2>5 DEF PhaseRecord, Agrees
      <3>2. StreamTold
        BY <2>2, <2>3, <2>5 DEF StreamTold
      <3>3. QED
        BY <1>3, <2>1, <2>5, <3>1, <3>2
    <2>6. CASE /\ stream' = Append(stream, DeltaEvent(now.req, now.pending, TRUE))
               /\ here' = [then EXCEPT !.pending = rest, !.hushed = @ \cup {now.pending[1].chan}]
               /\ faults' = faults
      <3>1. here' \in PhaseRecord /\ here'.pending = rest /\ Agrees(here', then)
        BY <2>1, <2>4, <2>6 DEF PhaseRecord, Agrees
      <3>2. StreamTold
        BY <2>2, <2>3, <2>6 DEF StreamTold
      <3>3. QED
        BY <1>3, <2>1, <2>6, <3>1, <3>2
    <2>7. QED
      BY <1>3, <2>5, <2>6 DEF Emits, Keeps, rest
  <1>4. QED
    BY <1>2, <1>3

\* What a step of the collector may change, and what it needs for that.
LEMMA CollectingIsSound ==
  ASSUME ExchangeInv, pc \in {"awaiting", "landed"},
         UNCHANGED <<file, held, rows, exposure, closing, up, crashes>>,
         here' \in PhaseRecord, Len(here'.pending) < MaxFragments, Agrees(here', here),
         StreamTold, stream' # stream => here.dispatched, here'.pending # <<>> => here.dispatched,
         faults' \in {faults, faults + 1},
         adapter' \in [Request -> {"none", "calling", "broken", "silent", "done"}],
         \/ /\ pc = "awaiting" /\ pc' = "awaiting" /\ open' = open
            /\ adapter'[here.req] \in {"calling", "broken"} => adapter[here.req] \in {"calling", "broken"}
         \/ /\ open' = {} /\ pc' \in {"returned", "failing"}
            /\ pc' = "returned" => pc = "landed" /\ here.answer = "value"
  PROVE  ExchangeInv' /\ Sealed
  <1>1. here.req \in Request /\ here'.req = here.req /\ pc' \in {"awaiting", "returned", "failing"}
    BY DEF ExchangeInv, Shape, Agrees
  <1>2. SpineInv' /\ held' = held
    BY UntouchedSpine DEF ExchangeInv, spineVars
  <1>3. stream' \in Seq(StreamEvent) /\ \A r \in Request \ {here.req} : Same(r)
    BY <1>2, ToldIsSound DEF ExchangeInv, Same
  <1>4. Shape'
    <2>1. open' \subseteq Request /\ pc' \in Places /\ faults' \in Nat
      BY <1>1 DEF ExchangeInv, Shape, Places
    <2>2. QED
      BY <1>1, <1>3, <2>1 DEF ExchangeInv, Shape
  <1>5. RunLocal'
    BY <1>1 DEF ExchangeInv, RunInv, RunLocal, Agrees, Unaborted
  <1>6. Streamed(stream', here.req) => here.dispatched
    <2>1. CASE stream' = stream
      BY <2>1 DEF ExchangeInv, RunInv, RunRecords
    <2>2. QED
      BY <2>1
  <1>7. RunRecords'
    BY <1>1, <1>2, <1>6 DEF ExchangeInv, RunInv, RunRecords, Agrees
  <1>8. RecordOf(here.req)'
    BY <1>1, <1>2 DEF ExchangeInv, RunInv, RunRecords, RecordsInv, RecordOf
  <1>9. QED
    BY <1>1, <1>2, <1>3, <1>4, <1>5, <1>7, <1>8, OneIsTouched DEF ExchangeInv, RunInv

LEMMA EmptiedIsSound ==
  ASSUME NEW p \in PhaseRecord, NEW b \in BOOLEAN,
         here' = [p EXCEPT !.pending = <<>>] \/ here' = [p EXCEPT !.pending = <<>>, !.failed = b]
  PROVE  /\ here' \in PhaseRecord /\ here'.pending = <<>> /\ Len(here'.pending) < MaxFragments
         /\ Agrees(here', p)
  <1>1. <<>> \in Seq(Fragment) /\ Len(<<>>) = 0
    BY EmptySeq
  <1>2. here' \in PhaseRecord /\ here'.pending = <<>> /\ Agrees(here', p)
    <2> DEFINE k == [p EXCEPT !.pending = <<>>]
               l == [p EXCEPT !.pending = <<>>, !.failed = b]
    <2>1. k \in PhaseRecord /\ k.pending = <<>> /\ Agrees(k, p)
      BY <1>1 DEF PhaseRecord, Agrees
    <2>2. l \in PhaseRecord /\ l.pending = <<>>
      BY <1>1 DEF PhaseRecord
    <2>3. Agrees(l, p)
      BY DEF PhaseRecord, Agrees
    <2>4. here' = k \/ here' = l
      OBVIOUS
    <2> HIDE DEF k, l
    <2>5. QED
      BY <2>1, <2>2, <2>3, <2>4
  <1>3. QED
    BY <1>1, <1>2, FragmentsAssumption

LEMMA FlushTimerIsSound ==
  ASSUME ExchangeInv, FlushTimer
  PROVE  ExchangeInv' /\ Sealed
  <1>1. /\ pc = "awaiting" /\ here.pending # <<>> /\ here \in PhaseRecord /\ here.req \in Request
        /\ pc' = pc /\ open' = open /\ adapter' = adapter
        /\ UNCHANGED <<file, held, rows, exposure, closing, up, crashes>>
    BY DEF ExchangeInv, Shape, FlushTimer, At, spineVars, lifeVars
  <1>2. here.dispatched
    BY <1>1 DEF ExchangeInv, RunInv, RunLocal
  <1>3. /\ here' \in PhaseRecord /\ Len(here'.pending) < MaxFragments /\ Agrees(here', here)
        /\ StreamTold /\ faults' \in {faults, faults + 1}
    <2>1. CASE Emits(here, here)
      <3>1. Len(here.pending) \in Nat
        BY <1>1, LenProperties DEF PhaseRecord
      <3>2. Len(here.pending) <= Len(here.pending) /\ Len(here.pending) <= Len(here.pending) + 1
        BY <3>1
      <3>3. QED
        BY <1>1, <2>1, <3>2, EmitsIsSound DEF ExchangeInv
    <2>2. CASE EmitThrows(here, [here EXCEPT !.pending = <<>>, !.failed = TRUE])
      BY <1>1, <2>2, EmptiedIsSound DEF EmitThrows, StreamTold, Fault
    <2>3. QED
      BY <2>1, <2>2 DEF FlushTimer
  <1>4. adapter \in [Request -> {"none", "calling", "broken", "silent", "done"}]
    BY DEF ExchangeInv, Shape
  <1>5. QED
    BY <1>1, <1>2, <1>3, <1>4, CollectingIsSound

LEMMA LandIsSound ==
  ASSUME ExchangeInv, Land
  PROVE  ExchangeInv' /\ Sealed
  <1>1. /\ pc = "landed" /\ here \in PhaseRecord /\ here.req \in Request /\ adapter' = adapter
        /\ UNCHANGED <<file, held, rows, exposure, closing, up, crashes>>
        /\ Len(here.pending) < MaxFragments
    BY DEF ExchangeInv, Shape, Land, At, spineVars, lifeVars
  <1>2. open' = {} /\ (here.pending # <<>> => here.dispatched)
    BY DEF ExchangeInv, RunInv, RunLocal, Land
  <1>3. /\ here' \in PhaseRecord /\ Len(here'.pending) < MaxFragments /\ Agrees(here', here)
        /\ StreamTold /\ (stream' # stream => here.dispatched)
        /\ (here'.pending # <<>> => here.dispatched) /\ faults' \in {faults, faults + 1}
        /\ pc' \in {"returned", "failing"} /\ (pc' = "returned" => here.answer = "value")
    <2>1. CASE here.answer = "value" /\ Emits(here, here) /\ Goto("returned")
      <3>1. Len(here.pending) \in Nat
        BY <1>1, LenProperties DEF PhaseRecord
      <3>2. Len(here.pending) <= Len(here.pending) /\ Len(here.pending) <= Len(here.pending) + 1
        BY <3>1
      <3>3. /\ here' \in PhaseRecord /\ Len(here'.pending) < MaxFragments /\ Agrees(here', here)
            /\ StreamTold /\ (here.pending = <<>> => stream' = stream) /\ faults' = faults
        BY <1>1, <2>1, <3>2, EmitsIsSound DEF ExchangeInv
      <3>4. here.pending = <<>> => here' = here
        BY <2>1 DEF Emits
      <3>5. QED
        BY <1>2, <2>1, <3>3, <3>4 DEF Goto
    <2>2. CASE EmitThrows(here, [here EXCEPT !.pending = <<>>]) /\ Goto("failing")
      BY <1>1, <1>2, <2>2, EmptiedIsSound DEF EmitThrows, StreamTold, Fault, Goto
    <2>3. CASE Goto("failing") /\ UNCHANGED <<stream, here, faults>>
      BY <1>1, <1>2, <2>3 DEF StreamTold, Agrees, Goto
    <2>4. QED
      BY <2>1, <2>2, <2>3 DEF Land
  <1>4. adapter \in [Request -> {"none", "calling", "broken", "silent", "done"}]
    BY DEF ExchangeInv, Shape
  <1>5. QED
    BY <1>1, <1>2, <1>3, <1>4, CollectingIsSound

LEMMA DeltaIsSound ==
  ASSUME ExchangeInv, NEW c \in Channel, Delta(c)
  PROVE  ExchangeInv' /\ Sealed
  <1> DEFINE f == [chan |-> c, n |-> Len(here.offered) + 1]
             took == [here EXCEPT !.pending = Append(@, f), !.offered = Append(@, f)]
             break == adapter' = [adapter EXCEPT ![here.req] = "broken"]
  <1>1. /\ pc = "awaiting" /\ here \in PhaseRecord /\ here.req \in Request
        /\ pc' = pc /\ open' = open /\ adapter[here.req] = "calling"
        /\ UNCHANGED <<file, held, rows, exposure, closing, up, crashes>>
        /\ Len(here.pending) < MaxFragments
    BY DEF ExchangeInv, Shape, Delta, At, spineVars, lifeVars
  <1>2. here.dispatched
    BY <1>1 DEF ExchangeInv, RunInv, RunLocal
  <1>3. /\ here.pending \in Seq(Fragment) /\ here.offered \in Seq(Fragment)
        /\ Len(here.pending) \in Nat /\ Len(here.offered) \in Nat
    BY <1>1, LenProperties DEF PhaseRecord
  <1>4. f \in Fragment
    BY <1>3 DEF Fragment
  <1>5. /\ Append(here.pending, f) \in Seq(Fragment) /\ Append(here.offered, f) \in Seq(Fragment)
        /\ Len(Append(here.pending, f)) = Len(here.pending) + 1
    <2> HIDE DEF f
    <2>1. QED
      BY <1>3, <1>4, AppendProperties
  <1>6. /\ took \in PhaseRecord /\ took.pending = Append(here.pending, f) /\ Agrees(took, here)
        /\ Len(took.pending) = Len(here.pending) + 1
    <2> HIDE DEF f
    <2>1. QED
      BY <1>1, <1>5 DEF PhaseRecord, Agrees
  <1>7. /\ adapter' \in {adapter, [adapter EXCEPT ![here.req] = "broken"]}
        /\ \/ break /\ UNCHANGED <<here, stream, faults>>
           \/ Emits(here, took)
           \/ EmitThrows(here, [here EXCEPT !.pending = <<>>])
           \/ Emits(took, took)
           \/ EmitThrows(took, [took EXCEPT !.pending = <<>>])
           \/ /\ ~IsFull(Len(took.pending)) /\ here' = took
              /\ UNCHANGED <<stream, faults>>
    BY DEF Delta
  <1>8. Emits(here, took) \/ Emits(took, took) =>
          /\ here' \in PhaseRecord /\ Len(here'.pending) < MaxFragments /\ Agrees(here', took)
          /\ StreamTold /\ faults' = faults
    <2> HIDE DEF took
    <2>1. /\ Len(took.pending) \in Nat
          /\ Len(here.pending) <= Len(took.pending) /\ Len(took.pending) <= Len(here.pending) + 1
          /\ Len(took.pending) <= Len(took.pending) /\ Len(took.pending) <= Len(took.pending) + 1
      BY <1>3, <1>6
    <2>2. took.req = here.req
      BY <1>6 DEF Agrees
    <2>3. CASE Emits(here, took)
      BY <1>1, <1>6, <2>1, <2>3, EmitsIsSound DEF ExchangeInv
    <2>4. CASE Emits(took, took)
      BY <1>1, <1>6, <2>1, <2>2, <2>4, EmitsIsSound DEF ExchangeInv
    <2>5. QED
      BY <2>3, <2>4
  <1>9. /\ here' \in PhaseRecord /\ Len(here'.pending) < MaxFragments /\ Agrees(here', here)
        /\ StreamTold /\ faults' \in {faults, faults + 1}
    <2> HIDE DEF took, f, break
    <2>1. CASE break /\ UNCHANGED <<here, stream, faults>>
      BY <1>1, <2>1 DEF Agrees, StreamTold
    <2>2. CASE Emits(here, took) \/ Emits(took, took)
      BY <1>6, <1>8, <2>2 DEF Agrees
    <2>3. CASE EmitThrows(here, [here EXCEPT !.pending = <<>>])
      BY <1>1, <2>3, EmptiedIsSound DEF EmitThrows, StreamTold, Fault
    <2>4. CASE EmitThrows(took, [took EXCEPT !.pending = <<>>])
      <3>1. here' = [took EXCEPT !.pending = <<>>] /\ StreamTold /\ faults' \in {faults, faults + 1}
        BY <2>4 DEF EmitThrows, StreamTold, Fault
      <3>2. here' \in PhaseRecord /\ Len(here'.pending) < MaxFragments /\ Agrees(here', took)
        BY <1>6, <3>1, EmptiedIsSound
      <3>3. QED
        BY <1>6, <3>1, <3>2 DEF Agrees
    <2>5. CASE ~IsFull(Len(took.pending)) /\ here' = took /\ UNCHANGED <<stream, faults>>
      <3>1. Len(took.pending) \in Nat /\ Len(took.pending) < MaxFragments
        BY <1>3, <1>6, <2>5, FragmentsAssumption DEF IsFull
      <3>2. QED
        BY <1>6, <2>5, <3>1 DEF StreamTold
    <2>6. QED
      BY <1>7, <2>1, <2>2, <2>3, <2>4, <2>5
  <1>10. adapter' \in [Request -> {"none", "calling", "broken", "silent", "done"}]
    BY <1>7 DEF ExchangeInv, Shape
  <1>11. QED
    <2> HIDE DEF took, f, break
    <2>1. QED
      BY <1>1, <1>2, <1>9, <1>10, CollectingIsSound

-----------------------------------------------------------------------------
(* The adapter answers *)

\* The answer appends at most the exact return of a crossing that was dispatched.
ReturnTold ==
  \A r : \/ Seen(held', r) = Seen(held, r)
         \/ /\ r = here.req /\ here.dispatched
            /\ Seen(held', r) = Seen(held, r) \cup {FrameOf("raw", r)}

LEMMA AnsweringIsSound ==
  ASSUME ExchangeInv, pc = "awaiting", pc' \in {"awaiting", "landed"},
         UNCHANGED <<rows, exposure, stream, open, up, crashes>>,
         here' \in PhaseRecord, here'.req = here.req, here'.dispatched = here.dispatched,
         here'.pending = here.pending, pc' = "landed" /\ here'.answer = "value" => ~here'.aborted,
         SpineInv', ReturnTold,
         adapter' \in [Request -> {"none", "calling", "broken", "silent", "done"}],
         adapter'[here.req] \in {"calling", "broken"} => adapter[here.req] \in {"calling", "broken"},
         closing' \in BOOLEAN, faults' \in {faults, faults + 1}
  PROVE  ExchangeInv' /\ Sealed
  <1>1. here.req \in Request
    BY DEF ExchangeInv, Shape
  <1>2. Shape'
    <2>1. pc' \in Places /\ faults' \in Nat /\ Len(here'.pending) < MaxFragments
      BY DEF ExchangeInv, Shape, Places
    <2>2. QED
      BY <1>1, <2>1 DEF ExchangeInv, Shape
  <1>3. RunLocal'
    BY DEF ExchangeInv, RunInv, RunLocal, Unaborted
  <1>4. \A r : \A f \in Seen(held', r) : f.kind = "outcome" => f \in Seen(held, r)
    BY DEF ReturnTold, FrameOf
  <1>5. Has(held', here.req, "raw") => here.dispatched
    BY DEF ExchangeInv, RunInv, RunRecords, ReturnTold, Has
  <1>6. RunRecords'
    <2>1. \A f \in Seen(held', here.req) : f.kind # "outcome"
      BY <1>4 DEF ExchangeInv, RunInv, RunRecords
    <2>2. QED
      BY <1>5, <2>1 DEF ExchangeInv, RunInv, RunRecords
  <1>7. RecordOf(here.req)'
    <2>1. exposure[here.req] # "never_dispatched" /\ rows[here.req].stage # "none"
      BY DEF ExchangeInv, RunInv, RunRecords
    <2>2. Has(held, here.req, "dispatched") => Has(held', here.req, "dispatched")
      BY DEF ReturnTold, Has
    <2>3. QED
      BY <1>1, <1>4, <2>1, <2>2 DEF ExchangeInv, RecordsInv, RecordOf
  <1>8. \A r \in Request \ {here.req} : Same(r)
    BY DEF ReturnTold, Same
  <1>9. QED
    BY <1>2, <1>3, <1>6, <1>7, <1>8, OneIsTouched DEF ExchangeInv, RunInv

LEMMA NothingReturned ==
  ASSUME SpineInv, UNCHANGED spineVars
  PROVE  SpineInv' /\ ReturnTold /\ held' = held
  BY UntouchedSpine DEF ReturnTold

LEMMA SilentEndsIsSound ==
  ASSUME ExchangeInv, SilentEnds
  PROVE  ExchangeInv' /\ Sealed
  <1>1. /\ pc = "awaiting" /\ pc' = "landed" /\ here \in PhaseRecord /\ faults' = faults
        /\ UNCHANGED <<rows, exposure, stream, open, closing, up, crashes>>
        /\ adapter' = [adapter EXCEPT ![here.req] = "done"]
    BY DEF ExchangeInv, Shape, SilentEnds, At, Goto, storeVars, lifeVars
  <1>2. SpineInv' /\ ReturnTold
    BY NothingReturned DEF ExchangeInv, SilentEnds
  <1>3. /\ here' \in PhaseRecord /\ here'.req = here.req /\ here'.dispatched = here.dispatched
        /\ here'.pending = here.pending /\ (here'.answer = "value" => ~here'.aborted)
    <2>1. here' = [here EXCEPT !.answer = "error"] \/ here' = [here EXCEPT !.answer = Answer("success")]
      BY DEF SilentEnds
    <2>2. QED
      BY <1>1, <2>1 DEF Answer, PhaseRecord
  <1>4. /\ adapter' \in [Request -> {"none", "calling", "broken", "silent", "done"}]
        /\ adapter'[here.req] = "done" /\ closing \in BOOLEAN
    BY <1>1 DEF ExchangeInv, Shape
  <1>5. QED
    BY <1>1, <1>2, <1>3, <1>4, AnsweringIsSound

LEMMA AbortGraceIsSound ==
  ASSUME ExchangeInv, AbortGrace
  PROVE  ExchangeInv' /\ Sealed
  <1>1. /\ pc = "awaiting" /\ pc' = "landed" /\ here \in PhaseRecord /\ faults' = faults
        /\ UNCHANGED <<rows, exposure, stream, open, closing, up, crashes>>
        /\ adapter' = adapter
    BY DEF ExchangeInv, Shape, AbortGrace, At, Goto, storeVars, lifeVars
  <1>2. SpineInv' /\ ReturnTold
    BY NothingReturned DEF ExchangeInv, AbortGrace
  <1>3. /\ here' \in PhaseRecord /\ here'.req = here.req /\ here'.dispatched = here.dispatched
        /\ here'.pending = here.pending /\ here'.answer # "value"
    BY <1>1 DEF AbortGrace, PhaseRecord
  <1>4. /\ adapter \in [Request -> {"none", "calling", "broken", "silent", "done"}]
        /\ closing \in BOOLEAN
    BY <1>1 DEF ExchangeInv, Shape
  <1>5. QED
    BY <1>1, <1>2, <1>3, <1>4, AnsweringIsSound

LEMMA BeginCloseIsSound ==
  ASSUME ExchangeInv, BeginClose
  PROVE  ExchangeInv' /\ Sealed
  <1>1. /\ pc \in {"idle", "awaiting"} /\ pc' = pc /\ closing' = TRUE /\ faults' = faults
        /\ UNCHANGED <<rows, exposure, stream, adapter, open, up, crashes>>
        /\ here \in PhaseRecord /\ UNCHANGED spineVars
    BY DEF ExchangeInv, Shape, BeginClose, storeVars
  <1>2. SpineInv' /\ ReturnTold /\ held' = held
    BY <1>1, NothingReturned DEF ExchangeInv
  <1>3. adapter \in [Request -> {"none", "calling", "broken", "silent", "done"}]
    BY DEF ExchangeInv, Shape
  <1>4. CASE pc = "awaiting"
    <2>1. /\ here' \in PhaseRecord /\ here'.req = here.req /\ here'.dispatched = here.dispatched
          /\ here'.pending = here.pending
      BY <1>1, <1>4 DEF BeginClose, PhaseRecord
    <2>2. QED
      BY <1>1, <1>2, <1>3, <1>4, <2>1, AnsweringIsSound
  <1>5. CASE pc = "idle"
    <2>1. here' = here
      BY <1>5 DEF BeginClose
    <2>2. Shape'
      BY <1>1, <2>1 DEF ExchangeInv, Shape
    <2>3. RunInv'
      BY <1>1, <1>5, <2>1 DEF ExchangeInv, RunInv, RunLocal, RunRecords, Unaborted
    <2>4. QED
      BY <1>1, <1>2, <2>2, <2>3, NoneIsTouched DEF ExchangeInv, storeVars
  <1>6. QED
    BY <1>1, <1>4, <1>5

\* An adapter that outlives its phase reaches none of the records.
LEMMA AdapterEndsIsSound ==
  ASSUME ExchangeInv, NEW r \in Request, NEW e \in Ending, AdapterEnds(r, e)
  PROVE  ExchangeInv' /\ Sealed
  <1> DEFINE f == FrameOf("raw", r)
             took == [here EXCEPT !.raw = e.raw, !.outcome = e.code, !.answer = Answer(e.code)]
             threw == [here EXCEPT !.answer = "error"]
             Ends(phase) == IF pc = "awaiting" THEN Goto("landed") /\ here' = phase ELSE UNCHANGED <<pc, here>>
  <1>1. /\ pc \in {"idle", "awaiting"} /\ here \in PhaseRecord /\ adapter[r] \in {"calling", "broken"}
        /\ UNCHANGED <<rows, exposure, stream, open, closing, up, crashes>>
        /\ adapter' = [adapter EXCEPT ![r] = "done"] /\ closing \in BOOLEAN
    BY DEF ExchangeInv, Shape, AdapterEnds, MayEnd, storeVars, lifeVars
  <1>2. /\ adapter' \in [Request -> {"none", "calling", "broken", "silent", "done"}]
        /\ here.req \in Request =>
             (adapter'[here.req] \in {"calling", "broken"} => adapter[here.req] \in {"calling", "broken"})
    BY <1>1 DEF ExchangeInv, Shape
  <1>3. CASE ~Reaches(r) /\ UNCHANGED <<spineVars, faults, here, pc>>
    <2>1. SpineInv' /\ ReturnTold /\ held' = held
      BY <1>3, NothingReturned DEF ExchangeInv
    <2>2. CASE pc = "awaiting"
      <3>1. here.req \in Request
        BY <2>2 DEF ExchangeInv, Shape
      <3>2. QED
        BY <1>1, <1>2, <1>3, <2>1, <2>2, <3>1, AnsweringIsSound
    <2>3. CASE pc = "idle"
      <3>1. Shape'
        BY <1>1, <1>2, <1>3, <2>3 DEF ExchangeInv, Shape
      <3>2. RunInv'
        BY <1>1, <1>3, <2>1, <2>3 DEF ExchangeInv, RunInv, RunLocal, RunRecords, Unaborted
      <3>3. QED
        BY <1>1, <2>1, <3>1, <3>2, NoneIsTouched DEF ExchangeInv, storeVars
    <2>4. QED
      BY <1>1, <2>2, <2>3
  <1>4. CASE Reaches(r)
    <2>1. pc = "awaiting" /\ r = here.req /\ here.dispatched
      BY <1>1, <1>4 DEF ExchangeInv, RunInv, RunLocal, Reaches
    <2>2. /\ SpineInv' /\ ReturnTold /\ faults' \in {faults, faults + 1} /\ pc' = "landed"
          /\ here' = took \/ here' = threw
      <3>1. f \in Frame /\ f.req = r
        BY FramesAreTyped DEF FrameOf, FrameKind
      <3>2. CASE ~e.raw /\ Ends(took) /\ UNCHANGED <<spineVars, faults>>
        BY <2>1, <3>2, NothingReturned DEF ExchangeInv, Goto
      <3>3. CASE Appends(f) /\ Ends(took)
        <4>1. /\ SpineInv' /\ faults' = faults
              /\ \A q : Seen(held', q) = IF f.req = q THEN Seen(held, q) \cup {f} ELSE Seen(held, q)
          <5> HIDE DEF f
          <5>1. QED
            BY <3>1, <3>3, AppendsIsSound DEF ExchangeInv
        <4>2. ReturnTold
          BY <2>1, <3>1, <4>1 DEF ReturnTold
        <4>3. QED
          BY <2>1, <3>3, <4>1, <4>2 DEF Goto
      <3>4. CASE AppendThrows(f) /\ Ends(threw)
        <4>1. SpineInv' /\ held' = held /\ faults' = faults + 1
          <5> HIDE DEF f
          <5>1. QED
            BY <3>1, <3>4, AppendThrowsIsSound DEF ExchangeInv
        <4>2. ReturnTold
          BY <4>1 DEF ReturnTold
        <4>3. QED
          BY <2>1, <3>4, <4>1, <4>2 DEF Goto
      <3>5. QED
        BY <1>4, <3>2, <3>3, <3>4 DEF AdapterEnds
    <2>3. e.raw \in BOOLEAN /\ e.code \in Code
      <3>1. \/ e = [raw |-> FALSE, code |-> "fetch_failed"]
            \/ e = [raw |-> FALSE, code |-> "aborted"]
            \/ \E c \in Code : e = [raw |-> TRUE, code |-> c]
        BY DEF Ending
      <3>2. "fetch_failed" \in Code /\ "aborted" \in Code
        BY DEF Code, NetworkCode
      <3>3. CASE e = [raw |-> FALSE, code |-> "fetch_failed"]
        BY <3>2, <3>3
      <3>4. CASE e = [raw |-> FALSE, code |-> "aborted"]
        BY <3>2, <3>4
      <3>5. CASE \E c \in Code : e = [raw |-> TRUE, code |-> c]
        BY <3>5
      <3>6. QED
        BY <3>1, <3>3, <3>4, <3>5
    <2>4. /\ took \in PhaseRecord /\ took.req = here.req /\ took.dispatched = here.dispatched
          /\ took.pending = here.pending /\ took.aborted = here.aborted
          /\ took.answer = "value" => ~here.aborted
      <3>1. Answer(e.code) \in {"error", "value"} /\ (Answer(e.code) = "value" => ~here.aborted)
        BY DEF Answer
      <3>2. QED
        BY <1>1, <2>3, <3>1 DEF PhaseRecord
    <2>5. /\ threw \in PhaseRecord /\ threw.req = here.req /\ threw.dispatched = here.dispatched
          /\ threw.pending = here.pending /\ threw.answer # "value"
      BY <1>1 DEF PhaseRecord
    <2> HIDE DEF took, threw, f, Ends
    <2>6. /\ here' \in PhaseRecord /\ here'.req = here.req /\ here'.dispatched = here.dispatched
          /\ here'.pending = here.pending /\ (here'.answer = "value" => ~here'.aborted)
      BY <2>2, <2>4, <2>5
    <2>7. QED
      BY <1>1, <1>2, <2>1, <2>2, <2>6, AnsweringIsSound
  <1>5. QED
    BY <1>3, <1>4 DEF AdapterEnds

-----------------------------------------------------------------------------
(* After the await *)

LEMMA FallbackDispatchIsSound ==
  ASSUME ExchangeInv, FallbackDispatch
  PROVE  ExchangeInv' /\ Sealed
  <1> DEFINE f == FrameOf("dispatched", here.req)
  <1>1. /\ pc = "returned" /\ here.req \in Request /\ here \in PhaseRecord /\ ~here.dispatched
        /\ UNCHANGED <<rows, stream, adapter, open, closing, up, crashes>>
    BY DEF ExchangeInv, Shape, FallbackDispatch, At, lifeVars
  <1>2. f \in Frame /\ f.kind = "dispatched" /\ f.req = here.req
    BY <1>1, FramesAreTyped DEF FrameOf, FrameKind
  <1>3. /\ SpineInv' /\ faults' \in {faults, faults + 1} /\ SpineTold(f)
        /\ exposure' \in {exposure, [exposure EXCEPT ![here.req] = "presented"]}
        /\ \/ f \in Seen(held', here.req) /\ pc' = "returned" /\ here' = [here EXCEPT !.dispatched = TRUE]
           \/ exposure' = exposure /\ pc' = "failing" /\ here' = here
    <2>1. CASE /\ Appends(f) /\ exposure' = Presented(here.req)
               /\ here' = [here EXCEPT !.dispatched = TRUE] /\ UNCHANGED pc
      <3> HIDE DEF f
      <3>1. /\ SpineInv' /\ faults' = faults
            /\ \A r : Seen(held', r) = IF f.req = r THEN Seen(held, r) \cup {f} ELSE Seen(held, r)
        BY <1>2, <2>1, AppendsIsSound DEF ExchangeInv
      <3>2. SpineTold(f) /\ f \in Seen(held', here.req)
        BY <1>2, <3>1 DEF SpineTold
      <3>3. exposure' \in {exposure, [exposure EXCEPT ![here.req] = "presented"]}
        BY <2>1 DEF Presented
      <3>4. QED
        BY <1>1, <2>1, <3>1, <3>2, <3>3
    <2>2. CASE AppendThrows(f) /\ Goto("failing") /\ UNCHANGED <<exposure, here>>
      <3> HIDE DEF f
      <3>1. SpineInv' /\ held' = held /\ faults' = faults + 1
        BY <1>2, <2>2, AppendThrowsIsSound DEF ExchangeInv
      <3>2. SpineTold(f)
        BY <3>1 DEF SpineTold
      <3>3. QED
        BY <2>2, <3>1, <3>2 DEF Goto
    <2>3. QED
      BY <2>1, <2>2 DEF FallbackDispatch
  <1> HIDE DEF f
  <1>4. /\ here' \in PhaseRecord /\ here'.req = here.req /\ here'.pending = here.pending
        /\ here'.aborted = here.aborted /\ here'.answer = here.answer /\ here'.outcome = here.outcome
    BY ZenonT(60), <1>1, <1>3 DEF PhaseRecord
  <1>5. Shape'
    <2>1. exposure' \in [Request -> Disposition]
      BY <1>1, <1>3 DEF ExchangeInv, Shape, Disposition
    <2>2. pc' \in Places /\ faults' \in Nat /\ Len(here'.pending) < MaxFragments
      BY <1>3, <1>4 DEF ExchangeInv, Shape, Places
    <2>3. QED
      BY <1>1, <1>4, <2>1, <2>2 DEF ExchangeInv, Shape
  <1>6. RunLocal'
    BY <1>1, <1>3, <1>4 DEF ExchangeInv, RunInv, RunLocal, Unaborted
  <1>7. RunRecords'
    <2>1. \A g \in Seen(held', here.req) : g.kind = "outcome" => g \in Seen(held, here.req)
      BY <1>2, <1>3 DEF SpineTold
    <2>2. \A g \in Seen(held', here.req) : g.kind = "raw" => g \in Seen(held, here.req)
      BY <1>2, <1>3 DEF SpineTold
    <2>3. ~Has(held', here.req, "raw") /\ ~Streamed(stream', here.req)
      BY <1>1, <2>2 DEF ExchangeInv, RunInv, RunRecords, Has
    <2>4. \A g \in Seen(held', here.req) : g.kind # "outcome"
      BY <1>1, <2>1 DEF ExchangeInv, RunInv, RunRecords
    <2>5. exposure'[here.req] # "never_dispatched"
      BY <1>1, <1>3 DEF ExchangeInv, Shape, RunInv, RunRecords
    <2>6. QED
      BY <1>1, <1>3, <1>4, <2>3, <2>4, <2>5 DEF ExchangeInv, RunInv, RunRecords
  <1>8. RecordOf(here.req)'
    <2>1. Has(held', here.req, "dispatched") \/ exposure' = exposure
      BY <1>2, <1>3 DEF Has
    <2>2. Has(held, here.req, "dispatched") => Has(held', here.req, "dispatched")
      BY <1>3 DEF SpineTold, Has
    <2>3. \A g \in Seen(held', here.req) : g.kind = "outcome" => g \in Seen(held, here.req)
      BY <1>2, <1>3 DEF SpineTold
    <2>4. rows[here.req].stage # "none" /\ exposure'[here.req] # "never_dispatched"
      BY <1>1, <1>3 DEF ExchangeInv, Shape, RunInv, RunRecords
    <2>5. \A g \in Seen(held', here.req) : g.kind = "outcome" => rows'[here.req].outcome = g.code
      BY <1>1, <2>3 DEF ExchangeInv, RecordsInv, RecordOf
    <2>6. exposure'[here.req] = "presented" => Has(held', here.req, "dispatched")
      BY <1>1, <2>1, <2>2 DEF ExchangeInv, RecordsInv, RecordOf
    <2>7. rows' = rows /\ here'.req = here.req
      BY <1>1, <1>4
    <2>8. QED
      BY <2>4, <2>5, <2>6, <2>7 DEF RecordOf
  <1>9. \A r \in Request \ {here.req} : Same(r)
    BY <1>1, <1>2, <1>3 DEF ExchangeInv, Shape, Same, SpineTold
  <1>10. QED
    BY <1>1, <1>3, <1>4, <1>5, <1>6, <1>7, <1>8, <1>9, OneIsTouched DEF ExchangeInv, RunInv

LEMMA FallbackReturnIsSound ==
  ASSUME ExchangeInv, FallbackReturn
  PROVE  ExchangeInv' /\ Sealed
  <1> DEFINE f == FrameOf("raw", here.req)
  <1>1. /\ pc = "returned" /\ here.req \in Request /\ here \in PhaseRecord /\ here.dispatched
        /\ UNCHANGED <<rows, exposure, stream, adapter, open, closing, up, crashes>>
    BY DEF ExchangeInv, Shape, FallbackReturn, At, storeVars, lifeVars
  <1>2. f \in Frame /\ f.kind = "raw" /\ f.req = here.req
    BY <1>1, FramesAreTyped DEF FrameOf, FrameKind
  <1>3. /\ SpineInv' /\ faults' \in {faults, faults + 1} /\ SpineTold(f)
        /\ \/ pc' = "returned" /\ here' = [here EXCEPT !.raw = TRUE, !.outcome = "success"]
           \/ pc' = "failing" /\ here' = here
    <2>1. CASE Appends(f) /\ UNCHANGED pc /\ here' = [here EXCEPT !.raw = TRUE, !.outcome = "success"]
      <3> HIDE DEF f
      <3>1. /\ SpineInv' /\ faults' = faults
            /\ \A r : Seen(held', r) = IF f.req = r THEN Seen(held, r) \cup {f} ELSE Seen(held, r)
        BY <1>2, <2>1, AppendsIsSound DEF ExchangeInv
      <3>2. SpineTold(f)
        BY <3>1 DEF SpineTold
      <3>3. QED
        BY <1>1, <2>1, <3>1, <3>2
    <2>2. CASE AppendThrows(f) /\ Goto("failing") /\ UNCHANGED here
      <3> HIDE DEF f
      <3>1. SpineInv' /\ held' = held /\ faults' = faults + 1
        BY <1>2, <2>2, AppendThrowsIsSound DEF ExchangeInv
      <3>2. SpineTold(f)
        BY <3>1 DEF SpineTold
      <3>3. QED
        BY <2>2, <3>1, <3>2 DEF Goto
    <2>3. QED
      BY <2>1, <2>2 DEF FallbackReturn
  <1> HIDE DEF f
  <1>4. /\ here' \in PhaseRecord /\ here'.req = here.req /\ here'.pending = here.pending
        /\ here'.aborted = here.aborted /\ here'.answer = here.answer /\ here'.dispatched
    <2>1. "success" \in Code
      BY DEF Code
    <2>2. QED
      BY <1>1, <1>3, <2>1 DEF PhaseRecord
  <1>5. Shape'
    <2>1. pc' \in Places /\ faults' \in Nat /\ Len(here'.pending) < MaxFragments
      BY <1>3, <1>4 DEF ExchangeInv, Shape, Places
    <2>2. QED
      BY <1>1, <1>4, <2>1 DEF ExchangeInv, Shape
  <1>6. RunLocal'
    BY <1>1, <1>3, <1>4 DEF ExchangeInv, RunInv, RunLocal, Unaborted
  <1>7. \A g \in Seen(held', here.req) : g.kind # "outcome"
    <2>1. \A g \in Seen(held', here.req) : g.kind = "outcome" => g \in Seen(held, here.req)
      BY <1>2, <1>3 DEF SpineTold
    <2>2. QED
      BY <1>1, <2>1 DEF ExchangeInv, RunInv, RunRecords
  <1>8. exposure[here.req] # "never_dispatched" /\ rows[here.req].stage # "none"
    BY <1>1 DEF ExchangeInv, RunInv, RunRecords
  <1>9. RunRecords'
    BY <1>1, <1>3, <1>4, <1>7, <1>8 DEF RunRecords
  <1>10. RecordOf(here.req)'
    <2>1. Has(held, here.req, "dispatched") => Has(held', here.req, "dispatched")
      BY <1>3 DEF SpineTold, Has
    <2>2. QED
      BY <1>1, <1>4, <1>7, <1>8, <2>1 DEF ExchangeInv, RecordsInv, RecordOf
  <1>11. \A r \in Request \ {here.req} : Same(r)
    BY <1>1, <1>2, <1>3 DEF Same, SpineTold
  <1>12. QED
    BY <1>1, <1>3, <1>4, <1>5, <1>6, <1>9, <1>10, <1>11, OneIsTouched DEF ExchangeInv, RunInv

LEMMA CompleteRowIsSound ==
  ASSUME ExchangeInv, CompleteRow
  PROVE  ExchangeInv' /\ Sealed
  <1>1. /\ pc = "returned" /\ here.req \in Request /\ here \in PhaseRecord /\ pc' \in {"rowed", "failing"}
        /\ UNCHANGED <<exposure, stream, adapter, open, here, closing, up, crashes, faults>>
    BY DEF ExchangeInv, Shape, CompleteRow, At, Goto, lifeVars
  <1>2. SpineInv' /\ held' = held
    BY UntouchedSpine DEF ExchangeInv, CompleteRow
  <1>3. /\ rows' = rows \/ rows' = [rows EXCEPT ![here.req] = Row("done", here.outcome, TRUE)]
        /\ pc' = "rowed" => rows' = [rows EXCEPT ![here.req] = Row("done", here.outcome, TRUE)]
    BY DEF CompleteRow, Goto
  <1>4. Row("done", here.outcome, TRUE) \in RowRecord
    BY <1>1 DEF Row, RowRecord, PhaseRecord
  <1>5. Shape'
    BY <1>1, <1>3, <1>4 DEF ExchangeInv, Shape, Places
  <1>6. RunLocal'
    BY <1>1 DEF ExchangeInv, RunInv, RunLocal, Unaborted
  <1>7. /\ rows'[here.req].stage # "none" /\ (pc' = "rowed" => rows'[here.req].outcome = here.outcome)
        /\ \A f \in Seen(held, here.req) : f.kind # "outcome"
    BY <1>1, <1>3 DEF ExchangeInv, Shape, RunInv, RunRecords, Row
  <1>8. RunRecords'
    BY <1>1, <1>2, <1>7 DEF ExchangeInv, RunInv, RunRecords
  <1>9. RecordOf(here.req)'
    BY <1>1, <1>2, <1>7 DEF ExchangeInv, RecordsInv, RecordOf
  <1>10. \A r \in Request \ {here.req} : Same(r)
    BY <1>1, <1>2, <1>3 DEF ExchangeInv, Shape, Same
  <1>11. QED
    BY <1>1, <1>2, <1>5, <1>6, <1>8, <1>9, <1>10, OneIsTouched DEF ExchangeInv, RunInv

LEMMA SealOutcomeIsSound ==
  ASSUME ExchangeInv, SealOutcome
  PROVE  ExchangeInv' /\ Sealed
  <1> DEFINE f == OutcomeFrame(here.req, here.outcome)
  <1>1. /\ pc = "rowed" /\ here.req \in Request /\ here \in PhaseRecord /\ pc' \in {"sealed", "failing"}
        /\ UNCHANGED <<rows, exposure, stream, adapter, open, here, closing, up, crashes>>
    BY DEF ExchangeInv, Shape, SealOutcome, At, Goto, storeVars, lifeVars
  <1>2. f \in Frame /\ f.kind = "outcome" /\ f.req = here.req /\ f.code = here.outcome
    <2>1. here.outcome \in Code \cup {NoCode}
      BY <1>1 DEF PhaseRecord
    <2>2. QED
      BY <1>1, <2>1, FramesAreTyped DEF OutcomeFrame
  <1>3. SpineInv' /\ faults' \in {faults, faults + 1} /\ SpineTold(f)
    <2>1. CASE Appends(f)
      <3> HIDE DEF f
      <3>1. QED
        BY <1>2, <2>1, AppendsIsSound DEF ExchangeInv, SpineTold
    <2>2. CASE AppendThrows(f)
      <3> HIDE DEF f
      <3>1. QED
        BY <1>2, <2>2, AppendThrowsIsSound DEF ExchangeInv, SpineTold
    <2>3. QED
      BY <2>1, <2>2 DEF SealOutcome
  <1> HIDE DEF f
  <1>4. Shape'
    BY <1>1, <1>3 DEF ExchangeInv, Shape, Places
  <1>5. RunLocal'
    BY <1>1 DEF ExchangeInv, RunInv, RunLocal, Unaborted
  <1>6. /\ ~here.aborted /\ rows[here.req].outcome = here.outcome
        /\ \A g \in Seen(held', here.req) : g.kind = "outcome" => g.code = here.outcome
    BY <1>1, <1>2, <1>3 DEF ExchangeInv, RunInv, RunLocal, RunRecords, SpineTold, Unaborted
  <1>7. Has(held', here.req, "raw") => Has(held, here.req, "raw")
    BY <1>2, <1>3 DEF SpineTold, Has
  <1>8. RunRecords'
    BY <1>1, <1>6, <1>7 DEF ExchangeInv, RunInv, RunRecords
  <1>9. RecordOf(here.req)'
    <2>1. Has(held, here.req, "dispatched") => Has(held', here.req, "dispatched")
      BY <1>3 DEF SpineTold, Has
    <2>2. QED
      BY <1>1, <1>6, <1>7, <2>1 DEF ExchangeInv, RecordsInv, RecordOf
  <1>10. \A r \in Request \ {here.req} : Same(r)
    BY <1>1, <1>2, <1>3 DEF Same, SpineTold
  <1>11. QED
    BY <1>1, <1>3, <1>4, <1>5, <1>8, <1>9, <1>10, OneIsTouched DEF ExchangeInv, RunInv

LEMMA PublishReadyIsSound ==
  ASSUME ExchangeInv, PublishReady
  PROVE  ExchangeInv' /\ Sealed
  <1> DEFINE e == Event("ready", here.req)
  <1>1. SpineInv' /\ held' = held
    BY UntouchedSpine DEF ExchangeInv, PublishReady
  <1>2. /\ pc = "sealed" /\ pc' \in {"idle", "failing"} /\ here.req \in Request
        /\ UNCHANGED <<rows, exposure, adapter, open, here, closing, up, crashes>>
    BY DEF ExchangeInv, Shape, PublishReady, At, Goto, lifeVars
  <1>3. stream' \in {stream, Append(stream, e)} /\ faults' \in {faults, faults + 1}
    BY DEF PublishReady, Fault, Keeps
  <1>4. e \in StreamEvent /\ e.kind = "ready" /\ e.req = here.req
    BY <1>2 DEF StreamEvent, Event
  <1> HIDE DEF e
  <1>5. StreamTold
    BY <1>3, <1>4 DEF StreamTold
  <1>6. stream' \in Seq(StreamEvent) /\ \A r \in Request \ {here.req} : Same(r)
    BY <1>1, <1>2, <1>5, ToldIsSound DEF ExchangeInv, Same
  <1>7. Streamed(stream', here.req) => Streamed(stream, here.req)
    <2>1. stream \in Seq(StreamEvent)
      BY DEF ExchangeInv, Shape
    <2>2. CASE stream' = Append(stream, e)
      BY <1>4, <2>1, <2>2, StreamedAppended
    <2>3. QED
      BY <1>3, <2>2
  <1>8. Shape'
    BY <1>2, <1>3, <1>6 DEF ExchangeInv, Shape, Places
  <1>9. RunInv'
    BY <1>1, <1>2, <1>7 DEF ExchangeInv, RunInv, RunLocal, RunRecords, Unaborted
  <1>10. RecordOf(here.req)'
    BY <1>1, <1>2, <1>7 DEF ExchangeInv, RecordsInv, RecordOf
  <1>11. QED
    BY <1>1, <1>2, <1>6, <1>8, <1>9, <1>10, OneIsTouched DEF ExchangeInv

-----------------------------------------------------------------------------
(* The catch *)

LEMMA CatchExposureIsSound ==
  ASSUME ExchangeInv, CatchExposure
  PROVE  ExchangeInv' /\ Sealed
  <1>1. SpineInv' /\ held' = held
    BY UntouchedSpine DEF ExchangeInv, CatchExposure
  <1>2. /\ pc = "failing" /\ pc' = "caught" /\ here.req \in Request /\ here \in PhaseRecord
        /\ UNCHANGED <<rows, stream, adapter, open, closing, up, crashes, faults>>
    BY DEF ExchangeInv, Shape, CatchExposure, At, Goto, lifeVars
  <1>3. \/ exposure' = exposure
        \/ ~here.dispatched /\ exposure' = [exposure EXCEPT ![here.req] = "never_dispatched"]
    BY DEF CatchExposure
  <1>4. /\ here' \in PhaseRecord /\ here'.req = here.req /\ here'.pending = <<>>
        /\ here'.dispatched = here.dispatched /\ here'.aborted = here.aborted
        /\ here'.outcome = here.outcome \/ here.aborted
    <2>1. "aborted" \in Code /\ <<>> \in Seq(Fragment)
      BY EmptySeq DEF Code, NetworkCode
    <2>2. here' = [here EXCEPT !.pending = <<>>, !.failed = FALSE, !.hushed = {},
                               !.outcome = IF here.aborted THEN "aborted" ELSE here.outcome]
      BY DEF CatchExposure
    <2>3. (IF here.aborted THEN "aborted" ELSE here.outcome) \in Code \cup {NoCode}
      BY <1>2, <2>1 DEF PhaseRecord
    <2>4. QED
      BY <1>2, <2>1, <2>2, <2>3 DEF PhaseRecord
  <1>5. Shape'
    <2>1. Len(here'.pending) < MaxFragments
      BY <1>4, EmptySeq, FragmentsAssumption
    <2>2. exposure' \in [Request -> Disposition]
      BY <1>2, <1>3 DEF ExchangeInv, Shape, Disposition
    <2>3. QED
      BY <1>2, <1>4, <2>1, <2>2 DEF ExchangeInv, Shape, Places
  <1>6. RunLocal'
    BY <1>2, <1>4 DEF ExchangeInv, RunInv, RunLocal, Unaborted
  <1>7. RunRecords'
    BY <1>1, <1>2, <1>4 DEF ExchangeInv, RunInv, RunRecords
  <1>8. RecordOf(here.req)'
    <2>1. \/ exposure'[here.req] = exposure[here.req]
          \/ ~here.dispatched /\ exposure'[here.req] = "never_dispatched"
      BY <1>2, <1>3 DEF ExchangeInv, Shape
    <2>2. ~here.dispatched => ~Has(held, here.req, "raw") /\ ~Streamed(stream, here.req)
      BY <1>2 DEF ExchangeInv, RunInv, RunRecords
    <2>3. rows[here.req].stage # "none"
      BY <1>2 DEF ExchangeInv, RunInv, RunRecords
    <2>4. QED
      BY <1>1, <1>2, <1>4, <2>1, <2>2, <2>3 DEF ExchangeInv, RecordsInv, RecordOf
  <1>9. \A r \in Request \ {here.req} : Same(r)
    BY <1>1, <1>2, <1>3 DEF ExchangeInv, Shape, Same
  <1>10. QED
    BY <1>1, <1>2, <1>4, <1>5, <1>6, <1>7, <1>8, <1>9, OneIsTouched DEF ExchangeInv, RunInv

LEMMA CatchRowIsSound ==
  ASSUME ExchangeInv, CatchRow
  PROVE  ExchangeInv' /\ Sealed
  <1>1. SpineInv' /\ held' = held
    BY UntouchedSpine DEF ExchangeInv, CatchRow
  <1>2. /\ pc = "caught" /\ pc' = "closing" /\ here.req \in Request /\ here \in PhaseRecord
        /\ UNCHANGED <<exposure, stream, adapter, open, here, closing, up, crashes, faults>>
        /\ rows' = [rows EXCEPT ![here.req] = Row("done", here.outcome, FALSE)]
    BY DEF ExchangeInv, Shape, CatchRow, At, Goto, lifeVars
  <1>3. Row("done", here.outcome, FALSE) \in RowRecord
    BY <1>2 DEF Row, RowRecord, PhaseRecord
  <1>4. Shape'
    BY <1>2, <1>3 DEF ExchangeInv, Shape, Places
  <1>5. rows'[here.req].stage = "done" /\ rows'[here.req].outcome = here.outcome
    BY <1>2 DEF ExchangeInv, Shape, Row
  <1>6. RunInv'
    BY <1>1, <1>2, <1>5 DEF ExchangeInv, RunInv, RunLocal, RunRecords, Unaborted
  <1>7. RecordOf(here.req)'
    BY <1>1, <1>2, <1>5 DEF ExchangeInv, RunInv, RunRecords, RecordsInv, RecordOf
  <1>8. \A r \in Request \ {here.req} : Same(r)
    BY <1>1, <1>2 DEF ExchangeInv, Shape, Same
  <1>9. QED
    BY <1>1, <1>2, <1>4, <1>6, <1>7, <1>8, OneIsTouched DEF ExchangeInv

LEMMA CatchOutcomeIsSound ==
  ASSUME ExchangeInv, CatchOutcome
  PROVE  ExchangeInv' /\ Sealed
  <1> DEFINE f == OutcomeFrame(here.req, here.outcome)
  <1>1. /\ pc = "closing" /\ here.req \in Request /\ here \in PhaseRecord /\ pc' = "idle"
        /\ UNCHANGED <<rows, exposure, stream, adapter, open, here, closing, up, crashes>>
    BY DEF ExchangeInv, Shape, CatchOutcome, At, Goto, storeVars, lifeVars
  <1>2. f \in Frame /\ f.kind = "outcome" /\ f.req = here.req /\ f.code = here.outcome
    <2>1. here.outcome \in Code \cup {NoCode}
      BY <1>1 DEF PhaseRecord
    <2>2. QED
      BY <1>1, <2>1, FramesAreTyped DEF OutcomeFrame
  <1>3. SpineInv' /\ faults' \in {faults, faults + 1} /\ SpineTold(f)
    <2>1. CASE Appends(f)
      <3> HIDE DEF f
      <3>1. QED
        BY <1>2, <2>1, AppendsIsSound DEF ExchangeInv, SpineTold
    <2>2. CASE AppendThrows(f)
      <3> HIDE DEF f
      <3>1. QED
        BY <1>2, <2>2, AppendThrowsIsSound DEF ExchangeInv, SpineTold
    <2>3. CASE UNCHANGED <<spineVars, faults>>
      BY <2>3, UntouchedSpine DEF ExchangeInv, SpineTold
    <2>4. QED
      BY <2>1, <2>2, <2>3 DEF CatchOutcome
  <1> HIDE DEF f
  <1>4. Shape'
    BY <1>1, <1>3 DEF ExchangeInv, Shape, Places
  <1>5. RunInv'
    BY <1>1 DEF ExchangeInv, RunInv, RunLocal, RunRecords, Unaborted
  <1>6. \A g \in Seen(held', here.req) : g.kind = "outcome" => rows[here.req].outcome = g.code
    <2>1. rows[here.req].outcome = here.outcome
      BY <1>1 DEF ExchangeInv, RunInv, RunRecords
    <2>2. \A g \in Seen(held', here.req) : g \in Seen(held, here.req) \/ g = f
      BY <1>3 DEF SpineTold
    <2>3. QED
      BY <1>1, <1>2, <2>1, <2>2 DEF ExchangeInv, RecordsInv, RecordOf
  <1>7. RecordOf(here.req)'
    <2>1. Has(held, here.req, "dispatched") => Has(held', here.req, "dispatched")
      BY <1>3 DEF SpineTold, Has
    <2>2. Has(held', here.req, "raw") => Has(held, here.req, "raw")
      BY <1>2, <1>3 DEF SpineTold, Has
    <2>3. QED
      BY <1>1, <1>6, <2>1, <2>2 DEF ExchangeInv, RecordsInv, RecordOf
  <1>8. \A r \in Request \ {here.req} : Same(r)
    BY <1>1, <1>2, <1>3 DEF Same, SpineTold
  <1>9. QED
    BY <1>1, <1>3, <1>4, <1>5, <1>7, <1>8, OneIsTouched DEF ExchangeInv

-----------------------------------------------------------------------------
(* The process ends and starts again *)

LEMMA NoPhaseIsSound ==
  /\ Phase(NoRequest) \in PhaseRecord /\ Len(Phase(NoRequest).pending) < MaxFragments
  /\ Phase(NoRequest).pending = <<>>
  BY EmptySeq, FragmentsAssumption DEF Phase, PhaseRecord

LEMMA RestartingIsSound ==
  ASSUME ExchangeInv, NEW lines, Restarts(lines), lines = file \/ \E f \in Frame : lines = Torn(file, f),
         UNCHANGED storeVars, faults' = faults, up' \in BOOLEAN, crashes' \in Nat
  PROVE  ExchangeInv' /\ Sealed
  <1>1. SpineInv' /\ held' = held
    BY RestartsIsSound DEF ExchangeInv
  <1>2. /\ open' = {} /\ here' = Phase(NoRequest) /\ pc' = "idle" /\ closing' = FALSE
        /\ adapter' = [r \in Request |-> IF adapter[r] = "none" THEN "none" ELSE "done"]
    BY DEF Restarts
  <1>3. Shape'
    <2>1. adapter' \in [Request -> {"none", "calling", "broken", "silent", "done"}]
      BY <1>2
    <2>2. UNCHANGED <<rows, exposure, stream, faults>>
      BY DEF storeVars
    <2>3. here' \in PhaseRecord /\ Len(here'.pending) < MaxFragments
      BY <1>2, NoPhaseIsSound
    <2>4. QED
      BY <1>2, <2>1, <2>2, <2>3 DEF ExchangeInv, Shape, Places
  <1>4. RunInv'
    BY <1>2, NoPhaseIsSound DEF RunInv, RunLocal, RunRecords, Unaborted
  <1>5. QED
    BY <1>1, <1>3, <1>4, NoneIsTouched DEF ExchangeInv

LEMMA NextFrameIsTyped ==
  ASSUME ExchangeInv
  PROVE  NextFrame \subseteq Frame
  <1>1. here.outcome \in Code \cup {NoCode} /\ (pc # "idle" => here.req \in Request)
    BY DEF ExchangeInv, Shape, PhaseRecord
  <1>2. pc # "idle" => /\ FrameOf("dispatched", here.req) \in Frame /\ FrameOf("raw", here.req) \in Frame
                       /\ OutcomeFrame(here.req, here.outcome) \in Frame
    BY <1>1, FramesAreTyped DEF FrameKind
  <1>3. QED
    BY <1>2 DEF NextFrame

LEMMA CrashIsSound ==
  ASSUME ExchangeInv, Crash
  PROVE  ExchangeInv' /\ Sealed
  <1>1. PICK lines : Restarts(lines) /\ (lines = file \/ \E f \in Frame : lines = Torn(file, f))
    BY NextFrameIsTyped DEF Crash
  <1>2. UNCHANGED storeVars /\ faults' = faults /\ crashes' \in Nat /\ up
    BY DEF ExchangeInv, Shape, Crash
  <1>3. up' \in BOOLEAN
    <2>1. up' \in {up, FALSE}
      BY <1>1 DEF Restarts
    <2>2. QED
      BY <2>1 DEF ExchangeInv, Shape
  <1>4. QED
    BY <1>1, <1>2, <1>3, RestartingIsSound

LEMMA RestartIsSound ==
  ASSUME ExchangeInv, Restart
  PROVE  ExchangeInv' /\ Sealed
  <1>1. Restarts(file) /\ UNCHANGED storeVars /\ faults' = faults /\ crashes' \in Nat
    BY DEF ExchangeInv, Shape, Restart
  <1>2. up' \in BOOLEAN
    BY <1>1 DEF ExchangeInv, Shape, Restarts
  <1>3. QED
    BY <1>1, <1>2, RestartingIsSound

-----------------------------------------------------------------------------
(* The invariant *)

LEMMA InitIsSound == Init => ExchangeInv
  <1> SUFFICES ASSUME Init
               PROVE  ExchangeInv
    OBVIOUS
  <1>1. Shape
    BY NoPhaseIsSound, EmptySeq DEF Init, Shape, RowRecord, Row, Disposition, Places
  <1>2. file = <<>> /\ held = <<>> /\ DOMAIN held = {} /\ DOMAIN file = {}
    BY DEF Init, SpineInit
  <1>3. SpineInv
    <2>1. file \in Seq(Line) /\ held \in Seq(Frame)
      BY <1>2, EmptySeq
    <2>2. Frames(file) = held
      BY <1>2 DEF Frames
    <2>3. QED
      BY <1>2, <2>1, <2>2 DEF SpineInv, SpineTypeOK
  <1>4. RunInv
    BY NoPhaseIsSound DEF Init, RunInv, RunLocal, RunRecords, Unaborted
  <1>5. RecordsInv
    <2>1. \A r : Seen(held, r) = {}
      BY <1>2 DEF Seen
    <2>2. \A r : ~Streamed(stream, r)
      BY DEF Init, Streamed
    <2>3. QED
      BY <2>1, <2>2 DEF Init, RecordsInv, RecordOf
  <1>6. QED
    BY <1>1, <1>3, <1>4, <1>5 DEF ExchangeInv

LEMMA StutterIsSound ==
  ASSUME ExchangeInv, UNCHANGED vars
  PROVE  ExchangeInv' /\ Sealed
  <1>1. SpineInv' /\ held' = held
    BY UntouchedSpine DEF ExchangeInv, vars
  <1>2. UNCHANGED <<rows, exposure, stream, adapter, open, here, pc, closing, up, crashes, faults>>
    BY DEF vars, storeVars, lifeVars
  <1>3. Shape'
    BY <1>2 DEF ExchangeInv, Shape
  <1>4. RunInv'
    BY <1>1, <1>2 DEF ExchangeInv, RunInv, RunLocal, RunRecords
  <1>5. QED
    BY <1>1, <1>2, <1>3, <1>4, NoneIsTouched DEF ExchangeInv, storeVars

LEMMA EveryStepIsSound ==
  ASSUME ExchangeInv, [Next]_vars
  PROVE  ExchangeInv' /\ Sealed
  <1>1. CASE HostStep
    BY <1>1, RecordRowIsSound, CastGlassIsSound, AnnounceIsSound, DispatchIsSound, PresentIsSound,
       LandIsSound, FallbackDispatchIsSound, FallbackReturnIsSound, CompleteRowIsSound,
       SealOutcomeIsSound, PublishReadyIsSound, CatchExposureIsSound, CatchRowIsSound,
       CatchOutcomeIsSound DEF HostStep
  <1>2. ASSUME NEW r \in Request, Prepare(r)
        PROVE  ExchangeInv' /\ Sealed
    BY <1>2, PrepareIsSound
  <1>3. ASSUME NEW c \in Channel, Delta(c)
        PROVE  ExchangeInv' /\ Sealed
    BY <1>3, DeltaIsSound
  <1>4. ASSUME NEW r \in Request, NEW e \in Ending, AdapterEnds(r, e)
        PROVE  ExchangeInv' /\ Sealed
    BY <1>4, AdapterEndsIsSound
  <1>5. CASE AbortGrace \/ FlushTimer \/ SilentEnds \/ BeginClose
    BY <1>5, AbortGraceIsSound, FlushTimerIsSound, SilentEndsIsSound, BeginCloseIsSound
  <1>6. CASE Crash \/ Restart
    BY <1>6, CrashIsSound, RestartIsSound
  <1>7. CASE UNCHANGED vars
    BY <1>7, StutterIsSound
  <1>8. QED
    BY <1>1, <1>2, <1>3, <1>4, <1>5, <1>6, <1>7 DEF Next

LEMMA ExchangeInvHolds == Spec => []ExchangeInv
  <1>1. Init => ExchangeInv
    BY InitIsSound
  <1>2. ExchangeInv /\ [Next]_vars => ExchangeInv'
    BY EveryStepIsSound
  <1>3. QED
    BY <1>1, <1>2, PTL DEF Spec

LEMMA InvAgrees == ExchangeInv => RecordsAgree
  <1> SUFFICES ASSUME ExchangeInv
               PROVE  RecordsAgree
    OBVIOUS
  <1>1. PhaseTypeOK
    <2>1. SpineTypeOK
      BY DEF ExchangeInv, SpineInv
    <2>2. here.req \in Request \cup {NoRequest} /\ here.outcome \in Code \cup {NoCode}
          /\ here.pending \in Seq(Fragment)
      BY DEF ExchangeInv, Shape, PhaseRecord
    <2>3. QED
      BY <2>1, <2>2 DEF ExchangeInv, Shape, RowRecord, Places, PhaseTypeOK
  <1>2. SpineOutcomeIsTheRows
    <2>1. SUFFICES ASSUME NEW r \in Request, CodeIn(held, r) # NoCode
                   PROVE  rows[r].outcome = CodeIn(held, r)
      BY DEF SpineOutcomeIsTheRows
    <2> DEFINE told == CHOOSE f \in Seen(held, r) : f.kind = "outcome"
    <2>2. Has(held, r, "outcome") /\ CodeIn(held, r) = told.code
      BY <2>1 DEF CodeIn
    <2>3. told \in Seen(held, r) /\ told.kind = "outcome"
      BY <2>2 DEF Has
    <2> HIDE DEF told
    <2>4. QED
      BY <2>2, <2>3 DEF ExchangeInv, RecordsInv, RecordOf
  <1>3. ExposureTellsTheDispatch
    BY DEF ExposureTellsTheDispatch, ExchangeInv, RecordsInv, RecordOf
  <1>4. QED
    BY <1>1, <1>2, <1>3 DEF RecordsAgree

\* However appends are torn or refused and whenever the process dies, a session's
\* ledger that reads back is the history the last process held
\* (src/src/spine/store.js append, readFrames).
THEOREM SpineAlwaysReadsBack == Spec => []SpineReadsBack
  <1>1. ExchangeInv => SpineReadsBack
    BY InvReadsBack DEF ExchangeInv
  <1>2. QED
    BY <1>1, ExchangeInvHolds, PTL

\* The request row, the Spine, Roots and the wake stream never contradict each
\* other about a crossing, for any number of requests, channels, refused writes
\* and deaths of the process (src/src/runtime/provider-phase.js run).
THEOREM RecordsAlwaysAgree == Spec => []RecordsAgree
  <1>1. QED
    BY InvAgrees, ExchangeInvHolds, PTL

\* No adapter, however late it answers, changes a record of a phase that has
\* returned (providerCallbacksOpen in provider-phase.js).
THEOREM ReturnedPhasesStaySealed == Spec => ReturnedPhaseIsSealed
  <1> DEFINE Untouched == \A r \in Request : ~Running(r) /\ ~Running(r)' =>
               /\ Seen(held, r)' = Seen(held, r)
               /\ rows[r]' = rows[r]
               /\ \A i \in DOMAIN stream' : stream'[i].req = r => i \in DOMAIN stream /\ stream'[i] = stream[i]
  <1>1. Sealed => Untouched
    BY DEF Sealed, Same, Seen
  <1>2. ExchangeInv /\ [Next]_vars => [Untouched]_vars
    BY <1>1, EveryStepIsSound
  <1> HIDE DEF Untouched
  <1>3. Spec => [][Untouched]_vars
    BY <1>2, ExchangeInvHolds, PTL DEF Spec
  <1>4. QED
    BY <1>3 DEF ReturnedPhaseIsSealed, Untouched

-----------------------------------------------------------------------------
(* What a stream published of an answer *)

Told(before, e, r) == IF e.req = r THEN before \o e.frags ELSE before
Tells(s, r, f) == f = [i \in 0..Len(s) |-> IF i = 0 THEN <<>> ELSE Told(f[i - 1], s[i], r)]

LEMMA FragmentsEnd ==
  ASSUME NEW s, NEW r
  PROVE  FragmentsOf(s, r) = (CHOOSE f : Tells(s, r, f))[Len(s)]
  BY DEF FragmentsOf, Tells, Told

LEMMA FragmentsRun ==
  ASSUME NEW s, NEW r, Len(s) \in Nat
  PROVE  \E f : Tells(s, r, f)
  <1> DEFINE R(N, f) == f = [i \in 0..N |-> IF i = 0 THEN <<>> ELSE Told(f[i - 1], s[i], r)]
             S == {N \in Nat : \E f : R(N, f)}
  <1>1. 0 \in S
    <2> DEFINE f == [i \in 0..0 |-> <<>>]
    <2>1. R(0, f)
      OBVIOUS
    <2>2. QED
      BY <2>1
  <1>2. ASSUME NEW N \in Nat, N \in S
        PROVE  N + 1 \in S
    <2>1. PICK f : R(N, f)
      BY <1>2
    <2> DEFINE g == [i \in 0..N + 1 |-> IF i = 0 THEN <<>> ELSE Told(f[i - 1], s[i], r)]
    <2>2. \A i \in 0..N : g[i] = f[i]
      <3>1. TAKE i \in 0..N
      <3>2. i \in 0..N + 1
        OBVIOUS
      <3>3. f[i] = IF i = 0 THEN <<>> ELSE Told(f[i - 1], s[i], r)
        BY <2>1
      <3>4. QED
        BY <3>2, <3>3
    <2>3. ASSUME NEW i \in 0..N + 1
          PROVE  g[i] = IF i = 0 THEN <<>> ELSE Told(g[i - 1], s[i], r)
      <3>1. i # 0 => i - 1 \in 0..N
        OBVIOUS
      <3>2. i # 0 => g[i - 1] = f[i - 1]
        BY <2>2, <3>1
      <3>3. QED
        BY <3>2
    <2>4. R(N + 1, g)
      <3>1. g = [i \in 0..N + 1 |-> g[i]]
        OBVIOUS
      <3> HIDE DEF g
      <3>2. QED
        BY <2>3, <3>1
    <2>5. \E h : R(N + 1, h)
      BY <2>4
    <2>6. QED
      BY <2>5
  <1> HIDE DEF S
  <1>3. \A N \in Nat : N \in S
    BY <1>1, <1>2, NatsByInduction
  <1>4. Len(s) \in S
    BY <1>3
  <1>5. QED
    BY <1>4 DEF S, Tells

\* Event after event, from nothing.
LEMMA FragmentsAre ==
  ASSUME NEW s, NEW r, Len(s) \in Nat
  PROVE  \E f : /\ FragmentsOf(s, r) = f[Len(s)]
                /\ f[0] = <<>>
                /\ \A i \in 1..Len(s) : f[i] = Told(f[i - 1], s[i], r)
  <1> DEFINE f == CHOOSE f : Tells(s, r, f)
  <1>1. Tells(s, r, f) /\ FragmentsOf(s, r) = f[Len(s)]
    BY FragmentsRun, FragmentsEnd
  <1> HIDE DEF f
  <1>2. f[0] = <<>> /\ \A i \in 1..Len(s) : f[i] = Told(f[i - 1], s[i], r)
    BY <1>1 DEF Tells
  <1>3. QED
    BY <1>1, <1>2

LEMMA FragmentsOfOneMore ==
  ASSUME NEW s \in Seq(StreamEvent), NEW e \in StreamEvent, NEW r
  PROVE  FragmentsOf(Append(s, e), r) = Told(FragmentsOf(s, r), e, r)
  <1> DEFINE t == Append(s, e)
  <1>1. /\ Len(s) \in Nat /\ Len(t) = Len(s) + 1 /\ t[Len(s) + 1] = e
        /\ \A i \in 1..Len(s) : t[i] = s[i]
    BY AppendProperties, LenProperties
  <1> HIDE DEF t
  <1>2. PICK f : /\ FragmentsOf(s, r) = f[Len(s)] /\ f[0] = <<>>
                 /\ \A i \in 1..Len(s) : f[i] = Told(f[i - 1], s[i], r)
    BY <1>1, FragmentsAre
  <1>3. \A u : Len(u) \in Nat => \E g : /\ FragmentsOf(u, r) = g[Len(u)] /\ g[0] = <<>>
                                        /\ \A i \in 1..Len(u) : g[i] = Told(g[i - 1], u[i], r)
    BY FragmentsAre
  <1>4. Len(t) \in Nat
    BY <1>1
  <1>5. PICK g : /\ FragmentsOf(t, r) = g[Len(t)] /\ g[0] = <<>>
                 /\ \A i \in 1..Len(t) : g[i] = Told(g[i - 1], t[i], r)
    BY <1>3, <1>4
  <1> DEFINE S == {i \in Nat : g[i] = f[i]}
  <1>6. 0 \in S
    BY <1>2, <1>5
  <1>7. ASSUME NEW i \in 0..Len(s), i < Len(s), i \in S
        PROVE  i + 1 \in S
    <2>1. i + 1 \in 1..Len(s) /\ i + 1 \in 1..Len(t) /\ i + 1 - 1 = i
      BY <1>1, <1>7
    <2>2. f[i + 1] = Told(f[i], s[i + 1], r)
      BY <1>2, <2>1
    <2>3. g[i + 1] = Told(g[i], t[i + 1], r)
      BY <1>5, <2>1
    <2>4. QED
      BY <1>1, <1>7, <2>1, <2>2, <2>3
  <1> HIDE DEF S
  <1>8. Len(s) \in S
    <2>1. \A i \in 0..Len(s) : i \in S
      BY <1>1, <1>6, <1>7, IntervalByInduction
    <2>2. QED
      BY <1>1, <2>1
  <1>9. g[Len(t)] = Told(g[Len(s)], e, r)
    <2>1. Len(s) + 1 \in 1..Len(t) /\ Len(s) + 1 - 1 = Len(s)
      BY <1>1
    <2>2. g[Len(s) + 1] = Told(g[Len(s)], t[Len(s) + 1], r)
      BY <1>5, <2>1
    <2>3. QED
      BY <1>1, <2>2
  <1>10. FragmentsOf(t, r) = Told(FragmentsOf(s, r), e, r)
    BY <1>2, <1>5, <1>8, <1>9 DEF S
  <1>11. QED
    BY <1>10 DEF t

\* They are fragments, and there are none of a request that was never spoken of.
LEMMA FragmentsAreTyped ==
  ASSUME NEW s \in Seq(StreamEvent), NEW r
  PROVE  /\ FragmentsOf(s, r) \in Seq(Fragment)
         /\ (\A i \in DOMAIN s : s[i].req # r) => FragmentsOf(s, r) = <<>>
  <1>1. Len(s) \in Nat /\ DOMAIN s = 1..Len(s) /\ \A i \in 1..Len(s) : s[i].frags \in Seq(Fragment)
    <2>1. Len(s) \in Nat /\ DOMAIN s = 1..Len(s) /\ \A i \in 1..Len(s) : s[i] \in StreamEvent
      BY LenProperties, ElementOfSeq
    <2>2. QED
      BY <2>1 DEF StreamEvent
  <1>2. PICK f : /\ FragmentsOf(s, r) = f[Len(s)] /\ f[0] = <<>>
                 /\ \A i \in 1..Len(s) : f[i] = Told(f[i - 1], s[i], r)
    BY <1>1, FragmentsAre
  <1> DEFINE S == {i \in Nat : f[i] \in Seq(Fragment) /\ ((\A k \in DOMAIN s : s[k].req # r) => f[i] = <<>>)}
  <1>3. 0 \in S
    <2>1. <<>> \in Seq(Fragment)
      BY EmptySeq
    <2>2. QED
      BY <1>2, <2>1
  <1>4. ASSUME NEW i \in 0..Len(s), i < Len(s), i \in S
        PROVE  i + 1 \in S
    <2>1. i + 1 \in 1..Len(s) /\ i + 1 - 1 = i
      BY <1>1, <1>4
    <2>2. f[i + 1] = Told(f[i], s[i + 1], r)
      BY <1>2, <2>1
    <2>3. f[i] \o s[i + 1].frags \in Seq(Fragment)
      <3>1. f[i] \in Seq(Fragment) /\ s[i + 1].frags \in Seq(Fragment)
        BY <1>1, <1>4, <2>1
      <3>2. QED
        BY <3>1, ConcatProperties
    <2>4. f[i + 1] \in Seq(Fragment)
      BY <1>4, <2>2, <2>3 DEF Told
    <2>5. (\A k \in DOMAIN s : s[k].req # r) => f[i + 1] = f[i]
      BY <1>1, <2>1, <2>2 DEF Told
    <2>6. QED
      BY <1>4, <2>1, <2>4, <2>5
  <1> HIDE DEF S
  <1>5. \A i \in 0..Len(s) : i \in S
    BY <1>1, <1>3, <1>4, IntervalByInduction
  <1>6. Len(s) \in S
    BY <1>1, <1>5
  <1>7. QED
    BY <1>2, <1>6 DEF S

-----------------------------------------------------------------------------
(* What was offered is published, or still pending *)

Early == {"prepared", "recorded", "cast", "announced", "dispatching"}
After == {"returned", "rowed", "sealed"}

Collected(p) == FragmentsOf(stream, p.req) \o p.pending = p.offered

\* Where nothing that was offered may be missing: not after a flush that threw.
Due ==
  \/ pc \in Early \cup After
  \/ pc = "awaiting" /\ ~here.failed /\ adapter[here.req] # "broken"
  \/ pc = "landed" /\ ~here.failed /\ here.answer = "value"

Known == \A i \in DOMAIN stream : rows[stream[i].req].stage # "none"
NotYetReady == \A i \in DOMAIN stream : stream[i].req = here.req => stream[i].kind # "ready"

WholeInv ==
  /\ Known
  /\ pc # "idle" => NotYetReady
  /\ pc \in {"dispatching", "awaiting", "landed"} => here.req \in open
  /\ Due => Collected(here)
  /\ pc \in After => here.pending = <<>>
  /\ pc = "idle" => ReadyWasWhole

LEMMA EventsAreTyped ==
  ASSUME Shape
  PROVE  \A i \in DOMAIN stream : stream[i].req \in Request
  <1>1. stream \in Seq(StreamEvent)
    BY DEF Shape
  <1>2. DOMAIN stream = 1..Len(stream) /\ \A i \in 1..Len(stream) : stream[i] \in StreamEvent
    BY <1>1, LenProperties, ElementOfSeq
  <1>3. QED
    BY <1>2 DEF StreamEvent

LEMMA InvIsWhole == WholeInv => ReadyWasWhole
  BY DEF WholeInv, NotYetReady, ReadyWasWhole

\* Nothing is published, and whatever is due was due before.
LEMMA NothingPublished ==
  ASSUME Shape, WholeInv, pc # "idle", stream' = stream, here'.req = here.req,
         \A r \in Request : rows'[r].stage = "none" => rows[r].stage = "none",
         Due' => Due /\ here'.pending = here.pending /\ here'.offered = here.offered,
         pc' \in {"dispatching", "awaiting", "landed"} => here.req \in open',
         pc' \in After => here'.pending = <<>>
  PROVE  WholeInv'
  <1>1. \A i \in DOMAIN stream : stream[i].req \in Request
    BY EventsAreTyped
  <1>2. Known'
    BY <1>1 DEF WholeInv, Known
  <1>3. NotYetReady' /\ ReadyWasWhole'
    BY DEF WholeInv, NotYetReady, ReadyWasWhole
  <1>4. Due' => FragmentsOf(stream, here'.req) \o here'.pending = here'.offered
    BY DEF WholeInv, Collected
  <1>5. QED
    BY <1>2, <1>3, <1>4 DEF WholeInv, Collected

LEMMA NothingRuns ==
  ASSUME WholeInv, pc = "idle", pc' = "idle", UNCHANGED <<stream, rows, here>>
  PROVE  WholeInv'
  <1>1. Known' /\ ReadyWasWhole'
    BY DEF WholeInv, Known, ReadyWasWhole
  <1>2. ~Due' /\ pc' \notin After
    BY DEF Due, Early, After
  <1>3. QED
    BY <1>1, <1>2 DEF WholeInv

LEMMA PublishedIs ==
  ASSUME NEW s \in Seq(StreamEvent), NEW e \in StreamEvent
  PROVE  /\ Append(s, e) \in Seq(StreamEvent)
         /\ DOMAIN s \subseteq DOMAIN Append(s, e)
         /\ \A i \in DOMAIN Append(s, e) : (i \in DOMAIN s /\ Append(s, e)[i] = s[i]) \/ Append(s, e)[i] = e
  <1>1. /\ Append(s, e) \in Seq(StreamEvent) /\ Len(Append(s, e)) = Len(s) + 1
        /\ Append(s, e)[Len(s) + 1] = e /\ \A i \in 1..Len(s) : Append(s, e)[i] = s[i]
    BY AppendProperties
  <1>2. Len(s) \in Nat /\ DOMAIN s = 1..Len(s) /\ DOMAIN Append(s, e) = 1..Len(s) + 1
    BY <1>1, LenProperties
  <1>3. \A i \in DOMAIN Append(s, e) : i \in DOMAIN s \/ i = Len(s) + 1
    BY <1>2
  <1>4. QED
    BY <1>1, <1>2, <1>3

\* An event of the running phase is published, which does not call it ready.
LEMMA SomethingPublished ==
  ASSUME ExchangeInv, WholeInv, pc \notin {"idle", "prepared"}, pc' # "idle", rows' = rows,
         here'.req = here.req,
         NEW e \in StreamEvent, e.req = here.req, e.kind # "ready", stream' = Append(stream, e),
         Due' => FragmentsOf(stream', here'.req) \o here'.pending = here'.offered,
         pc' \in {"dispatching", "awaiting", "landed"} => here.req \in open',
         pc' \in After => here'.pending = <<>>
  PROVE  WholeInv'
  <1>1. stream \in Seq(StreamEvent) /\ rows[here.req].stage # "none"
    BY DEF ExchangeInv, Shape, RunInv, RunRecords
  <1>2. \A i \in DOMAIN stream' : (i \in DOMAIN stream /\ stream'[i] = stream[i]) \/ stream'[i] = e
    BY <1>1, PublishedIs
  <1>3. Known'
    <2>1. \A i \in DOMAIN stream' : rows'[stream'[i].req].stage # "none"
      BY <1>1, <1>2 DEF WholeInv, Known
    <2>2. QED
      BY <2>1 DEF Known
  <1>4. NotYetReady'
    BY <1>2 DEF WholeInv, NotYetReady
  <1>5. QED
    BY <1>3, <1>4 DEF WholeInv, Collected

LEMMA WhatIsLeft ==
  ASSUME NEW S, NEW p \in Seq(S), NEW q \in Seq(S)
  PROVE  SubSeq(p \o q, Len(p) + 1, Len(p \o q)) = q
  <1> DEFINE t == p \o q
             u == SubSeq(t, Len(p) + 1, Len(t))
  <1>1. /\ Len(p) \in Nat /\ Len(q) \in Nat /\ t \in Seq(S) /\ Len(t) = Len(p) + Len(q)
        /\ \A i \in 1..Len(p) + Len(q) : t[i] = IF i <= Len(p) THEN p[i] ELSE q[i - Len(p)]
    BY ConcatProperties, LenProperties
  <1> HIDE DEF t
  <1>2. u \in Seq(S) /\ Len(u) = Len(q) /\ \A i \in 1..Len(q) : u[i] = t[Len(p) + i]
    BY <1>1
  <1>3. \A i \in 1..Len(q) : t[Len(p) + i] = q[i]
    <2>1. TAKE i \in 1..Len(q)
    <2>2. Len(p) + i \in 1..Len(p) + Len(q) /\ ~(Len(p) + i <= Len(p)) /\ Len(p) + i - Len(p) = i
      BY <1>1, <2>1
    <2>3. QED
      BY <1>1, <2>2
  <1> HIDE DEF u
  <1>4. u = q
    BY <1>2, <1>3, SeqEqual
  <1>5. QED
    BY <1>4 DEF u, t

\* A flush moves what is pending into the stream, and only that.
LEMMA EmitsWhole ==
  ASSUME Shape, NEW now \in PhaseRecord, NEW then \in PhaseRecord, NEW rest \in Seq(Fragment),
         now.req \in Request, then.req = now.req, then.pending = now.pending \o rest,
         Emits(now, then)
  PROVE  /\ here'.req = then.req /\ here'.failed = then.failed
         /\ FragmentsOf(stream, now.req) \o then.pending = then.offered =>
              FragmentsOf(stream', here'.req) \o here'.pending = here'.offered
         /\ here'.pending = IF now.pending = <<>> THEN then.pending ELSE rest
         /\ \/ stream' = stream
            \/ \E e \in StreamEvent : e.req = now.req /\ e.kind # "ready" /\ stream' = Append(stream, e)
  <1>1. CASE now.pending = <<>>
    BY <1>1 DEF Emits
  <1>2. CASE now.pending # <<>>
    <2>1. now.pending \in Seq(Fragment) /\ stream \in Seq(StreamEvent)
      BY DEF PhaseRecord, Shape
    <2>2. SubSeq(then.pending, Len(now.pending) + 1, Len(then.pending)) = rest
      BY <2>1, WhatIsLeft
    <2>3. PICK b \in BOOLEAN : stream' = Append(stream, DeltaEvent(now.req, now.pending, b))
      BY <1>2 DEF Emits
    <2>4. here'.pending = rest /\ here'.req = then.req
      BY <1>2, <2>2 DEF Emits, PhaseRecord
    <2>5. here'.offered = then.offered /\ here'.failed = then.failed
      BY <1>2, <2>2 DEF Emits, PhaseRecord
    <2> DEFINE e == DeltaEvent(now.req, now.pending, b)
    <2>6. e \in StreamEvent /\ e.req = now.req /\ e.frags = now.pending /\ e.kind # "ready"
      BY <2>1 DEF DeltaEvent, StreamEvent
    <2> HIDE DEF e
    <2>7. stream' = Append(stream, e)
      BY <2>3 DEF e
    <2>8. FragmentsOf(Append(stream, e), now.req) = FragmentsOf(stream, now.req) \o now.pending
      BY <2>1, <2>6, FragmentsOfOneMore DEF Told
    <2> DEFINE told == FragmentsOf(stream, now.req)
    <2>9. told \in Seq(Fragment)
      BY <2>1, FragmentsAreTyped
    <2> HIDE DEF told
    <2>10. (told \o now.pending) \o rest = told \o (now.pending \o rest)
      <3>1. \A s, t, u \in Seq(Fragment) : (s \o t) \o u = s \o (t \o u)
        BY ConcatAssociative
      <3>2. QED
        BY <2>1, <2>9, <3>1
    <2>11. told \o then.pending = then.offered =>
             FragmentsOf(stream', here'.req) \o here'.pending = here'.offered
      BY <2>4, <2>5, <2>7, <2>8, <2>10 DEF told
    <2>12. QED
      BY <1>2, <2>4, <2>5, <2>6, <2>7, <2>11 DEF told
  <1>3. QED
    BY <1>1, <1>2

-----------------------------------------------------------------------------
(* Step by step *)

LEMMA PrepareIsWhole ==
  ASSUME ExchangeInv, WholeInv, NEW r \in Request, Prepare(r)
  PROVE  WholeInv'
  <1>1. /\ pc = "idle" /\ rows[r].stage = "none" /\ here' = Phase(r) /\ pc' \in {"prepared", "idle"}
        /\ UNCHANGED <<rows, stream, open>> /\ stream \in Seq(StreamEvent)
    BY DEF Prepare, At, Goto, storeVars, ExchangeInv, Shape
  <1>2. here'.req = r /\ here'.pending = <<>> /\ here'.offered = <<>>
    BY <1>1 DEF Phase
  <1>3. \A i \in DOMAIN stream : stream[i].req # r
    BY <1>1 DEF WholeInv, Known
  <1>4. FragmentsOf(stream, r) = <<>>
    BY <1>1, <1>3, FragmentsAreTyped
  <1>5. <<>> \o <<>> = <<>>
    BY EmptySeq, ConcatEmptySeq
  <1>6. FragmentsOf(stream', here'.req) \o here'.pending = here'.offered
    BY <1>1, <1>2, <1>4, <1>5
  <1>7. Known' /\ NotYetReady' /\ ReadyWasWhole'
    BY <1>1, <1>2, <1>3 DEF WholeInv, Known, NotYetReady, ReadyWasWhole
  <1>8. QED
    BY <1>1, <1>6, <1>7 DEF WholeInv, Collected, After

\* Steps that publish nothing.
LEMMA QuietStepsAreWhole ==
  ASSUME ExchangeInv, WholeInv,
         RecordRow \/ CastGlass \/ Dispatch \/ Present \/ FallbackDispatch \/ FallbackReturn \/ CompleteRow
           \/ SealOutcome \/ CatchExposure \/ CatchRow \/ CatchOutcome
  PROVE  WholeInv'
  <1>1. here \in PhaseRecord /\ Shape /\ rows \in [Request -> RowRecord]
    BY DEF ExchangeInv, Shape
  <1>2. pc # "idle" /\ stream' = stream
    BY DEF RecordRow, CastGlass, Dispatch, Present, FallbackDispatch, FallbackReturn, CompleteRow, SealOutcome,
       CatchExposure, CatchRow, CatchOutcome, At, storeVars
  <1>3. here.req \in Request
    BY <1>1, <1>2 DEF Shape
  <1>4. \A r \in Request : rows'[r].stage = "none" => rows[r].stage = "none"
    <2>1. rows' = rows \/ \E s \in {"open", "done"} : \E c, b : rows' = [rows EXCEPT ![here.req] = Row(s, c, b)]
      BY DEF RecordRow, CastGlass, Dispatch, Present, FallbackDispatch, FallbackReturn, CompleteRow, SealOutcome,
         CatchExposure, CatchRow, CatchOutcome, storeVars
    <2>2. CASE rows' = rows
      BY <2>2
    <2>3. ASSUME NEW s \in {"open", "done"}, NEW c, NEW b, rows' = [rows EXCEPT ![here.req] = Row(s, c, b)]
          PROVE  \A r \in Request : rows'[r].stage = "none" => rows[r].stage = "none"
      <3>1. Row(s, c, b).stage # "none"
        BY DEF Row
      <3>2. \A r \in Request : rows'[r] = IF r = here.req THEN Row(s, c, b) ELSE rows[r]
        BY <1>1, <2>3
      <3>3. QED
        BY <3>1, <3>2
    <2>4. QED
      BY <2>1, <2>2, <2>3
  <1>5. CASE RecordRow \/ CastGlass
    <2>1. here' = here /\ pc \in Early /\ pc' \in {"recorded", "cast", "idle"}
      BY <1>5 DEF RecordRow, CastGlass, At, Goto, Early
    <2>2. QED
      BY <1>1, <1>2, <1>4, <2>1, NothingPublished DEF Due, After
  <1>6. CASE Dispatch
    <2>1. here' = here /\ pc \in Early /\ pc' \in {"dispatching", "landed", "awaiting"} /\ here.req \in open'
      BY <1>6 DEF Dispatch, At, Goto, Early
    <2>2. QED
      BY <1>1, <1>2, <1>4, <2>1, NothingPublished DEF Due, After
  <1>7. CASE Present
    <2>1. pc = "dispatching" /\ pc' \in {"landed", "awaiting"} /\ open' = open
      BY <1>7 DEF Present, At, Goto
    <2>2. here'.req = here.req /\ here'.pending = here.pending /\ here'.offered = here.offered
      BY <1>1, <1>7 DEF Present, PhaseRecord
    <2>3. here.req \in open /\ Due
      BY <2>1 DEF WholeInv, Due, Early
    <2>4. QED
      BY <1>1, <1>2, <1>4, <2>1, <2>2, <2>3, NothingPublished DEF After
  <1>8. CASE FallbackDispatch \/ FallbackReturn \/ CompleteRow \/ SealOutcome
    <2>1. pc \in After /\ pc' \in {"returned", "rowed", "sealed", "failing"}
      BY <1>8 DEF FallbackDispatch, FallbackReturn, CompleteRow, SealOutcome, At, Goto, After
    <2>2. here'.req = here.req /\ here'.pending = here.pending /\ here'.offered = here.offered
      BY <1>1, <1>8 DEF FallbackDispatch, FallbackReturn, CompleteRow, SealOutcome, PhaseRecord
    <2>3. here.pending = <<>> /\ Due
      BY <2>1 DEF WholeInv, Due
    <2>4. QED
      BY <1>1, <1>2, <1>4, <2>1, <2>2, <2>3, NothingPublished
  <1>9. CASE CatchExposure \/ CatchRow \/ CatchOutcome
    <2>1. pc' \in {"caught", "closing", "idle"}
      BY <1>9 DEF CatchExposure, CatchRow, CatchOutcome, Goto
    <2>2. here'.req = here.req
      BY <1>1, <1>9 DEF CatchExposure, CatchRow, CatchOutcome, PhaseRecord
    <2>3. ~Due' /\ pc' \notin After
      BY <2>1 DEF Due, Early, After
    <2>4. QED
      BY <1>1, <1>2, <1>4, <2>1, <2>2, <2>3, NothingPublished
  <1>10. QED
    BY <1>5, <1>6, <1>7, <1>8, <1>9

LEMMA AnnounceIsWhole ==
  ASSUME ExchangeInv, WholeInv, Announce
  PROVE  WholeInv'
  <1> DEFINE e == Event("started", here.req)
  <1>1. /\ pc = "cast" /\ here' = here /\ here.req \in Request /\ stream \in Seq(StreamEvent) /\ Shape
        /\ rows' = rows /\ here \in PhaseRecord
    BY DEF Announce, At, ExchangeInv, Shape
  <1>2. Due
    BY <1>1 DEF Due, Early
  <1>3. CASE pc' = "idle" /\ stream' = stream
    <2>1. ~Due' /\ pc' \notin After
      BY <1>3 DEF Due, Early, After
    <2>2. QED
      BY <1>1, <1>3, <2>1, NothingPublished
  <1>4. CASE pc' = "announced" /\ stream' = Append(stream, e)
    <2>1. e \in StreamEvent /\ e.req = here.req /\ e.frags = <<>> /\ e.kind # "ready"
      BY <1>1, EmptySeq DEF Event, StreamEvent
    <2> HIDE DEF e
    <2>2. FragmentsOf(stream', here.req) = FragmentsOf(stream, here.req) \o <<>>
      BY <1>1, <1>4, <2>1, FragmentsOfOneMore DEF Told
    <2>3. FragmentsOf(stream', here.req) = FragmentsOf(stream, here.req)
      BY <1>1, <2>2, FragmentsAreTyped, ConcatEmptySeq
    <2>4. FragmentsOf(stream', here'.req) \o here'.pending = here'.offered
      BY <1>1, <1>2, <2>3 DEF WholeInv, Collected
    <2>5. pc' \notin After /\ pc' \notin {"dispatching", "awaiting", "landed"}
      BY <1>4 DEF After
    <2>6. QED
      BY <1>1, <1>4, <2>1, <2>4, <2>5, SomethingPublished
  <1>5. QED
    BY <1>3, <1>4 DEF Announce, Goto

\* A flush, by the timer, by a full collector, at a change of channel or at the end.
LEMMA FlushIsWhole ==
  ASSUME ExchangeInv, WholeInv, pc \in {"awaiting", "landed"}, pc' \in {"awaiting", "returned"}, rows' = rows,
         NEW now \in PhaseRecord, NEW then \in PhaseRecord, NEW rest \in Seq(Fragment),
         now.req = here.req, then.req = here.req, then.pending = now.pending \o rest,
         Due' => FragmentsOf(stream, here.req) \o then.pending = then.offered, Emits(now, then),
         pc' = "awaiting" => open' = open,
         pc' = "returned" => rest = <<>>
  PROVE  WholeInv'
  <1>1. Shape /\ here.req \in Request
    BY DEF ExchangeInv, Shape
  <1>2. /\ here'.req = here.req
        /\ Due' => FragmentsOf(stream', here'.req) \o here'.pending = here'.offered
        /\ here'.pending = IF now.pending = <<>> THEN then.pending ELSE rest
        /\ \/ stream' = stream
           \/ \E e \in StreamEvent : e.req = here.req /\ e.kind # "ready" /\ stream' = Append(stream, e)
    <2>1. now.req \in Request /\ then.req = now.req
      BY <1>1
    <2>2. /\ here'.req = then.req
          /\ FragmentsOf(stream, now.req) \o then.pending = then.offered =>
               FragmentsOf(stream', here'.req) \o here'.pending = here'.offered
          /\ here'.pending = IF now.pending = <<>> THEN then.pending ELSE rest
          /\ \/ stream' = stream
             \/ \E e \in StreamEvent : e.req = now.req /\ e.kind # "ready" /\ stream' = Append(stream, e)
      BY <1>1, <2>1, EmitsWhole
    <2>3. Due' => FragmentsOf(stream, now.req) \o then.pending = then.offered
      OBVIOUS
    <2>4. QED
      BY <2>2, <2>3
  <1>3. rest = <<>> => here'.pending = <<>>
    <2>1. <<>> \o <<>> = <<>>
      BY EmptySeq, ConcatEmptySeq
    <2>2. QED
      BY <1>2, <2>1
  <1>4. here.req \in open
    BY DEF WholeInv
  <1>5. (pc' \in {"dispatching", "awaiting", "landed"} => here.req \in open') /\ (pc' \in After => here'.pending = <<>>)
    BY <1>3, <1>4 DEF After
  <1>6. ASSUME stream' = stream
        PROVE  WholeInv'
    <2>1. \A i \in DOMAIN stream : stream[i].req \in Request
      BY <1>1, EventsAreTyped
    <2>2. Known' /\ NotYetReady'
      BY <1>2, <1>6 DEF WholeInv, Known, NotYetReady
    <2>3. QED
      BY <1>2, <1>5, <2>2 DEF WholeInv, Collected
  <1>7. ASSUME NEW e \in StreamEvent, e.req = here.req, e.kind # "ready", stream' = Append(stream, e)
        PROVE  WholeInv'
    <2>1. pc \notin {"idle", "prepared"} /\ pc' # "idle"
      OBVIOUS
    <2>2. QED
      BY <1>2, <1>5, <1>7, <2>1, SomethingPublished
  <1>8. QED
    BY <1>2, <1>6, <1>7

LEMMA FlushTimerIsWhole ==
  ASSUME ExchangeInv, WholeInv, FlushTimer
  PROVE  WholeInv'
  <1>1. /\ pc = "awaiting" /\ pc' = pc /\ open' = open /\ rows' = rows /\ adapter' = adapter /\ ~here.failed
        /\ here \in PhaseRecord /\ Shape
    BY DEF FlushTimer, At, ExchangeInv, Shape
  <1>2. here.pending \in Seq(Fragment) /\ <<>> \in Seq(Fragment) /\ here.pending = here.pending \o <<>>
    BY <1>1, EmptySeq, ConcatEmptySeq DEF PhaseRecord
  <1>3. CASE Emits(here, here)
    <2>1. here'.req = here.req /\ here'.failed = here.failed
      BY <1>1, <1>2, <1>3, EmitsWhole DEF ExchangeInv, Shape
    <2>2. Due' => Collected(here)
      BY <1>1, <2>1 DEF WholeInv, Due, Early, After
    <2>3. Due' => FragmentsOf(stream, here.req) \o here.pending = here.offered
      BY <2>2 DEF Collected
    <2>4. QED
      BY <1>1, <1>2, <1>3, <2>3, FlushIsWhole
  <1>4. CASE EmitThrows(here, [here EXCEPT !.pending = <<>>, !.failed = TRUE])
    <2>1. stream' = stream /\ here' = [here EXCEPT !.pending = <<>>, !.failed = TRUE]
      BY <1>4 DEF EmitThrows
    <2>2. here'.req = here.req /\ here'.failed
      BY <1>1, <2>1 DEF PhaseRecord
    <2>3. ~Due' /\ pc' \notin After
      BY <1>1, <2>2 DEF Due, Early, After
    <2>4. QED
      BY <1>1, <2>1, <2>2, <2>3, NothingPublished DEF WholeInv
  <1>5. QED
    BY <1>3, <1>4 DEF FlushTimer

\* A step of the running phase after which nothing is due.
LEMMA NothingDue ==
  ASSUME Shape, WholeInv, pc # "idle", stream' = stream, rows' = rows, here'.req = here.req,
         ~Due', pc' = "awaiting" => open' = open /\ pc = "awaiting", pc' \in {"awaiting", "failing"}
  PROVE  WholeInv'
  <1>1. pc' \notin After
    BY DEF After
  <1>2. pc' \in {"dispatching", "awaiting", "landed"} => here.req \in open'
    BY DEF WholeInv
  <1>3. \A r \in Request : rows'[r].stage = "none" => rows[r].stage = "none"
    OBVIOUS
  <1>4. QED
    BY <1>1, <1>2, <1>3, NothingPublished

LEMMA DeltaIsWhole ==
  ASSUME ExchangeInv, WholeInv, NEW c \in Channel, Delta(c)
  PROVE  WholeInv'
  <1> DEFINE f == [chan |-> c, n |-> Len(here.offered) + 1]
             took == [here EXCEPT !.pending = Append(@, f), !.offered = Append(@, f)]
             break == adapter' = [adapter EXCEPT ![here.req] = "broken"]
  <1>1. /\ pc = "awaiting" /\ here \in PhaseRecord /\ here.req \in Request /\ Shape
        /\ pc' = pc /\ open' = open /\ adapter[here.req] = "calling" /\ rows' = rows
        /\ adapter \in [Request -> {"none", "calling", "broken", "silent", "done"}]
    BY DEF ExchangeInv, Shape, Delta, At
  <1>2. /\ here.pending \in Seq(Fragment) /\ here.offered \in Seq(Fragment)
        /\ Len(here.pending) \in Nat /\ Len(here.offered) \in Nat
    BY <1>1, LenProperties DEF PhaseRecord
  <1>3. f \in Fragment
    BY <1>2 DEF Fragment
  <1>4. /\ Append(here.pending, f) \in Seq(Fragment) /\ Append(here.offered, f) \in Seq(Fragment)
        /\ <<f>> \in Seq(Fragment)
        /\ Append(here.pending, f) = here.pending \o <<f>> /\ Append(here.offered, f) = here.offered \o <<f>>
    <2> HIDE DEF f
    <2>1. \A s \in Seq(Fragment) : Append(s, f) \in Seq(Fragment) /\ Append(s, f) = s \o <<f>>
      BY <1>3, AppendProperties, AppendIsConcat
    <2>2. <<f>> \in Seq(Fragment)
      BY <1>3
    <2>3. QED
      BY <1>2, <2>1, <2>2
  <1>5. /\ took \in PhaseRecord /\ took.req = here.req /\ took.failed = here.failed
        /\ took.pending = here.pending \o <<f>> /\ took.offered = here.offered \o <<f>>
    <2> HIDE DEF f
    <2>1. QED
      BY <1>1, <1>4 DEF PhaseRecord
  <1>6. \/ here.failed /\ break /\ UNCHANGED <<here, stream, faults>>
        \/ ~here.failed /\ Emits(here, took) /\ UNCHANGED adapter
        \/ EmitThrows(here, [here EXCEPT !.pending = <<>>]) /\ break
        \/ ~here.failed /\ Emits(took, took) /\ UNCHANGED adapter
        \/ EmitThrows(took, [took EXCEPT !.pending = <<>>]) /\ break
        \/ ~here.failed /\ here' = took /\ UNCHANGED <<stream, adapter, faults>>
    BY DEF Delta
  <1> HIDE DEF took, f
  <1>7. ~here.failed => FragmentsOf(stream, here.req) \o took.pending = took.offered
    <2> DEFINE told == FragmentsOf(stream, here.req)
    <2>1. told \in Seq(Fragment)
      BY FragmentsAreTyped DEF ExchangeInv, Shape
    <2>2. ~here.failed => told \o here.pending = here.offered
      BY <1>1 DEF WholeInv, Due, Collected
    <2> HIDE DEF told
    <2>3. (told \o here.pending) \o <<f>> = told \o (here.pending \o <<f>>)
      <3>1. \A s, t, u \in Seq(Fragment) : (s \o t) \o u = s \o (t \o u)
        BY ConcatAssociative
      <3>2. QED
        BY <1>2, <1>4, <2>1, <3>1
    <2>4. ~here.failed => told \o took.pending = took.offered
      BY <1>5, <2>2, <2>3
    <2>5. QED
      BY <2>4 DEF told
  <1>8. ASSUME break, stream' = stream, here'.req = here.req
        PROVE  WholeInv'
    <2>1. adapter'[here.req] = "broken"
      BY <1>1, <1>8
    <2>2. ~Due'
      BY <1>1, <1>8, <2>1 DEF Due, Early, After
    <2>3. QED
      BY <1>1, <1>8, <2>2, NothingDue
  <1>9. CASE here.failed /\ break /\ UNCHANGED <<here, stream, faults>>
    BY <1>8, <1>9
  <1>10. CASE ~here.failed /\ Emits(here, took) /\ UNCHANGED adapter
    BY <1>1, <1>4, <1>5, <1>7, <1>10, FlushIsWhole
  <1>11. CASE EmitThrows(here, [here EXCEPT !.pending = <<>>]) /\ break
    <2>1. stream' = stream /\ here'.req = here.req
      BY <1>1, <1>11 DEF EmitThrows, PhaseRecord
    <2>2. QED
      BY <1>8, <1>11, <2>1
  <1>12. CASE ~here.failed /\ Emits(took, took) /\ UNCHANGED adapter
    <2>1. <<>> \in Seq(Fragment) /\ took.pending \in Seq(Fragment)
      BY <1>5, EmptySeq DEF PhaseRecord
    <2>2. took.pending = took.pending \o <<>>
      BY <2>1, ConcatEmptySeq
    <2>3. QED
      BY <1>1, <1>5, <1>7, <1>12, <2>1, <2>2, FlushIsWhole
  <1>13. CASE EmitThrows(took, [took EXCEPT !.pending = <<>>]) /\ break
    <2>1. stream' = stream /\ here'.req = here.req
      BY <1>5, <1>13 DEF EmitThrows, PhaseRecord
    <2>2. QED
      BY <1>8, <1>13, <2>1
  <1>14. CASE ~here.failed /\ here' = took /\ UNCHANGED <<stream, adapter, faults>>
    <2>1. \A i \in DOMAIN stream : stream[i].req \in Request
      BY <1>1, EventsAreTyped
    <2>2. Known' /\ NotYetReady'
      BY <1>1, <1>5, <1>14, <2>1 DEF WholeInv, Known, NotYetReady
    <2>3. FragmentsOf(stream', here'.req) \o here'.pending = here'.offered
      BY <1>5, <1>7, <1>14
    <2>4. Collected(here)'
      BY <2>3 DEF Collected
    <2>5. here'.req \in open' /\ pc' \notin After /\ pc' # "idle"
      BY <1>1, <1>5, <1>14 DEF WholeInv, After
    <2>6. QED
      BY <2>2, <2>4, <2>5 DEF WholeInv
  <1>15. QED
    BY <1>6, <1>9, <1>10, <1>11, <1>12, <1>13, <1>14

LEMMA LandIsWhole ==
  ASSUME ExchangeInv, WholeInv, Land
  PROVE  WholeInv'
  <1>1. pc = "landed" /\ here \in PhaseRecord /\ here.req \in Request /\ Shape /\ rows' = rows
    BY DEF ExchangeInv, Shape, Land, At
  <1>2. here.pending \in Seq(Fragment) /\ <<>> \in Seq(Fragment)
    BY <1>1, EmptySeq DEF PhaseRecord
  <1>3. here.pending = here.pending \o <<>>
    BY <1>2, ConcatEmptySeq
  <1>4. \/ here.answer = "value" /\ ~here.failed /\ Emits(here, here) /\ pc' = "returned"
        \/ EmitThrows(here, [here EXCEPT !.pending = <<>>]) /\ pc' = "failing"
        \/ pc' = "failing" /\ UNCHANGED <<stream, here>>
    BY DEF Land, Goto
  <1>5. CASE here.answer = "value" /\ ~here.failed /\ Emits(here, here) /\ pc' = "returned"
    <2>1. FragmentsOf(stream, here.req) \o here.pending = here.offered
      BY <1>1, <1>5 DEF WholeInv, Due, Collected
    <2>2. QED
      BY <1>1, <1>2, <1>3, <1>5, <2>1, FlushIsWhole
  <1>6. CASE EmitThrows(here, [here EXCEPT !.pending = <<>>]) /\ pc' = "failing"
    <2>1. stream' = stream /\ here'.req = here.req
      BY <1>1, <1>6 DEF EmitThrows, PhaseRecord
    <2>2. ~Due'
      BY <1>6 DEF Due, Early, After
    <2>3. QED
      BY <1>1, <1>6, <2>1, <2>2, NothingDue
  <1>7. CASE pc' = "failing" /\ UNCHANGED <<stream, here>>
    <2>1. ~Due'
      BY <1>7 DEF Due, Early, After
    <2>2. QED
      BY <1>1, <1>7, <2>1, NothingDue
  <1>8. QED
    BY <1>4, <1>5, <1>6, <1>7

\* However the adapter ends, the phase that takes its answer as a value has heard
\* all it offered.
LEMMA AnswerIsWhole ==
  ASSUME ExchangeInv, WholeInv, pc = "awaiting", pc' \in {"awaiting", "landed"},
         UNCHANGED <<rows, stream, open>>,
         here'.req = here.req, here'.pending = here.pending, here'.offered = here.offered, here'.failed = here.failed,
         Due' => adapter[here.req] # "broken"
  PROVE  WholeInv'
  <1>1. Due' => Due
    BY DEF Due, Early, After
  <1>2. here.req \in open' /\ pc' \notin After
    BY DEF WholeInv, After
  <1>3. Shape /\ \A r \in Request : rows'[r].stage = "none" => rows[r].stage = "none"
    BY DEF ExchangeInv
  <1>4. QED
    BY <1>1, <1>2, <1>3, NothingPublished

LEMMA SilentEndsIsWhole ==
  ASSUME ExchangeInv, WholeInv, SilentEnds
  PROVE  WholeInv'
  <1>1. /\ pc = "awaiting" /\ pc' = "landed" /\ here \in PhaseRecord
        /\ UNCHANGED <<rows, stream, open>> /\ adapter[here.req] = "silent"
    BY DEF ExchangeInv, Shape, SilentEnds, At, Goto, storeVars
  <1>2. here' = [here EXCEPT !.answer = "error"] \/ here' = [here EXCEPT !.answer = Answer("success")]
    BY DEF SilentEnds
  <1>3. here'.req = here.req /\ here'.pending = here.pending /\ here'.offered = here.offered /\ here'.failed = here.failed
    BY <1>1, <1>2 DEF PhaseRecord
  <1>4. QED
    BY <1>1, <1>3, AnswerIsWhole

LEMMA AbortGraceIsWhole ==
  ASSUME ExchangeInv, WholeInv, AbortGrace
  PROVE  WholeInv'
  <1>1. /\ pc = "awaiting" /\ pc' = "landed" /\ here \in PhaseRecord
        /\ UNCHANGED <<rows, stream, open>> /\ here' = [here EXCEPT !.answer = "error"]
    BY DEF ExchangeInv, Shape, AbortGrace, At, Goto, storeVars
  <1>2. /\ here'.req = here.req /\ here'.pending = here.pending /\ here'.offered = here.offered
        /\ here'.failed = here.failed /\ here'.answer = "error"
    BY <1>1 DEF PhaseRecord
  <1>3. ~Due'
    BY <1>1, <1>2 DEF Due, Early, After
  <1>4. QED
    BY <1>1, <1>2, <1>3, AnswerIsWhole

LEMMA BeginCloseIsWhole ==
  ASSUME ExchangeInv, WholeInv, BeginClose
  PROVE  WholeInv'
  <1>1. /\ pc \in {"idle", "awaiting"} /\ pc' = pc /\ here \in PhaseRecord
        /\ UNCHANGED <<rows, stream, open, adapter>>
    BY DEF ExchangeInv, Shape, BeginClose, storeVars
  <1>2. CASE pc = "idle"
    <2>1. here' = here
      BY <1>2 DEF BeginClose
    <2>2. QED
      BY <1>1, <1>2, <2>1, NothingRuns
  <1>3. CASE pc = "awaiting"
    <2>1. here' = [here EXCEPT !.aborted = TRUE]
      BY <1>3 DEF BeginClose
    <2>2. /\ here'.req = here.req /\ here'.pending = here.pending /\ here'.offered = here.offered
          /\ here'.failed = here.failed
      BY <1>1, <2>1 DEF PhaseRecord
    <2>3. Due' => adapter[here.req] # "broken"
      BY <1>1, <1>3, <2>2 DEF Due, Early, After
    <2>4. QED
      BY <1>1, <1>3, <2>2, <2>3, AnswerIsWhole
  <1>4. QED
    BY <1>1, <1>2, <1>3

LEMMA AdapterEndsIsWhole ==
  ASSUME ExchangeInv, WholeInv, NEW r \in Request, NEW e \in Ending, AdapterEnds(r, e)
  PROVE  WholeInv'
  <1> DEFINE took == [here EXCEPT !.raw = e.raw, !.outcome = e.code, !.answer = Answer(e.code)]
             threw == [here EXCEPT !.answer = "error"]
  <1>1. /\ pc \in {"idle", "awaiting"} /\ here \in PhaseRecord /\ adapter[r] \in {"calling", "broken"}
        /\ UNCHANGED <<rows, stream, open>> /\ adapter' = [adapter EXCEPT ![r] = "done"]
        /\ adapter \in [Request -> {"none", "calling", "broken", "silent", "done"}]
    BY DEF ExchangeInv, Shape, AdapterEnds, MayEnd, storeVars
  <1>2. CASE ~Reaches(r) /\ UNCHANGED <<here, pc>>
    <2>1. CASE pc = "idle"
      BY <1>1, <1>2, <2>1, NothingRuns
    <2>2. CASE pc = "awaiting"
      <3>1. here.req \in open /\ r # here.req
        BY <1>2, <2>2 DEF WholeInv, Reaches
      <3>2. here.req \in Request
        BY <2>2 DEF ExchangeInv, Shape
      <3>3. adapter'[here.req] = adapter[here.req]
        BY <1>1, <3>1, <3>2
      <3>4. Due' => adapter[here.req] # "broken"
        BY <1>2, <2>2, <3>3 DEF Due, Early, After
      <3>5. QED
        BY <1>1, <1>2, <2>2, <3>4, AnswerIsWhole
    <2>3. QED
      BY <1>1, <2>1, <2>2
  <1>3. CASE Reaches(r)
    <2>1. pc = "awaiting" /\ r = here.req
      BY <1>1, <1>3 DEF ExchangeInv, RunInv, RunLocal, Reaches
    <2>2. pc' = "landed" /\ (here' = took \/ here' = threw)
      BY <1>3, <2>1 DEF AdapterEnds, Goto
    <2>3. /\ here'.req = here.req /\ here'.pending = here.pending /\ here'.offered = here.offered
          /\ here'.failed = here.failed
      BY <1>1, <2>2 DEF PhaseRecord
    <2>4. here'.answer = "value" => e.code = "success"
      BY <1>1, <2>2 DEF PhaseRecord, Answer
    <2>5. adapter[r] = "broken" => e.code = "unusable"
      BY DEF AdapterEnds, MayEnd
    <2>6. Due' => adapter[here.req] # "broken"
      BY <2>1, <2>2, <2>4, <2>5 DEF Due, Early, After
    <2>7. QED
      BY <1>1, <2>1, <2>2, <2>3, <2>6, AnswerIsWhole
  <1>4. QED
    BY <1>2, <1>3 DEF AdapterEnds

\* The message is announced once all of it was published.
LEMMA PublishReadyIsWhole ==
  ASSUME ExchangeInv, WholeInv, PublishReady
  PROVE  WholeInv'
  <1> DEFINE e == Event("ready", here.req)
  <1>1. /\ pc = "sealed" /\ here' = here /\ here.req \in Request /\ stream \in Seq(StreamEvent) /\ Shape
        /\ rows' = rows /\ here \in PhaseRecord
    BY DEF PublishReady, At, ExchangeInv, Shape
  <1>2. here.pending = <<>> /\ Collected(here)
    BY <1>1 DEF WholeInv, Due, After
  <1>3. CASE pc' = "failing" /\ stream' = stream
    <2>1. ~Due'
      BY <1>3 DEF Due, Early, After
    <2>2. QED
      BY <1>1, <1>3, <2>1, NothingDue
  <1>4. CASE pc' = "idle" /\ stream' = Append(stream, e)
    <2>1. e \in StreamEvent /\ e.req = here.req /\ e.frags = <<>>
      BY <1>1, EmptySeq DEF Event, StreamEvent
    <2> HIDE DEF e
    <2> DEFINE told == FragmentsOf(stream, here.req)
    <2>2. told \in Seq(Fragment)
      BY <1>1, FragmentsAreTyped
    <2>3. FragmentsOf(stream', here.req) = told \o <<>>
      BY <1>1, <1>4, <2>1, FragmentsOfOneMore DEF Told
    <2>4. told \o <<>> = here.offered
      BY <1>2 DEF Collected
    <2>5. FragmentsOf(stream', here'.req) = here'.offered
      BY <1>1, <2>3, <2>4
    <2>6. ReadyWasWhole'
      BY <2>5 DEF ReadyWasWhole
    <2>7. \A i \in DOMAIN stream' : (i \in DOMAIN stream /\ stream'[i] = stream[i]) \/ stream'[i] = e
      BY <1>1, <1>4, <2>1, PublishedIs
    <2>8. rows[here.req].stage # "none"
      BY <1>1 DEF ExchangeInv, RunInv, RunRecords
    <2>9. \A i \in DOMAIN stream' : rows'[stream'[i].req].stage # "none"
      BY <1>1, <2>1, <2>7, <2>8 DEF WholeInv, Known
    <2>10. ~Due' /\ pc' \notin After /\ pc' \notin {"dispatching", "awaiting", "landed"}
      BY <1>4 DEF Due, Early, After
    <2>11. QED
      BY <1>4, <2>6, <2>9, <2>10 DEF WholeInv, Known
  <1>5. QED
    BY <1>3, <1>4 DEF PublishReady, Goto

\* A process that has died knows of no request, and speaks of none as its own.
LEMMA NoPhaseIsWhole ==
  ASSUME Shape, WholeInv, here' = Phase(NoRequest), pc' = "idle", UNCHANGED <<rows, stream>>
  PROVE  WholeInv'
  <1>1. here'.req = NoRequest
    BY DEF Phase
  <1>2. \A i \in DOMAIN stream : stream[i].req # NoRequest
    BY EventsAreTyped, NoRequestAssumption
  <1>3. Known' /\ ReadyWasWhole'
    BY <1>1, <1>2 DEF WholeInv, Known, ReadyWasWhole
  <1>4. ~Due' /\ pc' \notin After
    BY DEF Due, Early, After
  <1>5. QED
    BY <1>3, <1>4 DEF WholeInv

LEMMA EveryStepIsWhole ==
  ASSUME ExchangeInv, WholeInv, [Next]_vars
  PROVE  WholeInv'
  <1>1. Shape
    BY DEF ExchangeInv
  <1>2. CASE HostStep
    BY <1>2, QuietStepsAreWhole, AnnounceIsWhole, LandIsWhole, PublishReadyIsWhole DEF HostStep
  <1>3. ASSUME NEW r \in Request, Prepare(r)
        PROVE  WholeInv'
    BY <1>3, PrepareIsWhole
  <1>4. ASSUME NEW c \in Channel, Delta(c)
        PROVE  WholeInv'
    BY <1>4, DeltaIsWhole
  <1>5. ASSUME NEW r \in Request, NEW e \in Ending, AdapterEnds(r, e)
        PROVE  WholeInv'
    BY <1>5, AdapterEndsIsWhole
  <1>6. CASE AbortGrace \/ FlushTimer \/ SilentEnds \/ BeginClose
    BY <1>6, AbortGraceIsWhole, FlushTimerIsWhole, SilentEndsIsWhole, BeginCloseIsWhole
  <1>7. CASE Crash \/ Restart
    <2>1. here' = Phase(NoRequest) /\ pc' = "idle" /\ UNCHANGED <<rows, stream>>
      BY <1>7 DEF Crash, Restart, Restarts, storeVars
    <2>2. QED
      BY <1>1, <2>1, NoPhaseIsWhole
  <1>8. CASE UNCHANGED vars
    <2>1. UNCHANGED <<rows, stream, here, pc, open, adapter>>
      BY <1>8 DEF vars, storeVars
    <2>2. Due' = Due /\ Known' = Known /\ NotYetReady' = NotYetReady /\ ReadyWasWhole' = ReadyWasWhole
      BY <2>1 DEF Due, Known, NotYetReady, ReadyWasWhole
    <2>3. Collected(here)' = Collected(here)
      BY <2>1 DEF Collected
    <2>4. QED
      BY <2>1, <2>2, <2>3 DEF WholeInv
  <1>9. QED
    BY <1>2, <1>3, <1>4, <1>5, <1>6, <1>7, <1>8 DEF Next

LEMMA InitIsWhole == Init => WholeInv
  <1> SUFFICES ASSUME Init
               PROVE  WholeInv
    OBVIOUS
  <1>1. DOMAIN stream = {} /\ pc = "idle"
    BY DEF Init
  <1>2. QED
    BY <1>1 DEF WholeInv, Known, ReadyWasWhole, Due, Early, After

\* A message is announced as ready only when every fragment its collector took was
\* published before it, in order: over any number of channels, changes of channel,
\* full collectors, timed flushes, refused events, aborts and deaths of the process
\* (src/src/runtime/provider-phase.js run, provisional-collector.js).
THEOREM AnnouncedMessagesAreWhole == Spec => []ReadyWasWhole
  <1>1. Init => WholeInv
    BY InitIsWhole
  <1>2. ExchangeInv /\ WholeInv /\ [Next]_vars => WholeInv'
    BY EveryStepIsWhole
  <1>3. WholeInv => ReadyWasWhole
    BY InvIsWhole
  <1>4. QED
    BY <1>1, <1>2, <1>3, ExchangeInvHolds, PTL DEF Spec
=============================================================================
