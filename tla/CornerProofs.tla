---------------------------- MODULE CornerProofs ----------------------------
(***************************************************************************)
(* Theorems about the Corner: while it follows the stream it has missed    *)
(* nothing, and through every gap, break and restart it takes the journal  *)
(* in order.  Both rest on one inductive invariant: what is on the wire of *)
(* an open source leads from the reader's place to the head of the         *)
(* journal; a source that reconnects does so from that place or from an    *)
(* earlier one; and a recovery goes on from where it found the reader.     *)
(***************************************************************************)
EXTENDS Corner, SequenceTheorems, WellFoundedInduction, TLAPS

-----------------------------------------------------------------------------
(* Induction on the naturals, with a set in place of a predicate *)

\* A set of naturals that is not empty has a least element.
LEMMA LeastOfNats ==
  ASSUME NEW T, T \subseteq Nat, T # {}
  PROVE  \E n \in T : \A m \in T : n <= m
  <1> DEFINE R == OpToRel(<, Nat)
  <1>1. IsWellFoundedOn(R, Nat)
    BY NatLessThanWellFounded
  <1>2. \A x, y \in Nat : <<y, x>> \in R <=> y < x
    BY DEF OpToRel
  <1> HIDE DEF R
  <1>3. PICK x \in T : \A y \in T : ~(<<y, x>> \in R)
    BY <1>1, WFMin
  <1>4. ASSUME NEW y \in T PROVE x <= y
    <2>1. x \in Nat /\ y \in Nat
      OBVIOUS
    <2>2. ~(y < x)
      BY <1>2, <1>3, <2>1
    <2>3. QED
      BY <2>1, <2>2
  <1>5. QED
    BY <1>4

\* A set with zero in it and with the successor of each of its numbers holds them all.
LEMMA NatsByInduction ==
  ASSUME NEW S, 0 \in S, \A n \in Nat : n \in S => n + 1 \in S
  PROVE  \A n \in Nat : n \in S
  <1> SUFFICES ASSUME Nat \ S # {} PROVE FALSE
    OBVIOUS
  <1>1. PICK n \in Nat \ S : \A m \in Nat \ S : n <= m
    BY LeastOfNats
  <1>2. n # 0 /\ n - 1 \in Nat
    BY <1>1
  <1>3. n - 1 \in S
    BY <1>1, <1>2
  <1>4. QED
    BY <1>1, <1>2, <1>3

\* The same up to a bound.
LEMMA IntervalByInduction ==
  ASSUME NEW N \in Nat, NEW S, 0 \in S, \A n \in 0..N : n < N /\ n \in S => n + 1 \in S
  PROVE  \A n \in 0..N : n \in S
  <1> DEFINE T == { n \in Nat : n <= N => n \in S }
  <1>1. 0 \in T
    OBVIOUS
  <1>2. \A n \in Nat : n \in T => n + 1 \in T
    OBVIOUS
  <1> HIDE DEF T
  <1>3. \A n \in Nat : n \in T
    BY <1>1, <1>2, NatsByInduction
  <1>4. QED
    BY <1>3 DEF T

-----------------------------------------------------------------------------
(* The invariant *)

\* No frame on the wire tells the reader to start over.
Unbroken == \A i \in 1..Len(wire) : wire[i].kind # "resync"
EventsOnWire == IF wire # <<>> /\ wire[1].kind = "open" THEN Len(wire) - 1 ELSE Len(wire)

\* What the constructor reloads and publish() keeps ends at the head of the journal.
BufferIsTheTail == buffer # <<>> => Last(buffer) = Len(journal)

WireIsOfTheJournal ==
  \A i \in 1..Len(wire) : wire[i].kind = "event" => wire[i].sequence \in 1..Len(journal)

\* Up to the head of the journal, from the reader's place or from before it
WireIsInOrder ==
  source = "open" /\ subscriber # NoCursor /\ Unbroken =>
    /\ \A i \in 1..Len(wire) :
         /\ wire[i].kind = "open" => i = 1
         /\ wire[i].kind = "event" => wire[i].sequence = Len(journal) - (Len(wire) - i)
    /\ live.cursor > 0 => Len(journal) - live.cursor <= EventsOnWire

\* A connection is made again from the reader's place or from before it.
SourceRemembers ==
  /\ source = "none" <=> recovery # "off"
  /\ source = "none" => sourceAfter = NoCursor /\ lastEventId = NoCursor
  /\ sourceAfter # NoCursor => sourceAfter <= live.cursor
  /\ lastEventId # NoCursor => lastEventId <= live.cursor
  /\ source # "none" /\ live.cursor > 0 => sourceAfter # NoCursor \/ lastEventId # NoCursor

\* What the state was made of is an interval of the journal that ends at its cursor.
TakenInOrder(state) ==
  /\ state.cursor <= Len(journal)
  /\ state.cursor = 0 => state.applied = {}
  /\ state.cursor > 0 => \E f \in 1..state.cursor : state.applied = f..state.cursor

GoesOn(old, new) ==
  old.cursor > 0 =>
    \E f \in 1..old.cursor :
      old.applied = f..old.cursor /\ new.applied = f..new.cursor /\ old.cursor <= new.cursor

RecoveryGoesOn ==
  /\ recovery \in {"asked", "answered"} => TakenInOrder(recovered) /\ GoesOn(live, recovered)
  /\ recovery = "answered" => page.upto \in recovered.cursor..Len(journal)

FollowInv ==
  /\ BufferIsTheTail /\ WireIsOfTheJournal /\ WireIsInOrder
  /\ SourceRemembers /\ TakenInOrder(live) /\ RecoveryGoesOn

CornerInv == CornerTypeOK /\ FollowInv

-----------------------------------------------------------------------------
(* The bus *)

LEMMA MaxOfTwo ==
  ASSUME NEW a \in Int, NEW b \in Int
  PROVE  Max({a, b}) = IF a >= b THEN a ELSE b
  <1> DEFINE m == IF a >= b THEN a ELSE b
  <1>1. m \in {a, b} /\ \A y \in {a, b} : m >= y
    OBVIOUS
  <1>2. \A x \in {a, b} : (\A y \in {a, b} : x >= y) => x = m
    OBVIOUS
  <1>3. QED
    BY <1>1, <1>2 DEF Max

LEMMA MinOfTwo ==
  ASSUME NEW a \in Int, NEW b \in Int
  PROVE  Min({a, b}) = IF a <= b THEN a ELSE b
  <1> DEFINE m == IF a <= b THEN a ELSE b
  <1>1. m \in {a, b} /\ \A y \in {a, b} : m =< y
    OBVIOUS
  <1>2. \A x \in {a, b} : (\A y \in {a, b} : x =< y) => x = m
    OBVIOUS
  <1>3. QED
    BY <1>1, <1>2 DEF Min

\* The last k of a sequence end as it does.
LEMMA LastOfIs ==
  ASSUME NEW S, NEW s \in Seq(S), NEW k \in Nat \ {0}
  PROVE  /\ LastOf(s, k) \in Seq(S) /\ Len(LastOf(s, k)) <= k
         /\ LastOf(s, k) # <<>> => s # <<>> /\ Last(LastOf(s, k)) = Last(s)
  <1> DEFINE first == Max({1, Len(s) - k + 1})
             t == LastOf(s, k)
  <1>1. Len(s) \in Nat /\ DOMAIN s = 1..Len(s)
    BY LenProperties
  <1>2. first = IF 1 >= Len(s) - k + 1 THEN 1 ELSE Len(s) - k + 1
    BY <1>1, MaxOfTwo
  <1>3. first \in Int /\ first >= 1 /\ Len(s) - first + 1 <= k
    BY <1>1, <1>2
  <1>4. t = SubSeq(s, first, Len(s))
    BY DEF LastOf
  <1> HIDE DEF first, t
  <1>5. \A i \in first..Len(s) : s[i] \in S
    BY <1>1, <1>3, ElementOfSeq
  <1>6. /\ t \in Seq(S) /\ Len(t) = IF first <= Len(s) THEN Len(s) - first + 1 ELSE 0
        /\ \A i \in 1..Len(s) - first + 1 : t[i] = s[first + i - 1]
    <2>1. \A m, n \in Int : (\A i \in m..n : s[i] \in S) =>
            /\ SubSeq(s, m, n) \in Seq(S) /\ Len(SubSeq(s, m, n)) = IF m <= n THEN n - m + 1 ELSE 0
            /\ \A i \in 1..n - m + 1 : SubSeq(s, m, n)[i] = s[m + i - 1]
      BY SubSeqProperties
    <2>2. Len(s) \in Int
      BY <1>1
    <2>3. QED
      BY <1>3, <1>4, <1>5, <2>1, <2>2
  <1>7. Len(t) <= k
    BY <1>1, <1>3, <1>6
  <1>8. ASSUME t # <<>>
        PROVE  s # <<>> /\ Last(t) = Last(s)
    <2>1. Len(t) # 0
      BY <1>6, <1>8, EmptySeq
    <2>2. first <= Len(s) /\ Len(t) = Len(s) - first + 1
      BY <1>6, <2>1
    <2>3. Len(t) \in 1..Len(s) - first + 1 /\ first + Len(t) - 1 = Len(s)
      BY <1>1, <1>3, <2>1, <2>2
    <2>4. t[Len(t)] = s[Len(s)]
      BY <1>6, <2>3
    <2>5. s # <<>>
      BY <1>1, <1>3, <2>2, EmptySeq
    <2>6. QED
      BY <2>4, <2>5 DEF Last
  <1>9. QED
    BY <1>6, <1>7, <1>8 DEF t

LEMMA LatestIsTheHead ==
  ASSUME BufferIsTheTail
  PROVE  Latest = Len(journal)
  BY DEF BufferIsTheTail, Latest

\* One event more: on the journal, at the end of the buffer, on the wire.
LEMMA PublishIs ==
  ASSUME BusTypeOK, BufferIsTheTail, WireIsOfTheJournal, NEW event \in Event, Publish(event)
  PROVE  /\ BusTypeOK' /\ BufferIsTheTail' /\ WireIsOfTheJournal'
         /\ Len(journal) \in Nat /\ Len(journal') = Len(journal) + 1
         /\ \A n \in 1..Len(journal) : journal'[n] = journal[n]
         /\ journal' \in Seq(Event)
         /\ subscriber = NoCursor => subscriber' = NoCursor /\ wire' = wire
         /\ subscriber # NoCursor =>
              /\ Len(wire') = Len(wire) + 1 /\ Len(wire) \in Nat
              /\ \A i \in 1..Len(wire) : wire'[i] = wire[i]
              /\ wire'[Len(wire) + 1] = EventFrame(Len(journal) + 1)
  <1> DEFINE n == Len(journal) + 1
  <1>1. /\ journal \in Seq(Event) /\ Len(journal) \in Nat /\ n \in Nat
        /\ buffer \in Seq(1..Len(journal)) /\ Len(buffer) <= BufferSize /\ wire \in Seq(Frame)
        /\ subscriber \in Nat \cup {NoCursor} /\ BufferSize \in Nat \ {0}
    BY HubEventBusAssumption, LenProperties DEF BusTypeOK
  <1>2. /\ journal' = Append(journal, event) /\ running /\ running' = running
        /\ buffer' = LastOf(Append(buffer, n), BufferSize)
        /\ subscriber = NoCursor => subscriber' = NoCursor /\ wire' = wire
        /\ subscriber # NoCursor => subscriber' = n /\ wire' = Append(wire, EventFrame(n))
    BY DEF Publish
  <1>3. /\ journal' \in Seq(Event) /\ Len(journal') = n
        /\ \A k \in 1..Len(journal) : journal'[k] = journal[k]
    BY <1>1, <1>2, AppendProperties
  <1> HIDE DEF n
  <1>4. buffer' \in Seq(1..n) /\ Len(buffer') <= BufferSize /\ (buffer' # <<>> => Last(buffer') = n)
    <2>1. 1..Len(journal) \subseteq 1..n /\ n \in 1..n
      BY <1>1 DEF n
    <2>2. buffer \in Seq(1..n)
      BY <1>1, <2>1, SeqMonotonic
    <2> DEFINE longer == Append(buffer, n)
    <2>3. longer \in Seq(1..n) /\ Len(longer) = Len(buffer) + 1 /\ longer[Len(buffer) + 1] = n
      BY <2>1, <2>2, AppendProperties
    <2>4. Last(longer) = n
      BY <2>3 DEF Last
    <2> HIDE DEF longer
    <2>5. QED
      BY <1>1, <1>2, <2>3, <2>4, LastOfIs DEF longer
  <1>5. EventFrame(n) \in Frame /\ EventFrame(n).kind = "event" /\ EventFrame(n).sequence = n
    BY <1>1 DEF EventFrame, Frame
  <1>6. subscriber # NoCursor =>
          /\ wire' \in Seq(Frame) /\ Len(wire') = Len(wire) + 1 /\ Len(wire) \in Nat
          /\ \A i \in 1..Len(wire) : wire'[i] = wire[i]
          /\ wire'[Len(wire) + 1] = EventFrame(n)
    <2>1. Len(wire) \in Nat
      BY <1>1, LenProperties
    <2> DEFINE frame == EventFrame(n)
               longer == Append(wire, frame)
    <2>2. frame \in Frame
      BY <1>5
    <2> HIDE DEF frame
    <2>3. /\ longer \in Seq(Frame) /\ Len(longer) = Len(wire) + 1
          /\ \A i \in 1..Len(wire) : longer[i] = wire[i]
          /\ longer[Len(wire) + 1] = frame
      BY <1>1, <2>2, AppendProperties
    <2> HIDE DEF longer
    <2>4. QED
      BY <1>2, <2>1, <2>3 DEF frame, longer
  <1>7. BusTypeOK'
    BY <1>1, <1>2, <1>3, <1>4, <1>6 DEF BusTypeOK
  <1>8. WireIsOfTheJournal'
    <2>1. ASSUME NEW i \in 1..Len(wire'), wire'[i].kind = "event"
          PROVE  wire'[i].sequence \in 1..n
      <3>1. CASE subscriber = NoCursor \/ i # Len(wire) + 1
        <4>1. i \in 1..Len(wire) /\ wire'[i] = wire[i]
          BY <1>2, <1>6, <2>1, <3>1
        <4>2. wire[i].sequence \in 1..Len(journal)
          BY <2>1, <4>1 DEF WireIsOfTheJournal
        <4>3. QED
          BY <1>1, <4>1, <4>2 DEF n
      <3>2. CASE subscriber # NoCursor /\ i = Len(wire) + 1
        <4>1. wire'[i].sequence = n
          BY <1>5, <1>6, <3>2
        <4>2. QED
          BY <1>1, <4>1 DEF n
      <3>3. QED
        BY <3>1, <3>2
    <2>2. QED
      BY <1>3, <2>1 DEF WireIsOfTheJournal
  <1>9. BufferIsTheTail'
    BY <1>3, <1>4 DEF BufferIsTheTail
  <1>10. QED
    BY <1>1, <1>2, <1>3, <1>6, <1>7, <1>8, <1>9 DEF n

LEMMA BusStartsIs ==
  ASSUME BusTypeOK, BusStarts
  PROVE  BusTypeOK' /\ BufferIsTheTail'
  <1> DEFINE n == Len(journal)
             all == [i \in 1..n |-> i]
  <1>1. n \in Nat /\ BufferSize \in Nat \ {0}
    BY HubEventBusAssumption, LenProperties DEF BusTypeOK
  <1>2. all \in Seq(1..n) /\ Len(all) = n
    <2>1. all \in [1..n -> 1..n]
      OBVIOUS
    <2>2. all \in Seq(1..n)
      BY <1>1, <2>1, IsASeq
    <2>3. DOMAIN all = 1..Len(all) /\ Len(all) \in Nat
      BY <2>2, LenProperties
    <2>4. DOMAIN all = 1..n
      OBVIOUS
    <2> HIDE DEF all
    <2>5. QED
      BY <1>1, <2>2, <2>3, <2>4
  <1>3. all # <<>> => Last(all) = n
    <2>1. ASSUME all # <<>>
          PROVE  Last(all) = n
      <3>1. n # 0
        BY <1>2, <2>1, EmptySeq
      <3>2. n \in 1..n
        BY <1>1, <3>1
      <3>3. QED
        BY <1>2, <3>2 DEF Last
    <2>2. QED
      BY <2>1
  <1>4. buffer' = LastOf(all, BufferSize) /\ UNCHANGED <<journal, subscriber, wire>> /\ running'
    BY DEF BusStarts
  <1> HIDE DEF all
  <1>5. buffer' \in Seq(1..n) /\ Len(buffer') <= BufferSize /\ (buffer' # <<>> => Last(buffer') = n)
    BY <1>1, <1>2, <1>3, <1>4, LastOfIs
  <1>6. QED
    BY <1>4, <1>5 DEF BusTypeOK, BufferIsTheTail

-----------------------------------------------------------------------------
(* The reducer *)

LEMMA LiveFields ==
  ASSUME NEW state \in LiveState
  PROVE  /\ state.cursor \in Nat /\ state.resync \in BOOLEAN /\ state.wake \in Wake \cup {NoWake}
         /\ state.terminal \in Nat /\ state.applied \in SUBSET Nat
         /\ state.connection \in {"connecting", "open", "disconnected"}
  BY DEF LiveState

LEMMA TakeIs ==
  ASSUME journal \in Seq(Event), NEW state \in LiveState, NEW n \in 1..Len(journal)
  PROVE  LET next == Take(state, n) IN
         /\ next \in LiveState
         /\ next.cursor = n /\ next.applied = state.applied \cup {n} /\ next.resync = state.resync
  <1>1. journal[n] \in Event /\ n \in Nat
    BY ElementOfSeq, LenProperties
  <1>2. PICK w \in Wake \cup {NoWake}, t \in Nat :
          Take(state, n) = [state EXCEPT !.cursor = n, !.applied = @ \cup {n}, !.wake = w, !.terminal = t]
    <2> DEFINE event == journal[n]
               w == IF event.kind # "accepted" /\ state.wake # NoWake THEN state.wake ELSE event.wake
               t == IF event.kind = "terminal" /\ w = event.wake THEN n
                    ELSE IF w # state.wake THEN 0
                    ELSE state.terminal
    <2>1. w \in Wake \cup {NoWake} /\ t \in Nat
      BY <1>1, LiveFields DEF Event
    <2>2. Take(state, n) = [state EXCEPT !.cursor = n, !.applied = @ \cup {n}, !.wake = w, !.terminal = t]
      BY DEF Take
    <2> HIDE DEF w, t
    <2>3. QED
      BY <2>1, <2>2
  <1> DEFINE next == Take(state, n)
  <1>3. /\ next.cursor = n /\ next.applied = state.applied \cup {n} /\ next.wake = w
        /\ next.terminal = t /\ next.resync = state.resync /\ next.connection = state.connection
    BY <1>2 DEF LiveState
  <1>4. state.applied \cup {n} \in SUBSET Nat
    BY <1>1, LiveFields
  <1>5. state.resync \in BOOLEAN /\ state.connection \in {"connecting", "open", "disconnected"}
    BY LiveFields
  <1>6. next = [cursor |-> n, resync |-> state.resync, connection |-> state.connection,
                wake |-> w, terminal |-> t, applied |-> state.applied \cup {n}]
    BY <1>2 DEF LiveState
  <1> HIDE DEF next
  <1>7. next \in LiveState
    BY <1>1, <1>4, <1>5, <1>6 DEF LiveState
  <1>8. QED
    BY <1>3, <1>7 DEF next

\* An event is taken, ignored, or found to be too far ahead.
LEMMA ReduceIs ==
  ASSUME journal \in Seq(Event), NEW state \in LiveState, NEW n \in 1..Len(journal)
  PROVE  LET next == Reduce(state, n) IN
         /\ next \in LiveState
         /\ IF n <= state.cursor THEN next = state
            ELSE IF state.cursor > 0 /\ n # state.cursor + 1
            THEN next.resync /\ next.cursor = state.cursor /\ next.applied = state.applied
            ELSE /\ next.cursor = n /\ next.applied = state.applied \cup {n}
                 /\ next.resync = state.resync
  <1>1. CASE n <= state.cursor
    BY <1>1 DEF Reduce
  <1>2. CASE ~(n <= state.cursor) /\ state.cursor > 0 /\ n # state.cursor + 1
    <2>1. Reduce(state, n) = [state EXCEPT !.resync = TRUE]
      BY <1>2 DEF Reduce
    <2>2. QED
      BY <1>2, <2>1 DEF LiveState
  <1>3. CASE ~(n <= state.cursor) /\ ~(state.cursor > 0 /\ n # state.cursor + 1)
    <2>1. Reduce(state, n) = Take(state, n)
      BY <1>3 DEF Reduce
    <2>2. QED
      BY <1>3, <2>1, TakeIs
  <1>4. QED
    BY <1>1, <1>2, <1>3

LEMMA ClearLiveWakeIs ==
  ASSUME NEW state \in LiveState, NEW w
  PROVE  LET next == ClearLiveWake(state, w) IN
         next \in LiveState /\ next.cursor = state.cursor /\ next.applied = state.applied
  BY DEF ClearLiveWake, LiveState

\* An interval that is taken on by its next event
LEMMA IntervalsGrow ==
  ASSUME NEW f \in Nat, NEW n \in Nat, f <= n + 1
  PROVE  f..n \cup {n + 1} = f..n + 1
  OBVIOUS

LEMMA ReduceKeepsTheOrder ==
  ASSUME journal \in Seq(Event), NEW state \in LiveState, TakenInOrder(state), NEW n \in 1..Len(journal)
  PROVE  LET next == Reduce(state, n) IN TakenInOrder(next) /\ GoesOn(state, next)
  <1> DEFINE next == Reduce(state, n)
             c == state.cursor
  <1>1. Len(journal) \in Nat /\ n \in Nat /\ c \in Nat
    BY LenProperties, LiveFields
  <1>2. /\ next \in LiveState
        /\ IF n <= c THEN next = state
           ELSE IF c > 0 /\ n # c + 1 THEN next.cursor = c /\ next.applied = state.applied
           ELSE next.cursor = n /\ next.applied = state.applied \cup {n}
    BY ReduceIs
  <1>3. /\ c <= Len(journal) /\ c = 0 => state.applied = {}
        /\ c > 0 => \E f \in 1..c : state.applied = f..c
    BY DEF TakenInOrder
  <1> HIDE DEF next
  <1>4. CASE n <= c \/ (c > 0 /\ n # c + 1)
    <2>1. next.cursor = c /\ next.applied = state.applied
      BY <1>2, <1>4
    <2> HIDE DEF c
    <2>2. QED
      BY <1>1, <1>3, <2>1 DEF TakenInOrder, GoesOn, next, c
  <1>5. CASE c = 0 /\ ~(n <= c)
    <2>1. next.cursor = n /\ next.applied = {n} /\ n..n = {n} /\ n \in 1..n
      BY <1>1, <1>2, <1>3, <1>5
    <2>2. QED
      BY <1>1, <1>5, <2>1 DEF TakenInOrder, GoesOn, next
  <1>6. CASE c > 0 /\ n = c + 1
    <2>1. PICK f \in 1..c : state.applied = f..c
      BY <1>3, <1>6
    <2>2. next.cursor = c + 1 /\ next.applied = f..c \cup {c + 1}
      BY <1>1, <1>2, <1>6, <2>1
    <2>3. f..c \cup {c + 1} = f..c + 1
      BY <1>1, <2>1, IntervalsGrow
    <2>4. f \in 1..c + 1 /\ c + 1 <= Len(journal) /\ c <= c + 1
      BY <1>1, <1>6, <2>1
    <2>5. next.applied = f..c + 1
      BY <2>2, <2>3
    <2> HIDE DEF c
    <2>6. QED
      BY <1>1, <1>6, <2>1, <2>2, <2>4, <2>5 DEF TakenInOrder, GoesOn, next, c
  <1>7. QED
    BY <1>1, <1>4, <1>5, <1>6 DEF next

LEMMA GoingOnIsTransitive ==
  ASSUME NEW old \in LiveState, NEW state \in LiveState, NEW next \in LiveState,
         GoesOn(old, state), GoesOn(state, next)
  PROVE  GoesOn(old, next)
  <1>1. old.cursor \in Nat /\ state.cursor \in Nat /\ next.cursor \in Nat
    BY LiveFields
  <1>2. SUFFICES ASSUME old.cursor > 0
                 PROVE  \E f \in 1..old.cursor :
                          old.applied = f..old.cursor /\ next.applied = f..next.cursor /\ old.cursor <= next.cursor
    BY DEF GoesOn
  <1>3. PICK f \in 1..old.cursor :
          old.applied = f..old.cursor /\ state.applied = f..state.cursor /\ old.cursor <= state.cursor
    BY <1>2 DEF GoesOn
  <1>4. PICK g \in 1..state.cursor :
          state.applied = g..state.cursor /\ next.applied = g..next.cursor /\ state.cursor <= next.cursor
    BY <1>1, <1>2, <1>3 DEF GoesOn
  <1>5. f = g
    <2>1. f \in f..state.cursor /\ g \in g..state.cursor
      BY <1>1, <1>3, <1>4
    <2>2. f \in g..state.cursor /\ g \in f..state.cursor
      BY <1>3, <1>4, <2>1
    <2>3. QED
      BY <1>1, <1>3, <1>4, <2>2
  <1>6. QED
    BY <1>1, <1>3, <1>4, <1>5

LEMMA GoingNowhereGoesOn ==
  ASSUME NEW state \in LiveState, TakenInOrder(state), NEW next \in LiveState,
         next.cursor = state.cursor, next.applied = state.applied
  PROVE  GoesOn(state, next) /\ TakenInOrder(next)
  BY LiveFields DEF GoesOn, TakenInOrder

\* The pages of the journal, event after event
LEMMA OverPageRuns ==
  ASSUME NEW N \in Nat
  PROVE  \E f : f = [n \in 0..N |-> IF n = 0 THEN recovered ELSE Reduce(f[n - 1], recovered.cursor + n)]
  <1> DEFINE R(M, f) == f = [n \in 0..M |-> IF n = 0 THEN recovered ELSE Reduce(f[n - 1], recovered.cursor + n)]
             S == {M \in Nat : \E f : R(M, f)}
  <1>1. 0 \in S
    <2> DEFINE f == [n \in 0..0 |-> recovered]
    <2>1. R(0, f)
      OBVIOUS
    <2>2. QED
      BY <2>1
  <1>2. ASSUME NEW M \in Nat, M \in S
        PROVE  M + 1 \in S
    <2>1. PICK f : R(M, f)
      BY <1>2
    <2> DEFINE g == [n \in 0..M + 1 |-> IF n = 0 THEN recovered ELSE Reduce(f[n - 1], recovered.cursor + n)]
    <2>2. \A n \in 0..M : g[n] = f[n]
      <3>1. TAKE n \in 0..M
      <3>2. n \in 0..M + 1
        OBVIOUS
      <3>3. f[n] = IF n = 0 THEN recovered ELSE Reduce(f[n - 1], recovered.cursor + n)
        BY <2>1
      <3>4. QED
        BY <3>2, <3>3
    <2>3. ASSUME NEW n \in 0..M + 1
          PROVE  g[n] = IF n = 0 THEN recovered ELSE Reduce(g[n - 1], recovered.cursor + n)
      <3>1. n # 0 => n - 1 \in 0..M
        OBVIOUS
      <3>2. n # 0 => g[n - 1] = f[n - 1]
        BY <2>2, <3>1
      <3>3. QED
        BY <3>2
    <2>4. R(M + 1, g)
      <3>1. g = [n \in 0..M + 1 |-> g[n]]
        OBVIOUS
      <3> HIDE DEF g
      <3>2. QED
        BY <2>3, <3>1
    <2>5. \E h : R(M + 1, h)
      BY <2>4
    <2>6. QED
      BY <2>5
  <1> HIDE DEF S
  <1>3. \A M \in Nat : M \in S
    BY <1>1, <1>2, NatsByInduction
  <1>4. N \in S
    BY <1>3
  <1>5. QED
    BY <1>4 DEF S

LEMMA WithPageIs ==
  ASSUME journal \in Seq(Event), recovered \in LiveState, TakenInOrder(recovered),
         page.upto \in recovered.cursor..Len(journal)
  PROVE  /\ WithPage \in LiveState /\ WithPage.cursor = page.upto
         /\ TakenInOrder(WithPage) /\ GoesOn(recovered, WithPage)
  <1> DEFINE c == recovered.cursor
             N == page.upto - c
             f == OverPage
             Reached(n) == /\ f[n] \in LiveState /\ f[n].cursor = c + n
                           /\ TakenInOrder(f[n]) /\ GoesOn(recovered, f[n])
             S == {n \in Nat : Reached(n)}
  <1>1. c \in Nat /\ Len(journal) \in Nat /\ N \in Nat /\ c + N = page.upto /\ c + N <= Len(journal)
    BY LenProperties, LiveFields
  <1>2. f = [n \in 0..N |-> IF n = 0 THEN recovered ELSE Reduce(f[n - 1], c + n)]
    <2>1. f = CHOOSE g : g = [n \in 0..N |-> IF n = 0 THEN recovered ELSE Reduce(g[n - 1], c + n)]
      BY DEF OverPage
    <2>2. \E g : g = [n \in 0..N |-> IF n = 0 THEN recovered ELSE Reduce(g[n - 1], c + n)]
      <3> HIDE DEF N
      <3>1. QED
        BY <1>1, OverPageRuns
    <2> HIDE DEF f, N
    <2>3. QED
      BY <2>1, <2>2
  <1> HIDE DEF N, f
  <1>3. f[0] = recovered /\ \A n \in 1..N : f[n] = Reduce(f[n - 1], c + n)
    BY <1>1, <1>2
  <1>4. 0 \in S
    <2>1. GoesOn(recovered, recovered)
      BY GoingNowhereGoesOn
    <2>2. QED
      BY <1>1, <1>3, <2>1
  <1>5. ASSUME NEW n \in 0..N, n < N, n \in S
        PROVE  n + 1 \in S
    <2>1. n + 1 \in 1..N /\ n + 1 - 1 = n /\ c + (n + 1) \in 1..Len(journal) /\ c + (n + 1) = c + n + 1
      BY <1>1, <1>5
    <2>2. f[n + 1] = Reduce(f[n], c + n + 1)
      BY <1>3, <2>1
    <2>3. Reached(n)
      BY <1>5
    <2> DEFINE old == f[n]
               next == Reduce(old, c + n + 1)
    <2>4. old \in LiveState /\ old.cursor = c + n /\ TakenInOrder(old) /\ GoesOn(recovered, old)
      BY <2>3
    <2> HIDE DEF old
    <2>5. ~(c + n + 1 <= c + n)
      BY <1>1
    <2>6. next \in LiveState /\ next.cursor = c + n + 1
      BY <2>1, <2>4, <2>5, ReduceIs
    <2>7. TakenInOrder(next) /\ GoesOn(old, next)
      BY <2>1, <2>4, ReduceKeepsTheOrder
    <2> HIDE DEF next
    <2>8. GoesOn(recovered, next)
      BY <2>4, <2>6, <2>7, GoingOnIsTransitive
    <2>9. f[n + 1] = next /\ n + 1 \in Nat
      BY <1>1, <2>2 DEF next, old
    <2>10. QED
      BY <2>1, <2>6, <2>7, <2>8, <2>9
  <1> HIDE DEF S
  <1>6. \A n \in 0..N : n \in S
    BY <1>1, <1>4, <1>5, IntervalByInduction
  <1>7. Reached(N)
    BY <1>1, <1>6 DEF S
  <1>8. WithPage = f[N]
    BY DEF WithPage, f, N
  <1>9. QED
    BY <1>1, <1>7, <1>8

-----------------------------------------------------------------------------
(* What a step may leave alone *)

ReaderTypes ==
  /\ source \in {"none", "waiting", "open"}
  /\ sourceAfter \in Nat \cup {NoCursor} /\ lastEventId \in Nat \cup {NoCursor}
  /\ live \in LiveState /\ recovered \in LiveState
  /\ recovery \in {"off", "asked", "answered", "reconciling", "retrying"}
  /\ page \in [upto : Nat, latest : Nat] /\ pages \in 0..MaxPages

ComposerTypes ==
  /\ active \in Wake \cup {NoWake} /\ breaks \in 0..MaxBreaks /\ stops \in 0..MaxStops
  /\ busy \in BOOLEAN /\ submitted \in Wake \cup {NoWake}
  /\ submission \in Request /\ poll \in Request
  /\ reconciling \in [Wake -> {"no", "running", "done"}] /\ reconciled \in Nat

LEMMA TypesAre ==
  /\ CornerTypeOK <=> BusTypeOK /\ ReaderTypes /\ ComposerTypes
  /\ CornerTypeOK' <=> BusTypeOK' /\ ReaderTypes' /\ ComposerTypes'
  BY DEF CornerTypeOK, ReaderTypes, ComposerTypes

\* The journal grows by one event, or the reader goes on in it.
Follows ==
  \/ Len(journal') = Len(journal) + 1 /\ live'.applied = live.applied
  \/ Len(journal') = Len(journal) /\ GoesOn(live, live')

\* The reader keeps its place.
Stays == live' \in LiveState /\ live'.cursor = live.cursor /\ live'.applied = live.applied

LEMMA JournalIs ==
  ASSUME BusTypeOK
  PROVE  journal \in Seq(Event) /\ Len(journal) \in Nat /\ wire \in Seq(Frame) /\ Len(wire) \in Nat
  BY LenProperties DEF BusTypeOK

LEMMA FrameIs ==
  ASSUME BusTypeOK, NEW i \in 1..Len(wire)
  PROVE  wire[i].kind \in {"open", "event", "resync"} /\ wire[i].sequence \in Nat
  <1>1. wire[i] \in Frame
    BY JournalIs, ElementOfSeq
  <1>2. QED
    BY <1>1 DEF Frame

\* Neither the order nor a recovery is touched while the reader keeps its place.
LEMMA OrderRests ==
  ASSUME CornerInv, Stays, UNCHANGED recoveryVars,
         Len(journal') = Len(journal) \/ Len(journal') = Len(journal) + 1
  PROVE  TakenInOrder(live)' /\ RecoveryGoesOn' /\ Follows
  <1>1. /\ BusTypeOK /\ live \in LiveState /\ recovered \in LiveState
        /\ TakenInOrder(live) /\ RecoveryGoesOn
    BY DEF CornerInv, CornerTypeOK, FollowInv
  <1>2. Len(journal) \in Nat /\ live.cursor \in Nat /\ recovered.cursor \in Nat
    BY <1>1, JournalIs, LiveFields
  <1>3. Len(journal') \in Nat /\ Len(journal') >= Len(journal)
    BY <1>2
  <1>4. TakenInOrder(live)'
    <2>1. live.cursor <= Len(journal')
      BY <1>1, <1>2, <1>3 DEF TakenInOrder
    <2>2. /\ live.cursor = 0 => live.applied = {}
          /\ live.cursor > 0 => \E f \in 1..live.cursor : live.applied = f..live.cursor
      BY <1>1 DEF TakenInOrder
    <2>3. QED
      BY <2>1, <2>2 DEF TakenInOrder, Stays
  <1>5. GoesOn(live, live')
    BY <1>1, GoingNowhereGoesOn DEF Stays
  <1>6. UNCHANGED <<recovery, recovered, page>>
    BY DEF recoveryVars
  <1>7. ASSUME recovery \in {"asked", "answered"}
        PROVE  TakenInOrder(recovered)' /\ GoesOn(live', recovered')
    <2>1. TakenInOrder(recovered) /\ GoesOn(live, recovered)
      BY <1>1, <1>7 DEF RecoveryGoesOn
    <2>2. GoesOn(live', recovered)
      BY <2>1 DEF GoesOn, Stays
    <2>3. /\ recovered.cursor <= Len(journal')
          /\ recovered.cursor = 0 => recovered.applied = {}
          /\ recovered.cursor > 0 => \E f \in 1..recovered.cursor : recovered.applied = f..recovered.cursor
      BY <1>2, <1>3, <2>1 DEF TakenInOrder
    <2>4. TakenInOrder(recovered)'
      BY <1>6, <2>3 DEF TakenInOrder
    <2>5. QED
      BY <1>6, <2>2, <2>4
  <1>8. ASSUME recovery = "answered"
        PROVE  page.upto \in recovered.cursor..Len(journal')
    <2>1. page.upto \in recovered.cursor..Len(journal)
      BY <1>1, <1>8 DEF RecoveryGoesOn
    <2>2. QED
      BY <1>2, <1>3, <2>1
  <1>9. RecoveryGoesOn'
    BY <1>6, <1>7, <1>8 DEF RecoveryGoesOn
  <1>10. Follows
    BY <1>5 DEF Follows, Stays
  <1>11. QED
    BY <1>4, <1>9, <1>10

LEMMA SourceRests ==
  ASSUME SourceRemembers, Stays, UNCHANGED <<sourceVars, recovery>>
  PROVE  SourceRemembers'
  BY DEF SourceRemembers, Stays, sourceVars

\* What is on the wire stays right; the subscription may end.
LEMMA WireRests ==
  ASSUME WireIsOfTheJournal, WireIsInOrder, Stays, UNCHANGED <<journal, wire>>,
         source' # "open" \/ (UNCHANGED source /\ subscriber' \in {subscriber, NoCursor})
  PROVE  WireIsOfTheJournal' /\ WireIsInOrder'
  <1>1. WireIsOfTheJournal'
    BY DEF WireIsOfTheJournal
  <1>2. ASSUME source' = "open", subscriber' # NoCursor
        PROVE  WireIsInOrder'
    <2>1. UNCHANGED <<source, subscriber, wire, journal>>
      BY <1>2
    <2>2. QED
      BY <2>1 DEF WireIsInOrder, Unbroken, EventsOnWire, Stays
  <1>3. QED
    BY <1>1, <1>2 DEF WireIsInOrder

\* A step of the composer, which only what the view shows can follow from
LEMMA ComposerSteps ==
  ASSUME CornerInv, Stays, UNCHANGED <<busVars, sourceVars, recoveryVars>>, ComposerTypes'
  PROVE  CornerInv' /\ Follows
  <1>1. /\ BusTypeOK /\ ReaderTypes /\ BufferIsTheTail /\ WireIsOfTheJournal /\ WireIsInOrder
        /\ SourceRemembers
    BY TypesAre DEF CornerInv, FollowInv
  <1>2. /\ UNCHANGED <<running, journal, buffer, subscriber, wire>>
        /\ UNCHANGED <<source, sourceAfter, lastEventId>>
        /\ UNCHANGED <<recovery, recovered, page, pages>>
    BY DEF busVars, sourceVars, recoveryVars
  <1>3. BusTypeOK'
    BY <1>1, <1>2 DEF BusTypeOK
  <1>4. ReaderTypes'
    BY <1>1, <1>2 DEF ReaderTypes, Stays
  <1>5. BufferIsTheTail'
    BY <1>1, <1>2 DEF BufferIsTheTail
  <1>6. WireIsOfTheJournal' /\ WireIsInOrder'
    BY <1>1, <1>2, WireRests
  <1>7. SourceRemembers'
    BY <1>1, <1>2, SourceRests DEF sourceVars
  <1>8. TakenInOrder(live)' /\ RecoveryGoesOn' /\ Follows
    BY <1>2, OrderRests DEF recoveryVars
  <1>9. QED
    BY <1>3, <1>4, <1>5, <1>6, <1>7, <1>8, TypesAre DEF CornerInv, FollowInv

-----------------------------------------------------------------------------
(* The Hub's steps *)

LEMMA PublishSteps ==
  ASSUME CornerInv, NEW event \in Event, Publish(event),
         UNCHANGED <<sourceVars, live, recoveryVars>>, ComposerTypes'
  PROVE  CornerInv' /\ Follows
  <1> DEFINE L == Len(journal)
             k == Len(wire)
  <1>1. /\ BusTypeOK /\ ReaderTypes /\ BufferIsTheTail /\ WireIsOfTheJournal /\ WireIsInOrder
        /\ SourceRemembers
    BY TypesAre DEF CornerInv, FollowInv
  <1>2. /\ UNCHANGED <<source, sourceAfter, lastEventId, live, recovery, recovered, page, pages>>
    BY DEF sourceVars, recoveryVars
  <1>3. live \in LiveState /\ live.cursor \in Nat
    BY <1>1, LiveFields DEF ReaderTypes
  <1>4. /\ BusTypeOK' /\ BufferIsTheTail' /\ WireIsOfTheJournal'
        /\ L \in Nat /\ Len(journal') = L + 1
        /\ subscriber = NoCursor => subscriber' = NoCursor /\ wire' = wire
        /\ subscriber # NoCursor =>
             /\ Len(wire') = k + 1 /\ k \in Nat
             /\ \A i \in 1..k : wire'[i] = wire[i]
             /\ wire'[k + 1] = EventFrame(L + 1)
    BY <1>1, PublishIs
  <1>5. ReaderTypes'
    BY <1>1, <1>2 DEF ReaderTypes
  <1>6. Stays
    BY <1>2, <1>3 DEF Stays
  <1>7. SourceRemembers'
    BY <1>1, <1>2, <1>6, SourceRests DEF sourceVars
  <1>8. TakenInOrder(live)' /\ RecoveryGoesOn' /\ Follows
    BY <1>2, <1>4, <1>6, OrderRests DEF recoveryVars
  <1>9. ASSUME source' = "open", subscriber' # NoCursor, Unbroken'
        PROVE  /\ \A i \in 1..Len(wire') :
                    /\ wire'[i].kind = "open" => i = 1
                    /\ wire'[i].kind = "event" => wire'[i].sequence = Len(journal') - (Len(wire') - i)
               /\ live'.cursor > 0 => Len(journal') - live'.cursor <= EventsOnWire'
    <2>1. /\ Len(wire') = k + 1 /\ k \in Nat
          /\ \A i \in 1..k : wire'[i] = wire[i]
          /\ wire'[k + 1] = EventFrame(L + 1) /\ subscriber # NoCursor /\ source = "open"
      BY <1>2, <1>4, <1>9
    <2>2. Unbroken
      <3>1. ASSUME NEW i \in 1..k
            PROVE  wire[i].kind # "resync"
        <4>1. i \in 1..Len(wire') /\ wire'[i] = wire[i]
          BY <2>1
        <4>2. wire'[i].kind # "resync"
          BY <1>9, <4>1 DEF Unbroken
        <4>3. QED
          BY <4>1, <4>2
      <3>2. QED
        BY <3>1 DEF Unbroken
    <2>3. /\ \A i \in 1..k : /\ wire[i].kind = "open" => i = 1
                             /\ wire[i].kind = "event" => wire[i].sequence = L - (k - i)
          /\ live.cursor > 0 => L - live.cursor <= EventsOnWire
      BY <1>1, <2>1, <2>2 DEF WireIsInOrder
    <2>4. wire'[k + 1].kind = "event" /\ wire'[k + 1].sequence = L + 1
      BY <2>1 DEF EventFrame
    <2> HIDE DEF k, L
    <2>5. ASSUME NEW i \in 1..Len(wire')
          PROVE  /\ wire'[i].kind = "open" => i = 1
                 /\ wire'[i].kind = "event" => wire'[i].sequence = L + 1 - (k + 1 - i)
      <3>1. i \in 1..k \/ i = k + 1
        BY <2>1
      <3>2. CASE i \in 1..k
        <4>1. wire'[i] = wire[i]
          BY <2>1, <3>2
        <4>2. L - (k - i) = L + 1 - (k + 1 - i)
          BY <1>4, <2>1, <3>2
        <4>3. QED
          BY <2>3, <3>2, <4>1, <4>2
      <3>3. CASE i = k + 1
        <4>1. L + 1 = L + 1 - (k + 1 - i)
          BY <1>4, <2>1, <3>3
        <4>2. wire'[i].kind = "event" /\ wire'[i].sequence = L + 1
          BY <2>4, <3>3
        <4>3. QED
          BY <4>1, <4>2
      <3>4. QED
        BY <3>1, <3>2, <3>3
    <2>6. EventsOnWire' = EventsOnWire + 1 /\ EventsOnWire \in Int
      <3>1. wire' # <<>>
        BY <1>4, <2>1, EmptySeq
      <3>2. CASE k = 0
        <4>1. wire = <<>>
          BY <1>1, <3>2, JournalIs, EmptySeq DEF k
        <4>2. wire'[1].kind = "event"
          BY <2>4, <3>2
        <4>3. EventsOnWire' = k + 1
          BY <2>1, <4>2 DEF EventsOnWire
        <4>4. EventsOnWire = k
          BY <4>1 DEF EventsOnWire, k
        <4>5. QED
          BY <2>1, <4>3, <4>4
      <3>3. CASE k # 0
        <4>1. wire # <<>>
          BY <1>1, <3>3, JournalIs, EmptySeq DEF k
        <4>2. wire'[1] = wire[1]
          BY <2>1, <3>3
        <4>3. CASE wire[1].kind = "open"
          <5>1. EventsOnWire' = k + 1 - 1
            BY <2>1, <3>1, <4>2, <4>3 DEF EventsOnWire
          <5>2. EventsOnWire = k - 1
            BY <4>1, <4>3 DEF EventsOnWire, k
          <5>3. QED
            BY <2>1, <5>1, <5>2
        <4>4. CASE wire[1].kind # "open"
          <5>1. EventsOnWire' = k + 1
            BY <2>1, <4>2, <4>4 DEF EventsOnWire
          <5>2. EventsOnWire = k
            BY <4>4 DEF EventsOnWire, k
          <5>3. QED
            BY <2>1, <5>1, <5>2
        <4>5. QED
          BY <4>3, <4>4
      <3>4. QED
        BY <3>2, <3>3
    <2>7. live'.cursor = live.cursor
      BY <1>2
    <2>8. PICK c \in Nat, e \in Int : c = live.cursor /\ e = EventsOnWire
      BY <1>3, <2>6
    <2>9. live'.cursor > 0 => Len(journal') - live'.cursor <= EventsOnWire'
      <3>1. c > 0 => L - c <= e
        BY <2>3, <2>8
      <3>2. c > 0 => L + 1 - c <= e + 1
        BY <1>4, <2>8, <3>1
      <3>3. Len(journal') = L + 1 /\ L \in Int /\ L + 1 \in Int
        BY <1>4
      <3>4. live'.cursor = c /\ EventsOnWire' = e + 1
        BY <2>6, <2>7, <2>8
      <3>5. QED
        BY <3>2, <3>3, <3>4
    <2>10. QED
      BY <1>4, <2>1, <2>5, <2>9
  <1>10. WireIsInOrder'
    BY <1>9 DEF WireIsInOrder
  <1>11. QED
    BY <1>4, <1>5, <1>7, <1>8, <1>10, TypesAre DEF CornerInv, FollowInv

LEMMA HubStopsSafely ==
  ASSUME CornerInv, HubStops
  PROVE  CornerInv' /\ Follows
  <1>1. /\ BusTypeOK /\ ReaderTypes /\ ComposerTypes /\ WireIsOfTheJournal /\ WireIsInOrder
        /\ SourceRemembers
    BY TypesAre DEF CornerInv, FollowInv
  <1>2. /\ running' = FALSE /\ buffer' = <<>> /\ subscriber' = NoCursor /\ UNCHANGED <<journal, wire>>
        /\ active' = NoWake /\ stops' = stops + 1 /\ stops < MaxStops
        /\ UNCHANGED <<breaks, sourceVars, live, recoveryVars, composerVars>>
    BY DEF HubStops, BusStops
  <1>3. /\ UNCHANGED <<source, sourceAfter, lastEventId, recovery, recovered, page, pages>>
        /\ UNCHANGED <<busy, submitted, submission, poll, reconciling, reconciled>>
    BY <1>2 DEF sourceVars, recoveryVars, composerVars
  <1>4. BusTypeOK'
    <2>1. <<>> \in Seq(1..Len(journal)) /\ Len(<<>>) = 0 /\ BufferSize \in Nat
      BY HubEventBusAssumption
    <2>2. Len(<<>>) <= BufferSize
      BY <2>1
    <2>3. QED
      BY <1>1, <1>2, <2>1, <2>2 DEF BusTypeOK
  <1>5. ReaderTypes'
    BY <1>1, <1>2, <1>3 DEF ReaderTypes
  <1>6. ComposerTypes'
    <2>1. stops' \in 0..MaxStops
      BY <1>1, <1>2, CornerAssumption DEF ComposerTypes
    <2>2. QED
      BY <1>1, <1>2, <1>3, <2>1 DEF ComposerTypes
  <1>7. Stays
    BY <1>1, <1>2 DEF Stays, ReaderTypes
  <1>8. WireIsOfTheJournal' /\ WireIsInOrder'
    BY <1>1, <1>2, <1>3, <1>7, WireRests
  <1>9. SourceRemembers'
    BY <1>1, <1>2, <1>3, <1>7, SourceRests
  <1>10. TakenInOrder(live)' /\ RecoveryGoesOn' /\ Follows
    BY <1>2, <1>7, OrderRests
  <1>11. BufferIsTheTail'
    BY <1>2 DEF BufferIsTheTail
  <1>12. QED
    BY <1>4, <1>5, <1>6, <1>8, <1>9, <1>10, <1>11, TypesAre DEF CornerInv, FollowInv

LEMMA HubStartsSafely ==
  ASSUME CornerInv, HubStarts
  PROVE  CornerInv' /\ Follows
  <1>1. /\ BusTypeOK /\ ReaderTypes /\ ComposerTypes /\ WireIsOfTheJournal /\ WireIsInOrder
        /\ SourceRemembers
    BY TypesAre DEF CornerInv, FollowInv
  <1>2. /\ BusStarts /\ UNCHANGED <<journal, subscriber, wire>>
        /\ UNCHANGED <<active, stops, breaks, sourceVars, live, recoveryVars, composerVars>>
    BY DEF HubStarts, BusStarts
  <1>3. /\ UNCHANGED <<source, sourceAfter, lastEventId, recovery, recovered, page, pages>>
        /\ UNCHANGED <<busy, submitted, submission, poll, reconciling, reconciled>>
    BY <1>2 DEF sourceVars, recoveryVars, composerVars
  <1>4. BusTypeOK' /\ BufferIsTheTail'
    BY <1>1, <1>2, BusStartsIs
  <1>5. ReaderTypes' /\ ComposerTypes'
    BY <1>1, <1>2, <1>3 DEF ReaderTypes, ComposerTypes
  <1>6. Stays
    BY <1>1, <1>2 DEF Stays, ReaderTypes
  <1>7. WireIsOfTheJournal' /\ WireIsInOrder'
    BY <1>1, <1>2, <1>3, <1>6, WireRests
  <1>8. SourceRemembers'
    BY <1>1, <1>2, <1>3, <1>6, SourceRests
  <1>9. TakenInOrder(live)' /\ RecoveryGoesOn' /\ Follows
    BY <1>2, <1>6, OrderRests
  <1>10. QED
    BY <1>4, <1>5, <1>7, <1>8, <1>9, TypesAre DEF CornerInv, FollowInv

\* Every way an event comes to be published
LEMMA PublicationsKeepOrder ==
  ASSUME CornerInv,
         (\E w \in Wake : WakeAccepted(w)) \/ WakeNotes \/ WakeEnds
  PROVE  CornerInv' /\ Follows
  <1>1. ComposerTypes /\ active \in Wake \cup {NoWake}
    BY TypesAre DEF CornerInv, ComposerTypes
  <1>2. PICK event \in Event :
          Publish(event) /\ UNCHANGED <<sourceVars, live, recoveryVars, composerVars, stops, breaks>>
                         /\ active' \in Wake \cup {NoWake}
    <2>1. ASSUME NEW w \in Wake, WakeAccepted(w)
          PROVE  /\ [wake |-> w, kind |-> "accepted"] \in Event /\ Publish([wake |-> w, kind |-> "accepted"])
                 /\ UNCHANGED <<sourceVars, live, recoveryVars, composerVars, stops, breaks>>
                 /\ active' \in Wake \cup {NoWake}
      BY <2>1 DEF WakeAccepted, Accepted, Event
    <2>2. ASSUME WakeNotes
          PROVE  /\ [wake |-> active, kind |-> "note"] \in Event /\ Publish([wake |-> active, kind |-> "note"])
                 /\ UNCHANGED <<sourceVars, live, recoveryVars, composerVars, stops, breaks>>
                 /\ active' \in Wake \cup {NoWake}
      BY <1>1, <2>2 DEF WakeNotes, Event
    <2>3. ASSUME WakeEnds
          PROVE  /\ [wake |-> active, kind |-> "terminal"] \in Event /\ Publish([wake |-> active, kind |-> "terminal"])
                 /\ UNCHANGED <<sourceVars, live, recoveryVars, composerVars, stops, breaks>>
                 /\ active' \in Wake \cup {NoWake}
      BY <1>1, <2>3 DEF WakeEnds, Event
    <2>4. QED
      BY <2>1, <2>2, <2>3
  <1>3. ComposerTypes'
    BY <1>1, <1>2 DEF ComposerTypes, composerVars
  <1>4. QED
    BY <1>2, <1>3, PublishSteps

-----------------------------------------------------------------------------
(* The composer's steps *)

LEMMA Points ==
  ASSUME NEW point \in {"none", "asked", "refused", "heard", "releasing", "settling"},
         NEW w \in Wake \cup {NoWake}
  PROVE  At(point, w) \in Request /\ At(point, w).is = point /\ At(point, w).wake = w
  BY DEF At, Request

LEMMA PollsAre ==
  ASSUME poll \in Request, NEW locked, NEW state, PollIfLocked(locked, state)
  PROVE  poll' \in Request
  <1>1. At("asked", NoWake) \in Request
    BY Points
  <1>2. poll' = At("asked", NoWake) \/ poll' = poll
    BY DEF PollIfLocked
  <1>3. QED
    BY <1>1, <1>2

LEMMA ReleaseIs ==
  ASSUME releaseWakeUi
  PROVE  busy' \in BOOLEAN /\ submitted' \in Wake \cup {NoWake}
  BY DEF releaseWakeUi

LEMMA ComposerKeepsOrder ==
  ASSUME CornerInv,
         \/ \E w \in Wake : ReconcileFinishes(w)
         \/ PollAsks \/ HubAnswersPoll \/ PollHears \/ PollReleases
         \/ Submit \/ SubmissionHeard \/ SubmissionSettles \/ SubmissionFails
  PROVE  CornerInv' /\ Follows
  <1> DEFINE Quiet == /\ Stays /\ UNCHANGED <<busVars, sourceVars, recoveryVars>>
                      /\ UNCHANGED <<active, breaks, stops>>
             Sound == /\ busy' \in BOOLEAN /\ submitted' \in Wake \cup {NoWake}
                      /\ submission' \in Request /\ poll' \in Request
                      /\ reconciling' \in [Wake -> {"no", "running", "done"}] /\ reconciled' \in Nat
  <1>1. /\ live \in LiveState /\ active \in Wake \cup {NoWake} /\ ComposerTypes
        /\ busy \in BOOLEAN /\ submitted \in Wake \cup {NoWake}
        /\ submission \in Request /\ poll \in Request
        /\ reconciling \in [Wake -> {"no", "running", "done"}] /\ reconciled \in Nat
    BY TypesAre DEF CornerInv, ComposerTypes, ReaderTypes
  <1>2. Nothing \in Request /\ At("asked", NoWake) \in Request /\ At("refused", NoWake) \in Request
    BY Points DEF Nothing
  <1>3. \A w : live' = ClearLiveWake(live, w) => Stays
    BY <1>1, ClearLiveWakeIs DEF Stays
  <1>4. UNCHANGED live => Stays
    BY <1>1 DEF Stays
  <1>5. ASSUME NEW w \in Wake, ReconcileFinishes(w)
        PROVE  Quiet /\ Sound
    <2>1. Quiet
      BY <1>3, <1>5 DEF ReconcileFinishes, hubVars
    <2>2. busy' \in BOOLEAN /\ submitted' \in Wake \cup {NoWake}
      BY <1>5, ReleaseIs DEF ReconcileFinishes
    <2>3. reconciling' \in [Wake -> {"no", "running", "done"}] /\ UNCHANGED <<submission, poll, reconciled>>
      BY <1>1, <1>5 DEF ReconcileFinishes
    <2>4. QED
      BY <1>1, <2>1, <2>2, <2>3
  <1>6. ASSUME PollAsks
        PROVE  Quiet /\ Sound
    <2>1. Quiet
      BY <1>4, <1>6 DEF PollAsks, hubVars
    <2>2. poll' \in Request
      BY <1>1, <1>6, PollsAre DEF PollAsks
    <2>3. QED
      BY <1>1, <1>6, <2>1, <2>2 DEF PollAsks
  <1>7. ASSUME HubAnswersPoll
        PROVE  Quiet /\ Sound
    <2>1. Quiet
      BY <1>4, <1>7 DEF HubAnswersPoll, hubVars
    <2>2. At("heard", active) \in Request
      BY <1>1, Points
    <2>3. poll' \in Request
      BY <1>2, <1>7, <2>2 DEF HubAnswersPoll
    <2>4. QED
      BY <1>1, <1>7, <2>1, <2>3 DEF HubAnswersPoll
  <1>8. ASSUME PollHears
        PROVE  Quiet /\ Sound
    <2>1. Quiet
      BY <1>4, <1>8 DEF PollHears, hubVars
    <2>2. At("releasing", submitted) \in Request
      BY <1>1, Points
    <2>3. poll' \in Request
      BY <1>2, <1>8, <2>2 DEF PollHears
    <2>4. QED
      BY <1>1, <1>8, <2>1, <2>3 DEF PollHears
  <1>9. ASSUME PollReleases
        PROVE  Quiet /\ Sound
    <2>1. Quiet
      BY <1>3, <1>9 DEF PollReleases, hubVars
    <2>2. busy' \in BOOLEAN /\ submitted' \in Wake \cup {NoWake}
      BY <1>9, ReleaseIs DEF PollReleases
    <2>3. QED
      BY <1>1, <1>2, <1>9, <2>1, <2>2 DEF PollReleases
  <1>10. ASSUME Submit
         PROVE  Quiet /\ Sound
    <2>1. Quiet
      BY <1>4, <1>10 DEF Submit, hubVars
    <2>2. poll' \in Request
      BY <1>1, <1>10, PollsAre DEF Submit
    <2>3. QED
      BY <1>1, <1>2, <1>10, <2>1, <2>2 DEF Submit
  <1>11. ASSUME SubmissionHeard
         PROVE  Quiet /\ Sound
    <2>1. Quiet
      BY <1>4, <1>11 DEF SubmissionHeard, hubVars
    <2>2. submission.wake \in Wake \cup {NoWake}
      BY <1>1 DEF Request
    <2>3. At("settling", submission.wake) \in Request
      BY <2>2, Points
    <2>4. submission' \in Request /\ submitted' \in Wake \cup {NoWake}
      BY <1>2, <1>11, <2>2, <2>3 DEF SubmissionHeard
    <2>5. QED
      BY <1>1, <1>11, <2>1, <2>4 DEF SubmissionHeard
  <1>12. ASSUME SubmissionSettles
         PROVE  Quiet /\ Sound
    <2>1. Quiet
      BY <1>4, <1>12 DEF SubmissionSettles, hubVars
    <2>2. busy' \in BOOLEAN /\ submitted' \in Wake \cup {NoWake}
      BY <1>12, ReleaseIs DEF SubmissionSettles
    <2>3. QED
      BY <1>1, <1>2, <1>12, <2>1, <2>2 DEF SubmissionSettles
  <1>13. ASSUME SubmissionFails
         PROVE  Quiet /\ Sound
    <2>1. Quiet
      BY <1>3, <1>13 DEF SubmissionFails, hubVars
    <2>2. busy' \in BOOLEAN /\ submitted' \in Wake \cup {NoWake}
      BY <1>13, ReleaseIs DEF SubmissionFails
    <2>3. QED
      BY <1>1, <1>2, <1>13, <2>1, <2>2 DEF SubmissionFails
  <1>14. Quiet /\ Sound
    BY <1>5, <1>6, <1>7, <1>8, <1>9, <1>10, <1>11, <1>12, <1>13
  <1>15. ComposerTypes'
    BY <1>1, <1>14 DEF ComposerTypes
  <1>16. QED
    BY <1>14, <1>15, ComposerSteps

\* The submission is refused, or it announces its wake, heard or not.
LEMMA SubmissionsKeepOrder ==
  ASSUME CornerInv, HubAnswersSubmission
  PROVE  CornerInv' /\ Follows
  <1>1. ComposerTypes /\ live \in LiveState
    BY TypesAre DEF CornerInv, ReaderTypes
  <1>2. /\ At("refused", NoWake) \in Request
        /\ \A w \in Wake : At("heard", w) \in Request
    BY Points
  <1>3. UNCHANGED <<stops, sourceVars, live, recoveryVars, busy, submitted, poll, reconciling, reconciled>>
    BY DEF HubAnswersSubmission
  <1>4. CASE submission' = At("refused", NoWake) /\ UNCHANGED <<busVars, active, breaks>>
    <2>1. ComposerTypes'
      BY <1>1, <1>2, <1>3, <1>4 DEF ComposerTypes
    <2>2. Stays
      BY <1>1, <1>3 DEF Stays
    <2>3. QED
      BY <1>3, <1>4, <2>1, <2>2, ComposerSteps
  <1>5. ASSUME NEW w \in Wake, Accepted(w),
               \/ submission' = At("heard", w) /\ UNCHANGED breaks
               \/ breaks < MaxBreaks /\ breaks' = breaks + 1 /\ submission' = At("refused", NoWake)
        PROVE  CornerInv' /\ Follows
    <2>1. [wake |-> w, kind |-> "accepted"] \in Event /\ Publish([wake |-> w, kind |-> "accepted"])
          /\ active' = w
      BY <1>5 DEF Accepted, Event
    <2>2. breaks' \in 0..MaxBreaks
      BY <1>1, <1>5, CornerAssumption DEF ComposerTypes
    <2>3. submission' \in Request
      BY <1>2, <1>5
    <2>4. ComposerTypes'
      BY <1>1, <1>3, <2>1, <2>2, <2>3 DEF ComposerTypes
    <2>5. QED
      BY <1>3, <2>1, <2>4, PublishSteps
  <1>6. QED
    BY <1>4, <1>5 DEF HubAnswersSubmission

-----------------------------------------------------------------------------
(* The source's steps *)

\* What a new connection is sent: the events after the reader's place or an
\* earlier one, up to the head of the journal, or the notice to start over.
LEMMA ReplayIs ==
  ASSUME BusTypeOK, BufferIsTheTail, NEW after \in Nat \cup {NoCursor},
         wire' = <<OpenFrame>> \o Replay(after)
  PROVE  /\ wire' \in Seq(Frame) /\ Len(wire') \in Nat \ {0} /\ wire'[1] = OpenFrame
         /\ \/ after = NoCursor /\ Len(wire') = 1
            \/ Len(wire') = 2 /\ wire'[2] = ResyncFrame(Len(journal))
            \/ /\ after \in 0..Len(journal) /\ Len(wire') = Len(journal) - after + 1
               /\ \A i \in 2..Len(wire') : wire'[i] = EventFrame(after + i - 1)
  <1> DEFINE L == Len(journal)
             replay == Replay(after)
             tail == [i \in 1..(L - after) |-> EventFrame(after + i)]
  <1>1. L \in Nat /\ Latest = L
    BY JournalIs, LatestIsTheHead
  <1>2. \/ after = NoCursor /\ replay = <<>>
        \/ replay = <<ResyncFrame(L)>>
        \/ after # NoCursor /\ ~(after > L) /\ replay = tail
    BY <1>1 DEF Replay
  <1>3. OpenFrame \in Frame /\ ResyncFrame(L) \in Frame
    BY <1>1 DEF OpenFrame, ResyncFrame, Frame
  <1>4. ASSUME NEW s \in Seq(Frame), wire' = <<OpenFrame>> \o s
        PROVE  /\ wire' \in Seq(Frame) /\ Len(wire') = 1 + Len(s) /\ Len(s) \in Nat /\ wire'[1] = OpenFrame
               /\ \A i \in 2..Len(wire') : wire'[i] = s[i - 1]
    <2>1. <<OpenFrame>> \in Seq(Frame) /\ Len(<<OpenFrame>>) = 1 /\ <<OpenFrame>>[1] = OpenFrame
      BY <1>3
    <2>2. Len(s) \in Nat
      BY LenProperties
    <2> DEFINE first == <<OpenFrame>>
    <2>3. first \in Seq(Frame) /\ Len(first) = 1 /\ first[1] = OpenFrame
      BY <2>1
    <2> HIDE DEF first
    <2>4. /\ first \o s \in Seq(Frame) /\ Len(first \o s) = Len(first) + Len(s)
          /\ \A i \in 1..Len(first) + Len(s) :
               (first \o s)[i] = IF i <= Len(first) THEN first[i] ELSE s[i - Len(first)]
      BY <2>3, ConcatProperties
    <2>5. wire' = first \o s
      BY <1>4 DEF first
    <2> DEFINE both == first \o s
    <2>6. Len(both) = 1 + Len(s) /\ both[1] = OpenFrame /\ \A i \in 2..Len(both) : both[i] = s[i - 1]
      <3>1. Len(both) = 1 + Len(s)
        BY <2>3, <2>4
      <3>2. both[1] = OpenFrame
        BY <2>2, <2>3, <2>4
      <3>3. ASSUME NEW i \in 2..Len(both)
            PROVE  both[i] = s[i - 1]
        <4>1. i \in 1..Len(first) + Len(s) /\ ~(i <= Len(first)) /\ i - Len(first) = i - 1
          BY <2>2, <2>3, <3>1
        <4>2. QED
          BY <2>4, <4>1
      <3>4. QED
        BY <3>1, <3>2, <3>3
    <2> HIDE DEF both
    <2>7. QED
      BY <2>2, <2>4, <2>5, <2>6 DEF both
  <1>5. CASE after = NoCursor /\ replay = <<>>
    <2>1. <<>> \in Seq(Frame) /\ Len(<<>>) = 0
      OBVIOUS
    <2>2. wire' = <<OpenFrame>> \o <<>>
      BY <1>5
    <2>3. /\ wire' \in Seq(Frame) /\ Len(wire') = 1 + Len(<<>>) /\ wire'[1] = OpenFrame
      BY <1>4, <2>1, <2>2
    <2>4. QED
      BY <1>5, <2>1, <2>3
  <1>6. CASE replay = <<ResyncFrame(L)>>
    <2> DEFINE s == <<ResyncFrame(L)>>
    <2>1. s \in Seq(Frame) /\ Len(s) = 1 /\ s[1] = ResyncFrame(L)
      BY <1>3
    <2>2. wire' = <<OpenFrame>> \o s
      BY <1>6
    <2> HIDE DEF s
    <2>3. /\ wire' \in Seq(Frame) /\ Len(wire') = 1 + Len(s) /\ Len(s) \in Nat /\ wire'[1] = OpenFrame
          /\ \A i \in 2..Len(wire') : wire'[i] = s[i - 1]
      BY <1>4, <2>1, <2>2
    <2>4. Len(wire') = 2 /\ 2 \in 2..Len(wire') /\ 2 - 1 = 1
      BY <2>1, <2>3
    <2>5. wire'[2] = ResyncFrame(L)
      BY <2>1, <2>3, <2>4
    <2>6. QED
      BY <2>3, <2>4, <2>5
  <1>7. CASE after # NoCursor /\ ~(after > L) /\ replay = tail
    <2>1. after \in Nat /\ after \in 0..L /\ L - after \in Nat
      BY <1>1, <1>7
    <2>2. tail \in [1..(L - after) -> Frame]
      BY <2>1 DEF EventFrame, Frame
    <2>3. tail \in Seq(Frame) /\ Len(tail) = L - after
      <3>1. tail \in Seq(Frame)
        <4>1. PICK d \in Nat : d = L - after
          BY <2>1
        <4>2. tail \in [1..d -> Frame]
          BY <2>2, <4>1
        <4> HIDE DEF tail
        <4>3. QED
          BY <4>2, IsASeq
      <3>2. DOMAIN tail = 1..(L - after)
        OBVIOUS
      <3>3. DOMAIN tail = 1..Len(tail) /\ Len(tail) \in Nat
        BY <3>1, LenProperties
      <3> HIDE DEF tail
      <3>4. QED
        BY <2>1, <3>1, <3>2, <3>3
    <2>4. \A i \in 1..(L - after) : tail[i] = EventFrame(after + i)
      OBVIOUS
    <2>5. wire' = <<OpenFrame>> \o tail
      BY <1>7
    <2> HIDE DEF tail
    <2>6. /\ wire' \in Seq(Frame) /\ Len(wire') = 1 + Len(tail) /\ wire'[1] = OpenFrame
          /\ \A i \in 2..Len(wire') : wire'[i] = tail[i - 1]
      BY <1>4, <2>3, <2>5
    <2>7. Len(wire') = L - after + 1 /\ Len(wire') \in Nat \ {0}
      BY <2>1, <2>3, <2>6
    <2>8. ASSUME NEW i \in 2..Len(wire')
          PROVE  wire'[i] = EventFrame(after + i - 1)
      <3>1. i - 1 \in 1..(L - after) /\ after + (i - 1) = after + i - 1
        BY <2>1, <2>7
      <3>2. QED
        BY <2>4, <2>6, <3>1
    <2>9. QED
      BY <2>1, <2>6, <2>7, <2>8
  <1>8. QED
    BY <1>2, <1>5, <1>6, <1>7

LEMMA ConnectingKeepsOrder ==
  ASSUME CornerInv, SourceConnects
  PROVE  CornerInv' /\ Follows
  <1> DEFINE after == IF sourceAfter # NoCursor THEN sourceAfter ELSE lastEventId
             L == Len(journal)
             k == Len(wire')
  <1>1. /\ BusTypeOK /\ ReaderTypes /\ ComposerTypes /\ BufferIsTheTail /\ WireIsOfTheJournal
        /\ SourceRemembers
    BY TypesAre DEF CornerInv, FollowInv
  <1>2. /\ source = "waiting" /\ source' = "open" /\ running
        /\ wire' = <<OpenFrame>> \o Replay(after) /\ subscriber' = Latest
        /\ UNCHANGED <<running, journal, buffer>>
        /\ UNCHANGED <<active, breaks, stops, sourceAfter, lastEventId, live, recoveryVars, composerVars>>
    BY DEF SourceConnects, Subscribe
  <1>3. /\ UNCHANGED <<recovery, recovered, page, pages>>
        /\ UNCHANGED <<busy, submitted, submission, poll, reconciling, reconciled>>
    BY <1>2 DEF recoveryVars, composerVars
  <1>4. L \in Nat /\ Latest = L /\ live.cursor \in Nat /\ live \in LiveState
    BY <1>1, JournalIs, LatestIsTheHead, LiveFields DEF ReaderTypes
  <1>5. after \in Nat \cup {NoCursor}
    BY <1>1 DEF ReaderTypes
  <1>6. /\ after = NoCursor => live.cursor = 0
        /\ after # NoCursor => after <= live.cursor
    <2>1. live.cursor > 0 => sourceAfter # NoCursor \/ lastEventId # NoCursor
      BY <1>1, <1>2 DEF SourceRemembers
    <2>2. /\ sourceAfter # NoCursor => sourceAfter <= live.cursor
          /\ lastEventId # NoCursor => lastEventId <= live.cursor
      BY <1>1 DEF SourceRemembers
    <2>3. QED
      BY <1>4, <2>1, <2>2
  <1> HIDE DEF after
  <1>7. /\ wire' \in Seq(Frame) /\ k \in Nat \ {0} /\ wire'[1] = OpenFrame
        /\ \/ after = NoCursor /\ k = 1
           \/ k = 2 /\ wire'[2] = ResyncFrame(L)
           \/ /\ after \in 0..L /\ k = L - after + 1
              /\ \A i \in 2..k : wire'[i] = EventFrame(after + i - 1)
    BY <1>1, <1>2, <1>5, ReplayIs
  <1>8. wire'[1].kind = "open"
    BY <1>7 DEF OpenFrame
  <1>9. BusTypeOK'
    BY <1>1, <1>2, <1>4, <1>7 DEF BusTypeOK
  <1>10. ReaderTypes' /\ ComposerTypes'
    BY <1>1, <1>2, <1>3 DEF ReaderTypes, ComposerTypes
  <1>11. Stays
    BY <1>2, <1>4 DEF Stays
  <1>12. SourceRemembers'
    BY <1>1, <1>2, <1>3 DEF SourceRemembers
  <1>13. TakenInOrder(live)' /\ RecoveryGoesOn' /\ Follows
    BY <1>2, <1>11, OrderRests
  <1>14. BufferIsTheTail'
    BY <1>1, <1>2 DEF BufferIsTheTail
  <1>15. ASSUME NEW i \in 1..k, wire'[i].kind # "open"
         PROVE  wire'[i].kind = "resync" \/
                (after \in 0..L /\ k = L - after + 1 /\ wire'[i].sequence = after + i - 1)
    <2>1. i \in 2..k
      BY <1>7, <1>8, <1>15
    <2>2. CASE k = 2 /\ wire'[2] = ResyncFrame(L)
      <3>1. i = 2
        BY <2>1, <2>2
      <3>2. QED
        BY <2>2, <3>1 DEF ResyncFrame
    <2>3. CASE /\ after \in 0..L /\ k = L - after + 1
               /\ \A j \in 2..k : wire'[j] = EventFrame(after + j - 1)
      <3>1. wire'[i] = EventFrame(after + i - 1)
        BY <2>1, <2>3
      <3>2. QED
        BY <2>3, <3>1 DEF EventFrame
    <2> HIDE DEF k, L
    <2>4. k # 1
      BY <1>7, <2>1
    <2>5. QED
      BY <1>7, <2>2, <2>3, <2>4
  <1>16. WireIsOfTheJournal'
    <2>1. ASSUME NEW i \in 1..k, wire'[i].kind = "event"
          PROVE  wire'[i].sequence \in 1..L
      <3>1. after \in 0..L /\ k = L - after + 1 /\ wire'[i].sequence = after + i - 1
        BY <1>15, <2>1
      <3>2. i # 1
        BY <1>8, <2>1
      <3> HIDE DEF k, L
      <3>3. i \in 2..k
        BY <1>7, <3>2
      <3>4. after + i - 1 \in 1..L
        BY <1>4, <3>1, <3>3
      <3>5. QED
        BY <3>1, <3>4
    <2>2. QED
      BY <1>2, <2>1 DEF WireIsOfTheJournal
  <1>17. ASSUME Unbroken'
         PROVE  /\ \A i \in 1..k : /\ wire'[i].kind = "open" => i = 1
                                   /\ wire'[i].kind = "event" => wire'[i].sequence = L - (k - i)
                /\ live.cursor > 0 => L - live.cursor <= k - 1
    <2>1. \/ after = NoCursor /\ k = 1
          \/ /\ after \in 0..L /\ k = L - after + 1
             /\ \A i \in 2..k : wire'[i] = EventFrame(after + i - 1)
      <3>1. ~(k = 2 /\ wire'[2] = ResyncFrame(L))
        <4>1. k = 2 => 2 \in 1..k
          OBVIOUS
        <4>2. ResyncFrame(L).kind = "resync"
          BY DEF ResyncFrame
        <4>3. QED
          BY <1>17, <4>1, <4>2 DEF Unbroken
      <3> HIDE DEF k, L
      <3>2. QED
        BY <1>7, <3>1
    <2>2. ASSUME NEW i \in 1..k, wire'[i].kind = "open"
          PROVE  i = 1
      <3>1. CASE k = 1
        BY <3>1
      <3>2. CASE \A j \in 2..k : wire'[j] = EventFrame(after + j - 1)
        <4> HIDE DEF k, L
        <4>1. ASSUME i \in 2..k
              PROVE  FALSE
          <5>1. wire'[i] = EventFrame(after + i - 1)
            BY <3>2, <4>1
          <5>2. wire'[i].kind = "event"
            BY <5>1 DEF EventFrame
          <5>3. QED
            BY <2>2, <5>2
        <4>2. QED
          BY <1>7, <2>2, <4>1
      <3>3. QED
        BY <2>1, <3>1, <3>2
    <2>3. ASSUME NEW i \in 1..k, wire'[i].kind = "event"
          PROVE  wire'[i].sequence = L - (k - i)
      <3>1. after \in 0..L /\ k = L - after + 1 /\ wire'[i].sequence = after + i - 1
        BY <1>15, <2>3
      <3> HIDE DEF k, L
      <3>2. after + i - 1 = L - (k - i)
        BY <1>4, <1>7, <3>1
      <3>3. QED
        BY <3>1, <3>2
    <2>4. live.cursor > 0 => L - live.cursor <= k - 1
      <3> HIDE DEF k, L
      <3>1. CASE after = NoCursor
        BY <1>4, <1>6, <3>1
      <3>2. CASE after # NoCursor
        <4>1. after \in 0..L /\ k = L - after + 1
          BY <2>1, <3>2
        <4>2. after <= live.cursor
          BY <1>6, <3>2
        <4>3. QED
          BY <1>4, <4>1, <4>2
      <3>3. QED
        BY <3>1, <3>2
    <2>5. QED
      BY <2>2, <2>3, <2>4
  <1>18. WireIsInOrder'
    <2>1. EventsOnWire' = k - 1
      <3>1. wire' # <<>>
        BY <1>7, EmptySeq
      <3>2. QED
        BY <1>8, <3>1 DEF EventsOnWire
    <2>2. UNCHANGED <<journal, live>>
      BY <1>2
    <2>3. QED
      BY <1>17, <2>1, <2>2 DEF WireIsInOrder
  <1>19. QED
    BY <1>9, <1>10, <1>12, <1>13, <1>14, <1>16, <1>18, TypesAre DEF CornerInv, FollowInv

\* Nothing on the wire is for a source that is not open.
LEMMA WireIsCut ==
  ASSUME BusTypeOK, BufferIsTheTail, Unsubscribe, source' # "open"
  PROVE  BusTypeOK' /\ BufferIsTheTail' /\ WireIsOfTheJournal' /\ WireIsInOrder' /\ UNCHANGED journal
  <1>1. wire' = <<>> /\ subscriber' = NoCursor /\ UNCHANGED <<running, journal, buffer>>
    BY DEF Unsubscribe
  <1>2. <<>> \in Seq(Frame) /\ Len(<<>>) = 0
    OBVIOUS
  <1>3. BusTypeOK'
    BY <1>1, <1>2 DEF BusTypeOK
  <1>4. BufferIsTheTail'
    BY <1>1 DEF BufferIsTheTail
  <1>5. WireIsOfTheJournal'
    BY <1>1, <1>2 DEF WireIsOfTheJournal
  <1>6. QED
    BY <1>1, <1>3, <1>4, <1>5 DEF WireIsInOrder

\* The wire stays as it was for a source that is not open.
LEMMA WireIsLeft ==
  ASSUME BusTypeOK, BufferIsTheTail, WireIsOfTheJournal, UNCHANGED busVars, source' # "open"
  PROVE  BusTypeOK' /\ BufferIsTheTail' /\ WireIsOfTheJournal' /\ WireIsInOrder' /\ UNCHANGED journal
  <1>1. UNCHANGED <<running, journal, buffer, subscriber, wire>>
    BY DEF busVars
  <1>2. BusTypeOK' /\ BufferIsTheTail' /\ WireIsOfTheJournal'
    BY <1>1 DEF BusTypeOK, BufferIsTheTail, WireIsOfTheJournal
  <1>3. QED
    BY <1>1, <1>2 DEF WireIsInOrder

LEMMA Disconnects ==
  ASSUME NEW state \in LiveState, live' = [state EXCEPT !.connection = "disconnected"]
  PROVE  live' \in LiveState /\ live'.cursor = state.cursor /\ live'.applied = state.applied
  BY DEF LiveState

LEMMA FailingKeepsOrder ==
  ASSUME CornerInv, SourceBreaks \/ SourceEnds
  PROVE  CornerInv' /\ Follows
  <1>1. /\ BusTypeOK /\ ReaderTypes /\ ComposerTypes /\ BufferIsTheTail
        /\ SourceRemembers /\ live \in LiveState /\ poll \in Request
    BY TypesAre DEF CornerInv, FollowInv, ReaderTypes, ComposerTypes
  <1>2. /\ source = "open" /\ Unsubscribe /\ source' = "waiting"
        /\ live' = [live EXCEPT !.connection = "disconnected"] /\ PollIfLocked(busy, live')
        /\ UNCHANGED <<active, stops, sourceAfter, lastEventId, recoveryVars, busy, submitted, submission,
                       reconciling, reconciled>>
    BY DEF SourceBreaks, SourceEnds, SourceFails
  <1>3. breaks' \in 0..MaxBreaks
    BY <1>1, CornerAssumption DEF SourceBreaks, SourceEnds, ComposerTypes
  <1>4. poll' \in Request
    BY <1>1, <1>2, PollsAre
  <1>5. UNCHANGED <<recovery, recovered, page, pages>>
    BY <1>2 DEF recoveryVars
  <1>6. Stays
    BY <1>1, <1>2, Disconnects DEF Stays
  <1>7. BusTypeOK' /\ BufferIsTheTail' /\ WireIsOfTheJournal' /\ WireIsInOrder' /\ UNCHANGED journal
    BY <1>1, <1>2, WireIsCut
  <1>8. ReaderTypes'
    BY <1>1, <1>2, <1>5, <1>6 DEF ReaderTypes, Stays
  <1>9. ComposerTypes'
    BY <1>1, <1>2, <1>3, <1>4 DEF ComposerTypes
  <1>10. SourceRemembers'
    BY <1>1, <1>2, <1>5, <1>6 DEF SourceRemembers, Stays
  <1>11. TakenInOrder(live)' /\ RecoveryGoesOn' /\ Follows
    BY <1>2, <1>6, <1>7, OrderRests
  <1>12. QED
    BY <1>7, <1>8, <1>9, <1>10, <1>11, TypesAre DEF CornerInv, FollowInv

\* A recovery begins where the reader is.
LEMMA RecoveryStarts ==
  ASSUME CornerInv, NEW state \in LiveState, TakenInOrder(state), GoesOn(live, state),
         StartRecovery(state), UNCHANGED journal
  PROVE  ReaderTypes' /\ SourceRemembers' /\ TakenInOrder(live)' /\ RecoveryGoesOn' /\ Follows
  <1>1. ReaderTypes
    BY TypesAre DEF CornerInv
  <1>2. /\ source' = "none" /\ sourceAfter' = NoCursor /\ lastEventId' = NoCursor
        /\ live' = [state EXCEPT !.connection = "disconnected"]
        /\ recovery' = "asked" /\ recovered' = live' /\ pages' = 1
        /\ UNCHANGED page
    BY DEF StartRecovery, CloseSource
  <1>3. live' \in LiveState /\ live'.cursor = state.cursor /\ live'.applied = state.applied
    BY <1>2, Disconnects
  <1>4. ReaderTypes'
    <2>1. 1 \in 0..MaxPages
      BY CornerAssumption
    <2>2. QED
      BY <1>1, <1>2, <1>3, <2>1 DEF ReaderTypes
  <1>5. SourceRemembers'
    BY <1>2 DEF SourceRemembers
  <1>6. GoesOn(live, live')
    BY <1>3 DEF GoesOn
  <1>7. TakenInOrder(live)'
    BY <1>3 DEF TakenInOrder
  <1>8. GoesOn(live', recovered')
    <2>1. ASSUME live'.cursor > 0
          PROVE  \E f \in 1..live'.cursor :
                   live'.applied = f..live'.cursor /\ recovered'.applied = f..recovered'.cursor
                     /\ live'.cursor <= recovered'.cursor
      <3>1. live'.cursor \in Nat
        BY <1>3, LiveFields
      <3>2. PICK f \in 1..live'.cursor : live'.applied = f..live'.cursor
        BY <1>7, <2>1 DEF TakenInOrder
      <3>3. QED
        BY <1>2, <3>1, <3>2
    <2>2. QED
      BY <2>1 DEF GoesOn
  <1>9. TakenInOrder(recovered)'
    BY <1>2, <1>7 DEF TakenInOrder
  <1>10. RecoveryGoesOn'
    BY <1>2, <1>8, <1>9 DEF RecoveryGoesOn
  <1>11. Follows
    BY <1>6 DEF Follows
  <1>12. QED
    BY <1>4, <1>5, <1>7, <1>10, <1>11

LEMMA RetryKeepsOrder ==
  ASSUME CornerInv, RetryTimer
  PROVE  CornerInv' /\ Follows
  <1>1. /\ BusTypeOK /\ ReaderTypes /\ ComposerTypes /\ BufferIsTheTail /\ WireIsOfTheJournal
        /\ live \in LiveState /\ TakenInOrder(live)
    BY TypesAre DEF CornerInv, FollowInv, ReaderTypes
  <1>2. /\ StartRecovery(live) /\ source' = "none"
        /\ UNCHANGED <<running, journal, buffer, subscriber, wire, active, stops, breaks>>
        /\ UNCHANGED <<busy, submitted, submission, poll, reconciling, reconciled>>
    BY DEF RetryTimer, StartRecovery, CloseSource, hubVars, busVars, composerVars
  <1>3. BusTypeOK' /\ BufferIsTheTail' /\ WireIsOfTheJournal' /\ WireIsInOrder'
    BY <1>1, <1>2, WireIsLeft DEF busVars
  <1>4. ComposerTypes'
    BY <1>1, <1>2 DEF ComposerTypes
  <1>5. GoesOn(live, live)
    BY <1>1, GoingNowhereGoesOn
  <1>6. ReaderTypes' /\ SourceRemembers' /\ TakenInOrder(live)' /\ RecoveryGoesOn' /\ Follows
    BY <1>1, <1>2, <1>5, RecoveryStarts
  <1>7. QED
    BY <1>3, <1>4, <1>6, TypesAre DEF CornerInv, FollowInv

-----------------------------------------------------------------------------
(* What the source receives *)

LEMMA ReconcileTypes ==
  ASSUME ComposerTypes, NEW next \in LiveState, Reconcile(next)
  PROVE  reconciling' \in [Wake -> {"no", "running", "done"}] /\ reconciled' \in Nat
  <1>1. next.terminal \in Nat
    BY LiveFields
  <1>2. QED
    BY <1>1 DEF Reconcile, ComposerTypes

\* What a frame makes of the reader
LEMMA FrameMakes ==
  ASSUME CornerInv, wire # <<>>, NEW next,
         next = CASE wire[1].kind = "open" -> [live EXCEPT !.connection = "open"]
                  [] wire[1].kind = "event" -> Reduce(live, wire[1].sequence)
                  [] wire[1].kind = "resync" -> [live EXCEPT !.resync = TRUE]
  PROVE  /\ next \in LiveState /\ TakenInOrder(next) /\ GoesOn(live, next)
         /\ wire[1].kind \in {"open", "event", "resync"} /\ wire[1].sequence \in Nat
         /\ wire[1].kind = "resync" => next.resync
         /\ wire[1].kind # "event" => next.cursor = live.cursor
         /\ wire[1].kind = "event" /\ ~next.resync =>
              /\ live.cursor <= next.cursor /\ wire[1].sequence <= next.cursor
  <1>1. BusTypeOK /\ live \in LiveState /\ TakenInOrder(live) /\ WireIsOfTheJournal
    BY TypesAre DEF CornerInv, FollowInv, ReaderTypes
  <1>2. journal \in Seq(Event) /\ Len(journal) \in Nat /\ live.cursor \in Nat
    BY <1>1, JournalIs, LiveFields
  <1>3. 1 \in 1..Len(wire)
    <2>1. Len(wire) # 0
      BY <1>1, JournalIs, EmptySeq
    <2>2. QED
      BY <1>1, <2>1, JournalIs
  <1>4. wire[1].kind \in {"open", "event", "resync"} /\ wire[1].sequence \in Nat
    BY <1>1, <1>3, FrameIs
  <1>5. CASE wire[1].kind = "open"
    <2>1. next = [live EXCEPT !.connection = "open"]
      BY <1>5
    <2>2. next \in LiveState /\ next.cursor = live.cursor /\ next.applied = live.applied
      BY <1>1, <2>1 DEF LiveState
    <2>3. QED
      BY <1>1, <1>4, <1>5, <2>2, GoingNowhereGoesOn
  <1>6. CASE wire[1].kind = "resync"
    <2>1. next = [live EXCEPT !.resync = TRUE]
      BY <1>6
    <2>2. next \in LiveState /\ next.cursor = live.cursor /\ next.applied = live.applied /\ next.resync
      BY <1>1, <2>1 DEF LiveState
    <2>3. QED
      BY <1>1, <1>4, <1>6, <2>2, GoingNowhereGoesOn
  <1>7. CASE wire[1].kind = "event"
    <2>1. PICK n \in 1..Len(journal) : n = wire[1].sequence
      BY <1>1, <1>3, <1>7 DEF WireIsOfTheJournal
    <2>2. next = Reduce(live, n)
      BY <1>7, <2>1
    <2>3. /\ next \in LiveState
          /\ IF n <= live.cursor THEN next = live
             ELSE IF live.cursor > 0 /\ n # live.cursor + 1 THEN next.resync
             ELSE next.cursor = n
      <3>1. /\ Reduce(live, n) \in LiveState
            /\ IF n <= live.cursor THEN Reduce(live, n) = live
               ELSE IF live.cursor > 0 /\ n # live.cursor + 1 THEN Reduce(live, n).resync
               ELSE Reduce(live, n).cursor = n
        BY <1>1, <1>2, ReduceIs
      <3>2. QED
        BY <2>2, <3>1
    <2>4. TakenInOrder(next) /\ GoesOn(live, next)
      BY <1>1, <1>2, <2>2, ReduceKeepsTheOrder
    <2>5. ~next.resync => live.cursor <= next.cursor /\ n <= next.cursor
      <3>1. PICK c \in Nat, d \in Nat : c = live.cursor /\ d = next.cursor
        BY <1>2, <2>3, LiveFields
      <3>2. CASE n <= c
        <4>1. next = live
          BY <2>3, <3>1, <3>2
        <4>2. c = d
          BY <3>1, <4>1
        <4>3. c <= d
          BY <4>2
        <4>4. n <= d
          BY <3>2, <4>2
        <4>5. QED
          BY <3>1, <4>3, <4>4
      <3>3. CASE ~(n <= c) /\ c > 0 /\ n # c + 1
        BY <2>3, <3>1, <3>3
      <3>4. CASE ~(n <= c) /\ ~(c > 0 /\ n # c + 1)
        <4>1. d = n
          BY <2>3, <3>1, <3>4
        <4>2. n \in Nat
          BY <1>2
        <4>3. c <= n
          BY <3>4, <4>2
        <4>4. c <= d /\ n <= d
          BY <4>1, <4>2, <4>3
        <4>5. QED
          BY <3>1, <4>4
      <3>5. QED
        BY <3>2, <3>3, <3>4
    <2>6. QED
      BY <1>4, <1>7, <2>1, <2>3, <2>4, <2>5
  <1>8. QED
    BY <1>4, <1>5, <1>6, <1>7

\* The frame is read and the reader goes on.
LEMMA ReadingKeepsOrder ==
  ASSUME CornerInv, source = "open", wire # <<>>, NEW next, ~next.resync,
         next = CASE wire[1].kind = "open" -> [live EXCEPT !.connection = "open"]
                  [] wire[1].kind = "event" -> Reduce(live, wire[1].sequence)
                  [] wire[1].kind = "resync" -> [live EXCEPT !.resync = TRUE],
         live' = next, wire' = Tail(wire),
         lastEventId' = IF wire[1].kind = "event" THEN wire[1].sequence ELSE lastEventId,
         UNCHANGED <<running, journal, buffer, subscriber, source, sourceAfter, recoveryVars>>,
         ComposerTypes'
  PROVE  CornerInv' /\ Follows
  <1> DEFINE L == Len(journal)
             k == Len(wire)
  <1>1. /\ BusTypeOK /\ ReaderTypes /\ BufferIsTheTail /\ WireIsOfTheJournal /\ WireIsInOrder
        /\ SourceRemembers /\ live \in LiveState
    BY TypesAre DEF CornerInv, FollowInv, ReaderTypes
  <1>2. /\ next \in LiveState /\ TakenInOrder(next) /\ GoesOn(live, next)
        /\ wire[1].kind \in {"open", "event"} /\ wire[1].sequence \in Nat
        /\ wire[1].kind # "event" => next.cursor = live.cursor
        /\ wire[1].kind = "event" => live.cursor <= next.cursor /\ wire[1].sequence <= next.cursor
    BY FrameMakes
  <1>3. /\ UNCHANGED <<recovery, recovered, page, pages>>
    BY DEF recoveryVars
  <1>4. /\ L \in Nat /\ k \in Nat \ {0} /\ live.cursor \in Nat /\ next.cursor \in Nat
        /\ wire \in Seq(Frame)
    BY <1>1, <1>2, JournalIs, LiveFields, EmptySeq
  <1> HIDE DEF L, k
  <1>5. /\ wire' \in Seq(Frame) /\ Len(wire') = k - 1
        /\ \A i \in 1..k - 1 : wire'[i] = wire[i + 1]
    <2>1. /\ Tail(wire) \in Seq(Frame) /\ Len(Tail(wire)) = Len(wire) - 1
          /\ \A i \in 1..Len(Tail(wire)) : Tail(wire)[i] = wire[i + 1]
      BY <1>4, HeadTailProperties
    <2>2. QED
      BY <1>4, <2>1 DEF k
  <1>6. live.cursor <= next.cursor
    BY <1>2, <1>4
  <1>7. BusTypeOK' /\ BufferIsTheTail'
    <2>1. BusTypeOK'
      BY <1>1, <1>5 DEF BusTypeOK
    <2>2. QED
      BY <1>1, <2>1 DEF BufferIsTheTail
  <1>8. ReaderTypes'
    <2>1. lastEventId' \in Nat \cup {NoCursor}
      BY <1>1, <1>2 DEF ReaderTypes
    <2>2. QED
      BY <1>1, <1>2, <1>3, <2>1 DEF ReaderTypes
  <1>9. SourceRemembers'
    <2>1. recovery = "off"
      BY <1>1 DEF SourceRemembers
    <2>2. sourceAfter # NoCursor => sourceAfter <= next.cursor
      <3>1. ASSUME sourceAfter # NoCursor
            PROVE  sourceAfter <= next.cursor
        <4>1. PICK a \in Nat : a = sourceAfter
          BY <1>1, <3>1 DEF ReaderTypes
        <4>2. a <= live.cursor
          BY <1>1, <3>1, <4>1 DEF SourceRemembers
        <4>3. PICK c \in Nat, d \in Nat : c = live.cursor /\ d = next.cursor
          BY <1>4
        <4>4. a <= c /\ c <= d
          BY <1>6, <4>2, <4>3
        <4>5. a <= d
          BY <4>4
        <4>6. QED
          BY <4>1, <4>3, <4>5
      <3>2. QED
        BY <3>1
    <2>3. lastEventId' # NoCursor => lastEventId' <= next.cursor
      <3>1. lastEventId # NoCursor => lastEventId <= live.cursor
        BY <1>1 DEF SourceRemembers
      <3>2. QED
        BY <1>2, <3>1
    <2>4. next.cursor > 0 => sourceAfter # NoCursor \/ lastEventId' # NoCursor
      <3>1. CASE wire[1].kind = "event"
        <4>1. lastEventId' \in Nat
          BY <1>2, <3>1
        <4>2. QED
          BY <4>1, HubEventBusAssumption
      <3>2. CASE wire[1].kind # "event"
        <4>1. lastEventId' = lastEventId /\ next.cursor = live.cursor
          BY <1>2, <3>2
        <4>2. QED
          BY <1>1, <4>1 DEF SourceRemembers
      <3>3. QED
        BY <3>1, <3>2
    <2>5. QED
      BY <1>3, <2>1, <2>2, <2>3, <2>4 DEF SourceRemembers
  <1>10. TakenInOrder(live)' /\ Follows
    BY <1>2 DEF TakenInOrder, Follows
  <1>11. RecoveryGoesOn'
    <2>1. recovery' = "off"
      BY <1>1, <1>3 DEF SourceRemembers
    <2>2. QED
      BY <2>1 DEF RecoveryGoesOn
  <1>12. WireIsOfTheJournal'
    <2>1. ASSUME NEW i \in 1..k - 1, wire'[i].kind = "event"
          PROVE  wire'[i].sequence \in 1..Len(journal)
      <3>1. i + 1 \in 1..k /\ wire'[i] = wire[i + 1]
        BY <1>4, <1>5
      <3>2. QED
        BY <1>1, <2>1, <3>1 DEF WireIsOfTheJournal, k
    <2>2. QED
      BY <1>5, <2>1 DEF WireIsOfTheJournal
  <1>13. ASSUME subscriber # NoCursor, Unbroken'
         PROVE  /\ \A i \in 1..Len(wire') :
                     /\ wire'[i].kind = "open" => i = 1
                     /\ wire'[i].kind = "event" => wire'[i].sequence = L - (Len(wire') - i)
                /\ next.cursor > 0 => L - next.cursor <= EventsOnWire'
    <2>1. Unbroken
      <3>1. ASSUME NEW i \in 1..k
            PROVE  wire[i].kind # "resync"
        <4>1. CASE i = 1
          BY <1>2, <4>1
        <4>2. CASE i # 1
          <5>1. i - 1 \in 1..k - 1 /\ i - 1 + 1 = i /\ i - 1 \in 1..Len(wire')
            BY <1>4, <1>5, <4>2
          <5>2. wire'[i - 1] = wire[i]
            BY <1>5, <5>1
          <5>3. wire'[i - 1].kind # "resync"
            BY <1>13, <5>1 DEF Unbroken
          <5>4. QED
            BY <5>2, <5>3
        <4>3. QED
          BY <4>1, <4>2
      <3>2. QED
        BY <3>1 DEF Unbroken, k
    <2>2. /\ \A i \in 1..k : /\ wire[i].kind = "open" => i = 1
                             /\ wire[i].kind = "event" => wire[i].sequence = L - (k - i)
          /\ live.cursor > 0 => L - live.cursor <= EventsOnWire
      BY <1>1, <1>13, <2>1 DEF WireIsInOrder, k, L
    <2>3. ASSUME NEW i \in 1..Len(wire')
          PROVE  /\ wire'[i].kind # "open"
                 /\ wire'[i].kind = "event" => wire'[i].sequence = L - (Len(wire') - i)
      <3>1. i + 1 \in 1..k /\ wire'[i] = wire[i + 1] /\ i + 1 # 1
        BY <1>4, <1>5
      <3>2. L - (k - (i + 1)) = L - (Len(wire') - i)
        BY <1>4, <1>5
      <3>3. wire[i + 1].kind # "open"
        BY <2>2, <3>1
      <3>4. wire[i + 1].kind = "event" => wire[i + 1].sequence = L - (k - (i + 1))
        BY <2>2, <3>1
      <3>5. QED
        BY <3>1, <3>2, <3>3, <3>4
    <2>4. EventsOnWire' = k - 1
      <3>1. wire' # <<>> => wire'[1].kind # "open"
        <4>1. wire' # <<>> => Len(wire') # 0
          BY <1>5, EmptySeq
        <4>2. Len(wire') \in Nat
          BY <1>4, <1>5
        <4>3. wire' # <<>> => 1 \in 1..Len(wire')
          BY <4>1, <4>2
        <4>4. QED
          BY <2>3, <4>3
      <3>2. QED
        BY <1>5, <3>1 DEF EventsOnWire
    <2>5. next.cursor > 0 => L - next.cursor <= k - 1
      <3>1. CASE wire[1].kind = "open"
        <4>1. EventsOnWire = k - 1
          BY <3>1 DEF EventsOnWire, k
        <4>2. next.cursor = live.cursor
          BY <1>2, <3>1
        <4>3. QED
          BY <2>2, <4>1, <4>2
      <3>2. CASE wire[1].kind = "event"
        <4>1. 1 \in 1..k
          BY <1>4
        <4>2. wire[1].sequence = L - (k - 1)
          BY <2>2, <3>2, <4>1
        <4>3. L - (k - 1) <= next.cursor
          BY <1>2, <3>2, <4>2
        <4>4. PICK c \in Nat : c = next.cursor
          BY <1>4
        <4>5. L \in Nat /\ k \in Nat
          BY <1>4
        <4>6. L - (k - 1) <= c
          BY <4>3, <4>4
        <4>7. L - c <= k - 1
          BY <4>5, <4>6
        <4>8. QED
          BY <4>4, <4>7
      <3>3. QED
        BY <1>2, <3>1, <3>2
    <2>6. ASSUME NEW i \in 1..Len(wire')
          PROVE  /\ wire'[i].kind = "open" => i = 1
                 /\ wire'[i].kind = "event" => wire'[i].sequence = L - (Len(wire') - i)
      BY <2>3
    <2>7. QED
      BY <2>4, <2>5, <2>6
  <1>14. WireIsInOrder'
    BY <1>13 DEF WireIsInOrder, L
  <1>15. QED
    BY <1>7, <1>8, <1>9, <1>10, <1>11, <1>12, <1>14, TypesAre DEF CornerInv, FollowInv

LEMMA ReceivingKeepsOrder ==
  ASSUME CornerInv, SourceReceives
  PROVE  CornerInv' /\ Follows
  <1>1. /\ BusTypeOK /\ ReaderTypes /\ ComposerTypes /\ BufferIsTheTail /\ wire \in Seq(Frame)
    BY TypesAre, JournalIs DEF CornerInv, FollowInv
  <1>2. source = "open" /\ wire # <<>>
    BY DEF SourceReceives
  <1>3. Head(wire) = wire[1]
    BY <1>1, <1>2, HeadTailProperties
  <1>4. PICK next :
          next = CASE wire[1].kind = "open" -> [live EXCEPT !.connection = "open"]
                   [] wire[1].kind = "event" -> Reduce(live, wire[1].sequence)
                   [] wire[1].kind = "resync" -> [live EXCEPT !.resync = TRUE]
    OBVIOUS
  <1>5. /\ IF next.resync
           THEN StartRecovery(next) /\ Unsubscribe /\ UNCHANGED <<reconciling, reconciled>>
           ELSE /\ live' = next
                /\ wire' = Tail(wire)
                /\ lastEventId' = IF wire[1].kind = "event" THEN wire[1].sequence ELSE lastEventId
                /\ IF wire[1].kind = "event" THEN Reconcile(next) ELSE UNCHANGED <<reconciling, reconciled>>
                /\ UNCHANGED <<running, journal, buffer, subscriber, source, sourceAfter, recoveryVars>>
        /\ UNCHANGED <<active, breaks, stops, busy, submitted, submission, poll>>
    BY <1>3, <1>4 DEF SourceReceives
  <1>6. next \in LiveState /\ TakenInOrder(next) /\ GoesOn(live, next)
    BY <1>2, <1>4, FrameMakes
  <1>7. reconciling' \in [Wake -> {"no", "running", "done"}] /\ reconciled' \in Nat
    <2>1. Reconcile(next) \/ UNCHANGED <<reconciling, reconciled>>
      BY <1>5
    <2>2. QED
      BY <1>1, <1>6, <2>1, ReconcileTypes DEF ComposerTypes
  <1>8. ComposerTypes'
    BY <1>1, <1>5, <1>7 DEF ComposerTypes
  <1>9. CASE next.resync
    <2>1. StartRecovery(next) /\ Unsubscribe
      BY <1>5, <1>9
    <2>2. source' = "none"
      BY <2>1 DEF StartRecovery, CloseSource
    <2>3. BusTypeOK' /\ BufferIsTheTail' /\ WireIsOfTheJournal' /\ WireIsInOrder' /\ UNCHANGED journal
      BY <1>1, <2>1, <2>2, WireIsCut
    <2>4. ReaderTypes' /\ SourceRemembers' /\ TakenInOrder(live)' /\ RecoveryGoesOn' /\ Follows
      BY <1>6, <2>1, <2>3, RecoveryStarts
    <2>5. QED
      BY <1>8, <2>3, <2>4, TypesAre DEF CornerInv, FollowInv
  <1>10. CASE ~next.resync
    <2>1. /\ live' = next /\ wire' = Tail(wire)
          /\ lastEventId' = IF wire[1].kind = "event" THEN wire[1].sequence ELSE lastEventId
          /\ UNCHANGED <<running, journal, buffer, subscriber, source, sourceAfter, recoveryVars>>
      BY <1>5, <1>10
    <2>2. QED
      BY <1>2, <1>4, <1>8, <1>10, <2>1, ReadingKeepsOrder
  <1>11. QED
    BY <1>9, <1>10

-----------------------------------------------------------------------------
(* The recovery's steps *)

\* Between two answers neither the Hub, the source nor the reader's place moves.
LEMMA RecoveryPages ==
  ASSUME CornerInv, UNCHANGED <<hubVars, breaks, sourceVars, live, composerVars>>,
         recovery # "off", ReaderTypes', RecoveryGoesOn', recovery' # "off"
  PROVE  CornerInv' /\ Follows
  <1>1. /\ BusTypeOK /\ ReaderTypes /\ ComposerTypes /\ BufferIsTheTail /\ WireIsOfTheJournal
        /\ SourceRemembers /\ live \in LiveState /\ TakenInOrder(live)
    BY TypesAre DEF CornerInv, FollowInv, ReaderTypes
  <1>2. /\ UNCHANGED <<running, journal, buffer, subscriber, wire, active, stops, breaks>>
        /\ UNCHANGED <<source, sourceAfter, lastEventId, live>>
        /\ UNCHANGED <<busy, submitted, submission, poll, reconciling, reconciled>>
    BY DEF hubVars, busVars, sourceVars, composerVars
  <1>3. source' = "none"
    BY <1>1, <1>2 DEF SourceRemembers
  <1>4. BusTypeOK' /\ BufferIsTheTail' /\ WireIsOfTheJournal' /\ WireIsInOrder'
    BY <1>1, <1>2, <1>3, WireIsLeft DEF busVars
  <1>5. ComposerTypes'
    BY <1>1, <1>2 DEF ComposerTypes
  <1>6. SourceRemembers'
    BY <1>1, <1>2, <1>3 DEF SourceRemembers
  <1>7. TakenInOrder(live)'
    BY <1>1, <1>2 DEF TakenInOrder
  <1>8. GoesOn(live, live')
    BY <1>1, <1>2, GoingNowhereGoesOn
  <1>9. Follows
    BY <1>2, <1>8 DEF Follows
  <1>10. QED
    BY <1>4, <1>5, <1>6, <1>7, <1>9, TypesAre DEF CornerInv, FollowInv

LEMMA AnswersKeepOrder ==
  ASSUME CornerInv, HubAnswersHistory
  PROVE  CornerInv' /\ Follows
  <1>1. /\ BusTypeOK /\ ReaderTypes /\ recovered \in LiveState /\ live \in LiveState
        /\ RecoveryGoesOn
    BY TypesAre DEF CornerInv, FollowInv, ReaderTypes
  <1>2. /\ recovery = "asked" /\ page' = HistoryPage(recovered.cursor, PageLimit) /\ recovery' = "answered"
        /\ UNCHANGED <<hubVars, breaks, sourceVars, live, recovered, pages, composerVars>>
    BY DEF HubAnswersHistory
  <1>3. UNCHANGED <<journal, source, sourceAfter, lastEventId>>
    BY <1>2 DEF hubVars, busVars, sourceVars
  <1>4. TakenInOrder(recovered) /\ GoesOn(live, recovered)
    BY <1>1, <1>2 DEF RecoveryGoesOn
  <1>5. PICK c \in Nat, L \in Nat, p \in Nat \ {0} :
          c = recovered.cursor /\ L = Len(journal) /\ p = PageLimit /\ c <= L
    BY <1>1, <1>4, JournalIs, LiveFields, CornerAssumption DEF TakenInOrder
  <1>6. page'.upto = Min({c + p, L}) /\ page'.latest = L /\ page' = [upto |-> Min({c + p, L}), latest |-> L]
    BY <1>2, <1>5 DEF HistoryPage
  <1>7. Min({c + p, L}) \in c..L
    <2>1. Min({c + p, L}) = IF c + p <= L THEN c + p ELSE L
      BY MinOfTwo
    <2>2. QED
      BY <1>5, <2>1
  <1>8. page' \in [upto : Nat, latest : Nat]
    BY <1>6, <1>7
  <1>9. ReaderTypes'
    BY <1>1, <1>2, <1>3, <1>8 DEF ReaderTypes
  <1>10. RecoveryGoesOn'
    <2>1. TakenInOrder(recovered)'
      BY <1>2, <1>3, <1>4 DEF TakenInOrder
    <2>2. GoesOn(live', recovered')
      BY <1>2, <1>4
    <2>3. page'.upto \in recovered'.cursor..Len(journal')
      BY <1>2, <1>3, <1>5, <1>6, <1>7
    <2>4. QED
      BY <2>1, <2>2, <2>3 DEF RecoveryGoesOn
  <1>11. QED
    BY <1>2, <1>9, <1>10, RecoveryPages

LEMMA AskingOnKeepsOrder ==
  ASSUME CornerInv, RecoveryAsksOn
  PROVE  CornerInv' /\ Follows
  <1>1. /\ BusTypeOK /\ ReaderTypes /\ recovered \in LiveState /\ live \in LiveState
        /\ RecoveryGoesOn /\ pages \in 0..MaxPages
    BY TypesAre DEF CornerInv, FollowInv, ReaderTypes
  <1>2. /\ recovery = "answered" /\ pages < MaxPages
        /\ recovery' = "asked" /\ recovered' = WithPage /\ pages' = pages + 1
        /\ UNCHANGED <<hubVars, breaks, sourceVars, live, page, composerVars>>
    BY DEF RecoveryAsksOn
  <1>3. UNCHANGED <<journal, source, sourceAfter, lastEventId>>
    BY <1>2 DEF hubVars, busVars, sourceVars
  <1>4. TakenInOrder(recovered) /\ GoesOn(live, recovered) /\ page.upto \in recovered.cursor..Len(journal)
    BY <1>1, <1>2 DEF RecoveryGoesOn
  <1>5. WithPage \in LiveState /\ TakenInOrder(WithPage) /\ GoesOn(recovered, WithPage)
    BY <1>1, <1>4, JournalIs, WithPageIs
  <1> DEFINE w == recovered'
  <1>6. pages' \in 0..MaxPages
    BY <1>1, <1>2, CornerAssumption
  <1>7. ReaderTypes'
    BY <1>1, <1>2, <1>3, <1>5, <1>6 DEF ReaderTypes
  <1>8. RecoveryGoesOn'
    <2>1. PICK next \in LiveState : next = WithPage
      BY <1>5
    <2>2. TakenInOrder(next) /\ GoesOn(recovered, next)
      BY <1>5, <2>1
    <2>3. GoesOn(live, next)
      BY <1>1, <1>4, <2>2, GoingOnIsTransitive
    <2>4. recovered' = next
      BY <1>2, <2>1
    <2>5. TakenInOrder(recovered)'
      BY <1>3, <2>2, <2>4 DEF TakenInOrder
    <2>6. GoesOn(live', recovered')
      BY <1>2, <2>3, <2>4
    <2>7. QED
      BY <1>2, <2>5, <2>6 DEF RecoveryGoesOn
  <1>9. QED
    BY <1>2, <1>7, <1>8, RecoveryPages

\* A recovery that fails forgets what it had and leaves the reader where it was.
LEMMA FailedRecoveryKeepsOrder ==
  ASSUME CornerInv, HistoryFails \/ RecoveryGivesUp
  PROVE  CornerInv' /\ Follows
  <1>1. /\ BusTypeOK /\ ReaderTypes /\ ComposerTypes /\ BufferIsTheTail /\ WireIsOfTheJournal
        /\ SourceRemembers /\ live \in LiveState /\ TakenInOrder(live) /\ poll \in Request
    BY TypesAre DEF CornerInv, FollowInv, ReaderTypes, ComposerTypes
  <1>2. /\ recovery # "off" /\ FailRecovery
    BY DEF HistoryFails, RecoveryGivesUp
  <1>3. breaks' \in 0..MaxBreaks
    BY <1>1, CornerAssumption DEF HistoryFails, RecoveryGivesUp, ComposerTypes
  <1>4. /\ recovery' = "retrying"
        /\ recovered' = createLiveState /\ page' = [upto |-> 0, latest |-> 0] /\ pages' = 0
        /\ live' = [live EXCEPT !.connection = "disconnected"] /\ PollIfLocked(busy, live')
        /\ UNCHANGED <<hubVars, sourceVars, busy, submitted, submission, reconciling, reconciled>>
    BY <1>2 DEF FailRecovery
  <1>5. /\ UNCHANGED <<running, journal, buffer, subscriber, wire, active, stops>>
        /\ UNCHANGED <<source, sourceAfter, lastEventId>>
    BY <1>4 DEF hubVars, busVars, sourceVars
  <1>6. live' \in LiveState /\ live'.cursor = live.cursor /\ live'.applied = live.applied
    BY <1>1, <1>4, Disconnects
  <1>7. poll' \in Request
    BY <1>1, <1>4, PollsAre
  <1>8. createLiveState \in LiveState /\ [upto |-> 0, latest |-> 0] \in [upto : Nat, latest : Nat]
        /\ 0 \in 0..MaxPages
    BY CornerAssumption DEF createLiveState, LiveState
  <1>9. ReaderTypes'
    BY <1>1, <1>4, <1>5, <1>6, <1>8 DEF ReaderTypes
  <1>10. ComposerTypes'
    BY <1>1, <1>3, <1>4, <1>5, <1>7 DEF ComposerTypes
  <1>11. source' = "none"
    BY <1>1, <1>2, <1>5 DEF SourceRemembers
  <1>12. BusTypeOK' /\ BufferIsTheTail' /\ WireIsOfTheJournal' /\ WireIsInOrder'
    BY <1>1, <1>5, <1>11, WireIsLeft DEF busVars
  <1>13. SourceRemembers'
    <2>1. sourceAfter' = NoCursor /\ lastEventId' = NoCursor
      BY <1>1, <1>5, <1>11 DEF SourceRemembers
    <2>2. QED
      BY <1>4, <1>11, <2>1 DEF SourceRemembers
  <1>14. TakenInOrder(live)'
    BY <1>1, <1>5, <1>6 DEF TakenInOrder
  <1>15. RecoveryGoesOn'
    BY <1>4 DEF RecoveryGoesOn
  <1>16. Follows
    <2>1. GoesOn(live, live')
      BY <1>1, <1>6, GoingNowhereGoesOn
    <2>2. QED
      BY <1>5, <2>1 DEF Follows
  <1>17. QED
    BY <1>9, <1>10, <1>12, <1>13, <1>14, <1>15, <1>16, TypesAre DEF CornerInv, FollowInv

\* The source reopens at the place the reader has.
LEMMA ReopeningRemembers ==
  ASSUME NEW cursor \in Nat, OpenSource(cursor), live'.cursor = cursor, recovery' = "off"
  PROVE  SourceRemembers' /\ source' = "waiting" /\ sourceAfter' = cursor /\ lastEventId' = NoCursor
  <1>1. source' = "waiting" /\ sourceAfter' = cursor /\ lastEventId' = NoCursor
    BY DEF OpenSource
  <1>2. sourceAfter' # NoCursor /\ sourceAfter' <= live'.cursor
    BY <1>1, HubEventBusAssumption
  <1>3. QED
    BY <1>1, <1>2 DEF SourceRemembers

LEMMA EndingKeepsOrder ==
  ASSUME CornerInv, RecoveryEnds
  PROVE  CornerInv' /\ Follows
  <1>1. /\ BusTypeOK /\ ReaderTypes /\ ComposerTypes /\ BufferIsTheTail /\ WireIsOfTheJournal
        /\ SourceRemembers /\ live \in LiveState /\ recovered \in LiveState /\ RecoveryGoesOn
    BY TypesAre DEF CornerInv, FollowInv, ReaderTypes
  <1>2. /\ recovery = "answered"
        /\ live' = [WithPage EXCEPT !.resync = FALSE] /\ recovered' = live' /\ Reconcile(live')
        /\ \/ recovery' = "reconciling" /\ UNCHANGED sourceVars
           \/ recovery' = "off" /\ OpenSource(live'.cursor)
        /\ UNCHANGED <<hubVars, breaks, page, pages, busy, submitted, submission, poll>>
    BY DEF RecoveryEnds, LastPage
  <1>3. UNCHANGED <<running, journal, buffer, subscriber, wire, active, stops>>
    BY <1>2 DEF hubVars, busVars
  <1>4. TakenInOrder(recovered) /\ GoesOn(live, recovered) /\ page.upto \in recovered.cursor..Len(journal)
    BY <1>1, <1>2 DEF RecoveryGoesOn
  <1>5. PICK next \in LiveState : next = WithPage
    BY <1>1, <1>4, JournalIs, WithPageIs
  <1>6. TakenInOrder(next) /\ GoesOn(recovered, next)
    BY <1>1, <1>4, <1>5, JournalIs, WithPageIs
  <1>7. GoesOn(live, next)
    BY <1>1, <1>4, <1>6, GoingOnIsTransitive
  <1>8. live' \in LiveState /\ live'.cursor = next.cursor /\ live'.applied = next.applied
    <2>1. live' = [next EXCEPT !.resync = FALSE]
      BY <1>2, <1>5
    <2>2. QED
      BY <2>1 DEF LiveState
  <1>9. TakenInOrder(live)'
    BY <1>3, <1>6, <1>8 DEF TakenInOrder
  <1>10. Follows
    <2>1. GoesOn(live, live')
      BY <1>7, <1>8 DEF GoesOn
    <2>2. QED
      BY <1>3, <2>1 DEF Follows
  <1>11. reconciling' \in [Wake -> {"no", "running", "done"}] /\ reconciled' \in Nat
    BY <1>1, <1>2, <1>8, ReconcileTypes
  <1>12. ComposerTypes'
    BY <1>1, <1>2, <1>3, <1>11 DEF ComposerTypes
  <1>13. live'.cursor \in Nat
    BY <1>8, LiveFields
  <1>14. /\ SourceRemembers' /\ source' \in {"none", "waiting"}
         /\ sourceAfter' \in Nat \cup {NoCursor} /\ lastEventId' \in Nat \cup {NoCursor}
    <2>1. CASE recovery' = "reconciling" /\ UNCHANGED sourceVars
      <3>1. /\ source' = "none" /\ sourceAfter' = NoCursor /\ lastEventId' = NoCursor
        BY <1>1, <1>2, <2>1 DEF SourceRemembers, sourceVars
      <3>2. QED
        BY <2>1, <3>1 DEF SourceRemembers
    <2>2. CASE recovery' = "off" /\ OpenSource(live'.cursor)
      <3>1. PICK c \in Nat : c = live'.cursor
        BY <1>13
      <3>2. OpenSource(c)
        BY <2>2, <3>1
      <3>3. SourceRemembers' /\ source' = "waiting" /\ sourceAfter' = c /\ lastEventId' = NoCursor
        BY <2>2, <3>1, <3>2, ReopeningRemembers
      <3>4. QED
        BY <3>3
    <2>3. QED
      BY <1>2, <2>1, <2>2
  <1>15. ReaderTypes'
    BY <1>1, <1>2, <1>8, <1>14 DEF ReaderTypes
  <1>16. BusTypeOK' /\ BufferIsTheTail' /\ WireIsOfTheJournal' /\ WireIsInOrder'
    BY <1>1, <1>3, <1>14, WireIsLeft DEF busVars
  <1>17. RecoveryGoesOn'
    BY <1>2 DEF RecoveryGoesOn
  <1>18. QED
    BY <1>9, <1>10, <1>12, <1>14, <1>15, <1>16, <1>17, TypesAre DEF CornerInv, FollowInv

LEMMA ReopeningKeepsOrder ==
  ASSUME CornerInv, RecoveryReopens
  PROVE  CornerInv' /\ Follows
  <1>1. /\ BusTypeOK /\ ReaderTypes /\ ComposerTypes /\ BufferIsTheTail /\ WireIsOfTheJournal
        /\ live \in LiveState /\ TakenInOrder(live) /\ live.cursor \in Nat
    BY TypesAre, LiveFields DEF CornerInv, FollowInv, ReaderTypes
  <1>2. /\ recovery' = "off" /\ OpenSource(live.cursor)
        /\ UNCHANGED <<hubVars, breaks, live, recovered, page, pages, composerVars>>
    BY DEF RecoveryReopens
  <1>3. /\ UNCHANGED <<running, journal, buffer, subscriber, wire, active, stops, breaks>>
        /\ UNCHANGED <<busy, submitted, submission, poll, reconciling, reconciled>>
    BY <1>2 DEF hubVars, busVars, composerVars
  <1>4. /\ SourceRemembers' /\ source' = "waiting" /\ sourceAfter' = live.cursor /\ lastEventId' = NoCursor
    <2>1. PICK c \in Nat : c = live.cursor
      BY <1>1
    <2>2. OpenSource(c) /\ live'.cursor = c
      BY <1>2, <2>1
    <2>3. QED
      BY <1>2, <2>1, <2>2, ReopeningRemembers
  <1>5. ReaderTypes' /\ ComposerTypes'
    BY <1>1, <1>2, <1>3, <1>4 DEF ReaderTypes, ComposerTypes
  <1>6. BusTypeOK' /\ BufferIsTheTail' /\ WireIsOfTheJournal' /\ WireIsInOrder'
    BY <1>1, <1>3, <1>4, WireIsLeft DEF busVars
  <1>7. TakenInOrder(live)'
    BY <1>1, <1>2, <1>3 DEF TakenInOrder
  <1>8. RecoveryGoesOn'
    BY <1>2 DEF RecoveryGoesOn
  <1>9. Follows
    <2>1. GoesOn(live, live')
      BY <1>1, <1>2, GoingNowhereGoesOn
    <2>2. QED
      BY <1>3, <2>1 DEF Follows
  <1>10. QED
    BY <1>4, <1>5, <1>6, <1>7, <1>8, <1>9, TypesAre DEF CornerInv, FollowInv

-----------------------------------------------------------------------------
(* The theorems *)

LEMMA InitKeepsOrder == Init => CornerInv
  <1> SUFFICES ASSUME Init PROVE CornerInv
    OBVIOUS
  <1>1. /\ running = TRUE /\ journal = <<>> /\ buffer = <<>> /\ wire = <<>> /\ subscriber = NoCursor
        /\ active = NoWake /\ breaks = 0 /\ stops = 0
        /\ source = "waiting" /\ sourceAfter = NoCursor /\ lastEventId = NoCursor
        /\ live = createLiveState
        /\ recovery = "off" /\ recovered = createLiveState
        /\ page = [upto |-> 0, latest |-> 0] /\ pages = 0
        /\ busy = FALSE /\ submitted = NoWake /\ submission = Nothing /\ poll = Nothing
        /\ reconciling = [w \in Wake |-> "no"] /\ reconciled = 0
    BY DEF Init, BusInit
  <1>2. /\ createLiveState \in LiveState
        /\ createLiveState.cursor = 0 /\ createLiveState.applied = {}
    BY DEF createLiveState, LiveState
  <1>3. Nothing \in Request
    BY Points DEF Nothing
  <1>4. BusTypeOK
    <2>1. <<>> \in Seq(Event) /\ <<>> \in Seq(Frame) /\ <<>> \in Seq(1..Len(journal)) /\ Len(<<>>) = 0
      OBVIOUS
    <2>2. Len(buffer) <= BufferSize
      BY <1>1, <2>1, HubEventBusAssumption
    <2>3. QED
      BY <1>1, <2>1, <2>2 DEF BusTypeOK
  <1>5. ReaderTypes
    <2>1. 0 \in 0..MaxPages /\ [upto |-> 0, latest |-> 0] \in [upto : Nat, latest : Nat]
      BY CornerAssumption
    <2>2. QED
      BY <1>1, <1>2, <2>1 DEF ReaderTypes
  <1>6. ComposerTypes
    <2>1. 0 \in 0..MaxBreaks /\ 0 \in 0..MaxStops /\ 0 \in Nat
      BY CornerAssumption
    <2>2. [w \in Wake |-> "no"] \in [Wake -> {"no", "running", "done"}]
      OBVIOUS
    <2>3. QED
      BY <1>1, <1>3, <2>1, <2>2 DEF ComposerTypes
  <1>7. Len(wire) = 0 /\ Len(journal) = 0
    BY <1>1
  <1>8. BufferIsTheTail /\ WireIsOfTheJournal /\ WireIsInOrder
    BY <1>1, <1>7 DEF BufferIsTheTail, WireIsOfTheJournal, WireIsInOrder
  <1>9. SourceRemembers
    BY <1>1, <1>2 DEF SourceRemembers
  <1>10. TakenInOrder(live)
    BY <1>1, <1>2, <1>7 DEF TakenInOrder
  <1>11. RecoveryGoesOn
    BY <1>1 DEF RecoveryGoesOn
  <1>12. QED
    BY <1>4, <1>5, <1>6, <1>8, <1>9, <1>10, <1>11, TypesAre DEF CornerInv, FollowInv

LEMMA EveryStepKeepsOrder ==
  CornerInv /\ [Next]_vars => CornerInv' /\ Follows
  <1> SUFFICES ASSUME CornerInv, [Next]_vars PROVE CornerInv' /\ Follows
    OBVIOUS
  <1>1. CASE (\E w \in Wake : WakeAccepted(w)) \/ WakeNotes \/ WakeEnds
    BY <1>1, PublicationsKeepOrder
  <1>2. CASE HubStops
    BY <1>2, HubStopsSafely
  <1>3. CASE HubStarts
    BY <1>3, HubStartsSafely
  <1>4. CASE \/ \E w \in Wake : ReconcileFinishes(w)
             \/ PollAsks \/ HubAnswersPoll \/ PollHears \/ PollReleases
             \/ Submit \/ SubmissionHeard \/ SubmissionSettles \/ SubmissionFails
    BY <1>4, ComposerKeepsOrder
  <1>5. CASE HubAnswersSubmission
    BY <1>5, SubmissionsKeepOrder
  <1>6. CASE SourceConnects
    BY <1>6, ConnectingKeepsOrder
  <1>7. CASE SourceBreaks \/ SourceEnds
    BY <1>7, FailingKeepsOrder
  <1>8. CASE SourceReceives
    BY <1>8, ReceivingKeepsOrder
  <1>9. CASE HubAnswersHistory
    BY <1>9, AnswersKeepOrder
  <1>10. CASE HistoryFails \/ RecoveryGivesUp
    BY <1>10, FailedRecoveryKeepsOrder
  <1>11. CASE RecoveryAsksOn
    BY <1>11, AskingOnKeepsOrder
  <1>12. CASE RecoveryEnds
    BY <1>12, EndingKeepsOrder
  <1>13. CASE RecoveryReopens
    BY <1>13, ReopeningKeepsOrder
  <1>14. CASE RetryTimer
    BY <1>14, RetryKeepsOrder
  <1>15. CASE UNCHANGED vars
    <2>1. /\ UNCHANGED <<busVars, sourceVars, recoveryVars, live>>
          /\ UNCHANGED <<active, breaks, stops, busy, submitted, submission, poll, reconciling, reconciled>>
      BY <1>15 DEF vars, hubVars, composerVars
    <2>2. ComposerTypes /\ live \in LiveState
      BY TypesAre DEF CornerInv, ReaderTypes
    <2>3. ComposerTypes' /\ Stays
      BY <2>1, <2>2 DEF ComposerTypes, Stays
    <2>4. QED
      BY <2>1, <2>3, ComposerSteps
  <1>16. QED
    BY <1>1, <1>2, <1>3, <1>4, <1>5, <1>6, <1>7, <1>8, <1>9, <1>10, <1>11, <1>12, <1>13, <1>14, <1>15 DEF Next

LEMMA FollowingIsInductive == Spec => []CornerInv
  <1>1. CornerInv /\ [Next]_vars => CornerInv'
    BY EveryStepKeepsOrder
  <1>2. QED
    BY InitKeepsOrder, <1>1, PTL DEF Spec

\* What the reader has not taken is what is on the wire.
LEMMA WireHasTheRest == CornerInv => NothingMissedSilently
  <1> SUFFICES ASSUME CornerInv PROVE NothingMissedSilently
    OBVIOUS
  <1>1. CornerTypeOK /\ BusTypeOK /\ live \in LiveState /\ WireIsInOrder
    BY TypesAre DEF CornerInv, FollowInv, ReaderTypes
  <1>2. PICK L \in Nat, k \in Nat, c \in Nat : L = Len(journal) /\ k = Len(wire) /\ c = live.cursor
    BY <1>1, JournalIs, LiveFields
  <1>3. DOMAIN wire = 1..k
    BY <1>1, <1>2, JournalIs, LenProperties
  <1>4. ASSUME source = "open", subscriber # NoCursor, c > 0, \A i \in 1..k : wire[i].kind # "resync",
               NEW n \in 1..L, n > c
        PROVE  \E i \in 1..k : n = wire[i].sequence
    <2>1. Unbroken
      BY <1>2, <1>4 DEF Unbroken
    <2>2. /\ \A i \in 1..k : /\ wire[i].kind = "open" => i = 1
                             /\ wire[i].kind = "event" => wire[i].sequence = L - (k - i)
          /\ L - c <= EventsOnWire
      BY <1>1, <1>2, <1>4, <2>1 DEF WireIsInOrder
    <2>3. PICK i \in Int : i = k - (L - n)
      <3>1. n \in Int /\ k - (L - n) \in Int
        BY <1>4
      <3>2. QED
        BY <3>1
    <2>4. i <= k /\ L - (k - i) = n
      BY <1>2, <1>4, <2>3
    <2>numbers. /\ L \in Nat /\ k \in Nat /\ c \in Nat /\ n \in Int /\ i \in Int
                /\ n > c /\ i = k - (L - n)
      BY <1>2, <1>4, <2>3
    <2>5. CASE wire # <<>> /\ wire[1].kind = "open"
      <3>1. L - c <= k - 1
        BY <1>2, <2>2, <2>5 DEF EventsOnWire
      <3>2. i \in 1..k /\ i # 1
        BY <2>numbers, <2>4, <3>1
      <3>3. wire[i].kind \in {"open", "event", "resync"}
        BY <1>1, <1>2, <3>2, FrameIs
      <3>4. wire[i].kind = "event"
        BY <1>4, <2>2, <3>2, <3>3
      <3>5. wire[i].sequence = n
        BY <2>2, <2>4, <3>2, <3>4
      <3>6. QED
        BY <3>2, <3>5
    <2>6. CASE ~(wire # <<>> /\ wire[1].kind = "open")
      <3>1. L - c <= k
        BY <1>2, <2>2, <2>6 DEF EventsOnWire
      <3>2. i \in 1..k
        BY <2>numbers, <2>4, <3>1
      <3>3. wire[i].kind \in {"open", "event", "resync"}
        BY <1>1, <1>2, <3>2, FrameIs
      <3>4. wire[i].kind # "open"
        <4>1. wire # <<>>
          BY <1>2, <3>2
        <4>2. wire[i].kind = "open" => wire[1].kind = "open"
          BY <2>2, <3>2
        <4>3. QED
          BY <2>6, <4>1, <4>2
      <3>5. wire[i].kind = "event"
        BY <1>4, <3>2, <3>3, <3>4
      <3>6. wire[i].sequence = n
        BY <2>2, <2>4, <3>2, <3>5
      <3>7. QED
        BY <3>2, <3>6
    <2>7. QED
      BY <2>5, <2>6
  <1>5. source = "open" /\ subscriber # NoCursor /\ live.cursor > 0
          /\ (\A i \in DOMAIN wire : wire[i].kind # "resync")
        => {n \in 1..Len(journal) : n > live.cursor} \subseteq {wire[i].sequence : i \in DOMAIN wire}
    BY <1>2, <1>3, <1>4
  <1>6. QED
    BY <1>1, <1>5 DEF NothingMissedSilently

\* A renderer that follows the stream from a place in the journal has missed
\* nothing, whatever the buffer dropped, the connection lost or the Hub's
\* restarts did: what it has not taken is on the wire to it.
THEOREM NothingIsMissedSilently == Spec => []NothingMissedSilently
  BY FollowingIsInductive, WireHasTheRest, PTL

\* A step of the renderer is a step of the reader it promises to be.
LEMMA OrderDelivers ==
  ASSUME CornerInv, CornerInv', Follows
  PROVE  Delivery!Next \/ UNCHANGED Delivery!deliveryVars
  <1>1. /\ live \in LiveState /\ live' \in LiveState /\ TakenInOrder(live) /\ TakenInOrder(live)'
        /\ BusTypeOK
    BY TypesAre DEF CornerInv, FollowInv, ReaderTypes
  <1>2. PICK c \in Nat, d \in Nat, L \in Nat : c = live.cursor /\ d = live'.cursor /\ L = Len(journal)
    BY <1>1, JournalIs, LiveFields
  <1>3. CASE Len(journal') = Len(journal) + 1 /\ live'.applied = live.applied
    BY <1>3 DEF Delivery!Next, Delivery!Append
  <1>4. CASE Len(journal') = Len(journal) /\ GoesOn(live, live')
    <2>1. /\ d <= L
          /\ c = 0 => live.applied = {}
          /\ d = 0 => live'.applied = {}
          /\ d > 0 => \E f \in 1..d : live'.applied = f..d
      BY <1>1, <1>2, <1>4 DEF TakenInOrder
    <2>2. CASE c = 0 /\ d = 0
      BY <1>4, <2>1, <2>2 DEF Delivery!deliveryVars
    <2>3. CASE c = 0 /\ d > 0
      <3>1. PICK f \in 1..d : live'.applied = f..d
        BY <2>1, <2>3
      <3>2. f \in 1..L /\ d \in 1..L /\ f <= d /\ live.applied = {}
        BY <1>2, <2>1, <2>3
      <3>3. Delivery!Begin
        BY <1>2, <1>4, <3>1, <3>2 DEF Delivery!Begin
      <3>4. QED
        BY <3>3 DEF Delivery!Next
    <2>4. CASE c > 0
      <3>1. PICK f \in 1..c : live.applied = f..c /\ live'.applied = f..d /\ c <= d
        BY <1>2, <1>4, <2>4 DEF GoesOn
      <3>2. CASE c = d
        BY <1>4, <3>1, <3>2 DEF Delivery!deliveryVars
      <3>3. CASE c < d
        <4>1. f \in live.applied /\ (\A n \in live.applied : f <= n) /\ (\A n \in live.applied : n < d)
          BY <3>1, <3>3
        <4>2. d \in 1..L
          BY <2>1, <3>3
        <4>3. Delivery!Advance
          BY <1>2, <1>4, <3>1, <4>1, <4>2 DEF Delivery!Advance
        <4>4. QED
          BY <4>3 DEF Delivery!Next
      <3>4. QED
        BY <3>1, <3>2, <3>3
    <2>5. QED
      BY <2>2, <2>3, <2>4
  <1>5. QED
    BY <1>3, <1>4 DEF Follows

\* Through gaps, lost connections, restarts and recoveries the renderer takes the
\* journal as a reader does that loses nothing: from where it began, every event,
\* once and in order.
THEOREM RendererDeliversInOrder == Spec => DeliversInOrder
  <1> DEFINE Step == [Delivery!Next]_Delivery!deliveryVars
  <1>1. Init => Delivery!Init
    <2>1. Init => journal = <<>> /\ live.applied = {}
      BY DEF Init, BusInit, createLiveState
    <2>2. Len(<<>>) = 0
      OBVIOUS
    <2>3. QED
      BY <2>1, <2>2 DEF Delivery!Init
  <1>2. CornerInv /\ CornerInv' /\ [Next]_vars => Step
    <2>1. SUFFICES ASSUME CornerInv, CornerInv', [Next]_vars PROVE Step
      OBVIOUS
    <2>2. Follows
      BY <2>1, EveryStepKeepsOrder
    <2>3. QED
      BY <2>1, <2>2, OrderDelivers
  <1>3. QED
    BY <1>1, <1>2, FollowingIsInductive, PTL DEF Spec, DeliversInOrder, Delivery!Spec
=============================================================================
