-------------------------- MODULE AttentionProofs --------------------------
(***************************************************************************)
(* What a crossing leaves of the Scroll, for any Scroll, any watermarks    *)
(* and any number of wakes, rounds, captures and faults.  The code carries *)
(* a set of omitted rows through three index spaces; here the same set is  *)
(* followed through the sequences that order it.  First, what the crossing *)
(* shows as a set of rows (CastIs); then what a step may do to the Scroll, *)
(* and that an exchange which may leave once may leave for ever; then the  *)
(* invariant and what follows from it.  Last, what a crossing weighs: a    *)
(* sum over messages is a sum over rows, and folding more weighs less.     *)
(***************************************************************************)
EXTENDS Attention, SequenceTheorems, FiniteSetTheorems, TLAPS

-----------------------------------------------------------------------------
(* Sets of ordinals as sequences *)

\* The place of an ordinal grows with it.
LEMMA PlaceGrows ==
  ASSUME NEW S \in SUBSET Nat, IsFiniteSet(S)
  PROVE  /\ \A i \in Nat : Place(S, i) \in 0 .. Cardinality(S)
         /\ \A i \in S : Place(S, i) \in 1 .. Cardinality(S)
         /\ \A i \in Nat, j \in S : i < j => Place(S, i) < Place(S, j)
  <1> DEFINE upTo(i) == {k \in S : k <= i}
  <1>1. Cardinality(S) \in Nat
    BY FS_CardinalityType
  <1>2. ASSUME NEW i \in Nat
        PROVE  IsFiniteSet(upTo(i)) /\ Cardinality(upTo(i)) \in Nat /\ Cardinality(upTo(i)) <= Cardinality(S)
    <2>1. upTo(i) \in SUBSET S
      OBVIOUS
    <2> HIDE DEF upTo
    <2>2. QED
      BY <2>1, FS_Subset, FS_CardinalityType
  <1>3. ASSUME NEW i \in S
        PROVE  Cardinality(upTo(i)) # 0
    <2>1. i \in upTo(i) /\ i \in Nat
      OBVIOUS
    <2>2. IsFiniteSet(upTo(i))
      BY <1>2, <2>1
    <2> HIDE DEF upTo
    <2>3. QED
      BY <2>1, <2>2, FS_EmptySet
  <1>4. ASSUME NEW i \in Nat, NEW j \in S, i < j
        PROVE  Cardinality(upTo(i)) < Cardinality(upTo(j))
    <2>1. upTo(i) \in SUBSET upTo(j) /\ j \in upTo(j) /\ j \notin upTo(i) /\ j \in Nat
      <3>1. j \in Nat /\ \A k \in Nat : k <= i => k <= j
        BY <1>4
      <3>2. j <= j /\ ~(j <= i)
        BY <1>4, <3>1
      <3>3. QED
        BY <3>1, <3>2
    <2>2. IsFiniteSet(upTo(j)) /\ Cardinality(upTo(j)) \in Nat /\ Cardinality(upTo(i)) \in Nat
      BY <1>2, <2>1
    <2> HIDE DEF upTo
    <2>3. Cardinality(upTo(i)) <= Cardinality(upTo(j)) /\ Cardinality(upTo(i)) # Cardinality(upTo(j))
      BY <2>1, <2>2, FS_Subset
    <2>4. QED
      BY <2>2, <2>3
  <1>5. \A i : Place(S, i) = Cardinality(upTo(i))
    BY DEF Place
  <1> HIDE DEF upTo
  <1>6. QED
    BY <1>1, <1>2, <1>3, <1>4, <1>5

\* InOrder lists every ordinal of the set, at its place, and so in increasing order.
LEMMA InOrderIs ==
  ASSUME NEW S \in SUBSET Nat, IsFiniteSet(S)
  PROVE  LET s == InOrder(S) IN
         /\ s \in Seq(S) /\ Len(s) = Cardinality(S) /\ DOMAIN s = 1 .. Cardinality(S)
         /\ \A n \in DOMAIN s : s[n] \in S /\ Place(S, s[n]) = n
         /\ \A i \in S : Place(S, i) \in DOMAIN s /\ s[Place(S, i)] = i
         /\ \A m, n \in DOMAIN s : m < n => s[m] < s[n]
  <1> DEFINE s == InOrder(S)
             N == Cardinality(S)
             f == [i \in S |-> Place(S, i)]
  <1>1. N \in Nat /\ IsFiniteSet(1 .. N) /\ Cardinality(1 .. N) = N
    BY FS_CardinalityType, FS_Interval
  <1>2. \A i \in S : f[i] = Place(S, i) /\ f[i] \in 1 .. N
    BY PlaceGrows
  <1>3. \A i, j \in S : f[i] = f[j] => i = j
    <2>1. TAKE i, j \in S
    <2>2. i \in Nat /\ j \in Nat /\ f[i] \in Nat /\ f[j] \in Nat
      BY <1>1, <1>2
    <2>3. i < j => f[i] < f[j]
      BY <1>2, <2>2, PlaceGrows
    <2>4. j < i => f[j] < f[i]
      BY <1>2, <2>2, PlaceGrows
    <2> HIDE DEF f
    <2>5. QED
      BY <2>2, <2>3, <2>4
  <1>4. f \in Injection(S, 1 .. N)
    <2>1. f \in [S -> 1 .. N]
      BY <1>2
    <2> HIDE DEF f, N
    <2>2. QED
      BY <1>3, <2>1 DEF Injection, IsInjective
  <1>5. f \in Surjection(S, 1 .. N)
    <2> HIDE DEF f
    <2>1. QED
      BY <1>1, <1>4, FS_Injection
  <1>6. \A n \in 1 .. N : \E i \in S : Place(S, i) = n
    <2>1. \A n \in 1 .. N : \E i \in S : f[i] = n
      <3> HIDE DEF f, N
      <3>1. QED
        BY <1>5 DEF Surjection
    <2>2. QED
      BY <1>2, <2>1
  <1>7. DOMAIN s = 1 .. N /\ \A n \in 1 .. N : s[n] \in S /\ Place(S, s[n]) = n
    <2>1. \A n \in 1 .. N : s[n] = CHOOSE i \in S : Place(S, i) = n
      BY DEF InOrder
    <2>2. DOMAIN s = 1 .. N
      BY DEF InOrder
    <2> HIDE DEF s, N
    <2>3. QED
      BY <1>6, <2>1, <2>2
  <1>8. s \in Seq(S) /\ Len(s) = N
    <2>1. s = [n \in 1 .. N |-> s[n]]
      BY DEF InOrder
    <2> HIDE DEF s, N
    <2>2. s \in [1 .. N -> S]
      BY <1>7, <2>1
    <2>3. QED
      BY <1>1, <2>2
  <1>9. \A i \in S : Place(S, i) \in 1 .. N /\ s[Place(S, i)] = i
    <2>1. TAKE i \in S
    <2>2. Place(S, i) \in 1 .. N
      BY PlaceGrows
    <2>3. s[Place(S, i)] \in S /\ Place(S, s[Place(S, i)]) = Place(S, i)
      BY <1>7, <2>2
    <2> HIDE DEF s, N
    <2>4. QED
      BY <1>2, <1>3, <2>2, <2>3
  <1>10. ASSUME NEW m \in 1 .. N, NEW n \in 1 .. N, m < n
         PROVE  s[m] < s[n]
    <2>1. s[m] \in S /\ s[n] \in S /\ Place(S, s[m]) = m /\ Place(S, s[n]) = n
      BY <1>7
    <2> HIDE DEF s, N
    <2>2. s[m] \in Nat /\ s[n] \in Nat /\ m \in Nat /\ n \in Nat
      <3>1. N \in Nat
        BY <1>1
      <3>2. m \in Nat /\ n \in Nat
        BY <3>1
      <3>3. QED
        BY <2>1, <3>2
    <2>3. s[n] < s[m] => n < m
      BY <2>1, <2>2, PlaceGrows
    <2>4. s[n] # s[m]
      BY <1>10, <2>1, <2>2
    <2>5. QED
      BY <1>10, <2>2, <2>3, <2>4
  <1> HIDE DEF s, N
  <1>11. QED
    BY <1>7, <1>8, <1>9, <1>10 DEF s, N

-----------------------------------------------------------------------------
(* Messages and what the Scrub leaves of them *)

Source == {"glass", "holster", "fold", "ground", "trail_sign", "trail_marker", "hearth_trace", "history"}
Message == [src : Source, of : SUBSET Nat]
SignMessage == [src : {"trail_sign", "trail_marker", "hearth_trace"}, of : SUBSET Nat]

\* A finite set of ordinals as messages of one source, each for one ordinal
LEMMA RefsOfIs ==
  ASSUME NEW T, NEW src \in T, NEW S \in SUBSET Nat, IsFiniteSet(S)
  PROVE  /\ RefsOf(src, S) \in Seq([src : T, of : SUBSET Nat])
         /\ Len(RefsOf(src, S)) = Cardinality(S)
         /\ \A n \in 1 .. Cardinality(S) : RefsOf(src, S)[n] = Ref(src, {InOrder(S)[n]})
  <1> DEFINE s == InOrder(S)
             r == RefsOf(src, S)
             N == Cardinality(S)
             M == [src : T, of : SUBSET Nat]
  <1>1. N \in Nat
    BY FS_CardinalityType
  <1>2. DOMAIN s = 1 .. N /\ \A n \in 1 .. N : s[n] \in S
    BY InOrderIs
  <1>3. r = [n \in DOMAIN s |-> Ref(src, {s[n]})]
    BY DEF RefsOf
  <1> HIDE DEF s, r, N
  <1>4. \A n \in 1 .. N : Ref(src, {s[n]}) \in M
    BY <1>2 DEF Ref
  <1> HIDE DEF M
  <1>5. r \in [1 .. N -> M] /\ \A n \in 1 .. N : r[n] = Ref(src, {s[n]})
    BY <1>2, <1>3, <1>4
  <1>6. r \in Seq(M) /\ Len(r) = N
    BY <1>1, <1>5
  <1>7. QED
    BY <1>5, <1>6 DEF r, s, N, M

\* The folds of a cast, each for the two rows of its pair
LEMMA FoldRefsIs ==
  ASSUME NEW S \in SUBSET Nat, IsFiniteSet(S)
  PROVE  /\ FoldRefs(S) \in Seq([src : {"fold"}, of : SUBSET Nat])
         /\ Len(FoldRefs(S)) = Cardinality(S)
         /\ \A n \in 1 .. Cardinality(S) :
              FoldRefs(S)[n] = Ref("fold", {InOrder(S)[n], InOrder(S)[n] + 1})
  <1> DEFINE s == InOrder(S)
             r == FoldRefs(S)
             N == Cardinality(S)
             Fold == [src : {"fold"}, of : SUBSET Nat]
  <1>1. N \in Nat
    BY FS_CardinalityType
  <1>2. DOMAIN s = 1 .. N /\ \A n \in 1 .. N : s[n] \in S
    BY InOrderIs
  <1>3. r = [n \in DOMAIN s |-> Ref("fold", {s[n], s[n] + 1})]
    BY DEF FoldRefs
  <1> HIDE DEF s, r, N
  <1>4. \A n \in 1 .. N : Ref("fold", {s[n], s[n] + 1}) \in Fold
    <2>1. TAKE n \in 1 .. N
    <2>2. s[n] \in Nat
      BY <1>2
    <2>3. {s[n], s[n] + 1} \in SUBSET Nat
      BY <2>2
    <2>4. QED
      BY <2>3 DEF Ref
  <1> HIDE DEF Fold
  <1>5. r \in [1 .. N -> Fold] /\ \A n \in 1 .. N : r[n] = Ref("fold", {s[n], s[n] + 1})
    BY <1>2, <1>3, <1>4
  <1>6. r \in Seq(Fold) /\ Len(r) = N
    BY <1>1, <1>5
  <1>7. QED
    BY <1>5, <1>6 DEF r, s, N, Fold

\* The messages m are those of refs at the ordinals D, which s lists.
IsLeft(M, m, refs, D, s) ==
  /\ D \in SUBSET Nat /\ IsFiniteSet(D)
  /\ m \in Seq(M) /\ Len(m) = Cardinality(D) /\ DOMAIN m = 1 .. Cardinality(D)
  /\ \A n \in DOMAIN m : s[n] \in D /\ m[n] = refs[s[n]]
  /\ \A q \in D : \E n \in DOMAIN m : s[n] = q
  /\ \A k, n \in DOMAIN m : k < n => s[k] < s[n]
  /\ 1 \in D => 1 \in DOMAIN m /\ m[1] = refs[1]

\* The Scrub leaves what is not omitted, in its order.
LEMMA ScrubbedIs ==
  ASSUME NEW M, NEW refs \in Seq(M), NEW omissions
  PROVE  IsLeft(M, Scrubbed(refs, omissions), refs, DOMAIN refs \ omissions, InOrder(DOMAIN refs \ omissions))
  <1> DEFINE m == Scrubbed(refs, omissions)
             D == DOMAIN refs \ omissions
             s == InOrder(D)
             N == Cardinality(D)
  <1>1. D \in SUBSET Nat /\ IsFiniteSet(D) /\ \A q \in D : refs[q] \in M /\ q >= 1
    <2>1. DOMAIN refs = 1 .. Len(refs) /\ Len(refs) \in Nat
      OBVIOUS
    <2>2. IsFiniteSet(DOMAIN refs)
      BY <2>1, FS_Interval
    <2>3. D \in SUBSET DOMAIN refs
      OBVIOUS
    <2>4. QED
      BY <2>1, <2>2, <2>3, FS_Subset
  <1>2. m = [n \in DOMAIN s |-> refs[s[n]]]
    BY DEF Scrubbed
  <1> HIDE DEF D
  <1>3. N \in Nat
    BY <1>1, FS_CardinalityType
  <1>4. /\ DOMAIN s = 1 .. N /\ \A n \in 1 .. N : s[n] \in D
        /\ \A q \in D : \E n \in 1 .. N : s[n] = q
        /\ \A k, n \in 1 .. N : k < n => s[k] < s[n]
    BY <1>1, InOrderIs
  <1> HIDE DEF s, m, N
  <1>5. m \in [1 .. N -> M] /\ \A n \in 1 .. N : m[n] = refs[s[n]]
    BY <1>1, <1>2, <1>4
  <1>6. m \in Seq(M) /\ Len(m) = N /\ DOMAIN m = 1 .. N
    BY <1>3, <1>5
  <1>7. ASSUME 1 \in D
        PROVE  1 \in 1 .. N /\ m[1] = refs[1]
    <2>1. PICK n \in 1 .. N : s[n] = 1
      BY <1>4, <1>7
    <2>2. 1 \in 1 .. N /\ n \in Nat /\ n >= 1
      BY <1>3, <2>1
    <2>3. s[1] \in D /\ s[1] \in Nat /\ s[1] >= 1
      BY <1>1, <1>4, <2>2
    <2>4. n # 1 => s[1] < 1
      BY <1>4, <2>1, <2>2
    <2>5. s[1] = 1
      BY <2>1, <2>3, <2>4
    <2>6. QED
      BY <1>5, <2>2, <2>5
  <1>8. QED
    BY <1>1, <1>4, <1>5, <1>6, <1>7 DEF m, s, D, N, IsLeft

-----------------------------------------------------------------------------
(* The bands of a cast *)

IsRows(rows) == Len(rows) \in Nat /\ DOMAIN rows = 1 .. Len(rows)

\* Any rows of the Scroll are finitely many ordinals.
LEMMA RowsAreFinite ==
  ASSUME NEW rows, IsRows(rows), NEW S \in SUBSET DOMAIN rows
  PROVE  S \in SUBSET Nat /\ IsFiniteSet(S) /\ \A i \in S : i \in 1 .. Len(rows)
  <1>1. IsFiniteSet(DOMAIN rows) /\ DOMAIN rows \in SUBSET Nat
    BY FS_Interval DEF IsRows
  <1>2. QED
    BY <1>1, FS_Subset DEF IsRows

\* Only rows of the Scroll leave.
LEMMA OmittedAreRows ==
  ASSUME NEW rows, IsRows(rows), NEW w
  PROVE  /\ Leaving(rows, w) \in SUBSET DOMAIN rows
         /\ \A i \in DOMAIN rows : Exchange(rows, i) \in SUBSET DOMAIN rows
         /\ Omitted(rows, w) \in SUBSET DOMAIN rows
         /\ TrailPointers(rows, w) \in SUBSET DOMAIN rows
  <1>1. Leaving(rows, w) \in SUBSET DOMAIN rows
    BY DEF Leaving
  <1>2. \A i \in DOMAIN rows : Exchange(rows, i) \in SUBSET DOMAIN rows
    BY DEF IsRows, Exchange, Results
  <1>3. Omitted(rows, w) \in SUBSET DOMAIN rows
    BY <1>1, <1>2 DEF Omitted
  <1>4. TrailPointers(rows, w) \in SUBSET DOMAIN rows
    BY <1>3 DEF TrailPointers
  <1>5. QED
    BY <1>1, <1>2, <1>3, <1>4

\* What stands between the folds and the history: the crossing's own ground, then
\* a trace of every Hearth exchange that has left among the signs.
GroundBand(rows, w, ph) == IF ph = "orientation" THEN <<Ref("ground", {})>> ELSE Ground(rows, w)

GroundMessage == [src : {"ground", "trail_sign", "trail_marker", "hearth_trace"}, of : SUBSET Nat]

\* The signs of what has left are messages of the ground, and a Hearth exchange among them has its trace.
LEMMA SignsAre ==
  ASSUME NEW rows, IsRows(rows), NEW w
  PROVE  /\ Signs(rows, w) \in Seq(GroundMessage)
         /\ \A i \in Leaving(rows, w) : IsHearth(rows, i) =>
              \E n \in 1 .. Len(Signs(rows, w)) : Signs(rows, w)[n] = Ref("hearth_trace", {i})
  <1> DEFINE trail == TrailPointers(rows, w)
             hearths == {i \in Leaving(rows, w) : IsHearth(rows, i)}
             A == IF ~Continues(rows, w) THEN RefsOf("trail_sign", trail)
                  ELSE IF trail = {} THEN <<>> ELSE <<Ref("trail_marker", trail)>>
             B == RefsOf("hearth_trace", hearths)
             T == {"ground", "trail_sign", "trail_marker", "hearth_trace"}
  <1>1. Signs(rows, w) = A \o B
    BY DEF Signs
  <1>2. /\ trail \in SUBSET Nat /\ IsFiniteSet(trail)
        /\ hearths \in SUBSET Nat /\ IsFiniteSet(hearths)
    <2>1. trail \in SUBSET DOMAIN rows /\ hearths \in SUBSET DOMAIN rows
      BY OmittedAreRows
    <2> HIDE DEF trail, hearths
    <2>2. QED
      BY <2>1, RowsAreFinite
  <1>3. \A i \in Leaving(rows, w) : IsHearth(rows, i) => i \in hearths
    OBVIOUS
  <1> HIDE DEF trail, hearths
  <1>4. "trail_sign" \in T /\ "hearth_trace" \in T /\ "trail_marker" \in T
    OBVIOUS
  <1>5. RefsOf("trail_sign", trail) \in Seq(GroundMessage)
    <2> HIDE DEF T
    <2>1. RefsOf("trail_sign", trail) \in Seq([src : T, of : SUBSET Nat])
      BY <1>2, <1>4, RefsOfIs
    <2>2. QED
      BY <2>1 DEF GroundMessage, T
  <1>6. /\ B \in Seq(GroundMessage) /\ Len(B) = Cardinality(hearths)
        /\ \A n \in 1 .. Cardinality(hearths) : B[n] = Ref("hearth_trace", {InOrder(hearths)[n]})
    <2> HIDE DEF T
    <2>1. /\ B \in Seq([src : T, of : SUBSET Nat]) /\ Len(B) = Cardinality(hearths)
          /\ \A n \in 1 .. Cardinality(hearths) : B[n] = Ref("hearth_trace", {InOrder(hearths)[n]})
      BY <1>2, <1>4, RefsOfIs
    <2>2. QED
      BY <2>1 DEF GroundMessage, T
  <1>7. <<>> \in Seq(GroundMessage)
    OBVIOUS
  <1>8. <<Ref("trail_marker", trail)>> \in Seq(GroundMessage)
    <2>1. Ref("trail_marker", trail) \in GroundMessage
      BY <1>2 DEF Ref, GroundMessage
    <2>2. QED
      BY <2>1
  <1>9. A \in Seq(GroundMessage)
    BY <1>5, <1>7, <1>8
  <1> HIDE DEF A, B
  <1>10. /\ A \o B \in Seq(GroundMessage) /\ Len(A \o B) = Len(A) + Len(B)
         /\ Len(A) \in Nat /\ Len(B) \in Nat
         /\ \A n \in 1 .. Len(B) : Len(A) + n \in 1 .. Len(A \o B) /\ (A \o B)[Len(A) + n] = B[n]
    <2>1. Len(A) \in Nat /\ Len(B) \in Nat
      BY <1>6, <1>9
    <2>2. /\ A \o B \in Seq(GroundMessage) /\ Len(A \o B) = Len(A) + Len(B)
          /\ \A n \in 1 .. Len(A) + Len(B) : (A \o B)[n] = IF n <= Len(A) THEN A[n] ELSE B[n - Len(A)]
      BY <1>6, <1>9, ConcatProperties
    <2>3. ASSUME NEW n \in 1 .. Len(B)
          PROVE  Len(A) + n \in 1 .. Len(A \o B) /\ (A \o B)[Len(A) + n] = B[n]
      <3>1. Len(A) + n \in 1 .. Len(A) + Len(B) /\ ~(Len(A) + n <= Len(A)) /\ Len(A) + n - Len(A) = n
        BY <2>1
      <3>2. QED
        BY <2>2, <3>1
    <2>4. QED
      BY <2>1, <2>2, <2>3
  <1>11. ASSUME NEW i \in hearths
         PROVE  \E n \in 1 .. Len(A \o B) : (A \o B)[n] = Ref("hearth_trace", {i})
    <2>1. PICK n \in 1 .. Cardinality(hearths) : InOrder(hearths)[n] = i
      BY <1>2, InOrderIs
    <2>2. n \in 1 .. Len(B) /\ B[n] = Ref("hearth_trace", {i})
      BY <1>6, <2>1
    <2>3. QED
      BY <1>10, <2>2
  <1>12. QED
    BY <1>1, <1>3, <1>10, <1>11

\* The ground comes first in its band and every Hearth exchange that has left has a trace in it.
LEMMA GroundBandIs ==
  ASSUME NEW rows, IsRows(rows), NEW w, NEW ph
  PROVE  LET band == GroundBand(rows, w, ph) IN
         /\ band \in Seq(GroundMessage) /\ Len(band) \in Nat /\ Len(band) >= 1
         /\ band[1] = Ref("ground", {})
         /\ ph # "orientation" => \A i \in Leaving(rows, w) : IsHearth(rows, i) =>
              \E n \in 1 .. Len(band) : band[n] = Ref("hearth_trace", {i})
  <1> DEFINE G == <<Ref("ground", {})>>
             S == Signs(rows, w)
  <1>1. G \in Seq(GroundMessage) /\ Len(G) = 1 /\ G[1] = Ref("ground", {})
    <2>1. Ref("ground", {}) \in GroundMessage
      BY DEF Ref, GroundMessage
    <2>2. QED
      BY <2>1
  <1>2. /\ S \in Seq(GroundMessage) /\ Len(S) \in Nat
        /\ \A i \in Leaving(rows, w) : IsHearth(rows, i) =>
             \E n \in 1 .. Len(S) : S[n] = Ref("hearth_trace", {i})
    <2>1. S \in Seq(GroundMessage)
      BY SignsAre
    <2> HIDE DEF S
    <2>2. Len(S) \in Nat
      BY <2>1
    <2>3. QED
      BY <2>1, <2>2, SignsAre DEF S
  <1>3. GroundBand(rows, w, ph) = IF ph = "orientation" THEN G ELSE G \o S
    BY DEF GroundBand, Ground
  <1> HIDE DEF G, S
  <1>4. /\ G \o S \in Seq(GroundMessage) /\ Len(G \o S) = 1 + Len(S)
        /\ \A n \in 1 .. 1 + Len(S) : (G \o S)[n] = IF n <= 1 THEN G[n] ELSE S[n - 1]
    <2>1. G \in Seq(GroundMessage) /\ S \in Seq(GroundMessage) /\ Len(G) = 1
      BY <1>1, <1>2
    <2>2. /\ G \o S \in Seq(GroundMessage) /\ Len(G \o S) = Len(G) + Len(S)
          /\ \A n \in 1 .. Len(G) + Len(S) : (G \o S)[n] = IF n <= Len(G) THEN G[n] ELSE S[n - Len(G)]
      BY <2>1, ConcatProperties
    <2>3. QED
      BY <2>1, <2>2
  <1>5. Len(G \o S) \in Nat /\ Len(G \o S) >= 1 /\ (G \o S)[1] = Ref("ground", {})
    BY <1>1, <1>2, <1>4
  <1>6. ASSUME NEW n \in 1 .. Len(S)
        PROVE  n + 1 \in 1 .. Len(G \o S) /\ (G \o S)[n + 1] = S[n]
    <2>1. n + 1 \in 1 .. 1 + Len(S) /\ ~(n + 1 <= 1) /\ n + 1 - 1 = n
      BY <1>2
    <2>2. QED
      BY <1>4, <2>1
  <1>7. \A i \in Leaving(rows, w) : IsHearth(rows, i) =>
          \E n \in 1 .. Len(G \o S) : (G \o S)[n] = Ref("hearth_trace", {i})
    BY <1>2, <1>6
  <1>8. QED
    BY <1>1, <1>3, <1>4, <1>5, <1>7

\* Where the messages of one band stand once another follows it
Joined(M, A, B, C) ==
  /\ C \in Seq(M) /\ Len(A) \in Nat /\ Len(B) \in Nat /\ Len(C) = Len(A) + Len(B)
  /\ \A n \in 1 .. Len(A) : n \in 1 .. Len(C) /\ C[n] = A[n]
  /\ \A n \in 1 .. Len(B) : Len(A) + n \in 1 .. Len(C) /\ C[Len(A) + n] = B[n]

\* One band after another
LEMMA TwoBands ==
  ASSUME NEW M, NEW A \in Seq(M), NEW B \in Seq(M), NEW C, C = A \o B
  PROVE  Joined(M, A, B, C)
  <1>1. Len(A) \in Nat /\ Len(B) \in Nat
    OBVIOUS
  <1>2. /\ C \in Seq(M) /\ Len(C) = Len(A) + Len(B)
        /\ \A n \in 1 .. Len(A) + Len(B) : C[n] = IF n <= Len(A) THEN A[n] ELSE B[n - Len(A)]
    BY ConcatProperties
  <1>3. ASSUME NEW n \in 1 .. Len(A)
        PROVE  n \in 1 .. Len(C) /\ C[n] = A[n]
    <2>1. n \in 1 .. Len(A) + Len(B) /\ n <= Len(A)
      BY <1>1
    <2>2. QED
      BY <1>2, <2>1
  <1>4. ASSUME NEW n \in 1 .. Len(B)
        PROVE  Len(A) + n \in 1 .. Len(C) /\ C[Len(A) + n] = B[n]
    <2>1. Len(A) + n \in 1 .. Len(A) + Len(B) /\ ~(Len(A) + n <= Len(A)) /\ Len(A) + n - Len(A) = n
      BY <1>1
    <2>2. QED
      BY <1>2, <2>1
  <1>5. QED
    BY <1>1, <1>2, <1>3, <1>4 DEF Joined

PrefixMessage == [src : {"glass", "holster"}, of : SUBSET Nat]

\* The Glass stands first.
LEMMA PrefixIs ==
  ASSUME NEW ph
  PROVE  /\ Prefix(ph) \in Seq(PrefixMessage) /\ Len(Prefix(ph)) \in Nat /\ Len(Prefix(ph)) >= 1
         /\ Prefix(ph)[1] = Ref("glass", {})
  <1> DEFINE g == Ref("glass", {})
             h == Ref("holster", {})
  <1>1. g \in PrefixMessage /\ h \in PrefixMessage
    BY DEF Ref, PrefixMessage
  <1>2. Prefix(ph) = IF ph = "ordinary" THEN <<g>> \o <<h>> ELSE <<g>> \o <<>>
    BY DEF Prefix
  <1> HIDE DEF g, h
  <1>3. <<g>> \in Seq(PrefixMessage) /\ Len(<<g>>) = 1 /\ <<g>>[1] = g
        /\ <<h>> \in Seq(PrefixMessage) /\ <<>> \in Seq(PrefixMessage)
    BY <1>1
  <1>4. \A s \in Seq(PrefixMessage) : /\ <<g>> \o s \in Seq(PrefixMessage) /\ Len(<<g>> \o s) \in Nat
                                      /\ Len(<<g>> \o s) >= 1 /\ (<<g>> \o s)[1] = g
    <2>1. TAKE s \in Seq(PrefixMessage)
    <2>2. /\ <<g>> \o s \in Seq(PrefixMessage) /\ Len(<<g>>) + Len(s) = Len(<<g>> \o s) /\ Len(s) \in Nat
          /\ \A n \in 1 .. Len(<<g>>) : (<<g>> \o s)[n] = <<g>>[n]
      BY <1>3, TwoBands DEF Joined
    <2>3. QED
      BY <1>3, <2>2
  <1>5. QED
    BY <1>2, <1>3, <1>4 DEF g

\* Where every message of the four bands stands when they are one cast
LEMMA BandsAre ==
  ASSUME NEW M, NEW P \in Seq(M), NEW F \in Seq(M), NEW G \in Seq(M), NEW H \in Seq(M),
         NEW refs, refs = P \o F \o G \o H
  PROVE  LET base == Len(P) + Len(F) + Len(G)
         IN  /\ refs \in Seq(M) /\ base \in Nat /\ Len(refs) = base + Len(H) /\ DOMAIN refs = 1 .. base + Len(H)
             /\ \A n \in 1 .. Len(P) : n \in 1 .. base /\ refs[n] = P[n]
             /\ \A n \in 1 .. Len(F) : Len(P) + n \in 1 .. base /\ refs[Len(P) + n] = F[n]
             /\ \A n \in 1 .. Len(G) : Len(P) + Len(F) + n \in 1 .. base /\ refs[Len(P) + Len(F) + n] = G[n]
             /\ \A n \in 1 .. Len(H) : base + n \in 1 .. base + Len(H) /\ refs[base + n] = H[n]
  <1> DEFINE A == P \o F
             B == A \o G
             C == B \o H
  <1>0. A = P \o F /\ B = A \o G /\ C = B \o H
    OBVIOUS
  <1> HIDE DEF A, B, C
  <1>1. /\ A \in Seq(M) /\ Len(P) \in Nat /\ Len(F) \in Nat /\ Len(A) = Len(P) + Len(F)
        /\ \A n \in 1 .. Len(P) : n \in 1 .. Len(A) /\ A[n] = P[n]
        /\ \A n \in 1 .. Len(F) : Len(P) + n \in 1 .. Len(A) /\ A[Len(P) + n] = F[n]
    <2>1. Joined(M, P, F, A)
      BY <1>0, TwoBands
    <2>2. QED
      BY <2>1 DEF Joined
  <1>2. /\ B \in Seq(M) /\ Len(A) \in Nat /\ Len(G) \in Nat /\ Len(B) = Len(A) + Len(G)
        /\ \A n \in 1 .. Len(A) : n \in 1 .. Len(B) /\ B[n] = A[n]
        /\ \A n \in 1 .. Len(G) : Len(A) + n \in 1 .. Len(B) /\ B[Len(A) + n] = G[n]
    <2>1. A \in Seq(M)
      BY <1>1
    <2>2. Joined(M, A, G, B)
      BY <1>0, <2>1, TwoBands
    <2>3. QED
      BY <2>2 DEF Joined
  <1>3. /\ C \in Seq(M) /\ Len(B) \in Nat /\ Len(H) \in Nat /\ Len(C) = Len(B) + Len(H)
        /\ \A n \in 1 .. Len(B) : n \in 1 .. Len(C) /\ C[n] = B[n]
        /\ \A n \in 1 .. Len(H) : Len(B) + n \in 1 .. Len(C) /\ C[Len(B) + n] = H[n]
    <2>1. B \in Seq(M)
      BY <1>2
    <2>2. Joined(M, B, H, C)
      BY <1>0, <2>1, TwoBands
    <2>3. QED
      BY <2>2 DEF Joined
  <1>4. DOMAIN C = 1 .. Len(C)
    BY <1>3
  <1>5. P \o F \o G \o H = C
    BY DEF A, B, C
  <1>6. Len(P) + Len(F) + Len(G) = Len(B)
    BY <1>1, <1>2
  <1>7. \A n \in 1 .. Len(P) : n \in 1 .. Len(B) /\ C[n] = P[n]
    BY <1>1, <1>2, <1>3
  <1>8. \A n \in 1 .. Len(F) : Len(P) + n \in 1 .. Len(B) /\ C[Len(P) + n] = F[n]
    BY <1>1, <1>2, <1>3
  <1>9. \A n \in 1 .. Len(G) : Len(P) + Len(F) + n \in 1 .. Len(B) /\ C[Len(P) + Len(F) + n] = G[n]
    BY <1>1, <1>2, <1>3
  <1>10. QED
    BY <1>3, <1>4, <1>5, <1>6, <1>7, <1>8, <1>9

\* The rows that stand for themselves once pairs are folded
Kept(rows, folded) == DOMAIN rows \ UNION {{i, i + 1} : i \in folded}

\* The bands of a cast and the places the Scrub takes out of them: every place is
\* a place of the history, and it is that of a row kept and omitted.
AreBands(rows, w, ph, omitted, folded, refs, omissions) ==
  LET kept == Kept(rows, folded)
      place == InOrder(kept)
      p == Len(Prefix(ph))
      f == Cardinality(folded)
      g == Len(GroundBand(rows, w, ph))
      h == Cardinality(kept)
  IN  /\ refs \in Seq(Message) /\ Assembled(rows, w, ph, omitted, folded) = Scrubbed(refs, omissions)
      /\ p \in Nat /\ p >= 1 /\ f \in Nat /\ g \in Nat /\ g >= 1 /\ h \in Nat
      /\ DOMAIN refs = 1 .. p + f + g + h
      /\ \A n \in 1 .. p : refs[n] = Prefix(ph)[n] /\ refs[n].src \in {"glass", "holster"}
      /\ \A n \in 1 .. f : refs[p + n] = Ref("fold", {InOrder(folded)[n], InOrder(folded)[n] + 1})
      /\ \A n \in 1 .. g : /\ refs[p + f + n] = GroundBand(rows, w, ph)[n]
                           /\ refs[p + f + n].src \in {"ground", "trail_sign", "trail_marker", "hearth_trace"}
      /\ \A n \in 1 .. h : refs[p + f + g + n] = Ref("history", {place[n]})
      /\ omissions \cap (1 .. p + f + g) = {}
      /\ \A n \in 1 .. h : p + f + g + n \in omissions <=> place[n] \in omitted

\* assemble() in provider-phase.js puts the bands in order and composeGlassCast() shifts the omissions past them.
LEMMA AssembledIs ==
  ASSUME NEW rows, IsRows(rows), NEW w, NEW ph,
         NEW omitted \in SUBSET DOMAIN rows, NEW folded \in SUBSET DOMAIN rows
  PROVE  \E refs, omissions : AreBands(rows, w, ph, omitted, folded, refs, omissions)
  <1> DEFINE kept == Kept(rows, folded)
             place == InOrder(kept)
             P == Prefix(ph)
             F == FoldRefs(folded)
             G == GroundBand(rows, w, ph)
             H == RefsOf("history", kept)
             p == Len(P)
             f == Cardinality(folded)
             g == Len(G)
             h == Cardinality(kept)
             refs == P \o F \o G \o H
             omissions == {Place(kept, i) + g + Shift(ph, folded) : i \in omitted \cap kept}
  <1>1. kept \in SUBSET Nat /\ IsFiniteSet(kept) /\ folded \in SUBSET Nat /\ IsFiniteSet(folded)
    <2>1. kept \in SUBSET DOMAIN rows
      BY DEF Kept
    <2>2. QED
      BY <2>1, RowsAreFinite
  <1>2. Assembled(rows, w, ph, omitted, folded) = Scrubbed(refs, omissions)
    BY DEF Assembled, Kept, GroundBand
  <1>3. P \in Seq(PrefixMessage) /\ p \in Nat /\ p >= 1
    BY PrefixIs
  <1>4. G \in Seq(GroundMessage) /\ g \in Nat /\ g >= 1
    BY GroundBandIs
  <1>5. /\ F \in Seq([src : {"fold"}, of : SUBSET Nat]) /\ Len(F) = f
        /\ \A n \in 1 .. f : F[n] = Ref("fold", {InOrder(folded)[n], InOrder(folded)[n] + 1})
    BY <1>1, FoldRefsIs
  <1>6. /\ H \in Seq([src : {"history"}, of : SUBSET Nat]) /\ Len(H) = h
        /\ \A n \in 1 .. h : H[n] = Ref("history", {place[n]})
    <2> HIDE DEF kept
    <2>1. "history" \in {"history"}
      OBVIOUS
    <2>2. QED
      BY <1>1, <2>1, RefsOfIs
  <1>7. f \in Nat /\ h \in Nat
    <2> HIDE DEF kept
    <2>1. QED
      BY <1>1, FS_CardinalityType
  <1>8. /\ \A i \in kept : Place(kept, i) \in 1 .. h
        /\ \A n \in 1 .. h : place[n] \in kept /\ Place(kept, place[n]) = n
        /\ \A i \in kept : place[Place(kept, i)] = i
    <2> HIDE DEF kept
    <2>1. QED
      BY <1>1, PlaceGrows, InOrderIs
  <1>9. \A i : Place(kept, i) + g + Shift(ph, folded) = Place(kept, i) + g + (p + f)
    BY DEF Shift
  <1>10. omissions = {Place(kept, i) + g + (p + f) : i \in omitted \cap kept}
    BY <1>9
  <1> HIDE DEF kept, place, P, F, G, H, p, f, g, h, omissions
  <1>11. P \in Seq(Message) /\ F \in Seq(Message) /\ G \in Seq(Message) /\ H \in Seq(Message)
    <2>1. /\ PrefixMessage \subseteq Message /\ GroundMessage \subseteq Message
          /\ [src : {"fold"}, of : SUBSET Nat] \subseteq Message
          /\ [src : {"history"}, of : SUBSET Nat] \subseteq Message
      BY DEF PrefixMessage, GroundMessage, Message, Source
    <2>2. \A S, T : S \subseteq T => Seq(S) \subseteq Seq(T)
      BY SeqMonotonic
    <2>3. QED
      BY <1>3, <1>4, <1>5, <1>6, <2>1, <2>2
  <1>12. Len(P) = p /\ Len(G) = g /\ Len(F) = f /\ Len(H) = h
    BY <1>5, <1>6 DEF p, g
  <1>13. /\ refs \in Seq(Message) /\ DOMAIN refs = 1 .. p + f + g + h
         /\ \A n \in 1 .. p : refs[n] = P[n]
         /\ \A n \in 1 .. f : refs[p + n] = F[n]
         /\ \A n \in 1 .. g : refs[p + f + n] = G[n]
         /\ \A n \in 1 .. h : refs[p + f + g + n] = H[n]
    <2>1. refs = P \o F \o G \o H
      OBVIOUS
    <2> HIDE DEF refs
    <2>2. /\ refs \in Seq(Message) /\ DOMAIN refs = 1 .. Len(P) + Len(F) + Len(G) + Len(H)
          /\ \A n \in 1 .. Len(P) : refs[n] = P[n]
          /\ \A n \in 1 .. Len(F) : refs[Len(P) + n] = F[n]
          /\ \A n \in 1 .. Len(G) : refs[Len(P) + Len(F) + n] = G[n]
          /\ \A n \in 1 .. Len(H) : refs[Len(P) + Len(F) + Len(G) + n] = H[n]
      BY <1>11, <2>1, BandsAre
    <2>3. QED
      BY <1>12, <2>2
  <1> HIDE DEF refs
  <1>14. \A n \in 1 .. p : refs[n].src \in {"glass", "holster"}
    <2>1. \A n \in 1 .. p : P[n] \in PrefixMessage
      BY <1>3, <1>12
    <2>2. QED
      BY <1>13, <2>1 DEF PrefixMessage
  <1>15. \A n \in 1 .. g : refs[p + f + n].src \in {"ground", "trail_sign", "trail_marker", "hearth_trace"}
    <2>1. \A n \in 1 .. g : G[n] \in GroundMessage
      BY <1>4, <1>12
    <2>2. \A n \in 1 .. g : G[n].src \in {"ground", "trail_sign", "trail_marker", "hearth_trace"}
      BY <2>1 DEF GroundMessage
    <2>3. QED
      BY <1>13, <2>2
  <1>16. omissions \cap (1 .. p + f + g) = {}
    <2>1. ASSUME NEW i \in omitted \cap kept
          PROVE  Place(kept, i) + g + (p + f) \notin 1 .. p + f + g
      <3>1. Place(kept, i) \in Nat /\ Place(kept, i) >= 1
        BY <1>7, <1>8
      <3>2. QED
        BY <1>3, <1>4, <1>7, <3>1
    <2>2. QED
      BY <1>10, <2>1
  <1>17. ASSUME NEW n \in 1 .. h
         PROVE  p + f + g + n \in omissions <=> place[n] \in omitted
    <2>1. n \in Nat
      BY <1>7
    <2>2. ASSUME NEW i \in omitted \cap kept, p + f + g + n = Place(kept, i) + g + (p + f)
          PROVE  place[n] \in omitted
      <3>1. Place(kept, i) \in Nat
        BY <1>7, <1>8
      <3>2. n = Place(kept, i)
        BY <1>3, <1>4, <1>7, <2>1, <2>2, <3>1
      <3>3. QED
        BY <1>8, <3>2
    <2>3. ASSUME place[n] \in omitted
          PROVE  p + f + g + n \in omissions
      <3>1. place[n] \in omitted \cap kept /\ Place(kept, place[n]) = n
        BY <1>8, <2>3
      <3>2. n + g + (p + f) = p + f + g + n
        BY <1>3, <1>4, <1>7, <2>1
      <3>3. QED
        BY <1>10, <3>1, <3>2
    <2>4. QED
      BY <1>10, <2>2, <2>3
  <1>18. /\ \A n \in 1 .. p : refs[n] = P[n] /\ refs[n].src \in {"glass", "holster"}
         /\ \A n \in 1 .. f : refs[p + n] = Ref("fold", {InOrder(folded)[n], InOrder(folded)[n] + 1})
         /\ \A n \in 1 .. g : /\ refs[p + f + n] = G[n]
                              /\ refs[p + f + n].src \in {"ground", "trail_sign", "trail_marker", "hearth_trace"}
         /\ \A n \in 1 .. h : refs[p + f + g + n] = Ref("history", {place[n]})
    <2>1. \A n \in 1 .. p : refs[n] = P[n] /\ refs[n].src \in {"glass", "holster"}
      BY <1>13, <1>14
    <2>2. \A n \in 1 .. f : refs[p + n] = Ref("fold", {InOrder(folded)[n], InOrder(folded)[n] + 1})
      <3>1. TAKE n \in 1 .. f
      <3>2. F[n] = Ref("fold", {InOrder(folded)[n], InOrder(folded)[n] + 1})
        BY <1>5
      <3>3. QED
        BY <1>13, <3>2
    <2>3. \A n \in 1 .. g : /\ refs[p + f + n] = G[n]
                            /\ refs[p + f + n].src \in {"ground", "trail_sign", "trail_marker", "hearth_trace"}
      BY <1>13, <1>15
    <2>4. \A n \in 1 .. h : refs[p + f + g + n] = Ref("history", {place[n]})
      <3>1. TAKE n \in 1 .. h
      <3>2. H[n] = Ref("history", {place[n]})
        BY <1>6
      <3>3. QED
        BY <1>13, <3>2
    <2>5. QED
      BY <2>1, <2>2, <2>3, <2>4
  <1>19. AreBands(rows, w, ph, omitted, folded, refs, omissions)
    BY <1>2, <1>3, <1>4, <1>7, <1>13, <1>16, <1>17, <1>18 DEF kept, place, P, G, p, f, g, h, AreBands
  <1>20. QED
    BY <1>13, <1>19

\* What a cast shows and what it tells of the rest: the history is the rows kept and
\* not omitted, in order; the folds and the Hearth traces stand whole, and so do the
\* Glass above and the ground.
IsCast(c, rows, w, ph, omitted, folded) ==
  LET m == c.messages IN
  /\ Told(c, "history") = Kept(rows, folded) \ omitted
  /\ Told(c, "fold") = UNION {{i, i + 1} : i \in folded}
  /\ ph # "orientation" =>
       \A i \in Leaving(rows, w) : IsHearth(rows, i) => i \in Told(c, "hearth_trace")
  /\ m[1].src = "glass" /\ \E n \in DOMAIN m : m[n].src = "ground"
  /\ \A k, n \in DOMAIN m : k < n /\ m[k].src = "history" /\ m[n].src = "history" =>
       \A i \in m[k].of, j \in m[n].of : i < j

\* Of rows and folds, whatever they are, the cast shows what is neither folded nor omitted.
LEMMA CastIs ==
  ASSUME NEW rows, IsRows(rows), NEW w, NEW ph,
         NEW omitted \in SUBSET DOMAIN rows, NEW folded \in SUBSET DOMAIN rows,
         NEW c, c.messages = Assembled(rows, w, ph, omitted, folded)
  PROVE  IsCast(c, rows, w, ph, omitted, folded)
  <1> DEFINE kept == Kept(rows, folded)
             place == InOrder(kept)
             pair == InOrder(folded)
             P == Prefix(ph)
             G == GroundBand(rows, w, ph)
             p == Len(P)
             f == Cardinality(folded)
             g == Len(G)
             h == Cardinality(kept)
             base == p + f + g
             m == c.messages
  <1>0. PICK refs, omissions : AreBands(rows, w, ph, omitted, folded, refs, omissions)
    BY AssembledIs
  <1>1. /\ Assembled(rows, w, ph, omitted, folded) = Scrubbed(refs, omissions)
        /\ p \in Nat /\ p >= 1 /\ f \in Nat /\ g \in Nat /\ g >= 1 /\ h \in Nat
        /\ DOMAIN refs = 1 .. p + f + g + h
        /\ \A n \in 1 .. p : refs[n] = P[n] /\ refs[n].src \in {"glass", "holster"}
        /\ \A n \in 1 .. f : refs[p + n] = Ref("fold", {pair[n], pair[n] + 1})
        /\ \A n \in 1 .. g : /\ refs[p + f + n] = G[n]
                             /\ refs[p + f + n].src \in {"ground", "trail_sign", "trail_marker", "hearth_trace"}
        /\ \A n \in 1 .. h : refs[p + f + g + n] = Ref("history", {place[n]})
        /\ omissions \cap (1 .. p + f + g) = {}
        /\ \A n \in 1 .. h : p + f + g + n \in omissions <=> place[n] \in omitted
    BY <1>0 DEF AreBands
  <1>2. kept \in SUBSET Nat /\ IsFiniteSet(kept) /\ folded \in SUBSET Nat /\ IsFiniteSet(folded)
    <2>1. kept \in SUBSET DOMAIN rows
      BY DEF Kept
    <2>2. QED
      BY <2>1, RowsAreFinite
  <1>3. /\ P[1] = Ref("glass", {}) /\ G[1] = Ref("ground", {})
        /\ ph # "orientation" => \A i \in Leaving(rows, w) : IsHearth(rows, i) =>
             \E n \in 1 .. g : G[n] = Ref("hearth_trace", {i})
    BY PrefixIs, GroundBandIs
  <1>4. /\ \A n \in 1 .. f : pair[n] \in folded
        /\ \A i \in folded : \E n \in 1 .. f : pair[n] = i
    BY <1>2, InOrderIs
  <1>5. /\ \A n \in 1 .. h : place[n] \in kept /\ place[n] \in Nat
        /\ \A i \in kept : \E n \in 1 .. h : place[n] = i
        /\ \A k, n \in 1 .. h : k < n => place[k] < place[n]
    <2> HIDE DEF kept
    <2>1. /\ DOMAIN place = 1 .. h
          /\ \A n \in DOMAIN place : place[n] \in kept
          /\ \A i \in kept : Place(kept, i) \in DOMAIN place /\ place[Place(kept, i)] = i
          /\ \A k, n \in DOMAIN place : k < n => place[k] < place[n]
      BY <1>2, InOrderIs
    <2> HIDE DEF place, h
    <2>2. QED
      BY <1>2, <2>1
  <1> DEFINE D == DOMAIN refs \ omissions
             s == InOrder(D)
  <1>6. /\ D \in SUBSET Nat
        /\ \A n \in DOMAIN m : s[n] \in D /\ m[n] = refs[s[n]]
        /\ \A q \in D : \E n \in DOMAIN m : s[n] = q
        /\ \A k, n \in DOMAIN m : k < n => s[k] < s[n]
        /\ 1 \in D => m[1] = refs[1]
    <2>1. IsLeft(Message, Scrubbed(refs, omissions), refs, D, s)
      <3>1. refs \in Seq(Message)
        BY <1>0 DEF AreBands
      <3>2. QED
        BY <3>1, ScrubbedIs
    <2>2. m = Scrubbed(refs, omissions)
      BY <1>1
    <2> HIDE DEF m, D, s
    <2>3. IsLeft(Message, m, refs, D, s)
      BY <2>1, <2>2
    <2>4. QED
      BY <2>3 DEF IsLeft
  <1> HIDE DEF P, G, p, f, g, h, kept, place, pair, s, m
  <1>7. base \in Nat /\ DOMAIN refs = 1 .. base + h /\ base >= 1
    BY <1>1
  <1>8. \A q \in 1 .. base : q \in D /\ refs[q].src # "history"
    <2>1. TAKE q \in 1 .. base
    <2>2. q \in D
      BY <1>1, <1>7
    <2>3. CASE q \in 1 .. p
      BY <1>1, <2>2, <2>3
    <2>4. CASE q > p /\ q <= p + f
      <3>1. q - p \in 1 .. f /\ p + (q - p) = q
        BY <1>1, <2>4
      <3>2. refs[q] = Ref("fold", {pair[q - p], pair[q - p] + 1})
        BY <1>1, <3>1
      <3>3. QED
        BY <2>2, <3>2 DEF Ref
    <2>5. CASE q > p + f
      <3>1. q - (p + f) \in 1 .. g /\ p + f + (q - (p + f)) = q
        BY <1>1, <2>5
      <3>2. refs[q].src \in {"ground", "trail_sign", "trail_marker", "hearth_trace"}
        BY <1>1, <3>1
      <3>3. QED
        BY <2>2, <3>2
    <2>6. QED
      BY <1>1, <2>3, <2>4, <2>5
  <1>9. \A q \in D : refs[q].src = "history" =>
          \E n \in 1 .. h : q = base + n /\ refs[q] = Ref("history", {place[n]}) /\ place[n] \in kept \ omitted
    <2>1. SUFFICES ASSUME NEW q \in D, refs[q].src = "history"
                   PROVE  \E n \in 1 .. h : /\ q = base + n /\ refs[q] = Ref("history", {place[n]})
                                            /\ place[n] \in kept \ omitted
      OBVIOUS
    <2>2. q \in 1 .. base + h /\ q \notin 1 .. base /\ q \notin omissions
      BY <1>7, <1>8, <2>1
    <2>3. q - base \in 1 .. h /\ q = base + (q - base)
      <3>1. h \in Nat /\ base \in Nat
        BY <1>1, <1>7
      <3> HIDE DEF base
      <3>2. QED
        BY <2>2, <3>1
    <2> HIDE DEF D
    <2>4. refs[q] = Ref("history", {place[q - base]}) /\ place[q - base] \notin omitted
      BY <1>1, <2>2, <2>3
    <2>5. QED
      BY <1>5, <2>3, <2>4
  <1>10. \A i \in kept \ omitted : \E q \in D : refs[q] = Ref("history", {i})
    <2>1. TAKE i \in kept \ omitted
    <2>2. PICK n \in 1 .. h : place[n] = i
      BY <1>5
    <2>3. base + n \in 1 .. base + h
      BY <1>1, <1>7
    <2>4. base + n \in D /\ refs[base + n] = Ref("history", {i})
      BY <1>1, <1>7, <2>2, <2>3
    <2>5. QED
      BY <2>4
  <1>11. \A q \in D : \E n \in DOMAIN m : m[n] = refs[q]
    BY <1>6
  <1>12. Told(c, "history") = kept \ omitted
    <2>1. \A x : x \in Told(c, "history") <=> \E n \in DOMAIN m : m[n].src = "history" /\ x \in m[n].of
      BY DEF Told, m
    <2>2. ASSUME NEW n \in DOMAIN m, m[n].src = "history", NEW x \in m[n].of
          PROVE  x \in kept \ omitted
      <3>1. s[n] \in D /\ m[n] = refs[s[n]]
        BY <1>6
      <3>2. PICK k \in 1 .. h : refs[s[n]] = Ref("history", {place[k]}) /\ place[k] \in kept \ omitted
        BY <1>9, <2>2, <3>1
      <3>3. QED
        BY <2>2, <3>1, <3>2 DEF Ref
    <2>3. ASSUME NEW x \in kept \ omitted
          PROVE  \E n \in DOMAIN m : m[n].src = "history" /\ x \in m[n].of
      <3>1. PICK n \in DOMAIN m : m[n] = Ref("history", {x})
        BY <1>10, <1>11
      <3>2. QED
        BY <3>1 DEF Ref
    <2>4. QED
      BY <2>1, <2>2, <2>3
  <1>13. Told(c, "fold") = UNION {{i, i + 1} : i \in folded}
    <2>1. \A x : x \in Told(c, "fold") <=> \E n \in DOMAIN m : m[n].src = "fold" /\ x \in m[n].of
      BY DEF Told, m
    <2>2. ASSUME NEW q \in D, refs[q].src = "fold"
          PROVE  \E i \in folded : refs[q] = Ref("fold", {i, i + 1})
      <3>1. q \in 1 .. base
        <4>1. q \in 1 .. base + h
          BY <1>7
        <4>2. CASE q > base
          <5>1. q - base \in 1 .. h /\ q = base + (q - base)
            <6>1. h \in Nat /\ base \in Nat
              BY <1>1, <1>7
            <6> HIDE DEF base
            <6>2. QED
              BY <4>1, <4>2, <6>1
          <5>2. refs[base + (q - base)] = Ref("history", {place[q - base]})
            <6>1. \A n \in 1 .. h : refs[base + n] = Ref("history", {place[n]})
              BY <1>1
            <6> HIDE DEF base
            <6>2. QED
              BY <5>1, <6>1
          <5>3. refs[q].src = "history"
            BY <5>1, <5>2 DEF Ref
          <5>4. QED
            BY <2>2, <5>3
        <4>3. QED
          BY <1>7, <4>1, <4>2
      <3>2. q \notin 1 .. p
        BY <1>1, <2>2
      <3>3. CASE q <= p + f
        <4>1. q - p \in 1 .. f /\ p + (q - p) = q
          BY <1>1, <1>7, <3>1, <3>2, <3>3
        <4>2. refs[q] = Ref("fold", {pair[q - p], pair[q - p] + 1})
          BY <1>1, <4>1
        <4>3. QED
          BY <1>4, <4>1, <4>2
      <3>4. CASE q > p + f
        <4>1. q - (p + f) \in 1 .. g /\ p + f + (q - (p + f)) = q
          BY <1>1, <3>1, <3>4
        <4>2. refs[q].src \in {"ground", "trail_sign", "trail_marker", "hearth_trace"}
          BY <1>1, <4>1
        <4>3. QED
          BY <2>2, <4>2
      <3>5. q <= p + f \/ q > p + f
        <4>1. q \in Nat /\ p + f \in Nat
          BY <1>1, <1>7, <3>1
        <4>2. QED
          BY <4>1
      <3>6. QED
        BY <3>3, <3>4, <3>5
    <2>3. ASSUME NEW i \in folded
          PROVE  \E n \in DOMAIN m : m[n] = Ref("fold", {i, i + 1})
      <3>1. PICK n \in 1 .. f : pair[n] = i
        BY <1>4
      <3>2. p + n \in 1 .. base /\ refs[p + n] = Ref("fold", {i, i + 1})
        BY <1>1, <3>1
      <3>3. QED
        BY <1>8, <1>11, <3>2
    <2>4. ASSUME NEW x, NEW n \in DOMAIN m, m[n].src = "fold", x \in m[n].of
          PROVE  \E i \in folded : x \in {i, i + 1}
      <3>1. s[n] \in D /\ m[n] = refs[s[n]]
        BY <1>6
      <3>2. PICK i \in folded : m[n] = Ref("fold", {i, i + 1})
        BY <2>2, <2>4, <3>1
      <3>3. QED
        BY <2>4, <3>2 DEF Ref
    <2>5. ASSUME NEW x, NEW i \in folded, x \in {i, i + 1}
          PROVE  \E n \in DOMAIN m : m[n].src = "fold" /\ x \in m[n].of
      <3>1. PICK n \in DOMAIN m : m[n] = Ref("fold", {i, i + 1})
        BY <2>3
      <3>2. QED
        BY <2>5, <3>1 DEF Ref
    <2>6. \A x : x \in Told(c, "fold") <=> \E i \in folded : x \in {i, i + 1}
      BY <2>1, <2>4, <2>5
    <2>7. QED
      BY <2>6
  <1>14. ASSUME ph # "orientation", NEW i \in Leaving(rows, w), IsHearth(rows, i)
         PROVE  i \in Told(c, "hearth_trace")
    <2>1. PICK n \in 1 .. g : G[n] = Ref("hearth_trace", {i})
      BY <1>3, <1>14
    <2>2. p + f + n \in 1 .. base /\ refs[p + f + n] = Ref("hearth_trace", {i})
      BY <1>1, <2>1
    <2>3. PICK k \in DOMAIN m : m[k] = Ref("hearth_trace", {i})
      BY <1>8, <1>11, <2>2
    <2>4. QED
      BY <2>3 DEF Told, Ref, m
  <1>15. m[1].src = "glass"
    <2>1. 1 \in D /\ 1 \in 1 .. p
      BY <1>1, <1>7, <1>8
    <2>2. m[1] = Ref("glass", {})
      BY <1>1, <1>3, <1>6, <2>1
    <2>3. QED
      BY <2>2 DEF Ref
  <1>16. \E n \in DOMAIN m : m[n].src = "ground"
    <2>1. 1 \in 1 .. g /\ p + f + 1 \in 1 .. base
      BY <1>1
    <2>2. refs[p + f + 1] = Ref("ground", {})
      BY <1>1, <1>3, <2>1
    <2>3. PICK n \in DOMAIN m : m[n] = Ref("ground", {})
      BY <1>8, <1>11, <2>1, <2>2
    <2>4. QED
      BY <2>3 DEF Ref
  <1>17. ASSUME NEW k \in DOMAIN m, NEW n \in DOMAIN m, k < n, m[k].src = "history", m[n].src = "history",
                NEW i \in m[k].of, NEW j \in m[n].of
         PROVE  i < j
    <2>1. s[k] < s[n] /\ s[k] \in D /\ s[n] \in D /\ m[k] = refs[s[k]] /\ m[n] = refs[s[n]]
      BY <1>6, <1>17
    <2>2. PICK a \in 1 .. h : s[k] = base + a /\ m[k] = Ref("history", {place[a]})
      BY <1>9, <1>17, <2>1
    <2>3. PICK b \in 1 .. h : s[n] = base + b /\ m[n] = Ref("history", {place[b]})
      BY <1>9, <1>17, <2>1
    <2>4. a \in Nat /\ b \in Nat
      BY <1>1
    <2>5. a < b
      BY <1>7, <2>1, <2>2, <2>3, <2>4
    <2>6. i = place[a] /\ j = place[b]
      BY <1>17, <2>2, <2>3 DEF Ref
    <2>7. QED
      BY <1>5, <2>5, <2>6
  <1>18. QED
    BY <1>12, <1>13, <1>14, <1>15, <1>16, <1>17 DEF m, kept, IsCast

-----------------------------------------------------------------------------
(* The invariant *)

ScrollRow == [kind : {"user", "resident", "assistant_tool_call", "tool_result"}, wake : Nat,
              calls : Seq({"plain", "tend_hearth", "reopen_result"}), call : Nat,
              body : {"plain", "hearth"}, pointer : Nat, size : Nat]

ScrollTypes ==
  /\ scroll \in Seq(ScrollRow) /\ rack \in Seq(Job)
  /\ wake \in Nat /\ cast.rows \in 0 .. Len(scroll)
  /\ step # "rest" => wake > 0

\* A wake's rows follow those of the wakes before it, and the Resident's words end it.
WakesFollow ==
  /\ \A i, j \in DOMAIN scroll : i <= j => scroll[i].wake <= scroll[j].wake
  /\ \A i \in DOMAIN scroll : scroll[i].kind = "resident" /\ scroll[i].wake = wake => step = "rest"

\* While calls are settled, they are those of the last call row, and some of them wait.
SettlingCalls(c) ==
  /\ c \in DOMAIN scroll /\ IsCall(scroll[c])
  /\ \A j \in DOMAIN scroll : j > c => scroll[j].kind = "tool_result"
  /\ Len(scroll) - c < Len(scroll[c].calls)

CallsAreSettled ==
  /\ step = "settling" => \E c \in DOMAIN scroll : SettlingCalls(c)
  /\ step = "tending" => /\ scroll # <<>> /\ scroll[Len(scroll)].wake = wake
                         /\ IsCall(scroll[Len(scroll)])
                         /\ scroll[Len(scroll)].calls = <<"tend_hearth">>
  /\ step = "tending" => phase = "orientation"

\* The response of a lifespan's first turn follows the Hearth packet of that turn.
PacketOfThisWake(i) ==
  /\ i - 1 \in DOMAIN scroll /\ IsCall(scroll[i - 1]) /\ scroll[i - 1].wake = wake
  /\ scroll[i].kind = "tool_result" /\ scroll[i].body = "hearth" /\ scroll[i].pointer = 0

HearthWasTended ==
  /\ phase = "response" => \E i \in DOMAIN scroll : PacketOfThisWake(i)
  /\ step # "rest" => (phase = "orientation" <=> ~Tended)
  /\ ~Tended => cast.phase \in {"none", "orientation"}

\* What ProviderPhase.run() makes of a Scroll
CastOf(rows, w, ph, ground) ==
  LET omitted == IF ph = "orientation" THEN {} ELSE Omitted(rows, w)
      folded == Folded(rows, w, ph, omitted, ground)
  IN  [phase |-> ph, wake |-> w, rows |-> Len(rows),
       messages |-> Assembled(rows, w, ph, omitted, folded), folded |-> folded]

\* A crossing in flight shows the Scroll as it stands.
CastIsFitted ==
  step \in {"calling", "refused"} =>
    \E ground \in GroundSize :
      /\ cast = CastOf(Rows, wake, phase, ground)
      /\ step = "refused" => ~(TotalBytes(Rows, cast.messages, ground) < RefuseBytes)

\* What the last crossing left out of the tool exchanges may leave still.
AbsentMayLeave ==
  /\ cast.phase \in {"none", "orientation"} => Absent(cast) = {}
  /\ \A i \in Absent(cast) : scroll[i].kind \in {"assistant_tool_call", "tool_result"}
       => i \in Omitted(Rows, wake)

AttentionInv ==
  /\ AttentionTypeOK /\ ScrollTypes /\ WakesFollow /\ CallsAreSettled
  /\ HearthWasTended /\ CastIsFitted /\ AbsentMayLeave

-----------------------------------------------------------------------------
(* What a step may do to the Scroll and the Rack *)

Appended(row) ==
  /\ scroll' = Append(scroll, row) /\ row \in ScrollRow
  /\ row.wake = wake' /\ row.pointer \in 0 .. Len(rack')
  /\ row.kind = "resident" => step' = "rest"
  /\ row.kind = "tool_result" => step \in {"settling", "tending"}

Grows ==
  /\ scroll' = scroll \/ \E row : Appended(row)
  /\ rack' = rack \/ \E job \in Job : rack' = Append(rack, job)
  /\ \/ wake' = wake /\ (step = "rest" => scroll' = scroll /\ step' = "rest")
     \/ wake' = wake + 1 /\ step = "rest" /\ wake' <= MaxWakes

\* A capture that fails leaves a job all the same, one without a projection.
LEMMA CapturedIsAJob ==
  /\ Projected(Sealed(Stored(Created))) \in Job
  /\ \A job \in LeftBehind : job \in Job
  <1>1. Created \in Job /\ Open(Created)
    BY DEF Created, Job, Open
  <1>2. \A job \in Job : /\ [job EXCEPT !.exact = TRUE] \in Job /\ [job EXCEPT !.status = "failed"] \in Job
                         /\ [job EXCEPT !.status = "settled"] \in Job /\ [job EXCEPT !.projected = TRUE] \in Job
    BY DEF Job
  <1>3. \A job \in Job : Stored(job) \in Job /\ OverCeiling(job) \in Job /\ Sealed(job) \in Job /\ Projected(job) \in Job
    BY <1>2 DEF Stored, OverCeiling, Sealed, Projected
  <1> HIDE DEF Job
  <1>4. QED
    BY <1>1, <1>3 DEF LeftBehind

\* The Rack only grows.
LEMMA RackOnlyGrows ==
  ASSUME Capture \/ CaptureFails
  PROVE  \E job \in Job : rack' = Append(rack, job)
  BY CapturedIsAJob DEF Capture, CaptureFails

LEMMA RowIs ==
  ASSUME NEW w \in Nat, NEW kind \in {"user", "resident", "assistant_tool_call", "tool_result"},
         NEW calls \in Seq({"plain", "tend_hearth", "reopen_result"}), NEW call \in Nat,
         NEW body \in {"plain", "hearth"}, NEW pointer \in Nat, NEW size \in Nat
  PROVE  /\ Row(w, kind, calls, call, body, pointer, size) \in ScrollRow
         /\ Row(w, kind, calls, call, body, pointer, size).kind = kind
         /\ Row(w, kind, calls, call, body, pointer, size).wake = w
         /\ Row(w, kind, calls, call, body, pointer, size).calls = calls
         /\ Row(w, kind, calls, call, body, pointer, size).call = call
         /\ Row(w, kind, calls, call, body, pointer, size).body = body
         /\ Row(w, kind, calls, call, body, pointer, size).pointer = pointer
         /\ Row(w, kind, calls, call, body, pointer, size).size = size
  BY DEF Row, ScrollRow

\* Where the calls of a row are settled, the row is CallRow.
LEMMA CallRowIs ==
  ASSUME scroll \in Seq(ScrollRow), NEW c, SettlingCalls(c)
  PROVE  CallRow = c /\ NextCall \in Nat /\ NextCall \in 1 .. Len(scroll[c].calls)
  <1>1. /\ DOMAIN scroll = 1 .. Len(scroll) /\ Len(scroll) \in Nat /\ c \in 1 .. Len(scroll)
        /\ scroll[c] \in ScrollRow
    BY DEF SettlingCalls
  <1>2. \A i \in DOMAIN scroll : IsCall(scroll[i]) => scroll[i].kind # "tool_result"
    BY DEF IsCall
  <1>3. ASSUME NEW i \in DOMAIN scroll, IsCall(scroll[i]),
               \A j \in DOMAIN scroll : j > i => scroll[j].kind = "tool_result"
        PROVE  i = c
    <2>1. i \in Nat /\ c \in Nat
      BY <1>1
    <2>2. ~(i > c) /\ ~(c > i)
      BY <1>1, <1>2, <1>3 DEF SettlingCalls
    <2>3. QED
      BY <2>1, <2>2
  <1>4. CallRow = c
    BY <1>3 DEF CallRow, SettlingCalls
  <1>5. Len(scroll[c].calls) \in Nat
    BY <1>1 DEF ScrollRow
  <1>6. QED
    BY <1>1, <1>4, <1>5 DEF NextCall, SettlingCalls

\* A settled call appends its result.
LEMMA SettleAppends ==
  ASSUME AttentionInv, step = "settling", NEW body \in {"plain", "hearth"}, NEW pointer, NEW size \in Nat,
         Len(rack') \in Nat, pointer \in 0 .. Len(rack'), Settle(body, pointer, size)
  PROVE  \E row : Appended(row) /\ row.kind = "tool_result" /\ ~IsCall(row)
  <1>1. PICK c \in DOMAIN scroll : SettlingCalls(c)
    BY DEF AttentionInv, CallsAreSettled
  <1>2. NextCall \in Nat
    BY <1>1, CallRowIs DEF AttentionInv, ScrollTypes
  <1>3. wake \in Nat /\ pointer \in Nat /\ "tool_result" \in {"user", "resident", "assistant_tool_call", "tool_result"}
    BY DEF AttentionInv, ScrollTypes
  <1>4. <<>> \in Seq({"plain", "tend_hearth", "reopen_result"})
    OBVIOUS
  <1> DEFINE row == Row(wake, "tool_result", <<>>, NextCall, body, pointer, size)
  <1>5. /\ row \in ScrollRow /\ row.kind = "tool_result" /\ row.wake = wake /\ row.pointer = pointer
    <2> DEFINE n == NextCall
               kind == "tool_result"
               none == <<>>
    <2>1. n \in Nat /\ none \in Seq({"plain", "tend_hearth", "reopen_result"})
          /\ kind \in {"user", "resident", "assistant_tool_call", "tool_result"}
      BY <1>2, <1>4
    <2> HIDE DEF n, kind, none
    <2>2. /\ Row(wake, kind, none, n, body, pointer, size) \in ScrollRow
          /\ Row(wake, kind, none, n, body, pointer, size).kind = kind
          /\ Row(wake, kind, none, n, body, pointer, size).wake = wake
          /\ Row(wake, kind, none, n, body, pointer, size).pointer = pointer
      BY <1>3, <2>1 DEF Row, ScrollRow
    <2>3. QED
      BY <2>2 DEF n, kind, none
  <1>6. scroll' = Append(scroll, row) /\ wake' = wake
    BY DEF Settle
  <1> HIDE DEF row
  <1>7. Appended(row) /\ ~IsCall(row)
    BY <1>5, <1>6 DEF Appended, IsCall
  <1>8. QED
    BY <1>5, <1>7

\* A row that an action appends
LEMMA RowAppended ==
  ASSUME NEW row \in ScrollRow, scroll' = Append(scroll, row), row.wake = wake',
         Len(rack') \in Nat, row.pointer = 0,
         row.kind = "resident" => step' = "rest",
         row.kind = "tool_result" => step \in {"settling", "tending"}
  PROVE  \E more : Appended(more)
  <1>1. 0 \in 0 .. Len(rack')
    OBVIOUS
  <1>2. Appended(row)
    BY <1>1 DEF Appended
  <1>3. QED
    BY <1>2

\* Every step adds at most one row to the Scroll and one job to the Rack.
LEMMA StepGrows ==
  ASSUME AttentionInv, [Next]_vars
  PROVE  Grows
  <1>1. /\ scroll \in Seq(ScrollRow) /\ rack \in Seq(Job) /\ wake \in Nat /\ wake \in 0 .. MaxWakes
        /\ Len(scroll) \in Nat /\ Len(rack) \in Nat /\ MaxWakes \in Nat /\ Usual \in Nat /\ Size \subseteq Nat
    BY AttentionAssumption DEF AttentionInv, AttentionTypeOK, ScrollTypes
  <1>2. <<>> \in Seq({"plain", "tend_hearth", "reopen_result"})
        /\ <<"tend_hearth">> \in Seq({"plain", "tend_hearth", "reopen_result"})
    OBVIOUS
  <1>3. ASSUME NEW job \in Job, rack' = Append(rack, job)
        PROVE  Len(rack') = Len(rack) + 1 /\ Len(rack') \in Nat
    BY <1>1, <1>3
  <1>4. CASE UNCHANGED vars
    BY <1>4 DEF vars, fitVars, Grows
  <1>5. CASE \E size \in Size : HumanWake(size)
    <2>1. PICK size \in Size : HumanWake(size)
      BY <1>5
    <2> DEFINE row == Row(wake', "user", <<>>, 0, "plain", 0, size)
    <2>2. wake' = wake + 1 /\ step = "rest" /\ wake' <= MaxWakes /\ rack' = rack /\ scroll' = Append(scroll, row)
      BY <1>1, <2>1 DEF HumanWake, Begin
    <2>3. row \in ScrollRow /\ row.wake = wake' /\ row.pointer = 0 /\ row.kind = "user"
      BY <1>1, <1>2, <2>2 DEF Row, ScrollRow
    <2> HIDE DEF row
    <2>4. \E more : Appended(more)
      BY <1>1, <2>2, <2>3, RowAppended
    <2>5. QED
      BY <2>2, <2>4 DEF Grows
  <1>6. CASE AutonomousWake
    <2>1. wake' = wake + 1 /\ step = "rest" /\ wake' <= MaxWakes /\ rack' = rack /\ scroll' = scroll
      BY <1>1, <1>6 DEF AutonomousWake, Begin
    <2>2. QED
      BY <2>1 DEF Grows
  <1>7. CASE \/ \E ground \in GroundSize : Crossing(ground)
             \/ WakeFails
    <2>1. wake' = wake /\ step # "rest" /\ rack' = rack /\ scroll' = scroll
      BY <1>7 DEF Crossing, WakeFails
    <2>2. QED
      BY <2>1 DEF Grows
  <1>8. CASE HearthAction
    <2> DEFINE row == Row(wake, "assistant_tool_call", <<"tend_hearth">>, 0, "plain", 0, Usual)
    <2>1. wake' = wake /\ step = "calling" /\ rack' = rack /\ scroll' = Append(scroll, row)
      BY <1>8 DEF HearthAction
    <2>2. row \in ScrollRow /\ row.wake = wake /\ row.pointer = 0 /\ row.kind = "assistant_tool_call"
      BY <1>1, <1>2 DEF Row, ScrollRow
    <2> HIDE DEF row
    <2>3. \E more : Appended(more)
      BY <1>1, <2>1, <2>2, RowAppended
    <2>4. QED
      BY <2>1, <2>3 DEF Grows
  <1>9. CASE HearthReturn
    <2> DEFINE row == Row(wake, "tool_result", <<>>, 1, "hearth", 0, Usual)
    <2>1. wake' = wake /\ step = "tending" /\ rack' = rack /\ scroll' = Append(scroll, row)
      BY <1>9 DEF HearthReturn
    <2>2. row \in ScrollRow /\ row.wake = wake /\ row.pointer = 0 /\ row.kind = "tool_result"
      BY <1>1, <1>2 DEF Row, ScrollRow
    <2> HIDE DEF row
    <2>3. \E more : Appended(more)
      BY <1>1, <2>1, <2>2, RowAppended
    <2>4. QED
      BY <2>1, <2>3 DEF Grows
  <1>10. CASE Speak
    <2> DEFINE row == Row(wake, "resident", <<>>, 0, "plain", 0, Usual)
    <2>1. wake' = wake /\ step = "calling" /\ step' = "rest" /\ rack' = rack /\ scroll' = Append(scroll, row)
      BY <1>10 DEF Speak
    <2>2. row \in ScrollRow /\ row.wake = wake /\ row.pointer = 0 /\ row.kind = "resident"
      BY <1>1, <1>2 DEF Row, ScrollRow
    <2> HIDE DEF row
    <2>3. \E more : Appended(more)
      BY <1>1, <2>1, <2>2, RowAppended
    <2>4. QED
      BY <2>1, <2>3 DEF Grows
  <1>11. CASE \E calls \in CallList : CallTools(calls)
    <2>1. PICK calls \in CallList : CallTools(calls)
      BY <1>11
    <2> DEFINE row == Row(wake, "assistant_tool_call", calls, 0, "plain", 0, 0)
    <2>2. wake' = wake /\ step = "calling" /\ rack' = rack /\ scroll' = Append(scroll, row)
      BY <2>1 DEF CallTools
    <2>3. calls \in Seq({"plain", "tend_hearth", "reopen_result"})
      BY AttentionAssumption
    <2>4. row \in ScrollRow /\ row.wake = wake /\ row.pointer = 0 /\ row.kind = "assistant_tool_call"
      BY <1>1, <2>3 DEF Row, ScrollRow
    <2> HIDE DEF row
    <2>5. \E more : Appended(more)
      BY <1>1, <2>2, <2>4, RowAppended
    <2>6. QED
      BY <2>2, <2>5 DEF Grows
  <1>12. CASE ResultKept
    <2>1. PICK job \in Job : rack' = Append(rack, job)
      BY <1>12, RackOnlyGrows DEF ResultKept
    <2> DEFINE pointer == IF Tool = "reopen_result" THEN 0 ELSE NextPointer
    <2>2. step = "settling" /\ Settle("plain", pointer, Usual) /\ wake' = wake
      BY <1>12 DEF ResultKept, Settle
    <2>3. pointer \in 0 .. Len(rack')
      BY <1>1, <1>3, <2>1 DEF NextPointer
    <2> HIDE DEF pointer
    <2>4. \E row : Appended(row) /\ row.kind = "tool_result" /\ ~IsCall(row)
      BY <1>1, <1>3, <2>1, <2>2, <2>3, SettleAppends
    <2>5. QED
      BY <2>1, <2>2, <2>4 DEF Grows
  <1>13. CASE ResultUnkept \/ HearthReread
    <2>1. PICK job \in Job : rack' = Append(rack, job)
      BY <1>13, RackOnlyGrows DEF ResultUnkept, HearthReread
    <2>2. PICK body \in {"plain", "hearth"} : step = "settling" /\ Settle(body, 0, Usual) /\ wake' = wake
      BY <1>13 DEF ResultUnkept, HearthReread, Settle
    <2>3. 0 \in 0 .. Len(rack')
      BY <1>3, <2>1
    <2>4. \E row : Appended(row) /\ row.kind = "tool_result" /\ ~IsCall(row)
      BY <1>1, <1>3, <2>1, <2>2, <2>3, SettleAppends
    <2>5. QED
      BY <2>1, <2>2, <2>4 DEF Grows
  <1>14. CASE \E pointer \in 0 .. Len(rack), size \in Size : ResultReopened(pointer, size)
    <2>1. PICK pointer \in 0 .. Len(rack), size \in Size : ResultReopened(pointer, size)
      BY <1>14
    <2> DEFINE weight == IF Verified(pointer) THEN size ELSE 0
    <2>2. step = "settling" /\ Settle("plain", 0, weight) /\ wake' = wake /\ rack' = rack
      BY <2>1 DEF ResultReopened, Settle
    <2>3. weight \in Nat /\ 0 \in 0 .. Len(rack')
      BY <1>1, <2>2
    <2> HIDE DEF weight
    <2>4. \E row : Appended(row) /\ row.kind = "tool_result" /\ ~IsCall(row)
      BY <1>1, <2>2, <2>3, SettleAppends
    <2>5. QED
      BY <2>2, <2>4 DEF Grows
  <1>15. CASE CrashInCapture
    <2>1. PICK job \in Job : rack' = Append(rack, job)
      BY <1>15, RackOnlyGrows DEF CrashInCapture
    <2>2. step = "settling" /\ wake' = wake /\ scroll' = scroll
      BY <1>15 DEF CrashInCapture
    <2>3. QED
      BY <2>1, <2>2 DEF Grows
  <1>16. QED
    BY <1>4, <1>5, <1>6, <1>7, <1>8, <1>9, <1>10, <1>11, <1>12, <1>13, <1>14, <1>15 DEF Next

\* What was there stays as it was, and what is new was appended.
LEMMA WhatStays ==
  ASSUME AttentionInv, Grows
  PROVE  /\ scroll \in Seq(ScrollRow) /\ scroll' \in Seq(ScrollRow) /\ rack' \in Seq(Job)
         /\ DOMAIN scroll = 1 .. Len(scroll) /\ DOMAIN scroll' = 1 .. Len(scroll')
         /\ Len(scroll) \in Nat /\ Len(scroll') \in Nat /\ Len(scroll) <= Len(scroll')
         /\ \A i \in DOMAIN scroll : i \in DOMAIN scroll' /\ scroll'[i] = scroll[i]
         /\ \A i \in DOMAIN scroll' : i \in DOMAIN scroll \/ (i = Len(scroll) + 1 /\ Appended(scroll'[i]))
         /\ DOMAIN rack = 1 .. Len(rack) /\ DOMAIN rack' = 1 .. Len(rack')
         /\ Len(rack) \in Nat /\ Len(rack') \in Nat /\ Len(rack) <= Len(rack')
         /\ \A i \in DOMAIN rack : i \in DOMAIN rack' /\ rack'[i] = rack[i]
  <1>1. scroll \in Seq(ScrollRow) /\ rack \in Seq(Job)
    BY DEF AttentionInv, ScrollTypes
  <1>2. /\ DOMAIN scroll = 1 .. Len(scroll) /\ Len(scroll) \in Nat
        /\ DOMAIN rack = 1 .. Len(rack) /\ Len(rack) \in Nat
    BY <1>1
  <1>3. /\ scroll' \in Seq(ScrollRow) /\ DOMAIN scroll' = 1 .. Len(scroll')
        /\ Len(scroll') \in Nat /\ Len(scroll) <= Len(scroll')
        /\ \A i \in DOMAIN scroll : i \in DOMAIN scroll' /\ scroll'[i] = scroll[i]
        /\ \A i \in DOMAIN scroll' : i \in DOMAIN scroll \/ (i = Len(scroll) + 1 /\ Appended(scroll'[i]))
    <2>1. CASE scroll' = scroll
      BY <1>1, <1>2, <2>1
    <2>2. CASE \E row : Appended(row)
      <3>1. PICK row : Appended(row)
        BY <2>2
      <3>2. scroll' = Append(scroll, row) /\ row \in ScrollRow
        BY <3>1 DEF Appended
      <3>3. /\ Append(scroll, row) \in Seq(ScrollRow) /\ Len(Append(scroll, row)) = Len(scroll) + 1
            /\ \A i \in 1 .. Len(scroll) : Append(scroll, row)[i] = scroll[i]
            /\ Append(scroll, row)[Len(scroll) + 1] = row
        BY <1>1, <3>2, AppendProperties
      <3>4. DOMAIN scroll' = 1 .. Len(scroll) + 1 /\ Len(scroll') = Len(scroll) + 1
        BY <3>2, <3>3
      <3>5. \A i \in DOMAIN scroll : i \in DOMAIN scroll' /\ scroll'[i] = scroll[i]
        BY <1>2, <3>2, <3>3, <3>4
      <3>6. scroll'[Len(scroll) + 1] = row
        BY <3>2, <3>3
      <3>7. \A i \in DOMAIN scroll' : i \in DOMAIN scroll \/ i = Len(scroll) + 1
        BY <1>2, <3>4
      <3> QED
        BY <1>2, <3>1, <3>2, <3>3, <3>4, <3>5, <3>6, <3>7
    <2>3. QED
      BY <2>1, <2>2 DEF Grows
  <1>4. /\ rack' \in Seq(Job) /\ DOMAIN rack' = 1 .. Len(rack') /\ Len(rack') \in Nat /\ Len(rack) <= Len(rack')
        /\ \A i \in DOMAIN rack : i \in DOMAIN rack' /\ rack'[i] = rack[i]
    <2>1. CASE rack' = rack
      BY <1>1, <1>2, <2>1
    <2>2. CASE \E job \in Job : rack' = Append(rack, job)
      <3>1. PICK job \in Job : rack' = Append(rack, job)
        BY <2>2
      <3>2. /\ Append(rack, job) \in Seq(Job) /\ Len(Append(rack, job)) = Len(rack) + 1
            /\ \A i \in 1 .. Len(rack) : Append(rack, job)[i] = rack[i]
        BY <1>1, AppendProperties
      <3> QED
        BY <1>2, <3>1, <3>2
    <2>3. QED
      BY <2>1, <2>2 DEF Grows
  <1>5. QED
    BY <1>1, <1>2, <1>3, <1>4

\* A crossing is what changes the cast, and nothing else.
LEMMA CastChanges ==
  ASSUME [Next]_vars
  PROVE  \/ cast' = cast /\ (step' \in {"calling", "refused"} => UNCHANGED vars)
         \/ \E ground \in GroundSize : Crossing(ground)
  <1>1. CASE UNCHANGED vars
    BY <1>1 DEF vars, fitVars
  <1>2. CASE (\E size \in Size : HumanWake(size)) \/ AutonomousWake
    BY <1>2 DEF HumanWake, AutonomousWake, Begin
  <1>3. CASE HearthAction \/ HearthReturn \/ Speak \/ WakeFails \/ CrashInCapture
    BY <1>3 DEF HearthAction, HearthReturn, Speak, WakeFails, CrashInCapture
  <1>4. CASE \E calls \in CallList : CallTools(calls)
    BY <1>4 DEF CallTools
  <1>5. ASSUME NEW body, NEW pointer, NEW size, step = "settling", Settle(body, pointer, size)
        PROVE  cast' = cast /\ step' \notin {"calling", "refused"}
    BY <1>5 DEF Settle
  <1>6. CASE \/ ResultKept \/ ResultUnkept \/ HearthReread
             \/ \E pointer \in 0 .. Len(rack), size \in Size : ResultReopened(pointer, size)
    BY <1>5, <1>6 DEF ResultKept, ResultUnkept, HearthReread, ResultReopened
  <1>7. QED
    BY <1>1, <1>2, <1>3, <1>4, <1>6 DEF Next

\* The steps and phases, and the counters within their bounds
LEMMA CountersStay ==
  ASSUME AttentionInv, [Next]_vars
  PROVE  /\ round' \in 0 .. RoundLimit /\ faults' \in 0 .. MaxFaults
         /\ step' \in {"rest", "fitting", "calling", "refused", "tending", "settling"}
         /\ phase' \in {"orientation", "response", "ordinary"}
  <1>1. /\ round \in 0 .. RoundLimit /\ faults \in 0 .. MaxFaults
        /\ step \in {"rest", "fitting", "calling", "refused", "tending", "settling"}
        /\ phase \in {"orientation", "response", "ordinary"}
        /\ RoundLimit \in Nat /\ MaxFaults \in Nat /\ round \in Nat /\ faults \in Nat
    BY AttentionAssumption DEF AttentionInv, AttentionTypeOK
  <1>2. ASSUME NEW body, NEW pointer, NEW size, step = "settling", Settle(body, pointer, size)
        PROVE  /\ round' \in 0 .. RoundLimit /\ phase' = phase
               /\ step' \in {"rest", "fitting", "calling", "refused", "tending", "settling"}
    BY <1>1, <1>2 DEF Settle
  <1>3. CASE UNCHANGED vars
    BY <1>1, <1>3 DEF vars, fitVars
  <1>4. CASE (\E size \in Size : HumanWake(size)) \/ AutonomousWake
    BY <1>1, <1>4 DEF HumanWake, AutonomousWake, Begin, FirstPhase
  <1>5. CASE HearthAction \/ HearthReturn \/ Speak
    BY <1>1, <1>5 DEF HearthAction, HearthReturn, Speak
  <1>6. CASE WakeFails \/ CrashInCapture
    BY <1>1, <1>6 DEF WakeFails, CrashInCapture
  <1>7. CASE (\E calls \in CallList : CallTools(calls)) \/ (\E ground \in GroundSize : Crossing(ground))
    BY <1>1, <1>7 DEF CallTools, Crossing
  <1>8. CASE \/ ResultKept \/ ResultUnkept \/ HearthReread
             \/ \E pointer \in 0 .. Len(rack), size \in Size : ResultReopened(pointer, size)
    <2>1. PICK body, pointer, size : step = "settling" /\ Settle(body, pointer, size)
      BY <1>8 DEF ResultKept, ResultUnkept, HearthReread, ResultReopened
    <2>2. faults' \in 0 .. MaxFaults
      BY <1>1, <1>8 DEF ResultKept, ResultUnkept, HearthReread, ResultReopened
    <2>3. /\ round' \in 0 .. RoundLimit /\ phase' = phase
          /\ step' \in {"rest", "fitting", "calling", "refused", "tending", "settling"}
      BY <1>2, <2>1
    <2>4. QED
      BY <1>1, <2>2, <2>3
  <1>9. QED
    BY <1>3, <1>4, <1>5, <1>6, <1>7, <1>8 DEF Next

\* Every step keeps the types.
LEMMA TypesStay ==
  ASSUME AttentionInv, [Next]_vars
  PROVE  AttentionTypeOK' /\ ScrollTypes'
  <1>1. Grows
    BY StepGrows
  <1>2. /\ wake \in Nat /\ wake \in 0 .. MaxWakes /\ MaxWakes \in Nat /\ cast.rows \in 0 .. Len(scroll)
        /\ \A i \in DOMAIN scroll : scroll[i].wake \in 1 .. wake /\ scroll[i].pointer \in 0 .. Len(rack)
        /\ step # "rest" => wake > 0
    BY AttentionAssumption DEF AttentionInv, AttentionTypeOK, ScrollTypes
  <1>3. /\ wake' \in Nat /\ wake <= wake' /\ wake' \in 0 .. MaxWakes
        /\ step' # "rest" => wake' > 0
        /\ scroll' # scroll => wake' > 0
    BY <1>1, <1>2 DEF Grows
  <1>4. cast'.rows \in 0 .. Len(scroll')
    <2>1. cast'.rows \in 0 .. Len(scroll)
      <3>1. CASE cast' = cast
        BY <1>2, <3>1
      <3>2. CASE \E ground \in GroundSize : Crossing(ground)
        <4>1. cast'.rows = Len(scroll)
          BY <3>2 DEF Crossing
        <4>2. Len(scroll) \in 0 .. Len(scroll)
          BY <1>1, WhatStays
        <4>3. QED
          BY <4>1, <4>2
      <3>3. QED
        BY <3>1, <3>2, CastChanges
    <2>2. Len(scroll) \in Nat /\ Len(scroll') \in Nat /\ Len(scroll) <= Len(scroll')
      BY <1>1, WhatStays
    <2>3. QED
      BY <2>1, <2>2
  <1>5. ASSUME NEW i \in DOMAIN scroll'
        PROVE  scroll'[i].wake \in 1 .. wake' /\ scroll'[i].pointer \in 0 .. Len(rack')
    <2>1. Len(rack) \in Nat /\ Len(rack') \in Nat /\ Len(rack) <= Len(rack')
      BY <1>1, WhatStays
    <2>2. CASE i \in DOMAIN scroll
      <3>1. scroll'[i] = scroll[i]
        BY <1>1, <2>2, WhatStays
      <3>2. scroll[i].wake \in 1 .. wake /\ scroll[i].pointer \in 0 .. Len(rack)
        BY <1>2, <2>2
      <3>3. QED
        BY <1>2, <1>3, <2>1, <3>1, <3>2
    <2>3. CASE i \notin DOMAIN scroll
      <3>1. Appended(scroll'[i])
        BY <1>1, <1>5, <2>3, WhatStays
      <3>2. scroll' # scroll
        BY <1>5, <2>3
      <3>3. scroll'[i].wake = wake' /\ scroll'[i].pointer \in 0 .. Len(rack')
        BY <3>1 DEF Appended
      <3>4. QED
        BY <1>3, <3>2, <3>3
    <2>4. QED
      BY <2>2, <2>3
  <1>6. AttentionTypeOK'
    <2>1. rack' \in Seq(Job)
      BY <1>1, WhatStays
    <2>2. QED
      BY <1>3, <1>5, <2>1, CountersStay DEF AttentionTypeOK
  <1>7. ScrollTypes'
    <2>1. scroll' \in Seq(ScrollRow) /\ rack' \in Seq(Job)
      BY <1>1, WhatStays
    <2>2. QED
      BY <1>3, <1>4, <2>1 DEF ScrollTypes
  <1>8. QED
    BY <1>6, <1>7

\* Rows are appended by the wake under way, and its last words end it.
LEMMA WakesFollowStays ==
  ASSUME AttentionInv, [Next]_vars
  PROVE  WakesFollow'
  <1>1. Grows
    BY StepGrows
  <1>2. /\ wake \in Nat /\ \A i \in DOMAIN scroll : scroll[i].wake \in 1 .. wake /\ scroll[i].wake \in Nat
    BY DEF AttentionInv, AttentionTypeOK, ScrollTypes
  <1>3. /\ \A i, j \in DOMAIN scroll : i <= j => scroll[i].wake <= scroll[j].wake
        /\ \A i \in DOMAIN scroll : scroll[i].kind = "resident" /\ scroll[i].wake = wake => step = "rest"
    BY DEF AttentionInv, WakesFollow
  <1>4. /\ wake' = wake \/ wake' = wake + 1
        /\ wake' = wake /\ step = "rest" => step' = "rest"
    BY <1>1, <1>2 DEF Grows
  <1>5. wake' \in Nat /\ wake <= wake'
    BY <1>2, <1>4
  <1>6. ASSUME NEW i \in DOMAIN scroll', NEW j \in DOMAIN scroll', i <= j
        PROVE  scroll'[i].wake <= scroll'[j].wake
    <2>1. /\ DOMAIN scroll = 1 .. Len(scroll) /\ DOMAIN scroll' = 1 .. Len(scroll')
          /\ Len(scroll) \in Nat /\ Len(scroll') \in Nat
      BY <1>1, WhatStays
    <2>2. CASE j \in DOMAIN scroll
      <3>1. i \in DOMAIN scroll
        BY <1>6, <2>1, <2>2
      <3>2. scroll'[i] = scroll[i] /\ scroll'[j] = scroll[j]
        BY <1>1, <2>2, <3>1, WhatStays
      <3>3. QED
        BY <1>3, <1>6, <2>2, <3>1, <3>2
    <2>3. CASE j \notin DOMAIN scroll
      <3>1. scroll'[j].wake = wake'
        BY <1>1, <2>3, WhatStays DEF Appended
      <3>2. CASE i \in DOMAIN scroll
        <4>1. scroll'[i] = scroll[i]
          BY <1>1, <3>2, WhatStays
        <4>2. scroll[i].wake \in Nat /\ scroll[i].wake <= wake
          BY <1>2, <3>2
        <4>3. QED
          BY <1>2, <1>5, <3>1, <4>1, <4>2
      <3>3. CASE i \notin DOMAIN scroll
        <4>1. scroll'[i].wake = wake'
          BY <1>1, <3>3, WhatStays DEF Appended
        <4>2. QED
          BY <1>5, <3>1, <4>1
      <3>4. QED
        BY <3>2, <3>3
    <2>4. QED
      BY <2>2, <2>3
  <1>7. ASSUME NEW i \in DOMAIN scroll', scroll'[i].kind = "resident", scroll'[i].wake = wake'
        PROVE  step' = "rest"
    <2>1. CASE i \in DOMAIN scroll
      <3>1. scroll'[i] = scroll[i]
        BY <1>1, <2>1, WhatStays
      <3>2. scroll[i].wake <= wake /\ scroll[i].wake \in Nat
        BY <1>2, <2>1
      <3>3. wake' = wake
        BY <1>2, <1>4, <1>7, <3>1, <3>2
      <3>4. QED
        BY <1>3, <1>4, <1>7, <2>1, <3>1, <3>3
    <2>2. CASE i \notin DOMAIN scroll
      BY <1>1, <1>7, <2>2, WhatStays DEF Appended
    <2>3. QED
      BY <2>1, <2>2
  <1>8. QED
    BY <1>6, <1>7 DEF WakesFollow

\* While calls wait after a result was appended, they are those of the same row.
LEMMA SettlingStays ==
  ASSUME AttentionInv, Grows, step = "settling", NEW body, NEW pointer, NEW size,
         Settle(body, pointer, size), step' = "settling"
  PROVE  \E c \in DOMAIN scroll' : SettlingCalls(c)'
  <1>1. PICK c \in DOMAIN scroll : SettlingCalls(c)
    BY DEF AttentionInv, CallsAreSettled
  <1> DEFINE row == Row(wake, "tool_result", <<>>, NextCall, body, pointer, size)
  <1>2. /\ scroll \in Seq(ScrollRow) /\ DOMAIN scroll = 1 .. Len(scroll) /\ Len(scroll) \in Nat
        /\ DOMAIN scroll' = 1 .. Len(scroll')
        /\ \A i \in DOMAIN scroll : i \in DOMAIN scroll' /\ scroll'[i] = scroll[i]
        /\ \A i \in DOMAIN scroll' : i \in DOMAIN scroll \/ i = Len(scroll) + 1
    BY WhatStays
  <1>3. scroll' = Append(scroll, row) /\ row.kind = "tool_result"
    BY DEF Settle, Row
  <1> HIDE DEF row
  <1>4. Len(scroll') = Len(scroll) + 1 /\ scroll'[Len(scroll) + 1] = row
    BY <1>2, <1>3
  <1>5. CallRow = c /\ NextCall \in Nat
    BY <1>1, CallRowIs DEF AttentionInv, ScrollTypes
  <1>6. NextCall < Len(scroll[c].calls)
    BY <1>5 DEF Settle
  <1>7. Len(scroll') - c < Len(scroll'[c].calls)
    <2>1. NextCall = Len(scroll') - c
      BY <1>1, <1>2, <1>4, <1>5 DEF NextCall
    <2>2. scroll'[c] = scroll[c]
      BY <1>1, <1>2
    <2>3. QED
      BY <1>6, <2>1, <2>2
  <1>8. \A j \in DOMAIN scroll' : j > c => scroll'[j].kind = "tool_result"
    BY <1>1, <1>2, <1>3, <1>4 DEF SettlingCalls
  <1>9. c \in DOMAIN scroll' /\ IsCall(scroll'[c])
    BY <1>1, <1>2 DEF SettlingCalls
  <1>10. SettlingCalls(c)'
    BY <1>7, <1>8, <1>9 DEF SettlingCalls
  <1>11. QED
    BY <1>9, <1>10

\* runResidentRounds() settles the calls of a row one after the other, and nothing comes between.
LEMMA CallsStaySettled ==
  ASSUME AttentionInv, [Next]_vars
  PROVE  CallsAreSettled'
  <1>1. Grows /\ scroll \in Seq(ScrollRow)
    BY StepGrows DEF AttentionInv, ScrollTypes
  <1>2. CASE UNCHANGED vars
    <2>1. scroll' = scroll /\ wake' = wake /\ step' = step /\ phase' = phase
      BY <1>2 DEF vars, fitVars
    <2>2. QED
      BY <2>1 DEF AttentionInv, CallsAreSettled, SettlingCalls
  <1>3. CASE step' \notin {"settling", "tending"}
    BY <1>3 DEF CallsAreSettled
  <1>4. CASE HearthAction
    <2> DEFINE row == Row(wake, "assistant_tool_call", <<"tend_hearth">>, 0, "plain", 0, Usual)
    <2>1. scroll' = Append(scroll, row) /\ wake' = wake /\ step' = "tending" /\ phase' = "orientation"
      BY <1>4 DEF HearthAction
    <2>2. row.wake = wake /\ IsCall(row) /\ row.calls = <<"tend_hearth">>
      BY DEF Row, IsCall
    <2> HIDE DEF row
    <2>3. scroll' # <<>> /\ scroll'[Len(scroll')] = row
      BY <1>1, <2>1
    <2>4. QED
      BY <2>1, <2>2, <2>3 DEF CallsAreSettled
  <1>5. CASE \E calls \in CallList : CallTools(calls)
    <2>1. PICK calls \in CallList : CallTools(calls)
      BY <1>5
    <2> DEFINE row == Row(wake, "assistant_tool_call", calls, 0, "plain", 0, 0)
    <2>2. scroll' = Append(scroll, row) /\ step' = "settling"
      BY <2>1 DEF CallTools
    <2>3. IsCall(row) /\ row.calls = calls
      BY DEF Row, IsCall
    <2> HIDE DEF row
    <2>4. /\ Len(scroll') \in Nat /\ Len(scroll') \in DOMAIN scroll' /\ scroll'[Len(scroll')] = row
          /\ DOMAIN scroll' = 1 .. Len(scroll')
      BY <1>1, <2>2
    <2>5. Len(calls) \in Nat /\ Len(calls) > 0
      <3>1. calls \in Seq({"plain", "tend_hearth", "reopen_result"}) /\ calls # <<>>
        BY AttentionAssumption
      <3>2. QED
        BY <3>1
    <2> PICK c \in Nat : c = Len(scroll')
      BY <2>4
    <2>6. c \in DOMAIN scroll' /\ IsCall(scroll'[c])
      BY <2>3, <2>4
    <2>7. \A j \in DOMAIN scroll' : ~(j > c)
      BY <2>4
    <2>8. Len(scroll') - c < Len(scroll'[c].calls)
      BY <2>3, <2>4, <2>5
    <2>9. SettlingCalls(c)'
      BY <2>6, <2>7, <2>8 DEF SettlingCalls
    <2>10. QED
      BY <2>2, <2>6, <2>9 DEF CallsAreSettled
  <1>6. CASE \/ ResultKept \/ ResultUnkept \/ HearthReread
             \/ \E pointer \in 0 .. Len(rack), size \in Size : ResultReopened(pointer, size)
    <2>1. PICK body, pointer, size : step = "settling" /\ Settle(body, pointer, size)
      BY <1>6 DEF ResultKept, ResultUnkept, HearthReread, ResultReopened
    <2>2. step' # "tending"
      BY <2>1 DEF Settle
    <2>3. step' = "settling" => \E c \in DOMAIN scroll' : SettlingCalls(c)'
      BY <1>1, <2>1, SettlingStays
    <2>4. QED
      BY <2>2, <2>3 DEF CallsAreSettled
  <1>7. CASE \/ (\E size \in Size : HumanWake(size)) \/ AutonomousWake \/ HearthReturn \/ Speak
             \/ WakeFails \/ CrashInCapture \/ \E ground \in GroundSize : Crossing(ground)
    <2>1. step' \notin {"settling", "tending"}
      BY <1>7 DEF HumanWake, AutonomousWake, Begin, HearthReturn, Speak, WakeFails, CrashInCapture, Crossing
    <2>2. QED
      BY <1>3, <2>1
  <1>8. QED
    BY <1>2, <1>4, <1>5, <1>6, <1>7 DEF Next

\* Whether the Hearth was tended changes only by a packet.
LEMMA TendedStays ==
  ASSUME AttentionInv, Grows
  PROVE  /\ Tended => Tended'
         /\ Tended' => Tended \/ \E row : Appended(row) /\ scroll' # scroll /\ scroll'[Len(scroll')] = row
                                          /\ row.body = "hearth"
  <1>1. Tended => Tended'
    BY WhatStays DEF Tended
  <1>2. ASSUME Tended', ~Tended
        PROVE  \E row : Appended(row) /\ scroll' # scroll /\ scroll'[Len(scroll')] = row /\ row.body = "hearth"
    <2>1. PICK i \in DOMAIN scroll' : scroll'[i].body = "hearth"
      BY <1>2 DEF Tended
    <2>2. i \notin DOMAIN scroll
      BY <1>2, <2>1, WhatStays DEF Tended
    <2>3. i = Len(scroll) + 1 /\ Appended(scroll'[i])
      BY <2>1, <2>2, WhatStays
    <2>4. i = Len(scroll')
      BY <2>1, <2>2, WhatStays
    <2>5. scroll' # scroll
      BY <2>1, <2>2
    <2>6. QED
      BY <2>1, <2>3, <2>4, <2>5
  <1>3. QED
    BY <1>1, <1>2

\* The packet that was returned in a wake stays where it is.
LEMMA PacketStays ==
  ASSUME AttentionInv, Grows, wake' = wake, NEW i \in DOMAIN scroll, PacketOfThisWake(i)
  PROVE  i \in DOMAIN scroll' /\ PacketOfThisWake(i)'
  <1>1. /\ i \in DOMAIN scroll' /\ scroll'[i] = scroll[i]
        /\ i - 1 \in DOMAIN scroll' /\ scroll'[i - 1] = scroll[i - 1]
    BY WhatStays DEF PacketOfThisWake
  <1>2. QED
    BY <1>1 DEF PacketOfThisWake

\* Only the first turn of a lifespan is an orientation, and the packet it returned stays in its response.
LEMMA HearthStaysTended ==
  ASSUME AttentionInv, [Next]_vars
  PROVE  HearthWasTended'
  <1>1. Grows /\ scroll \in Seq(ScrollRow)
    BY StepGrows DEF AttentionInv, ScrollTypes
  <1>2. /\ phase = "response" => \E i \in DOMAIN scroll : PacketOfThisWake(i)
        /\ step # "rest" => (phase = "orientation" <=> ~Tended)
        /\ ~Tended => cast.phase \in {"none", "orientation"}
        /\ phase \in {"orientation", "response", "ordinary"}
    BY DEF AttentionInv, HearthWasTended, AttentionTypeOK
  <1>3. wake' = wake /\ phase' = phase => (phase' = "response" => \E i \in DOMAIN scroll' : PacketOfThisWake(i)')
    BY <1>1, <1>2, PacketStays
  <1>4. cast' = cast => (~Tended' => cast'.phase \in {"none", "orientation"})
    BY <1>1, <1>2, TendedStays
  <1>5. CASE UNCHANGED vars
    <2>1. scroll' = scroll /\ wake' = wake /\ step' = step /\ phase' = phase /\ cast' = cast
      BY <1>5 DEF vars, fitVars
    <2>2. Tended' = Tended
      BY <2>1 DEF Tended
    <2>3. QED
      BY <1>2, <1>3, <1>4, <2>1, <2>2 DEF HearthWasTended
  <1>6. CASE (\E size \in Size : HumanWake(size)) \/ AutonomousWake
    <2>1. cast' = cast /\ phase' = FirstPhase
      BY <1>6 DEF HumanWake, AutonomousWake, Begin
    <2>2. phase' = (IF Tended THEN "ordinary" ELSE "orientation")
      BY <2>1 DEF FirstPhase
    <2>3. Tended' => Tended
      <3>1. CASE AutonomousWake
        BY <3>1 DEF AutonomousWake, Tended
      <3>2. CASE \E size \in Size : HumanWake(size)
        <4>1. PICK size \in Size : scroll' = Append(scroll, Row(wake', "user", <<>>, 0, "plain", 0, size))
          BY <3>2 DEF HumanWake
        <4> DEFINE row == Row(wake', "user", <<>>, 0, "plain", 0, size)
        <4>2. row.body = "plain"
          BY DEF Row
        <4> HIDE DEF row
        <4>3. scroll'[Len(scroll')] = row
          BY <1>1, <4>1 DEF row
        <4>4. QED
          BY <1>1, <4>2, <4>3, TendedStays
      <3>3. QED
        BY <1>6, <3>1, <3>2
    <2>4. Tended => Tended'
      BY <1>1, TendedStays
    <2>5. QED
      BY <1>4, <2>1, <2>2, <2>3, <2>4 DEF HearthWasTended
  <1>7. CASE HearthReturn
    <2> DEFINE row == Row(wake, "tool_result", <<>>, 1, "hearth", 0, Usual)
    <2>1. /\ scroll' = Append(scroll, row) /\ wake' = wake /\ step = "tending"
          /\ phase' = "response" /\ cast' = cast
      BY <1>7 DEF HearthReturn
    <2>2. row.kind = "tool_result" /\ row.body = "hearth" /\ row.pointer = 0
      BY DEF Row
    <2>3. PICK n \in Nat : n = Len(scroll)
      BY <1>1
    <2> HIDE DEF row
    <2>4. n + 1 \in DOMAIN scroll' /\ scroll'[n + 1] = row /\ n + 1 - 1 = n
      BY <1>1, <2>1, <2>3
    <2>5. /\ n \in DOMAIN scroll /\ IsCall(scroll[n]) /\ scroll[n].wake = wake
      BY <1>1, <2>1, <2>3 DEF AttentionInv, CallsAreSettled
    <2>6. n \in DOMAIN scroll' /\ scroll'[n] = scroll[n]
      BY <1>1, <2>5, WhatStays
    <2>7. PacketOfThisWake(n + 1)'
      BY <2>1, <2>2, <2>4, <2>5, <2>6 DEF PacketOfThisWake
    <2>8. Tended'
      BY <2>2, <2>4 DEF Tended
    <2>9. QED
      BY <1>4, <2>1, <2>4, <2>7, <2>8 DEF HearthWasTended
  <1>8. CASE \E ground \in GroundSize : Crossing(ground)
    <2>1. /\ step = "fitting" /\ cast'.phase = phase /\ scroll' = scroll /\ phase' = phase /\ wake' = wake
      BY <1>8 DEF Crossing
    <2>2. Tended' = Tended
      BY <2>1 DEF Tended
    <2>3. QED
      BY <1>2, <1>3, <2>1, <2>2 DEF HearthWasTended
  <1>9. CASE HearthAction \/ Speak \/ WakeFails \/ CrashInCapture
             \/ ResultKept \/ ResultUnkept \/ HearthReread
             \/ (\E calls \in CallList : CallTools(calls))
             \/ \E pointer \in 0 .. Len(rack), size \in Size : ResultReopened(pointer, size)
    <2>1. wake' = wake /\ phase' = phase /\ cast' = cast /\ step # "rest"
      BY <1>9 DEF HearthAction, Speak, WakeFails, CrashInCapture, ResultKept, ResultUnkept, HearthReread,
                  CallTools, ResultReopened, Settle
    <2>2. Tended' => Tended
      <3>1. CASE HearthReread
        BY <3>1 DEF HearthReread
      <3>2. CASE WakeFails \/ CrashInCapture
        BY <3>2 DEF WakeFails, CrashInCapture, Tended
      <3>3. CASE HearthAction \/ Speak \/ ResultKept \/ ResultUnkept
             \/ (\E calls \in CallList : CallTools(calls))
             \/ \E pointer \in 0 .. Len(rack), size \in Size : ResultReopened(pointer, size)
        <4>1. \E kind, calls, call, pointer, size :
                scroll' = Append(scroll, Row(wake, kind, calls, call, "plain", pointer, size))
          BY <3>3 DEF HearthAction, Speak, ResultKept, ResultUnkept, CallTools, ResultReopened, Settle
        <4>2. PICK row : scroll' = Append(scroll, row) /\ row.body = "plain"
          BY <4>1 DEF Row
        <4>3. scroll'[Len(scroll')] = row
          BY <1>1, <4>2
        <4>4. QED
          BY <1>1, <4>2, <4>3, TendedStays
      <3>4. QED
        BY <1>9, <3>1, <3>2, <3>3
    <2>3. Tended => Tended'
      BY <1>1, TendedStays
    <2>4. QED
      BY <1>2, <1>3, <1>4, <2>1, <2>2, <2>3 DEF HearthWasTended
  <1>10. QED
    BY <1>5, <1>6, <1>7, <1>8, <1>9 DEF Next

\* Only a crossing leads to the steps in which a cast is in flight.
LEMMA CastStaysFitted ==
  ASSUME AttentionInv, [Next]_vars
  PROVE  CastIsFitted'
  <1>1. CASE UNCHANGED vars
    <2>1. scroll' = scroll /\ rack' = rack /\ wake' = wake /\ step' = step /\ phase' = phase /\ cast' = cast
      BY <1>1 DEF vars, fitVars
    <2>2. Rows' = Rows
      BY <2>1 DEF Rows, Verified
    <2>3. CastIsFitted
      BY DEF AttentionInv
    <2> HIDE DEF Rows
    <2>4. QED
      BY <2>1, <2>2, <2>3 DEF CastIsFitted
  <1>2. CASE step' \notin {"calling", "refused"}
    BY <1>2 DEF CastIsFitted
  <1>3. ASSUME NEW ground \in GroundSize, Crossing(ground)
        PROVE  CastIsFitted'
    <2>1. scroll' = scroll /\ rack' = rack /\ wake' = wake /\ phase' = phase
      BY <1>3 DEF Crossing
    <2>2. Rows' = Rows
      BY <2>1 DEF Rows, Verified
    <2>3. Len(Rows) = Len(scroll)
      BY DEF Rows, AttentionInv, ScrollTypes
    <2>4. cast' = CastOf(Rows, wake, phase, ground)
      BY <1>3, <2>3 DEF Crossing, CastOf
    <2>5. step' = "refused" => ~(TotalBytes(Rows, cast'.messages, ground) < RefuseBytes)
      BY <1>3 DEF Crossing
    <2>6. QED
      BY <2>1, <2>2, <2>4, <2>5 DEF CastIsFitted
  <1>4. QED
    BY <1>1, <1>2, <1>3, CastChanges

-----------------------------------------------------------------------------
(* An exchange that was answered stays as it is while the Scroll grows *)

SameRow(row, later) ==
  /\ later.kind = row.kind /\ later.wake = row.wake /\ later.calls = row.calls
  /\ later.call = row.call /\ later.body = row.body

\* The rows are still there, with every pointer that verified.
StillThere(rows, more) ==
  /\ IsRows(rows) /\ IsRows(more) /\ Len(rows) <= Len(more)
  /\ \A i \in DOMAIN rows : SameRow(rows[i], more[i]) /\ (rows[i].pointer => more[i].pointer)

\* The results of a call are those it had, and those appended just behind them.
LEMMA ResultsGrow ==
  ASSUME NEW rows, NEW more, StillThere(rows, more), NEW i \in DOMAIN rows
  PROVE  /\ Results(rows, i) \subseteq Results(more, i)
         /\ \A k \in Results(more, i) : k \in Results(rows, i) \/ k > Len(rows)
         /\ (\E m \in i + 1 .. Len(rows) : rows[m].kind # "tool_result") => Results(more, i) = Results(rows, i)
  <1>1. /\ DOMAIN rows = 1 .. Len(rows) /\ Len(rows) \in Nat /\ i \in Nat /\ i \in 1 .. Len(rows)
        /\ DOMAIN more = 1 .. Len(more) /\ Len(more) \in Nat /\ Len(rows) <= Len(more)
    BY DEF StillThere, IsRows
  <1>2. \A m \in DOMAIN rows : more[m].kind = rows[m].kind
    BY DEF StillThere, SameRow
  <1>3. \A m \in i + 1 .. Len(rows) : more[m].kind = rows[m].kind
    BY <1>1, <1>2
  <1>4. Results(rows, i) \subseteq Results(more, i)
    BY <1>1, <1>3 DEF Results
  <1>5. ASSUME NEW k \in Results(more, i), ~(k > Len(rows))
        PROVE  k \in Results(rows, i)
    BY <1>1, <1>3, <1>5 DEF Results
  <1>6. ASSUME NEW m \in i + 1 .. Len(rows), rows[m].kind # "tool_result", NEW k \in Results(more, i)
        PROVE  ~(k > Len(rows))
    BY <1>1, <1>3, <1>6 DEF Results
  <1>7. QED
    BY <1>4, <1>5, <1>6

\* What may leave may leave still, and there is no less that is newer.
LEMMA LeavingStays ==
  ASSUME NEW rows, NEW more, StillThere(rows, more),
         \A i \in DOMAIN rows : Answered(rows, i) => Results(more, i) = Results(rows, i),
         NEW w \in Nat, NEW v \in Nat, w <= v, \A i \in DOMAIN rows : rows[i].wake \in Nat /\ rows[i].wake <= w
  PROVE  Omitted(rows, w) \subseteq Omitted(more, v)
  <1> DEFINE may == {i \in DOMAIN rows : MayLeave(rows, i, w)}
             might == {i \in DOMAIN more : MayLeave(more, i, v)}
  <1>1. /\ DOMAIN rows = 1 .. Len(rows) /\ Len(rows) \in Nat
        /\ DOMAIN more = 1 .. Len(more) /\ Len(more) \in Nat /\ Len(rows) <= Len(more)
    BY DEF StillThere, IsRows
  <1>2. \A m \in DOMAIN rows : m \in DOMAIN more /\ SameRow(rows[m], more[m]) /\ (rows[m].pointer => more[m].pointer)
    BY <1>1 DEF StillThere
  <1>3. ASSUME NEW i \in may
        PROVE  i \in might /\ Results(more, i) = Results(rows, i)
    <2>1. /\ i \in DOMAIN rows /\ i \in DOMAIN more /\ SameRow(rows[i], more[i])
          /\ Answered(rows, i) /\ ~Reopens(rows[i])
          /\ Pointed(rows, i) \/ IsHearth(rows, i)
          /\ rows[i].wake # w \/ (Pointed(rows, i) /\ ~IsHearth(rows, i))
      BY <1>2 DEF MayLeave
    <2>2. Results(more, i) = Results(rows, i)
      BY <2>1
    <2>3. \A k \in Results(rows, i) : k \in DOMAIN rows
      BY <1>1, <2>1 DEF Results
    <2>4. more[i].kind = rows[i].kind /\ more[i].wake = rows[i].wake /\ more[i].calls = rows[i].calls
      BY <2>1 DEF SameRow
    <2>5. \A k \in Results(rows, i) : /\ more[k].call = rows[k].call /\ more[k].body = rows[k].body
                                      /\ (rows[k].pointer => more[k].pointer)
      BY <1>2, <2>3 DEF SameRow
    <2>6. Answered(more, i)
      <3>1. {more[k].call : k \in Results(rows, i)} = {rows[k].call : k \in Results(rows, i)}
        BY <2>5
      <3>2. QED
        BY <2>1, <2>2, <2>4, <3>1 DEF Answered, IsCall
    <2>7. ~Reopens(more[i])
      BY <2>1, <2>4 DEF Reopens
    <2>8. Pointed(rows, i) => Pointed(more, i)
      BY <2>2, <2>5 DEF Pointed
    <2>9. IsHearth(rows, i) <=> IsHearth(more, i)
      BY <2>2, <2>4, <2>5 DEF IsHearth
    <2>10. more[i].wake # v \/ (Pointed(more, i) /\ ~IsHearth(more, i))
      <3>1. CASE v = w
        BY <2>1, <2>4, <2>8, <2>9, <3>1
      <3>2. CASE v # w
        <4>1. rows[i].wake \in Nat /\ rows[i].wake <= w
          BY <2>1
        <4>2. QED
          BY <2>4, <3>2, <4>1
      <3>3. QED
        BY <3>1, <3>2
    <2>11. MayLeave(more, i, v)
      BY <2>1, <2>6, <2>7, <2>8, <2>9, <2>10 DEF MayLeave
    <2>12. QED
      BY <2>1, <2>2, <2>11
  <1>4. ASSUME NEW i \in Leaving(rows, w)
        PROVE  i \in Leaving(more, v) /\ Exchange(more, i) = Exchange(rows, i)
    <2> DEFINE newer == {j \in may : j > i}
               later == {j \in might : j > i}
    <2>1. i \in may /\ Cardinality(newer) >= RetainedToolPairs
      BY DEF Leaving
    <2>2. newer \in SUBSET later /\ later \in SUBSET DOMAIN more
      BY <1>3
    <2>3. IsFiniteSet(DOMAIN more)
      BY <1>1, FS_Interval
    <2>4. i \in might /\ Results(more, i) = Results(rows, i)
      BY <1>3, <2>1
    <2> HIDE DEF newer, later
    <2>5. IsFiniteSet(later)
      BY <2>2, <2>3, FS_Subset
    <2>6. IsFiniteSet(newer) /\ Cardinality(newer) <= Cardinality(later)
      BY <2>2, <2>5, FS_Subset
    <2>7. Cardinality(newer) \in Nat /\ Cardinality(later) \in Nat /\ RetainedToolPairs \in Nat
      BY <2>5, <2>6, FS_CardinalityType, WatermarksAssumption
    <2>8. Cardinality(later) >= RetainedToolPairs
      BY <2>1, <2>6, <2>7
    <2>9. QED
      BY <2>4, <2>8 DEF Leaving, Exchange, later
  <1>5. QED
    BY <1>4 DEF Omitted

\* What a crossing leaves out: the pairs it folds and the exchanges it omits.
IsCastOf(c, rows, w, ph, ground, omitted) ==
  /\ c.phase = ph /\ c.rows = Len(rows)
  /\ c.folded = Folded(rows, w, ph, omitted, ground)
  /\ c.messages = Assembled(rows, w, ph, omitted, c.folded)
  /\ c.folded \subseteq Worthwhile(rows) /\ (ph = "orientation" => c.folded = {})
  /\ omitted \subseteq DOMAIN rows /\ Told(c, "fold") \subseteq DOMAIN rows
  /\ IsCast(c, rows, w, ph, omitted, c.folded)
  /\ Told(c, "fold") = UNION {{i, i + 1} : i \in c.folded}
  /\ Shown(c) = DOMAIN rows \ (Told(c, "fold") \cup omitted)
  /\ Absent(c) = Told(c, "fold") \cup omitted

\* What a crossing leaves out is what it folds and what it omits.
LEMMA CastOfIs ==
  ASSUME NEW rows, IsRows(rows), NEW w, NEW ph, NEW ground, NEW c, c = CastOf(rows, w, ph, ground),
         NEW omitted, omitted = (IF ph = "orientation" THEN {} ELSE Omitted(rows, w))
  PROVE  IsCastOf(c, rows, w, ph, ground, omitted)
  <1> DEFINE folded == Folded(rows, w, ph, omitted, ground)
             pairs == UNION {{i, i + 1} : i \in folded}
  <1>1. /\ c.phase = ph /\ c.rows = Len(rows) /\ c.folded = folded
        /\ c.messages = Assembled(rows, w, ph, omitted, folded)
    BY DEF CastOf
  <1>2. folded \subseteq Worthwhile(rows) /\ (ph = "orientation" => folded = {})
    BY DEF Folded
  <1>3. omitted \in SUBSET DOMAIN rows
    BY OmittedAreRows
  <1>4. DOMAIN rows = 1 .. Len(rows) /\ Len(rows) \in Nat
    BY DEF IsRows
  <1>5. folded \in SUBSET Dialogue(rows)
    BY <1>2 DEF Worthwhile, Eligible
  <1>6. folded \in SUBSET DOMAIN rows /\ pairs \in SUBSET DOMAIN rows
    <2>1. \A i \in Dialogue(rows) : i \in DOMAIN rows /\ i + 1 \in DOMAIN rows
      BY <1>4 DEF Dialogue
    <2> HIDE DEF folded
    <2>2. QED
      BY <1>5, <2>1
  <1> HIDE DEF folded
  <1>7. IsCast(c, rows, w, ph, omitted, folded)
    <2>1. c.messages = Assembled(rows, w, ph, omitted, folded)
      BY <1>1
    <2>2. folded \in SUBSET DOMAIN rows
      BY <1>6
    <2> HIDE DEF pairs
    <2>3. QED
      BY <1>3, <2>1, <2>2, CastIs
  <1>8. Shown(c) = DOMAIN rows \ (pairs \cup omitted) /\ Told(c, "fold") = pairs
    BY <1>7 DEF Shown, Kept, IsCast
  <1>9. Absent(c) = pairs \cup omitted
    BY <1>1, <1>3, <1>4, <1>6, <1>8 DEF Absent
  <1>10. QED
    BY <1>1, <1>2, <1>3, <1>6, <1>7, <1>8, <1>9 DEF folded, IsCastOf

\* The rows as a crossing sees them
LEMMA RowsAre ==
  ASSUME AttentionInv
  PROVE  /\ IsRows(Rows) /\ Len(Rows) = Len(scroll) /\ DOMAIN Rows = DOMAIN scroll
         /\ scroll \in Seq(ScrollRow) /\ DOMAIN scroll = 1 .. Len(scroll) /\ Len(scroll) \in Nat
         /\ \A i \in DOMAIN scroll : /\ SameRow(scroll[i], Rows[i]) /\ Rows[i].pointer = Verified(scroll[i].pointer)
                                     /\ Rows[i].size = scroll[i].size
  <1>1. scroll \in Seq(ScrollRow)
    BY DEF AttentionInv, ScrollTypes
  <1>2. DOMAIN scroll = 1 .. Len(scroll) /\ Len(scroll) \in Nat
    BY <1>1
  <1>3. ASSUME NEW i \in DOMAIN scroll
        PROVE  /\ SameRow(scroll[i], Rows[i]) /\ Rows[i].pointer = Verified(scroll[i].pointer)
               /\ Rows[i].size = scroll[i].size
    <2>1. scroll[i] \in ScrollRow
      BY <1>1, <1>3
    <2>2. Rows[i] = [scroll[i] EXCEPT !.pointer = Verified(scroll[i].pointer)]
      BY <1>3 DEF Rows
    <2>3. QED
      BY <2>1, <2>2 DEF ScrollRow, SameRow
  <1>4. DOMAIN Rows = 1 .. Len(scroll) /\ Len(Rows) = Len(scroll)
    BY <1>2 DEF Rows
  <1>5. QED
    BY <1>1, <1>2, <1>3, <1>4 DEF IsRows

\* The exchange that a result is appended to was not answered yet.
LEMMA AnsweredStays ==
  ASSUME AttentionInv, Grows
  PROVE  /\ StillThere(Rows, Rows')
         /\ \A i \in DOMAIN Rows : Answered(Rows, i) => Results(Rows', i) = Results(Rows, i)
  <1>1. /\ IsRows(Rows) /\ Len(Rows) = Len(scroll) /\ DOMAIN Rows = DOMAIN scroll
        /\ DOMAIN scroll = 1 .. Len(scroll) /\ Len(scroll) \in Nat
        /\ \A i \in DOMAIN scroll : SameRow(scroll[i], Rows[i]) /\ Rows[i].pointer = Verified(scroll[i].pointer)
    BY RowsAre
  <1>2. /\ scroll' \in Seq(ScrollRow) /\ DOMAIN scroll' = 1 .. Len(scroll')
        /\ Len(scroll') \in Nat /\ Len(scroll) <= Len(scroll')
        /\ \A i \in DOMAIN scroll : i \in DOMAIN scroll' /\ scroll'[i] = scroll[i]
        /\ \A i \in DOMAIN scroll' : i \in DOMAIN scroll \/ (i = Len(scroll) + 1 /\ Appended(scroll'[i]))
        /\ \A i \in DOMAIN rack : i \in DOMAIN rack' /\ rack'[i] = rack[i]
    BY WhatStays
  <1>3. DOMAIN Rows' = 1 .. Len(scroll') /\ Len(Rows') = Len(scroll') /\ IsRows(Rows')
    <2>1. DOMAIN Rows' = 1 .. Len(scroll') /\ Len(Rows') = Len(scroll')
      BY <1>2 DEF Rows
    <2>2. QED
      BY <1>2, <2>1 DEF IsRows
  <1>4. \A pointer : Verified(pointer) => Verified(pointer)'
    BY <1>2 DEF Verified
  <1>5. ASSUME NEW i \in DOMAIN scroll'
        PROVE  /\ SameRow(scroll'[i], Rows'[i])
               /\ \A pointer : pointer = scroll'[i].pointer => Rows'[i].pointer = Verified(pointer)'
    <2>1. scroll'[i] \in ScrollRow
      BY <1>2, <1>5
    <2>2. PICK pointer : pointer = scroll'[i].pointer
      OBVIOUS
    <2>3. Rows'[i] = [scroll'[i] EXCEPT !.pointer = Verified(pointer)']
      BY <1>5, <2>2 DEF Rows, Verified
    <2>4. QED
      BY <2>1, <2>2, <2>3 DEF ScrollRow, SameRow
  <1>6. StillThere(Rows, Rows')
    <2>1. ASSUME NEW i \in DOMAIN Rows
          PROVE  SameRow(Rows[i], Rows'[i]) /\ (Rows[i].pointer => Rows'[i].pointer)
      <3>1. i \in DOMAIN scroll /\ i \in DOMAIN scroll' /\ scroll'[i] = scroll[i]
        BY <1>1, <1>2, <2>1
      <3>2. SameRow(scroll[i], Rows[i]) /\ SameRow(scroll[i], Rows'[i])
        BY <1>1, <1>5, <3>1
      <3>3. PICK pointer : pointer = scroll[i].pointer
        OBVIOUS
      <3>4. Rows[i].pointer => Rows'[i].pointer
        <4>1. Rows[i].pointer = Verified(pointer) /\ Rows'[i].pointer = Verified(pointer)'
          BY <1>1, <1>5, <3>1, <3>3
        <4>2. QED
          BY <1>4, <4>1
      <3>5. QED
        BY <3>2, <3>4 DEF SameRow
    <2>2. QED
      BY <1>1, <1>2, <1>3, <2>1 DEF StillThere
  <1>7. ASSUME NEW i \in DOMAIN Rows, Answered(Rows, i)
        PROVE  Results(Rows', i) = Results(Rows, i)
    <2>1. i \in 1 .. Len(scroll) /\ i \in Nat /\ IsCall(scroll[i]) /\ scroll[i].calls = Rows[i].calls
      BY <1>1, <1>7 DEF Answered, IsCall, SameRow
    <2>2. /\ Results(Rows, i) \subseteq Results(Rows', i)
          /\ \A k \in Results(Rows', i) : k \in Results(Rows, i) \/ k > Len(Rows)
          /\ (\E m \in i + 1 .. Len(Rows) : Rows[m].kind # "tool_result") => Results(Rows', i) = Results(Rows, i)
      BY <1>6, <1>7, ResultsGrow
    <2>3. ASSUME NEW k \in Results(Rows', i), k > Len(Rows)
          PROVE  FALSE
      <3>1. k \in DOMAIN scroll' /\ k \in Nat /\ k \in i + 1 .. k
        BY <1>2, <1>3, <2>1, <2>3 DEF Results
      <3>2. Rows'[k].kind = "tool_result"
        BY <3>1 DEF Results
      <3>3. k = Len(scroll) + 1 /\ Appended(scroll'[k]) /\ scroll'[k].kind = "tool_result"
        BY <1>1, <1>2, <1>5, <2>3, <3>1, <3>2 DEF SameRow
      <3>4. step \in {"settling", "tending"}
        BY <3>3 DEF Appended
      <3>5. PICK c \in DOMAIN scroll : SettlingCalls(c)
        <4>1. CASE step = "settling"
          BY <4>1 DEF AttentionInv, CallsAreSettled
        <4>2. CASE step = "tending"
          <5>1. /\ scroll # <<>> /\ IsCall(scroll[Len(scroll)]) /\ scroll[Len(scroll)].calls = <<"tend_hearth">>
            BY <4>2 DEF AttentionInv, CallsAreSettled
          <5>2. PICK n \in Nat : n = Len(scroll)
            BY <1>1
          <5>3. n \in DOMAIN scroll /\ IsCall(scroll[n]) /\ scroll[n].calls = <<"tend_hearth">>
            BY <1>1, <2>1, <5>1, <5>2
          <5>4. Len(scroll) - n < Len(scroll[n].calls)
            BY <5>2, <5>3
          <5>5. \A j \in DOMAIN scroll : ~(j > n)
            BY <1>1, <5>2
          <5>6. SettlingCalls(n)
            BY <5>3, <5>4, <5>5 DEF SettlingCalls
          <5>7. QED
            BY <5>3, <5>6
        <4>3. QED
          BY <3>4, <4>1, <4>2
      <3>6. /\ c \in 1 .. Len(scroll) /\ c \in Nat /\ IsCall(scroll[c])
            /\ \A j \in DOMAIN scroll : j > c => scroll[j].kind = "tool_result"
            /\ Len(scroll) - c < Len(scroll[c].calls)
        BY <1>1, <3>5 DEF SettlingCalls
      <3>7. ~(i > c)
        BY <1>1, <2>1, <3>6 DEF IsCall
      <3>8. CASE i < c
        <4>1. c \in i + 1 .. Len(Rows) /\ Rows[c].kind # "tool_result"
          BY <1>1, <2>1, <3>6, <3>8 DEF IsCall, SameRow
        <4>2. k \in Results(Rows, i)
          BY <2>2, <2>3, <4>1
        <4>3. k <= Len(Rows)
          BY <4>2 DEF Results
        <4>4. QED
          BY <1>1, <2>3, <3>1, <4>3
      <3>9. CASE i = c
        <4>1. \A m \in c + 1 .. Len(Rows) : Rows[m].kind = "tool_result"
          BY <1>1, <3>6 DEF SameRow
        <4>2. Results(Rows, c) = c + 1 .. Len(Rows)
          BY <1>1, <3>6, <4>1 DEF Results
        <4>3. Cardinality(c + 1 .. Len(Rows)) = Len(scroll) - c
          <5>1. PICK n \in Nat : n = Len(scroll)
            BY <1>1
          <5>2. c + 1 \in Int /\ n \in Int /\ c <= n
            BY <3>6, <5>1
          <5>3. Cardinality(c + 1 .. n) = IF c + 1 > n THEN 0 ELSE n - (c + 1) + 1
            BY <5>2, FS_Interval
          <5>4. Cardinality(c + 1 .. n) = n - c
            BY <3>6, <5>2, <5>3
          <5>5. QED
            BY <1>1, <5>1, <5>4
        <4>4. Cardinality(Results(Rows, i)) = Len(scroll[i].calls)
          BY <1>7, <2>1 DEF Answered
        <4>5. Len(scroll) - c = Len(scroll[c].calls)
          BY <3>9, <4>2, <4>3, <4>4
        <4>6. Len(scroll) - c \in Nat
          BY <1>1, <3>6
        <4>7. QED
          BY <3>6, <4>5, <4>6
      <3>10. QED
        BY <2>1, <3>6, <3>7, <3>8, <3>9
    <2>4. QED
      BY <2>2, <2>3
  <1>8. QED
    BY <1>6, <1>7

\* Only the words of humans and of the Resident are folded.
LEMMA FoldedAreWords ==
  ASSUME NEW rows, NEW folded, folded \subseteq Worthwhile(rows), NEW i \in UNION {{j, j + 1} : j \in folded}
  PROVE  rows[i].kind \in {"user", "resident"}
  <1>1. PICK j \in folded : i = j \/ i = j + 1
    OBVIOUS
  <1>2. rows[j].kind = "user" /\ rows[j + 1].kind = "resident"
    BY <1>1 DEF Worthwhile, Eligible, Dialogue
  <1>3. QED
    BY <1>1, <1>2

\* A crossing reads the Scroll and changes nothing of it.
LEMMA CrossingFits ==
  ASSUME AttentionInv, NEW ground \in GroundSize, Crossing(ground)
  PROVE  /\ scroll' = scroll /\ wake' = wake /\ Rows' = Rows
         /\ cast' = CastOf(Rows, wake, phase, ground)
  <1>1. scroll' = scroll /\ rack' = rack /\ wake' = wake /\ phase' = phase
    BY DEF Crossing
  <1>2. Rows' = Rows
    BY <1>1 DEF Rows, Verified
  <1>3. Len(Rows) = Len(scroll)
    BY RowsAre
  <1>4. QED
    BY <1>1, <1>2, <1>3 DEF Crossing, CastOf

\* What the last crossing left out may leave the next one too, whatever was appended since.
LEMMA AbsentStaysAway ==
  ASSUME AttentionInv, [Next]_vars
  PROVE  AbsentMayLeave'
  <1>1. Grows
    BY StepGrows
  <1>2. CASE cast' = cast
    <2>1. /\ cast.phase \in {"none", "orientation"} => Absent(cast) = {}
          /\ \A i \in Absent(cast) : scroll[i].kind \in {"assistant_tool_call", "tool_result"}
               => i \in Omitted(Rows, wake)
      BY DEF AttentionInv, AbsentMayLeave
    <2>2. \A i \in Absent(cast) : i \in DOMAIN scroll /\ scroll'[i] = scroll[i]
      <3>1. cast.rows \in 0 .. Len(scroll) /\ DOMAIN scroll = 1 .. Len(scroll) /\ Len(scroll) \in Nat
        BY <1>1, WhatStays DEF AttentionInv, ScrollTypes
      <3>2. \A i \in Absent(cast) : i \in 1 .. cast.rows
        BY DEF Absent
      <3>3. \A i \in 1 .. cast.rows : i \in DOMAIN scroll
        BY <3>1
      <3>4. QED
        BY <1>1, <3>2, <3>3, WhatStays
    <2>3. Omitted(Rows, wake) \subseteq Omitted(Rows', wake')
      <3>1. /\ wake \in Nat /\ wake' \in Nat /\ wake <= wake'
            /\ \A i \in DOMAIN scroll : scroll[i].wake \in Nat /\ scroll[i].wake <= wake
        BY <1>1 DEF Grows, AttentionInv, AttentionTypeOK, ScrollTypes
      <3>2. \A i \in DOMAIN Rows : Rows[i].wake \in Nat /\ Rows[i].wake <= wake
        BY <3>1, RowsAre DEF SameRow
      <3>3. /\ StillThere(Rows, Rows')
            /\ \A i \in DOMAIN Rows : Answered(Rows, i) => Results(Rows', i) = Results(Rows, i)
        BY <1>1, AnsweredStays
      <3> HIDE DEF Rows
      <3>4. QED
        BY <3>1, <3>2, <3>3, LeavingStays
    <2>4. Absent(cast') = Absent(cast)
      BY <1>2
    <2>5. QED
      BY <1>2, <2>1, <2>2, <2>3, <2>4 DEF AbsentMayLeave
  <1>3. ASSUME NEW ground \in GroundSize, Crossing(ground)
        PROVE  AbsentMayLeave'
    <2>1. scroll' = scroll /\ wake' = wake /\ Rows' = Rows /\ cast' = CastOf(Rows, wake, phase, ground)
      BY <1>3, CrossingFits
    <2>2. PICK c : c = cast'
      OBVIOUS
    <2>3. PICK rows : rows = Rows
      OBVIOUS
    <2>4. PICK omitted : omitted = (IF phase = "orientation" THEN {} ELSE Omitted(rows, wake))
      OBVIOUS
    <2>5. IsCastOf(c, rows, wake, phase, ground, omitted)
      <3>1. IsRows(rows)
        BY <2>3, RowsAre
      <3>2. c = CastOf(rows, wake, phase, ground)
        BY <2>1, <2>2, <2>3
      <3>3. QED
        BY <2>4, <3>1, <3>2, CastOfIs
    <2>6. phase \in {"orientation", "response", "ordinary"}
      BY DEF AttentionInv, AttentionTypeOK
    <2>7. c.phase \in {"none", "orientation"} => Absent(c) = {}
      BY <2>4, <2>5, <2>6 DEF IsCastOf
    <2>8. ASSUME NEW i \in Absent(c), rows[i].kind \in {"assistant_tool_call", "tool_result"}
          PROVE  i \in Omitted(rows, wake)
      <3>1. i \notin Told(c, "fold")
        BY <2>5, <2>8, FoldedAreWords DEF IsCastOf
      <3>2. i \in omitted
        BY <2>5, <3>1 DEF IsCastOf
      <3>3. QED
        BY <2>4, <3>2
    <2>9. \A i \in Absent(c) : rows[i].kind = scroll[i].kind
      BY <2>3, <2>5, RowsAre DEF SameRow, IsCastOf
    <2>10. Absent(cast') = Absent(c)
      BY <2>2
    <2>11. QED
      BY <2>1, <2>2, <2>3, <2>7, <2>8, <2>9, <2>10 DEF AbsentMayLeave
  <1>4. QED
    BY <1>2, <1>3, CastChanges

\* A lifespan begins with an empty Scroll and no crossing.
LEMMA AttentionBegins ==
  ASSUME Init
  PROVE  AttentionInv
  <1>1. scroll = <<>> /\ rack = <<>> /\ wake = 0 /\ step = "rest" /\ phase = "ordinary"
        /\ round = 0 /\ faults = 0 /\ cast = NoCast
    BY DEF Init, RackInit
  <1>2. DOMAIN scroll = {} /\ scroll \in Seq(ScrollRow) /\ rack \in Seq(Job) /\ Len(scroll) = 0
    BY <1>1
  <1>3. AttentionTypeOK
    BY <1>1, <1>2, AttentionAssumption DEF AttentionTypeOK
  <1>4. ScrollTypes
    BY <1>1, <1>2 DEF ScrollTypes, NoCast
  <1>5. WakesFollow /\ CallsAreSettled
    BY <1>1, <1>2 DEF WakesFollow, CallsAreSettled
  <1>6. HearthWasTended
    BY <1>1, <1>2 DEF HearthWasTended, Tended, NoCast
  <1>7. CastIsFitted
    BY <1>1 DEF CastIsFitted
  <1>8. AbsentMayLeave
    <2>1. Absent(cast) = {}
      BY <1>1 DEF Absent, NoCast
    <2>2. QED
      BY <2>1 DEF AbsentMayLeave
  <1>9. QED
    BY <1>3, <1>4, <1>5, <1>6, <1>7, <1>8 DEF AttentionInv

\* Every step keeps the invariant.
LEMMA AttentionStays ==
  ASSUME AttentionInv, [Next]_vars
  PROVE  AttentionInv'
  BY TypesStay, WakesFollowStays, CallsStaySettled, HearthStaysTended, CastStaysFitted, AbsentStaysAway
     DEF AttentionInv

\* Whatever happens to a lifespan, its Scroll stays as performAdmittedWake() appends it:
\* wakes in order, calls followed by their results, one Hearth packet before the first
\* response; the crossing in flight fits it, and what the last crossing left out of the
\* tool exchanges is what planOldToolExchangeOmissions() may leave out again.
THEOREM AttentionIsInductive ==
  Spec => []AttentionInv
  <1>1. Init => AttentionInv
    BY AttentionBegins
  <1>2. AttentionInv /\ [Next]_vars => AttentionInv'
    BY AttentionStays
  <1>3. QED
    BY <1>1, <1>2, PTL DEF Spec

-----------------------------------------------------------------------------
(* What leaves attention can be found again *)

\* What a pointer verifies apart, the rows are those of the Scroll.
LEMMA SameExchanges ==
  ASSUME AttentionInv
  PROVE  /\ \A i \in DOMAIN scroll : /\ Results(Rows, i) = Results(scroll, i)
                                     /\ Exchange(Rows, i) = Exchange(scroll, i)
                                     /\ Answered(Rows, i) <=> Answered(scroll, i)
         /\ Dialogue(Rows) = Dialogue(scroll)
  <1>1. /\ Len(Rows) = Len(scroll) /\ DOMAIN Rows = DOMAIN scroll
        /\ DOMAIN scroll = 1 .. Len(scroll) /\ Len(scroll) \in Nat
    BY RowsAre
  <1>2. \A i \in DOMAIN scroll : /\ Rows[i].kind = scroll[i].kind /\ Rows[i].calls = scroll[i].calls
                                 /\ Rows[i].call = scroll[i].call
    BY RowsAre DEF SameRow
  <1>3. PICK rows : rows = Rows
    OBVIOUS
  <1> HIDE DEF Rows
  <1>4. ASSUME NEW i \in DOMAIN scroll
        PROVE  /\ Results(rows, i) = Results(scroll, i)
               /\ Answered(rows, i) <=> Answered(scroll, i)
    <2>1. i \in Nat
      BY <1>1
    <2>2. \A m \in i + 1 .. Len(scroll) : m \in DOMAIN scroll /\ rows[m].kind = scroll[m].kind
      BY <1>1, <1>2, <1>3, <2>1
    <2>3. Len(rows) = Len(scroll)
      BY <1>1, <1>3
    <2>4. \A k \in i + 1 .. Len(scroll) : \A m \in i + 1 .. k : m \in i + 1 .. Len(scroll)
      BY <1>1, <2>1
    <2>5. Results(rows, i) = Results(scroll, i)
      BY <2>2, <2>3, <2>4 DEF Results
    <2>6. \A k \in Results(scroll, i) : rows[k].call = scroll[k].call
      BY <1>2, <1>3, <2>2 DEF Results
    <2>7. {rows[k].call : k \in Results(scroll, i)} = {scroll[k].call : k \in Results(scroll, i)}
      BY <2>6
    <2>8. rows[i].kind = scroll[i].kind /\ rows[i].calls = scroll[i].calls
      BY <1>2, <1>3
    <2>9. QED
      BY <2>5, <2>7, <2>8 DEF Answered, IsCall
  <1>5. Dialogue(rows) = Dialogue(scroll)
    <2>1. \A i \in 1 .. Len(scroll) - 1 : i \in DOMAIN scroll /\ i + 1 \in DOMAIN scroll
      BY <1>1
    <2>2. QED
      BY <1>1, <1>2, <1>3, <2>1 DEF Dialogue
  <1>6. QED
    BY <1>3, <1>4, <1>5 DEF Exchange

\* A row belongs to one exchange at most.
LEMMA OneExchange ==
  ASSUME NEW rows, IsRows(rows), NEW c \in DOMAIN rows, NEW d \in DOMAIN rows, IsCall(rows[c]), IsCall(rows[d]),
         NEW i \in Exchange(rows, c), i \in Exchange(rows, d)
  PROVE  c = d
  <1>1. c \in Nat /\ d \in Nat /\ Len(rows) \in Nat
    BY DEF IsRows
  <1>2. ASSUME NEW a \in Nat, NEW b \in Nat, a < b, i \in Exchange(rows, a), i \in Exchange(rows, b), IsCall(rows[b])
        PROVE  FALSE
    <2>1. i \in Nat /\ b <= i
      BY <1>1, <1>2 DEF Exchange, Results
    <2>2. i \in Results(rows, a)
      BY <1>2, <2>1 DEF Exchange
    <2>3. rows[b].kind = "tool_result"
      BY <1>2, <2>1, <2>2 DEF Results
    <2>4. QED
      BY <1>2, <2>3 DEF IsCall
  <1>3. QED
    BY <1>1, <1>2

\* The rows of an exchange are its call and its results.
LEMMA ExchangeKinds ==
  ASSUME NEW rows, IsRows(rows), NEW c \in DOMAIN rows, IsCall(rows[c]), NEW i \in Exchange(rows, c)
  PROVE  rows[i].kind \in {"assistant_tool_call", "tool_result"}
  <1>1. c \in Nat
    BY DEF IsRows
  <1>2. CASE i = c
    BY <1>2 DEF IsCall
  <1>3. CASE i \in Results(rows, c)
    BY <1>1, <1>3 DEF Results
  <1>4. QED
    BY <1>2, <1>3 DEF Exchange

\* A crossing in flight, and what it leaves out
Fitted(rows, c, ground, omitted) ==
  /\ IsRows(rows) /\ rows = Rows /\ c = cast
  /\ omitted = (IF phase = "orientation" THEN {} ELSE Omitted(rows, wake))
  /\ IsCastOf(c, rows, wake, phase, ground, omitted)
  /\ step = "refused" => ~(TotalBytes(rows, c.messages, ground) < RefuseBytes)

\* While a crossing is in flight it is the one that the Scroll at hand gives.
LEMMA CastInFlight ==
  ASSUME AttentionInv, step \in {"calling", "refused"}
  PROVE  \E rows, c, ground, omitted : Fitted(rows, c, ground, omitted) /\ ground \in GroundSize
  <1>1. PICK ground \in GroundSize : /\ cast = CastOf(Rows, wake, phase, ground)
                                     /\ step = "refused" => ~(TotalBytes(Rows, cast.messages, ground) < RefuseBytes)
    BY DEF AttentionInv, CastIsFitted
  <1>2. PICK rows : rows = Rows
    OBVIOUS
  <1>3. PICK c : c = cast
    OBVIOUS
  <1>4. PICK omitted : omitted = (IF phase = "orientation" THEN {} ELSE Omitted(rows, wake))
    OBVIOUS
  <1>5. IsRows(rows)
    BY <1>2, RowsAre
  <1>6. c = CastOf(rows, wake, phase, ground)
    BY <1>1, <1>2, <1>3
  <1>7. IsCastOf(c, rows, wake, phase, ground, omitted)
    BY <1>4, <1>5, <1>6, CastOfIs
  <1>8. Fitted(rows, c, ground, omitted)
    BY <1>1, <1>2, <1>3, <1>4, <1>5, <1>7 DEF Fitted
  <1>9. QED
    BY <1>8

\* What an omission plan takes out is whole exchanges that verify or are traced.
LEMMA CastIsRecoverable ==
  ASSUME AttentionInv
  PROVE  AbsentIsRecoverable
  <1>1. ASSUME step \in {"calling", "refused"}
        PROVE  LET absent == Absent(cast)
                   history == {n \in DOMAIN cast.messages : cast.messages[n].src = "history"}
                   sources == {cast.messages[n].src : n \in DOMAIN cast.messages}
                   folds == Told(cast, "fold")
                   traces == Told(cast, "hearth_trace")
               IN  /\ \A m, n \in history :
                        m < n => \A i \in cast.messages[m].of, j \in cast.messages[n].of : i < j
                   /\ cast.messages[1].src = "glass" /\ "ground" \in sources
                   /\ \A i \in absent \ folds :
                        \E c \in DOMAIN scroll :
                          /\ i \in Exchange(scroll, c) /\ Exchange(scroll, c) \subseteq absent
                          /\ \/ c \in traces
                             \/ \A k \in Results(scroll, c) : Verified(scroll[k].pointer)
    <2>1. PICK rows, c, ground, omitted : Fitted(rows, c, ground, omitted)
      BY <1>1, CastInFlight
    <2>2. /\ IsRows(rows) /\ rows = Rows /\ c = cast
          /\ omitted = (IF phase = "orientation" THEN {} ELSE Omitted(rows, wake))
          /\ IsCastOf(c, rows, wake, phase, ground, omitted)
      BY <2>1 DEF Fitted
    <2>3. /\ \A m, n \in DOMAIN c.messages :
               m < n /\ c.messages[m].src = "history" /\ c.messages[n].src = "history" =>
                 \A i \in c.messages[m].of, j \in c.messages[n].of : i < j
          /\ c.messages[1].src = "glass" /\ \E n \in DOMAIN c.messages : c.messages[n].src = "ground"
          /\ phase # "orientation" =>
               \A i \in Leaving(rows, wake) : IsHearth(rows, i) => i \in Told(c, "hearth_trace")
      BY <2>2 DEF IsCastOf, IsCast
    <2>4. ASSUME NEW i \in Absent(c) \ Told(c, "fold")
          PROVE  \E d \in DOMAIN scroll :
                   /\ i \in Exchange(scroll, d) /\ Exchange(scroll, d) \subseteq Absent(c)
                   /\ \/ d \in Told(c, "hearth_trace")
                      \/ \A k \in Results(scroll, d) : Verified(scroll[k].pointer)
      <3>1. i \in omitted /\ omitted \subseteq Absent(c)
        BY <2>2, <2>4 DEF IsCastOf
      <3>2. phase # "orientation" /\ omitted = Omitted(rows, wake)
        BY <2>2, <3>1
      <3>3. PICK d \in Leaving(rows, wake) : i \in Exchange(rows, d)
        BY <3>1, <3>2 DEF Omitted
      <3>4. Exchange(rows, d) \subseteq omitted
        BY <3>2 DEF Omitted
      <3>5. d \in DOMAIN rows /\ d \in DOMAIN scroll /\ MayLeave(rows, d, wake)
        BY <2>2, <3>3, RowsAre DEF Leaving
      <3>6. Exchange(scroll, d) = Exchange(rows, d) /\ Results(scroll, d) = Results(rows, d)
        BY <2>2, <3>5, SameExchanges
      <3>7. CASE IsHearth(rows, d)
        BY <2>3, <3>1, <3>2, <3>3, <3>4, <3>5, <3>6, <3>7
      <3>8. CASE Pointed(rows, d)
        <4>1. \A k \in Results(rows, d) : k \in DOMAIN scroll
          BY <2>2, <3>5, RowsAre DEF Results
        <4>2. \A k \in Results(scroll, d) : Verified(scroll[k].pointer)
          BY <2>2, <3>6, <3>8, <4>1, RowsAre DEF Pointed
        <4>3. QED
          BY <3>1, <3>3, <3>4, <3>5, <3>6, <4>2
      <3>9. QED
        BY <3>5, <3>7, <3>8 DEF MayLeave
    <2>5. QED
      BY <2>2, <2>3, <2>4
  <1>2. QED
    BY <1>1 DEF AttentionInv, AbsentIsRecoverable

\* For any Scroll, limits, phases, captures and faults, what ProviderPhase.run() leaves out
\* can be found again: a folded row stands in its fold, an omitted exchange is gone whole
\* and has its Hearth trace or Rack pointers that verify, and what is shown is in order.
THEOREM WhatLeavesIsRecoverable ==
  Spec => []AbsentIsRecoverable
  BY AttentionIsInductive, CastIsRecoverable, PTL

-----------------------------------------------------------------------------
(* What fitting never removes *)

\* Fewer are newer in a smaller set.
LEMMA FewerAreNewer ==
  ASSUME NEW T \in SUBSET Nat, IsFiniteSet(T), NEW S \in SUBSET T, NEW i, NEW n \in Nat,
         Cardinality({j \in S : j > i}) >= n
  PROVE  ~(Cardinality({j \in T : j > i}) < n)
  <1> DEFINE newer == {j \in S : j > i}
             all == {j \in T : j > i}
  <1>1. newer \in SUBSET all /\ all \in SUBSET T
    OBVIOUS
  <1>2. Cardinality(newer) >= n
    OBVIOUS
  <1> HIDE DEF newer, all
  <1>3. IsFiniteSet(all) /\ IsFiniteSet(newer) /\ Cardinality(newer) <= Cardinality(all)
    BY <1>1, FS_Subset
  <1>4. Cardinality(newer) \in Nat /\ Cardinality(all) \in Nat
    BY <1>3, FS_CardinalityType
  <1>5. ~(Cardinality(all) < n)
    BY <1>2, <1>3, <1>4
  <1>6. QED
    BY <1>5 DEF all

\* The exchange of a row that left may leave.
LEMMA LeftWithItsExchange ==
  ASSUME AttentionInv, NEW rows, rows = Rows, NEW i \in Omitted(rows, wake),
         NEW c \in DOMAIN scroll, IsCall(scroll[c]), i \in Exchange(scroll, c)
  PROVE  c \in Leaving(rows, wake)
  <1>1. PICK d \in Leaving(rows, wake) : i \in Exchange(rows, d)
    BY DEF Omitted
  <1>2. d \in DOMAIN rows /\ IsCall(rows[d])
    BY <1>1 DEF Leaving, MayLeave, Answered
  <1>3. c \in DOMAIN rows /\ IsCall(rows[c]) /\ i \in Exchange(rows, c) /\ IsRows(rows)
    BY RowsAre, SameExchanges DEF IsCall, SameRow
  <1>4. c = d
    BY <1>1, <1>2, <1>3, OneExchange
  <1>5. QED
    BY <1>1, <1>4

\* A packet of this wake did not go through the Rack, so its exchange stays.
LEMMA PacketIsShown ==
  ASSUME AttentionInv, NEW rows, rows = Rows, NEW p \in DOMAIN scroll, PacketOfThisWake(p),
         NEW i \in {p, p - 1}
  PROVE  i \notin Omitted(rows, wake) /\ scroll[i].kind \in {"assistant_tool_call", "tool_result"}
  <1>1. /\ p - 1 \in DOMAIN scroll /\ IsCall(scroll[p - 1]) /\ scroll[p - 1].wake = wake
        /\ scroll[p].kind = "tool_result" /\ scroll[p].body = "hearth" /\ scroll[p].pointer = 0
    BY DEF PacketOfThisWake
  <1>2. /\ IsRows(rows) /\ DOMAIN rows = DOMAIN scroll /\ Len(rows) = Len(scroll)
        /\ DOMAIN scroll = 1 .. Len(scroll) /\ Len(scroll) \in Nat /\ p \in Nat
    BY RowsAre
  <1>3. PICK c \in DOMAIN scroll : c = p - 1 /\ p = c + 1 /\ c \in Nat
    BY <1>1, <1>2
  <1>4. p \in Results(scroll, c)
    BY <1>1, <1>2, <1>3 DEF Results
  <1>5. i \in Exchange(scroll, c)
    BY <1>3, <1>4 DEF Exchange
  <1>6. c \notin Leaving(rows, wake)
    <2>1. p \in Results(rows, c) /\ rows[p].pointer = Verified(0) /\ rows[c].wake = wake
      BY <1>1, <1>3, <1>4, RowsAre, SameExchanges DEF SameRow
    <2>2. ~Verified(0)
      BY DEF Verified, AttentionInv, ScrollTypes
    <2>3. ~Pointed(rows, c)
      BY <2>1, <2>2 DEF Pointed
    <2>4. QED
      BY <2>1, <2>3 DEF Leaving, MayLeave
  <1>7. QED
    BY <1>1, <1>3, <1>5, <1>6, LeftWithItsExchange DEF IsCall

\* No row of the causal tail is folded or omitted.
LEMMA TailIsShown ==
  ASSUME AttentionInv
  PROVE  CausalTailStands
  <1> DEFINE answered == {j \in DOMAIN scroll : Answered(scroll, j)}
             dialogue == Dialogue(scroll)
             newest(S, n) == {j \in S : Cardinality({k \in S : k > j}) < n}
  <1> SUFFICES ASSUME step \in {"calling", "refused"}
               PROVE  /\ \A i \in DOMAIN scroll \ Shown(cast) :
                           /\ ~(scroll[i].wake = wake /\ scroll[i].kind = "user")
                           /\ \A c \in DOMAIN scroll : IsCall(scroll[c]) /\ i \in Exchange(scroll, c)
                                => c \in answered \ newest(answered, RetainedToolPairs)
                           /\ i \notin newest(dialogue, FoldTailUnits)
                           /\ i - 1 \notin newest(dialogue, FoldTailUnits)
                      /\ phase = "response" =>
                           \E i \in Shown(cast) : scroll[i].body = "hearth" /\ i - 1 \in Shown(cast)
    BY DEF CausalTailStands
  <1>1. PICK rows, s, ground, omitted : Fitted(rows, s, ground, omitted)
    BY CastInFlight
  <1>2. /\ IsRows(rows) /\ rows = Rows /\ s = cast
        /\ omitted = (IF phase = "orientation" THEN {} ELSE Omitted(rows, wake))
        /\ s.folded \subseteq Worthwhile(rows)
        /\ Told(s, "fold") = UNION {{i, i + 1} : i \in s.folded}
        /\ Shown(s) = DOMAIN rows \ (Told(s, "fold") \cup omitted)
    BY <1>1 DEF Fitted, IsCastOf
  <1>3. /\ DOMAIN rows = DOMAIN scroll /\ DOMAIN scroll = 1 .. Len(scroll) /\ Len(scroll) \in Nat
        /\ \A i \in DOMAIN scroll : rows[i].kind = scroll[i].kind /\ rows[i].wake = scroll[i].wake
    BY <1>2, RowsAre DEF SameRow
  <1>4. answered \in SUBSET Nat /\ IsFiniteSet(answered) /\ RetainedToolPairs \in Nat /\ FoldTailUnits \in Nat
    <2>1. answered \in SUBSET DOMAIN rows
      BY <1>3
    <2>2. QED
      BY <1>2, <2>1, RowsAreFinite, WatermarksAssumption
  <1>5. \A i \in omitted : rows[i].kind \in {"assistant_tool_call", "tool_result"} /\ i \in Omitted(rows, wake)
    <2>1. TAKE i \in omitted
    <2>2. i \in Omitted(rows, wake)
      BY <1>2
    <2>3. PICK d \in Leaving(rows, wake) : i \in Exchange(rows, d)
      BY <2>2 DEF Omitted
    <2>4. d \in DOMAIN rows /\ IsCall(rows[d])
      BY <2>3 DEF Leaving, MayLeave, Answered
    <2>5. QED
      BY <1>2, <2>2, <2>3, <2>4, ExchangeKinds
  <1>6. \A i \in Told(s, "fold") : \E j \in s.folded : i = j \/ i = j + 1
    BY <1>2
  <1>7. \A j \in s.folded : /\ j \in 1 .. Len(scroll) - 1 /\ rows[j].kind = "user" /\ rows[j + 1].kind = "resident"
                            /\ j \in Dialogue(rows)
                            /\ Cardinality({k \in Dialogue(rows) : k > j}) >= FoldTailUnits
    BY <1>2, RowsAre DEF Worthwhile, Eligible, Dialogue
  <1>8. ASSUME NEW i \in DOMAIN scroll \ Shown(s)
        PROVE  ~(scroll[i].wake = wake /\ scroll[i].kind = "user")
    <2>1. SUFFICES ASSUME scroll[i].wake = wake, scroll[i].kind = "user" PROVE FALSE
      OBVIOUS
    <2>2. i \in Told(s, "fold") \cup omitted /\ rows[i].kind = "user"
      BY <1>2, <1>3, <1>8, <2>1
    <2>3. i \in Told(s, "fold")
      BY <1>5, <2>2
    <2>4. PICK j \in s.folded : i = j \/ i = j + 1
      BY <1>6, <2>3
    <2>5. i = j /\ scroll[i + 1].kind = "resident" /\ i + 1 \in DOMAIN scroll /\ i <= i + 1
      <3>1. rows[j].kind = "user" /\ rows[j + 1].kind = "resident" /\ j \in 1 .. Len(scroll) - 1
        BY <1>7
      <3>2. i = j
        BY <2>2, <2>4, <3>1
      <3>3. i + 1 \in 1 .. Len(scroll) /\ i <= i + 1
        BY <1>3, <3>1, <3>2
      <3>4. QED
        BY <1>3, <3>1, <3>2, <3>3
    <2>6. /\ scroll[i].wake <= scroll[i + 1].wake /\ scroll[i + 1].wake \in Nat /\ scroll[i + 1].wake <= wake
          /\ wake \in Nat
      BY <2>5 DEF AttentionInv, AttentionTypeOK, ScrollTypes, WakesFollow
    <2>7. scroll[i + 1].wake = wake
      BY <2>1, <2>6
    <2>8. step = "rest"
      BY <2>5, <2>7 DEF AttentionInv, WakesFollow
    <2>9. QED
      BY <2>8
  <1>9. ASSUME NEW i \in DOMAIN scroll \ Shown(s), NEW c \in DOMAIN scroll, IsCall(scroll[c]), i \in Exchange(scroll, c)
        PROVE  c \in answered \ newest(answered, RetainedToolPairs)
    <2>1. i \in Told(s, "fold") \cup omitted
      BY <1>2, <1>3, <1>9
    <2>2. rows[i].kind \in {"assistant_tool_call", "tool_result"}
      <3>1. c \in DOMAIN rows /\ IsCall(rows[c]) /\ i \in Exchange(rows, c)
        BY <1>2, <1>3, <1>9, SameExchanges DEF IsCall
      <3>2. QED
        BY <1>2, <3>1, ExchangeKinds
    <2>3. i \notin Told(s, "fold")
      BY <1>6, <1>7, <2>2
    <2>4. c \in Leaving(rows, wake)
      BY <1>2, <1>5, <1>9, <2>1, <2>3, LeftWithItsExchange
    <2> DEFINE may == {j \in DOMAIN rows : MayLeave(rows, j, wake)}
    <2>5. c \in may /\ Cardinality({j \in may : j > c}) >= RetainedToolPairs
      BY <2>4 DEF Leaving
    <2>6. may \in SUBSET answered
      BY <1>2, <1>3, SameExchanges DEF MayLeave
    <2> HIDE DEF may, answered
    <2>7. ~(Cardinality({j \in answered : j > c}) < RetainedToolPairs)
      BY <1>4, <2>5, <2>6, FewerAreNewer
    <2>8. QED
      BY <2>5, <2>6, <2>7
  <1>10. ASSUME NEW i \in DOMAIN scroll \ Shown(s)
         PROVE  i \notin newest(dialogue, FoldTailUnits) /\ i - 1 \notin newest(dialogue, FoldTailUnits)
    <2>1. i \in Told(s, "fold") \cup omitted /\ i \in Nat
      BY <1>2, <1>3, <1>10
    <2>2. dialogue = Dialogue(rows)
      BY <1>2, SameExchanges
    <2>3. \A j \in dialogue : j \in Nat /\ rows[j].kind = "user" /\ rows[j + 1].kind = "resident"
      <3>1. Len(rows) \in Nat
        BY <1>2 DEF IsRows
      <3>2. \A j \in Dialogue(rows) : j \in Nat /\ rows[j].kind = "user" /\ rows[j + 1].kind = "resident"
        BY <3>1 DEF Dialogue
      <3> HIDE DEF dialogue
      <3>3. QED
        BY <2>2, <3>2
    <2>4. \A j \in s.folded : j \in Nat /\ rows[j].kind = "user" /\ rows[j + 1].kind = "resident"
                              /\ ~(Cardinality({k \in dialogue : k > j}) < FoldTailUnits)
      <3>1. \A j \in s.folded : j \in Nat /\ rows[j].kind = "user" /\ rows[j + 1].kind = "resident"
        <4>1. \A j \in s.folded : j \in 1 .. Len(scroll) - 1
          BY <1>7
        <4>2. \A j \in s.folded : j \in Nat
          BY <1>3, <4>1
        <4>3. QED
          BY <1>7, <4>2
      <3>2. ASSUME NEW j \in s.folded
            PROVE  ~(Cardinality({k \in dialogue : k > j}) < FoldTailUnits)
        <4>1. Cardinality({k \in dialogue : k > j}) >= FoldTailUnits
          BY <1>7, <2>2
        <4>2. dialogue \in SUBSET Nat /\ IsFiniteSet(dialogue)
          <5>1. dialogue \in SUBSET DOMAIN rows
            BY <1>3, <2>2, RowsAre, <1>2 DEF Dialogue
          <5>2. QED
            BY <1>2, <5>1, RowsAreFinite
        <4> HIDE DEF dialogue
        <4>3. QED
          BY <1>4, <4>1, <4>2, FewerAreNewer
      <3>3. QED
        BY <3>1, <3>2
    <2> HIDE DEF dialogue
    <2>5. CASE i \in omitted
      <3>1. rows[i].kind \notin {"user", "resident"}
        BY <1>5, <2>5
      <3>2. i \notin dialogue /\ i - 1 \notin dialogue
        BY <2>1, <2>3, <3>1
      <3>3. QED
        BY <3>2
    <2>6. CASE i \in Told(s, "fold")
      <3>1. PICK j \in s.folded : i = j \/ i = j + 1
        BY <1>6, <2>6
      <3> HIDE DEF newest
      <3>2. j \in Nat /\ rows[j].kind = "user" /\ rows[j + 1].kind = "resident"
        BY <2>4, <3>1
      <3> USE DEF newest
      <3>3. CASE i = j
        <4>1. i - 1 \notin dialogue
          <5>1. i - 1 + 1 = i /\ rows[i].kind = "user"
            BY <3>2, <3>3
          <5>2. QED
            BY <2>3, <5>1
        <4>2. QED
          BY <2>4, <3>1, <3>3, <4>1
      <3>4. CASE i = j + 1
        <4>1. i \notin dialogue /\ i - 1 = j
          <5>1. i - 1 = j /\ rows[i].kind = "resident"
            BY <3>2, <3>4
          <5>2. QED
            BY <2>3, <5>1
        <4>2. QED
          BY <2>4, <3>1, <4>1
      <3>5. QED
        BY <3>1, <3>3, <3>4
    <2>7. QED
      BY <2>1, <2>5, <2>6
  <1>11. ASSUME phase = "response"
         PROVE  \E i \in Shown(s) : scroll[i].body = "hearth" /\ i - 1 \in Shown(s)
    <2>1. PICK p \in DOMAIN scroll : PacketOfThisWake(p)
      BY <1>11 DEF AttentionInv, HearthWasTended
    <2>2. p \in DOMAIN scroll /\ p - 1 \in DOMAIN scroll /\ scroll[p].body = "hearth"
      BY <2>1 DEF PacketOfThisWake
    <2>3. \A i \in {p, p - 1} : i \notin Omitted(rows, wake) /\ scroll[i].kind \in {"assistant_tool_call", "tool_result"}
      BY <1>2, <2>1, PacketIsShown
    <2>4. \A i \in {p, p - 1} : i \in Shown(s)
      <3>1. TAKE i \in {p, p - 1}
      <3>2. i \in DOMAIN rows /\ rows[i].kind \in {"assistant_tool_call", "tool_result"} /\ i \notin Omitted(rows, wake)
        BY <1>3, <2>2, <2>3
      <3>3. i \notin Told(s, "fold")
        BY <1>6, <1>7, <3>2
      <3>4. i \notin omitted
        BY <1>5, <3>2
      <3>5. QED
        BY <1>2, <3>2, <3>3, <3>4
    <2>5. QED
      BY <2>2, <2>4
  <1> HIDE DEF answered, dialogue, newest
  <1>12. QED
    BY <1>2, <1>8, <1>9, <1>10, <1>11

\* No fold and no omission reaches the causal tail: the human turn of this wake, the newest
\* retained exchanges, the incomplete ones, the newest folding units and, in the response,
\* the Hearth's own exchange are shown, for any limits and any Scroll.
THEOREM TheTailIsShown ==
  Spec => []CausalTailStands
  BY AttentionIsInductive, TailIsShown, PTL

-----------------------------------------------------------------------------
(* What has left stays away *)

\* The next crossing leaves out again what the last one did.
LEMMA CrossingLeavesOut ==
  ASSUME AttentionInv, NEW ground \in GroundSize, Crossing(ground),
         NEW i \in Absent(cast), scroll[i].kind \in {"assistant_tool_call", "tool_result"}
  PROVE  i \in Absent(cast')
  <1>1. /\ step # "rest" => (phase = "orientation" <=> ~Tended)
        /\ ~Tended => cast.phase \in {"none", "orientation"}
        /\ cast.phase \in {"none", "orientation"} => Absent(cast) = {}
        /\ i \in Omitted(Rows, wake)
    BY DEF AttentionInv, HearthWasTended, AbsentMayLeave
  <1>2. phase # "orientation"
    BY <1>1 DEF Crossing
  <1>3. PICK rows : rows = Rows
    OBVIOUS
  <1>4. PICK c : c = cast'
    OBVIOUS
  <1>5. PICK omitted : omitted = (IF phase = "orientation" THEN {} ELSE Omitted(rows, wake))
    OBVIOUS
  <1>6. c = CastOf(rows, wake, phase, ground) /\ IsRows(rows)
    BY <1>3, <1>4, CrossingFits, RowsAre
  <1>7. IsCastOf(c, rows, wake, phase, ground, omitted)
    BY <1>5, <1>6, CastOfIs
  <1>8. i \in omitted
    BY <1>1, <1>2, <1>3, <1>5
  <1>9. i \in Absent(c)
    BY <1>7, <1>8 DEF IsCastOf
  <1>10. QED
    BY <1>4, <1>9

\* A tool exchange that one crossing left out is left out of every later one, although each
\* crossing computes its omissions anew from a Scroll and a Rack that have grown.
THEOREM WhatLeftStaysAway ==
  Spec => LeavesForGood
  <1> DEFINE Away == \A i \in Absent(cast) : scroll[i].kind \in {"assistant_tool_call", "tool_result"}
                       => i \in Absent(cast')
  <1>1. AttentionInv /\ [Next]_vars => [Away]_cast
    <2> SUFFICES ASSUME AttentionInv, [Next]_vars, cast' # cast PROVE Away
      OBVIOUS
    <2>1. PICK ground \in GroundSize : Crossing(ground)
      BY CastChanges
    <2>2. QED
      BY <2>1, CrossingLeavesOut
  <1>2. LeavesForGood <=> [][Away]_cast
    BY DEF LeavesForGood
  <1> HIDE DEF Away
  <1>3. QED
    BY <1>1, <1>2, AttentionIsInductive, PTL DEF Spec

-----------------------------------------------------------------------------
(* What a crossing weighs *)

\* A set with zero in it and with the successor of each of its numbers holds them all.
LEMMA NatsByInduction ==
  ASSUME NEW S, 0 \in S, \A n \in Nat : n \in S => n + 1 \in S
  PROVE  \A n \in Nat : n \in S
  <1> DEFINE T == Nat \ S
             R == OpToRel(<, Nat)
  <1> SUFFICES ASSUME T # {} PROVE FALSE
    OBVIOUS
  <1>1. \A x, y \in Nat : <<y, x>> \in R <=> y < x
    BY DEF OpToRel
  <1>2. IsWellFoundedOn(R, Nat) /\ T \subseteq Nat
    BY NatLessThanWellFounded
  <1> HIDE DEF R, T
  <1>3. PICK n \in T : \A m \in T : ~(<<m, n>> \in R)
    BY <1>2, WFMin
  <1>4. n \in Nat /\ n \notin S /\ n # 0
    BY <1>3 DEF T
  <1>5. n - 1 \in Nat /\ n - 1 < n /\ n - 1 + 1 = n
    BY <1>4
  <1>6. n - 1 \notin S
    BY <1>4, <1>5
  <1>7. QED
    BY <1>1, <1>3, <1>4, <1>5, <1>6 DEF T

\* The same up to a bound
LEMMA IntervalByInduction ==
  ASSUME NEW N \in Nat, NEW S, 0 \in S, \A n \in 0 .. N : n < N /\ n \in S => n + 1 \in S
  PROVE  \A n \in 0 .. N : n \in S
  <1> DEFINE T == {n \in Nat : n <= N => n \in S}
  <1>1. 0 \in T
    OBVIOUS
  <1>2. \A n \in Nat : n \in T => n + 1 \in T
    OBVIOUS
  <1> HIDE DEF T
  <1>3. \A n \in Nat : n \in T
    BY <1>1, <1>2, NatsByInduction
  <1>4. QED
    BY <1>3 DEF T

\* u sums v up to every place.
Runs(u, v, L) == u = [n \in 0 .. L |-> IF n = 0 THEN 0 ELSE u[n - 1] + v[n]]
IsSum(u, v, L) == u[0] = 0 /\ \A n \in 1 .. L : u[n] = u[n - 1] + v[n]

\* The sum of any sequence exists.
LEMMA SumsRun ==
  ASSUME NEW L \in Nat, NEW v
  PROVE  \E u : Runs(u, v, L)
  <1> DEFINE S == {N \in Nat : \E u : Runs(u, v, N)}
  <1>1. 0 \in S
    <2> DEFINE u == [n \in 0 .. 0 |-> 0]
    <2>1. Runs(u, v, 0)
      BY DEF Runs
    <2>2. QED
      BY <2>1
  <1>2. ASSUME NEW N \in Nat, N \in S
        PROVE  N + 1 \in S
    <2>1. PICK u : u = [n \in 0 .. N |-> IF n = 0 THEN 0 ELSE u[n - 1] + v[n]]
      BY <1>2 DEF Runs
    <2> DEFINE t == [n \in 0 .. N + 1 |-> IF n = 0 THEN 0 ELSE u[n - 1] + v[n]]
    <2>2. \A n \in 0 .. N : t[n] = u[n]
      <3>1. TAKE n \in 0 .. N
      <3>2. n \in 0 .. N + 1
        OBVIOUS
      <3>3. u[n] = IF n = 0 THEN 0 ELSE u[n - 1] + v[n]
        BY <2>1
      <3>4. QED
        BY <3>2, <3>3
    <2>3. ASSUME NEW n \in 0 .. N + 1
          PROVE  t[n] = IF n = 0 THEN 0 ELSE t[n - 1] + v[n]
      <3>1. n # 0 => n - 1 \in 0 .. N
        OBVIOUS
      <3>2. n # 0 => t[n - 1] = u[n - 1]
        BY <2>2, <3>1
      <3>3. QED
        BY <3>2
    <2>4. t = [n \in 0 .. N + 1 |-> t[n]]
      OBVIOUS
    <2> HIDE DEF t
    <2>5. Runs(t, v, N + 1)
      BY <2>3, <2>4 DEF Runs
    <2>6. QED
      BY <2>5
  <1> HIDE DEF S
  <1>3. \A N \in Nat : N \in S
    BY <1>1, <1>2, NatsByInduction
  <1>4. QED
    BY <1>3 DEF S

\* It begins with zero and adds one place after the other.
LEMMA SumsAre ==
  ASSUME NEW L \in Nat, NEW v, NEW u, Runs(u, v, L)
  PROVE  IsSum(u, v, L)
  <1>1. \A n \in 0 .. L : u[n] = IF n = 0 THEN 0 ELSE u[n - 1] + v[n]
    BY DEF Runs
  <1>2. 0 \in 0 .. L /\ \A n \in 1 .. L : n \in 0 .. L /\ n # 0
    OBVIOUS
  <1>3. QED
    BY <1>1, <1>2 DEF IsSum

\* Both together
LEMMA SumsExist ==
  ASSUME NEW L \in Nat, NEW v
  PROVE  \E u : IsSum(u, v, L)
  BY SumsRun, SumsAre

\* Sums of naturals are naturals.
LEMMA SumsAreNats ==
  ASSUME NEW L \in Nat, NEW v, \A n \in 1 .. L : v[n] \in Nat, NEW u, IsSum(u, v, L)
  PROVE  \A n \in 0 .. L : u[n] \in Nat
  <1> DEFINE S == {n \in Nat : u[n] \in Nat}
  <1>1. 0 \in S
    BY DEF IsSum
  <1>2. ASSUME NEW n \in 0 .. L, n < L, n \in S
        PROVE  n + 1 \in S
    <2>1. n + 1 \in 1 .. L /\ n + 1 - 1 = n /\ n + 1 \in Nat
      BY <1>2
    <2>2. u[n + 1] = u[n] + v[n + 1] /\ v[n + 1] \in Nat
      BY <2>1 DEF IsSum
    <2>3. u[n] \in Nat
      BY <1>2
    <2>4. QED
      BY <2>1, <2>2, <2>3
  <1> HIDE DEF S
  <1>3. \A n \in 0 .. L : n \in S
    BY <1>1, <1>2, IntervalByInduction
  <1>4. QED
    BY <1>3 DEF S

\* attention-meter.js sums the weights of the messages.
LEMMA TotalBytesIs ==
  ASSUME NEW rows, NEW messages, Len(messages) \in Nat, NEW ground, NEW v,
         \A n \in 1 .. Len(messages) : v[n] = Weight(rows, messages[n], ground)
  PROVE  \E u : IsSum(u, v, Len(messages)) /\ TotalBytes(rows, messages, ground) = u[Len(messages)]
  <1> DEFINE w == [n \in 1 .. Len(messages) |-> Weight(rows, messages[n], ground)]
             Follows(u) == u = [n \in 0 .. Len(messages) |->
                                 IF n = 0 THEN 0 ELSE u[n - 1] + Weight(rows, messages[n], ground)]
             u == CHOOSE u : Follows(u)
  <1>1. TotalBytes(rows, messages, ground) = u[Len(messages)]
    BY DEF TotalBytes
  <1>2. PICK t : Runs(t, w, Len(messages))
    BY SumsRun
  <1>3. \A n \in 0 .. Len(messages) : n # 0 => w[n] = Weight(rows, messages[n], ground)
    OBVIOUS
  <1> HIDE DEF w
  <1>4. Follows(t)
    BY <1>2, <1>3 DEF Runs
  <1> HIDE DEF Follows
  <1>5. Follows(u)
    BY <1>4
  <1> HIDE DEF u
  <1>6. \A n \in 0 .. Len(messages) :
          u[n] = IF n = 0 THEN 0 ELSE u[n - 1] + Weight(rows, messages[n], ground)
    BY <1>5 DEF Follows
  <1>7. 0 \in 0 .. Len(messages) /\ \A n \in 1 .. Len(messages) : n \in 0 .. Len(messages) /\ n # 0
    OBVIOUS
  <1>8. IsSum(u, v, Len(messages))
    BY <1>6, <1>7 DEF IsSum
  <1>9. QED
    BY <1>1, <1>8

\* The place of a number is that of the number before, or the next one.
LEMMA PlaceSteps ==
  ASSUME NEW S \in SUBSET Nat, IsFiniteSet(S), NEW n \in Nat
  PROVE  /\ n + 1 \notin S => Place(S, n + 1) = Place(S, n)
         /\ n + 1 \in S => Place(S, n + 1) = Place(S, n) + 1
  <1>1. ASSUME n + 1 \notin S
        PROVE  {k \in S : k <= n + 1} = {k \in S : k <= n}
    <2>1. \A k \in S : k \in Nat /\ k # n + 1
      BY <1>1
    <2>2. \A k \in S : k <= n + 1 <=> k <= n
      BY <2>1
    <2>3. QED
      BY <2>2
  <1>2. ASSUME n + 1 \in S
        PROVE  /\ {k \in S : k <= n + 1} = {k \in S : k <= n} \cup {n + 1}
               /\ n + 1 \notin {k \in S : k <= n}
    <2>1. \A k \in S : k \in Nat
      OBVIOUS
    <2>2. \A k \in S : k <= n + 1 <=> (k <= n \/ k = n + 1)
      BY <2>1
    <2>3. ~(n + 1 <= n) /\ n + 1 <= n + 1
      OBVIOUS
    <2>4. QED
      BY <1>2, <2>2, <2>3
  <1>3. {k \in S : k <= n} \in SUBSET S
    OBVIOUS
  <1>4. IsFiniteSet({k \in S : k <= n})
    BY <1>3, FS_Subset
  <1>5. n + 1 \in S => Cardinality({k \in S : k <= n + 1}) = Cardinality({k \in S : k <= n}) + 1
    BY <1>2, <1>4, FS_AddElement
  <1>6. QED
    BY <1>1, <1>5 DEF Place

\* Before its first ordinal a set has no place, at its last one it has them all.
LEMMA PlaceEnds ==
  ASSUME NEW L \in Nat, NEW S \in SUBSET (1 .. L)
  PROVE  /\ S \in SUBSET Nat /\ IsFiniteSet(S) /\ Cardinality(S) \in Nat
         /\ Place(S, 0) = 0 /\ Place(S, L) = Cardinality(S)
  <1>1. S \in SUBSET Nat
    OBVIOUS
  <1>2. IsFiniteSet(1 .. L)
    BY FS_Interval
  <1>3. IsFiniteSet(S) /\ Cardinality(S) \in Nat
    BY <1>2, FS_Subset, FS_CardinalityType
  <1>4. {k \in S : k <= 0} = {} /\ {k \in S : k <= L} = S
    <2>1. \A k \in S : ~(k <= 0) /\ k <= L
      OBVIOUS
    <2>2. QED
      BY <2>1
  <1>5. QED
    BY <1>1, <1>3, <1>4, FS_EmptySet DEF Place

\* Summing what stands in order, from place b on, is summing what is there.
SumsInOrder(u, b, v, S) == \A n \in 1 .. Cardinality(S) : u[b + n] = u[b + n - 1] + v[InOrder(S)[n]]
IsSumOver(e, v, S, L) == e[0] = 0 /\ \A n \in 1 .. L : e[n] = e[n - 1] + (IF n \in S THEN v[n] ELSE 0)

\* The sum over the ordinals in order is the sum over all rows in which those left out count nothing.
LEMMA InOrderSums ==
  ASSUME NEW L \in Nat, NEW S \in SUBSET (1 .. L), NEW v, NEW b \in Nat, NEW u,
         SumsInOrder(u, b, v, S), u[b] \in Nat, \A n \in S : v[n] \in Nat,
         NEW e, IsSumOver(e, v, S, L)
  PROVE  u[b + Cardinality(S)] = u[b] + e[L] /\ e[L] \in Nat
  <1>1. S \in SUBSET Nat /\ IsFiniteSet(S)
    BY PlaceEnds
  <1>2. Cardinality(S) \in Nat
    BY PlaceEnds
  <1> DEFINE T == {n \in Nat : u[b + Place(S, n)] = u[b] + e[n] /\ e[n] \in Nat}
  <1>3. 0 \in T
    <2>1. Place(S, 0) = 0
      BY PlaceEnds
    <2>2. QED
      BY <2>1 DEF IsSumOver
  <1>4. ASSUME NEW n \in 0 .. L, n < L, n \in T
        PROVE  n + 1 \in T
    <2>1. n + 1 \in 1 .. L /\ n + 1 - 1 = n /\ n + 1 \in Nat /\ n \in Nat
      BY <1>4
    <2>2. e[n + 1] = e[n] + (IF n + 1 \in S THEN v[n + 1] ELSE 0)
      BY <2>1 DEF IsSumOver
    <2>3. u[b + Place(S, n)] = u[b] + e[n] /\ e[n] \in Nat
      BY <1>4
    <2>4. Place(S, n) \in Nat
      BY <1>1, <1>2, <2>1, PlaceGrows
    <2>5. CASE n + 1 \notin S
      <3>1. Place(S, n + 1) = Place(S, n)
        BY <1>1, <2>1, <2>5, PlaceSteps
      <3>2. e[n + 1] = e[n]
        BY <2>2, <2>3, <2>5
      <3>3. QED
        BY <2>1, <2>3, <3>1, <3>2
    <2>6. CASE n + 1 \in S
      <3>1. Place(S, n + 1) = Place(S, n) + 1
        BY <1>1, <2>1, <2>6, PlaceSteps
      <3>2. /\ Place(S, n + 1) \in 1 .. Cardinality(S)
            /\ InOrder(S)[Place(S, n + 1)] = n + 1
        BY <1>1, <2>6, PlaceGrows, InOrderIs
      <3>3. u[b + Place(S, n + 1)] = u[b + Place(S, n + 1) - 1] + v[n + 1]
        BY <3>2 DEF SumsInOrder
      <3>4. b + Place(S, n + 1) - 1 = b + Place(S, n)
        BY <2>4, <3>1
      <3>5. u[b + Place(S, n + 1)] = u[b] + e[n] + v[n + 1] /\ v[n + 1] \in Nat
        BY <2>3, <2>6, <3>3, <3>4
      <3>6. e[n + 1] = e[n] + v[n + 1]
        BY <2>2, <2>6
      <3>7. QED
        BY <2>1, <2>3, <3>5, <3>6
    <2>7. QED
      BY <2>5, <2>6
  <1> HIDE DEF T
  <1>5. \A n \in 0 .. L : n \in T
    BY <1>3, <1>4, IntervalByInduction
  <1>6. Place(S, L) = Cardinality(S)
    BY PlaceEnds
  <1>7. L \in 0 .. L
    OBVIOUS
  <1>8. QED
    BY <1>5, <1>6, <1>7 DEF T

\* What every kind of message weighs
LEMMA WeightIs ==
  ASSUME NEW rows, NEW ref, NEW ground
  PROVE  /\ \A i : ref.src = "history" /\ ref.of = {i} => Weight(rows, ref, ground) = rows[i].size
         /\ ref.src = "fold" => Weight(rows, ref, ground) = FoldBytes
         /\ ref.src = "ground" => Weight(rows, ref, ground) = ground
         /\ ref.src \in {"glass", "holster"} => Weight(rows, ref, ground) = 0
         /\ ref.src \in {"trail_sign", "trail_marker", "hearth_trace"} => Weight(rows, ref, ground) = SignBytes
  <1>1. ASSUME NEW i, ref.src = "history", ref.of = {i}
        PROVE  Weight(rows, ref, ground) = rows[i].size
    <2>1. (CHOOSE j \in {i} : TRUE) = i
      OBVIOUS
    <2>2. Weight(rows, ref, ground) = rows[CHOOSE j \in ref.of : TRUE].size
      BY <1>1 DEF Weight
    <2>3. QED
      BY <1>1, <2>1, <2>2
  <1>2. ref.src = "fold" => Weight(rows, ref, ground) = FoldBytes
    BY DEF Weight
  <1>3. ref.src = "ground" => Weight(rows, ref, ground) = ground
    BY DEF Weight
  <1>4. ref.src \in {"glass", "holster"} => Weight(rows, ref, ground) = 0
    BY DEF Weight
  <1>5. ref.src \in {"trail_sign", "trail_marker", "hearth_trace"} => Weight(rows, ref, ground) = SignBytes
    BY DEF Weight
  <1>6. QED
    BY <1>1, <1>2, <1>3, <1>4, <1>5

\* What a cast weighs: its folds, its ground with the signs, and the rows it shows.
HasSizes(rows) == \A i \in DOMAIN rows : rows[i].size \in Nat

GroundWeighs(rows, w, ph, ground, gs) ==
  /\ gs[0] = 0
  /\ \A n \in 1 .. Len(GroundBand(rows, w, ph)) :
       gs[n] = gs[n - 1] + Weight(rows, GroundBand(rows, w, ph)[n], ground)

FoldsWeigh(rows, folded, fs) ==
  fs[0] = 0 /\ \A n \in 1 .. Len(rows) : fs[n] = fs[n - 1] + (IF n \in folded THEN FoldBytes ELSE 0)

HistoryWeighs(rows, omitted, folded, hs) ==
  /\ hs[0] = 0
  /\ \A n \in 1 .. Len(rows) :
       hs[n] = hs[n - 1] + (IF n \in Kept(rows, folded)
                            THEN (IF n \in omitted THEN 0 ELSE rows[n].size) ELSE 0)

\* measure() adds up the messages left; that is the folds, the ground and the rows shown.
LEMMA CastWeighs ==
  ASSUME NEW rows, IsRows(rows), HasSizes(rows), NEW w, NEW ph, NEW ground \in Nat,
         NEW omitted \in SUBSET DOMAIN rows, NEW folded \in SUBSET DOMAIN rows,
         NEW gs, GroundWeighs(rows, w, ph, ground, gs), NEW fs, FoldsWeigh(rows, folded, fs),
         NEW hs, HistoryWeighs(rows, omitted, folded, hs)
  PROVE  /\ TotalBytes(rows, Assembled(rows, w, ph, omitted, folded), ground)
              = fs[Len(rows)] + gs[Len(GroundBand(rows, w, ph))] + hs[Len(rows)]
         /\ fs[Len(rows)] \in Nat /\ gs[Len(GroundBand(rows, w, ph))] \in Nat /\ hs[Len(rows)] \in Nat
  <1> DEFINE L == Len(rows)
             kept == Kept(rows, folded)
             place == InOrder(kept)
             pair == InOrder(folded)
             P == Prefix(ph)
             G == GroundBand(rows, w, ph)
             p == Len(P)
             f == Cardinality(folded)
             g == Len(G)
             h == Cardinality(kept)
             base == p + f + g
             m == Assembled(rows, w, ph, omitted, folded)
  <1>0. PICK refs, omissions : AreBands(rows, w, ph, omitted, folded, refs, omissions)
    BY AssembledIs
  <1>1. /\ Assembled(rows, w, ph, omitted, folded) = Scrubbed(refs, omissions)
        /\ p \in Nat /\ p >= 1 /\ f \in Nat /\ g \in Nat /\ g >= 1 /\ h \in Nat
        /\ DOMAIN refs = 1 .. p + f + g + h
        /\ \A n \in 1 .. p : refs[n] = P[n] /\ refs[n].src \in {"glass", "holster"}
        /\ \A n \in 1 .. f : refs[p + n] = Ref("fold", {pair[n], pair[n] + 1})
        /\ \A n \in 1 .. g : /\ refs[p + f + n] = G[n]
                             /\ refs[p + f + n].src \in {"ground", "trail_sign", "trail_marker", "hearth_trace"}
        /\ \A n \in 1 .. h : refs[p + f + g + n] = Ref("history", {place[n]})
        /\ omissions \cap (1 .. p + f + g) = {}
        /\ \A n \in 1 .. h : p + f + g + n \in omissions <=> place[n] \in omitted
    BY <1>0 DEF AreBands
  <1>lengths. /\ p \in Nat /\ p >= 1 /\ f \in Nat /\ g \in Nat /\ h \in Nat
              /\ DOMAIN refs = 1 .. p + f + g + h
    BY <1>1
  <1>2. /\ L \in Nat /\ DOMAIN rows = 1 .. L /\ kept \in SUBSET (1 .. L) /\ folded \in SUBSET (1 .. L)
        /\ FoldBytes \in Nat /\ SignBytes \in Nat
    BY WatermarksAssumption DEF IsRows, Kept
  <1>3. \A n \in 1 .. h : place[n] \in kept
    <2>1. kept \in SUBSET Nat /\ IsFiniteSet(kept)
      BY <1>2, PlaceEnds
    <2> HIDE DEF kept
    <2>2. QED
      BY <2>1, InOrderIs
  <1> DEFINE D == DOMAIN refs \ omissions
             s == InOrder(D)
             Q == base + h
             v == [q \in 1 .. Q |-> Weight(rows, refs[q], ground)]
             d == Cardinality(D)
  <1>4. IsLeft(Message, m, refs, D, s)
    <2>1. IsLeft(Message, Scrubbed(refs, omissions), refs, D, s)
      <3>1. refs \in Seq(Message)
        BY <1>0 DEF AreBands
      <3>2. QED
        BY <3>1, ScrubbedIs
    <2>2. m = Scrubbed(refs, omissions)
      BY <1>1
    <2> HIDE DEF m, D, s
    <2>3. QED
      BY <2>1, <2>2
  <1>5. Q \in Nat /\ base \in Nat /\ D \in SUBSET (1 .. Q) /\ p + f \in Nat
    <2> HIDE DEF p, f, g, h
    <2>1. QED
      BY <1>lengths
  <1> HIDE DEF kept, place, pair, P, G, p, f, g, h, base, m, D, s, d, Q
  <1>6. /\ d \in Nat /\ Len(m) = d /\ \A n \in 1 .. d : s[n] \in D /\ m[n] = refs[s[n]]
    <2>1. Cardinality(D) \in Nat
      BY <1>5, PlaceEnds
    <2>2. QED
      BY <1>4, <2>1 DEF IsLeft, d
  <1>7. \A q \in 1 .. Q : v[q] = Weight(rows, refs[q], ground)
    OBVIOUS
  <1> HIDE DEF v
  <1>8. \A q \in 1 .. p : q \in D /\ q \in 1 .. Q /\ v[q] = 0
    <2>1. TAKE q \in 1 .. p
    <2>2. q \in 1 .. Q /\ q \in 1 .. p + f + g
      BY <1>lengths, <1>5 DEF base, Q
    <2>3. q \in D
      BY <1>1, <2>2 DEF D, base, Q
    <2>4. v[q] = 0
      BY <1>1, <1>7, <2>2, WeightIs
    <2>5. QED
      BY <2>2, <2>3, <2>4
  <1>9. \A n \in 1 .. f : p + n \in D /\ p + n \in 1 .. Q /\ v[p + n] = FoldBytes
    <2>1. TAKE n \in 1 .. f
    <2>2. p + n \in 1 .. Q /\ p + n \in 1 .. p + f + g
      BY <1>lengths, <1>5 DEF base, Q
    <2>3. p + n \in D
      BY <1>1, <2>2 DEF D, base, Q
    <2>4. refs[p + n].src = "fold"
      <3>1. refs[p + n] = Ref("fold", {pair[n], pair[n] + 1})
        BY <1>1
      <3>2. QED
        BY <3>1 DEF Ref
    <2>5. v[p + n] = FoldBytes
      BY <1>7, <2>2, <2>4, WeightIs
    <2>6. QED
      BY <2>2, <2>3, <2>5
  <1>10. \A n \in 1 .. g : p + f + n \in D /\ p + f + n \in 1 .. Q /\ v[p + f + n] = Weight(rows, G[n], ground)
                           /\ v[p + f + n] \in Nat
    <2>1. TAKE n \in 1 .. g
    <2>2. p + f + n \in 1 .. Q /\ p + f + n \in 1 .. p + f + g
      BY <1>lengths, <1>5 DEF base, Q
    <2>3. p + f + n \in D
      BY <1>1, <2>2 DEF D, base, Q
    <2>4. refs[p + f + n] = G[n] /\ refs[p + f + n].src \in {"ground", "trail_sign", "trail_marker", "hearth_trace"}
      BY <1>1
    <2>5. v[p + f + n] = Weight(rows, G[n], ground)
      BY <1>7, <2>2, <2>4
    <2>6. Weight(rows, G[n], ground) \in Nat
      BY <1>2, <2>4, WeightIs
    <2>7. QED
      BY <2>2, <2>3, <2>5, <2>6
  <1>11. \A n \in 1 .. h : /\ base + n \in 1 .. Q /\ v[base + n] = rows[place[n]].size
                           /\ base + n \in D <=> place[n] \notin omitted
                           /\ place[n] \in kept /\ rows[place[n]].size \in Nat
    <2>1. TAKE n \in 1 .. h
    <2>2. base + n \in 1 .. Q
      BY <1>lengths, <1>5 DEF Q
    <2>3. refs[base + n] = Ref("history", {place[n]}) /\ (base + n \in omissions <=> place[n] \in omitted)
      BY <1>1 DEF base
    <2>4. refs[base + n].src = "history" /\ refs[base + n].of = {place[n]}
      BY <2>3 DEF Ref
    <2>5. v[base + n] = rows[place[n]].size
      BY <1>7, <2>2, <2>4, WeightIs
    <2>6. base + n \in D <=> place[n] \notin omitted
      BY <1>1, <2>2, <2>3 DEF D, base, Q
    <2>7. place[n] \in kept /\ rows[place[n]].size \in Nat
      BY <1>2, <1>3 DEF HasSizes
    <2>8. QED
      BY <2>2, <2>5, <2>6, <2>7
  <1> DEFINE each == [q \in 1 .. Q |-> IF q \in D THEN v[q] ELSE 0]
  <1>12. PICK e : e[0] = 0 /\ \A q \in 1 .. Q : e[q] = e[q - 1] + (IF q \in D THEN v[q] ELSE 0)
    <2>1. PICK e : IsSum(e, each, Q)
      BY <1>5, SumsExist
    <2>2. \A q \in 1 .. Q : each[q] = (IF q \in D THEN v[q] ELSE 0)
      OBVIOUS
    <2> HIDE DEF each
    <2>3. QED
      BY <2>1, <2>2 DEF IsSum
  <1>13. \A q \in D : v[q] \in Nat
    <2>1. TAKE q \in D
    <2>2. q \in 1 .. Q
      BY <1>5
    <2>3. CASE q \in 1 .. p
      BY <1>8, <2>3
    <2>4. CASE q - p \in 1 .. f
      <3>1. p + (q - p) = q
        BY <1>1, <2>2
      <3>2. v[p + (q - p)] = FoldBytes
        BY <1>9, <2>4
      <3>3. QED
        BY <1>2, <3>1, <3>2
    <2>5. CASE q - (p + f) \in 1 .. g
      <3>1. p + f + (q - (p + f)) = q
        BY <1>1, <2>2
      <3>2. v[p + f + (q - (p + f))] \in Nat
        BY <1>10, <2>5
      <3>3. QED
        BY <3>1, <3>2
    <2>6. CASE q - base \in 1 .. h
      <3>1. base + (q - base) = q
        BY <1>5, <2>2
      <3>2. v[base + (q - base)] \in Nat
        BY <1>11, <2>6
      <3>3. QED
        BY <3>1, <3>2
    <2>7. q \in 1 .. p \/ q - p \in 1 .. f \/ q - (p + f) \in 1 .. g \/ q - base \in 1 .. h
      BY <1>lengths, <2>2 DEF base, Q
    <2>8. QED
      BY <2>3, <2>4, <2>5, <2>6, <2>7
  <1>14. TotalBytes(rows, m, ground) = e[Q] /\ e[Q] \in Nat
    <2> DEFINE x == [n \in 1 .. d |-> v[s[n]]]
    <2>1. \A n \in 1 .. d : x[n] = v[s[n]] /\ v[s[n]] = Weight(rows, m[n], ground)
      <3>1. TAKE n \in 1 .. d
      <3>2. s[n] \in D /\ m[n] = refs[s[n]]
        BY <1>6
      <3>3. s[n] \in 1 .. Q
        BY <1>5, <3>2
      <3>4. QED
        BY <1>7, <3>2, <3>3
    <2> HIDE DEF x
    <2>2. PICK u : IsSum(u, x, d) /\ TotalBytes(rows, m, ground) = u[d]
      <3>1. Len(m) \in Nat /\ \A n \in 1 .. Len(m) : x[n] = Weight(rows, m[n], ground)
        BY <1>6, <2>1
      <3>2. \E u : IsSum(u, x, Len(m)) /\ TotalBytes(rows, m, ground) = u[Len(m)]
        BY <3>1, TotalBytesIs
      <3>3. Len(m) = d
        BY <1>6
      <3>4. QED
        BY <3>2, <3>3
    <2>3. u[0] = 0 /\ \A n \in 1 .. d : u[n] = u[n - 1] + v[s[n]]
      BY <2>1, <2>2 DEF IsSum
    <2>4. SumsInOrder(u, 0, v, D)
      <3> SUFFICES \A n \in 1 .. Cardinality(D) : u[0 + n] = u[0 + n - 1] + v[InOrder(D)[n]]
        BY DEF SumsInOrder
      <3>1. TAKE n \in 1 .. Cardinality(D)
      <3>2. 0 + n = n /\ n \in 1 .. d
        BY <1>6 DEF d
      <3>3. QED
        BY <2>3, <3>2 DEF s
    <2>5. u[0 + Cardinality(D)] = u[0] + e[Q] /\ e[Q] \in Nat
      <3>1. IsSumOver(e, v, D, Q)
        BY <1>12 DEF IsSumOver
      <3>2. u[0] \in Nat
        BY <2>3
      <3>3. QED
        BY <1>5, <1>13, <2>4, <3>1, <3>2, InOrderSums
    <2>6. QED
      BY <1>6, <2>2, <2>3, <2>5 DEF d
  <1>15. e[p] = 0
    <2> DEFINE T == {n \in Nat : e[n] = 0}
    <2>1. 0 \in T
      BY <1>12
    <2>2. ASSUME NEW n \in 0 .. p, n < p, n \in T
          PROVE  n + 1 \in T
      <3>1. n + 1 \in 1 .. p /\ n + 1 - 1 = n /\ n + 1 \in Nat
        BY <1>1, <2>2
      <3>2. e[n + 1] = e[n] + 0
        BY <1>8, <1>12, <3>1
      <3>3. QED
        BY <2>2, <3>1, <3>2
    <2> HIDE DEF T
    <2>3. \A n \in 0 .. p : n \in T
      BY <1>1, <2>1, <2>2, IntervalByInduction
    <2>4. p \in 0 .. p
      BY <1>1
    <2>5. QED
      BY <2>3, <2>4 DEF T
  <1>16. e[p + f] = e[p] + fs[L] /\ fs[L] \in Nat
    <2> DEFINE x == [n \in 1 .. L |-> FoldBytes]
    <2>1. \A n \in 1 .. L : x[n] = FoldBytes
      OBVIOUS
    <2>2. \A n \in 1 .. f : pair[n] \in 1 .. L
      <3>1. folded \in SUBSET Nat /\ IsFiniteSet(folded)
        BY <1>2, PlaceEnds
      <3>2. \A n \in 1 .. f : pair[n] \in folded
        BY <3>1, InOrderIs DEF pair, f
      <3>3. QED
        BY <1>2, <3>2
    <2> HIDE DEF x
    <2>3. SumsInOrder(e, p, x, folded)
      <3> SUFFICES \A n \in 1 .. Cardinality(folded) : e[p + n] = e[p + n - 1] + x[InOrder(folded)[n]]
        BY DEF SumsInOrder
      <3>1. TAKE n \in 1 .. Cardinality(folded)
      <3>2. n \in 1 .. f
        BY DEF f
      <3>3. PICK q : q = p + n
        OBVIOUS
      <3>4. q \in 1 .. Q /\ q \in D /\ v[q] = FoldBytes
        BY <1>9, <3>2, <3>3
      <3>5. e[q] = e[q - 1] + FoldBytes
        BY <1>12, <3>4
      <3>6. x[InOrder(folded)[n]] = FoldBytes
        BY <2>1, <2>2, <3>2 DEF pair
      <3>7. e[p + n] = e[p + n - 1] + FoldBytes
        <4>1. p \in Int /\ n \in Int
          BY <1>1, <3>2
        <4>2. q \in Int /\ q - 1 = p + n - 1
          BY <3>3, <4>1
        <4>3. QED
          BY <3>3, <3>5, <4>2
      <3>8. QED
        BY <3>6, <3>7
    <2>4. \A n \in folded : x[n] \in Nat
      BY <1>2, <2>1
    <2>5. IsSumOver(fs, x, folded, L)
      BY <2>1 DEF IsSumOver, FoldsWeigh
    <2>6. e[p + Cardinality(folded)] = e[p] + fs[L] /\ fs[L] \in Nat
      <3>1. p \in Nat /\ L \in Nat /\ folded \in SUBSET (1 .. L)
        BY <1>1, <1>2
      <3>2. e[p] \in Nat
        BY <1>15
      <3> HIDE DEF L
      <3>3. QED
        BY <2>3, <2>4, <2>5, <3>1, <3>2, InOrderSums
    <2>7. QED
      BY <2>6 DEF f
  <1>17. e[base] = e[p + f] + gs[g] /\ gs[g] \in Nat
    <2> DEFINE T == {n \in Nat : e[p + f + n] = e[p + f] + gs[n] /\ gs[n] \in Nat}
    <2>1. e[p + f] \in Nat
      BY <1>15, <1>16
    <2>2. 0 \in T
      BY <1>5, <2>1 DEF GroundWeighs
    <2>3. ASSUME NEW n \in 0 .. g, n < g, n \in T
          PROVE  n + 1 \in T
      <3>1. n + 1 \in 1 .. g /\ n + 1 - 1 = n /\ n + 1 \in Nat /\ p + f + (n + 1) - 1 = p + f + n
        BY <1>1, <2>3
      <3>2. gs[n + 1] = gs[n] + Weight(rows, G[n + 1], ground)
        BY <3>1 DEF g, G, GroundWeighs
      <3>3. /\ e[p + f + (n + 1)] = e[p + f + n] + v[p + f + (n + 1)]
            /\ v[p + f + (n + 1)] = Weight(rows, G[n + 1], ground) /\ v[p + f + (n + 1)] \in Nat
        <4>1. PICK q : q = p + f + (n + 1)
          OBVIOUS
        <4>2. q \in 1 .. Q /\ q \in D /\ v[q] = Weight(rows, G[n + 1], ground) /\ v[q] \in Nat
          BY <1>10, <3>1, <4>1
        <4>3. e[q] = e[q - 1] + v[q]
          BY <1>12, <4>2
        <4>4. q - 1 = p + f + n
          <5>1. p \in Int /\ f \in Int /\ n \in Int
            BY <1>1, <2>3
          <5>2. QED
            BY <4>1, <5>1
        <4>5. QED
          BY <4>1, <4>2, <4>3, <4>4
      <3>4. e[p + f + n] = e[p + f] + gs[n] /\ gs[n] \in Nat
        BY <2>3
      <3>5. QED
        BY <2>1, <3>1, <3>2, <3>3, <3>4
    <2> HIDE DEF T
    <2>4. \A n \in 0 .. g : n \in T
      BY <1>1, <2>2, <2>3, IntervalByInduction
    <2>5. g \in 0 .. g
      BY <1>1
    <2>6. QED
      BY <2>4, <2>5 DEF T, base
  <1>18. e[Q] = e[base] + hs[L] /\ hs[L] \in Nat
    <2> DEFINE x == [n \in 1 .. L |-> IF n \in omitted THEN 0 ELSE rows[n].size]
    <2>1. \A n \in 1 .. L : x[n] = (IF n \in omitted THEN 0 ELSE rows[n].size)
      OBVIOUS
    <2> HIDE DEF x
    <2>2. SumsInOrder(e, base, x, kept)
      <3> SUFFICES \A n \in 1 .. Cardinality(kept) : e[base + n] = e[base + n - 1] + x[InOrder(kept)[n]]
        BY DEF SumsInOrder
      <3>1. TAKE n \in 1 .. Cardinality(kept)
      <3>2. n \in 1 .. h
        BY DEF h
      <3>3. /\ base + n \in 1 .. Q /\ v[base + n] = rows[place[n]].size
            /\ base + n \in D <=> place[n] \notin omitted
            /\ place[n] \in 1 .. L
        BY <1>2, <1>11, <3>2
      <3>4. e[base + n] = e[base + n - 1] + (IF base + n \in D THEN v[base + n] ELSE 0)
        <4>1. PICK q : q = base + n
          OBVIOUS
        <4>2. q \in 1 .. Q
          BY <3>3, <4>1
        <4>3. e[q] = e[q - 1] + (IF q \in D THEN v[q] ELSE 0)
          BY <1>12, <4>2
        <4>4. q - 1 = base + n - 1
          <5>1. base \in Int /\ n \in Int
            BY <1>5, <3>2
          <5>2. QED
            BY <4>1, <5>1
        <4>5. e[q] = e[base + n] /\ v[q] = v[base + n] /\ (q \in D <=> base + n \in D)
          BY <4>1
        <4>6. CASE q \in D
          BY <4>3, <4>4, <4>5, <4>6
        <4>7. CASE q \notin D
          BY <4>3, <4>4, <4>5, <4>7
        <4>8. QED
          BY <4>6, <4>7
      <3>5. QED
        BY <2>1, <3>3, <3>4 DEF place
    <2>3. \A n \in kept : x[n] \in Nat
      BY <1>2, <2>1 DEF HasSizes
    <2>4. IsSumOver(hs, x, kept, L)
      BY <2>1 DEF kept, IsSumOver, HistoryWeighs
    <2>5. e[base] \in Nat
      BY <1>15, <1>16, <1>17
    <2>6. e[base + Cardinality(kept)] = e[base] + hs[L] /\ hs[L] \in Nat
      BY <1>2, <1>5, <2>2, <2>3, <2>4, <2>5, InOrderSums
    <2>7. QED
      BY <2>6 DEF Q, h
  <1>19. TotalBytes(rows, m, ground) = fs[L] + gs[g] + hs[L]
    BY <1>14, <1>15, <1>16, <1>17, <1>18
  <1>20. QED
    BY <1>16, <1>17, <1>18, <1>19 DEF m, g, G

\* Folding a pair is worthwhile, so the more of them are folded, the less is shown.
Weighs(rows, omitted, folded, fs, hs) ==
  FoldsWeigh(rows, folded, fs) /\ HistoryWeighs(rows, omitted, folded, hs)

OnlyExchanges(rows, omitted) ==
  \A i \in DOMAIN rows : rows[i].kind \in {"user", "resident"} => i \notin omitted

\* What the folds save up to row n; a pair whose second row is still to come counts
\* its first row as shown.
Saves(rows, F, G, fF, hF, fG, hG, n) ==
  /\ fF[n] \in Nat /\ hF[n] \in Nat /\ fG[n] \in Nat /\ hG[n] \in Nat
  /\ n \in G \ F => fG[n] + hG[n] + rows[n].size <= fF[n] + hF[n] + FoldBytes
  /\ n \notin G \ F => fG[n] + hG[n] <= fF[n] + hF[n]

\* A pair that is worth folding, and when a row is kept
LEMMA PairsAre ==
  ASSUME NEW rows, IsRows(rows), NEW G \in SUBSET Worthwhile(rows)
  PROVE  /\ \A i \in G : /\ i \in DOMAIN rows /\ i + 1 \in DOMAIN rows /\ i \in Nat
                         /\ rows[i].kind = "user" /\ rows[i + 1].kind = "resident"
                         /\ FoldBytes < rows[i].size + rows[i + 1].size
         /\ \A n \in Nat : n + 1 \in DOMAIN rows => (n + 1 \in Kept(rows, G) <=> n + 1 \notin G /\ n \notin G)
  <1>1. ASSUME NEW i \in G
        PROVE  /\ i \in DOMAIN rows /\ i + 1 \in DOMAIN rows /\ i \in Nat
               /\ rows[i].kind = "user" /\ rows[i + 1].kind = "resident"
               /\ FoldBytes < rows[i].size + rows[i + 1].size
    <2>1. i \in Dialogue(rows) /\ FoldBytes < rows[i].size + rows[i + 1].size
      BY DEF Worthwhile, Eligible
    <2>2. QED
      BY <2>1 DEF Dialogue, IsRows
  <1>2. ASSUME NEW n \in Nat, n + 1 \in DOMAIN rows
        PROVE  n + 1 \in Kept(rows, G) <=> n + 1 \notin G /\ n \notin G
    <2>1. n + 1 \in UNION {{i, i + 1} : i \in G} <=> \E i \in G : n + 1 = i \/ n + 1 = i + 1
      OBVIOUS
    <2>2. \A i \in G : n + 1 = i + 1 <=> n = i
      BY <1>1
    <2>3. QED
      BY <1>2, <2>1, <2>2 DEF Kept
  <1>3. QED
    BY <1>1, <1>2

\* One row further
LEMMA FoldingSavesAgain ==
  ASSUME NEW rows, IsRows(rows), HasSizes(rows), NEW omitted, OnlyExchanges(rows, omitted),
         NEW G \in SUBSET Worthwhile(rows), NEW F \in SUBSET G,
         NEW fF, NEW hF, Weighs(rows, omitted, F, fF, hF),
         NEW fG, NEW hG, Weighs(rows, omitted, G, fG, hG),
         NEW n \in Nat, n + 1 \in DOMAIN rows, Saves(rows, F, G, fF, hF, fG, hG, n)
  PROVE  Saves(rows, F, G, fF, hF, fG, hG, n + 1)
  <1> DEFINE size == rows[n + 1].size
  <1>1. F \in SUBSET Worthwhile(rows)
    OBVIOUS
  <1>2. n + 1 \in 1 .. Len(rows) /\ n + 1 - 1 = n
    BY DEF IsRows
  <1>3. size \in Nat /\ FoldBytes \in Nat
    BY WatermarksAssumption DEF HasSizes
  <1>4. /\ fF[n + 1] = fF[n] + (IF n + 1 \in F THEN FoldBytes ELSE 0)
        /\ fG[n + 1] = fG[n] + (IF n + 1 \in G THEN FoldBytes ELSE 0)
    BY <1>2 DEF Weighs, FoldsWeigh
  <1>5. /\ hF[n + 1] = hF[n] + (IF n + 1 \in Kept(rows, F) THEN (IF n + 1 \in omitted THEN 0 ELSE size) ELSE 0)
        /\ hG[n + 1] = hG[n] + (IF n + 1 \in Kept(rows, G) THEN (IF n + 1 \in omitted THEN 0 ELSE size) ELSE 0)
    BY <1>2 DEF Weighs, HistoryWeighs
  <1>6. /\ n + 1 \in Kept(rows, F) <=> n + 1 \notin F /\ n \notin F
        /\ n + 1 \in Kept(rows, G) <=> n + 1 \notin G /\ n \notin G
    BY <1>1, PairsAre
  <1>7. fF[n] \in Nat /\ hF[n] \in Nat /\ fG[n] \in Nat /\ hG[n] \in Nat
    BY DEF Saves
  <1>8. n \in G => n + 1 \notin G
    <2>1. n \in G => rows[n + 1].kind = "resident"
      BY PairsAre
    <2>2. n + 1 \in G => rows[n + 1].kind = "user"
      BY PairsAre
    <2>3. QED
      BY <2>1, <2>2
  <1>9. n \in G \/ n + 1 \in G => n + 1 \notin omitted
    <2>1. n \in G \/ n + 1 \in G => rows[n + 1].kind \in {"user", "resident"}
      BY PairsAre
    <2>2. QED
      BY <2>1 DEF OnlyExchanges
  <1> HIDE DEF size
  <1>10. fF[n + 1] \in Nat /\ hF[n + 1] \in Nat /\ fG[n + 1] \in Nat /\ hG[n + 1] \in Nat
    BY <1>3, <1>4, <1>5, <1>7
  <1>11. CASE n \in G \ F
    <2>1. fG[n] + hG[n] + rows[n].size <= fF[n] + hF[n] + FoldBytes
      BY <1>11 DEF Saves
    <2>2. FoldBytes < rows[n].size + size /\ rows[n].size \in Nat
      BY <1>11, PairsAre DEF HasSizes, size
    <2>3. n + 1 \notin G /\ n + 1 \notin F /\ n + 1 \notin omitted
      BY <1>8, <1>9, <1>11
    <2>4. fF[n + 1] = fF[n] /\ fG[n + 1] = fG[n] /\ hF[n + 1] = hF[n] + size /\ hG[n + 1] = hG[n]
      BY <1>4, <1>5, <1>6, <1>7, <1>11, <2>3
    <2>5. fG[n + 1] + hG[n + 1] <= fF[n + 1] + hF[n + 1]
      BY <1>3, <1>7, <2>1, <2>2, <2>4
    <2>6. QED
      BY <1>10, <2>3, <2>5 DEF Saves
  <1>12. CASE n \notin G \ F
    <2>1. fG[n] + hG[n] <= fF[n] + hF[n]
      BY <1>12 DEF Saves
    <2>2. CASE n + 1 \in G \ F
      <3>1. n \notin G /\ n \notin F /\ n + 1 \notin omitted
        BY <1>8, <1>9, <2>2
      <3>2. /\ fF[n + 1] = fF[n] /\ fG[n + 1] = fG[n] + FoldBytes
            /\ hF[n + 1] = hF[n] + size /\ hG[n + 1] = hG[n]
        BY <1>4, <1>5, <1>6, <1>7, <2>2, <3>1
      <3>3. fG[n + 1] + hG[n + 1] + size <= fF[n + 1] + hF[n + 1] + FoldBytes
        BY <1>3, <1>7, <2>1, <3>2
      <3>4. QED
        BY <1>10, <2>2, <3>3 DEF Saves, size
    <2>3. CASE n + 1 \notin G \ F
      <3>1. n + 1 \in F <=> n + 1 \in G
        BY <2>3
      <3>2. n \in F <=> n \in G
        BY <1>12
      <3>3. PICK a \in Nat : fF[n + 1] = fF[n] + a /\ fG[n + 1] = fG[n] + a
        BY <1>3, <1>4, <3>1
      <3>4. PICK b \in Nat : hF[n + 1] = hF[n] + b /\ hG[n + 1] = hG[n] + b
        BY <1>3, <1>5, <1>6, <3>1, <3>2
      <3>5. fG[n + 1] + hG[n + 1] <= fF[n + 1] + hF[n + 1]
        BY <1>7, <2>1, <3>3, <3>4
      <3>6. QED
        BY <1>10, <2>3, <3>5 DEF Saves
    <2>4. QED
      BY <2>2, <2>3
  <1>13. QED
    BY <1>11, <1>12

\* The more pairs are folded, the less the folds and the rows shown weigh together.
LEMMA FoldingSaves ==
  ASSUME NEW rows, IsRows(rows), HasSizes(rows), NEW omitted, OnlyExchanges(rows, omitted),
         NEW G \in SUBSET Worthwhile(rows), NEW F \in SUBSET G,
         NEW fF, NEW hF, Weighs(rows, omitted, F, fF, hF),
         NEW fG, NEW hG, Weighs(rows, omitted, G, fG, hG)
  PROVE  fG[Len(rows)] + hG[Len(rows)] <= fF[Len(rows)] + hF[Len(rows)]
  <1> DEFINE L == Len(rows)
             T == {n \in Nat : Saves(rows, F, G, fF, hF, fG, hG, n)}
  <1>1. L \in Nat /\ DOMAIN rows = 1 .. L
    BY DEF IsRows
  <1>2. 0 \notin G
    BY <1>1, PairsAre
  <1>3. 0 \in T
    BY <1>2 DEF Saves, Weighs, FoldsWeigh, HistoryWeighs
  <1> HIDE DEF L
  <1>4. ASSUME NEW n \in 0 .. L, n < L, n \in T
        PROVE  n + 1 \in T
    <2>1. n \in Nat /\ n + 1 \in Nat /\ n + 1 \in DOMAIN rows
      BY <1>1, <1>4
    <2>2. Saves(rows, F, G, fF, hF, fG, hG, n)
      BY <1>4
    <2>3. Saves(rows, F, G, fF, hF, fG, hG, n + 1)
      BY <2>1, <2>2, FoldingSavesAgain
    <2>4. QED
      BY <2>1, <2>3
  <1> HIDE DEF T
  <1>5. \A n \in 0 .. L : n \in T
    BY <1>1, <1>3, <1>4, IntervalByInduction
  <1>6. L \in 0 .. L
    BY <1>1
  <1>7. L \notin G
    <2>1. L \in G => L + 1 \in DOMAIN rows
      BY PairsAre
    <2>2. QED
      BY <1>1, <2>1
  <1>8. Saves(rows, F, G, fF, hF, fG, hG, L)
    BY <1>5, <1>6 DEF T
  <1>9. QED
    BY <1>7, <1>8 DEF Saves, L

\* There is such a sum for every choice of folds, and for the ground.
LEMMA WeightsExist ==
  ASSUME NEW rows, IsRows(rows), NEW omitted, NEW folded
  PROVE  \E fs, hs : Weighs(rows, omitted, folded, fs, hs)
  <1> DEFINE L == Len(rows)
             a == [n \in 1 .. L |-> IF n \in folded THEN FoldBytes ELSE 0]
             b == [n \in 1 .. L |-> IF n \in Kept(rows, folded)
                                    THEN (IF n \in omitted THEN 0 ELSE rows[n].size) ELSE 0]
  <1>1. L \in Nat
    BY DEF IsRows
  <1>2. PICK fs : IsSum(fs, a, L)
    BY <1>1, SumsExist
  <1>3. PICK hs : IsSum(hs, b, L)
    BY <1>1, SumsExist
  <1>4. \A n \in 1 .. L : a[n] = IF n \in folded THEN FoldBytes ELSE 0
    OBVIOUS
  <1>5. \A n \in 1 .. L : b[n] = IF n \in Kept(rows, folded)
                                 THEN (IF n \in omitted THEN 0 ELSE rows[n].size) ELSE 0
    OBVIOUS
  <1> HIDE DEF a, b
  <1>6. FoldsWeigh(rows, folded, fs)
    BY <1>2, <1>4 DEF FoldsWeigh, IsSum
  <1>7. HistoryWeighs(rows, omitted, folded, hs)
    BY <1>3, <1>5 DEF HistoryWeighs, IsSum
  <1>8. QED
    BY <1>6, <1>7 DEF Weighs

\* The ground has its sum too.
LEMMA GroundIsWeighed ==
  ASSUME NEW rows, NEW w, NEW ph, NEW ground, Len(GroundBand(rows, w, ph)) \in Nat
  PROVE  \E gs : GroundWeighs(rows, w, ph, ground, gs)
  <1> DEFINE g == Len(GroundBand(rows, w, ph))
             a == [n \in 1 .. g |-> Weight(rows, GroundBand(rows, w, ph)[n], ground)]
  <1>1. PICK gs : IsSum(gs, a, g)
    BY SumsExist
  <1>2. \A n \in 1 .. g : a[n] = Weight(rows, GroundBand(rows, w, ph)[n], ground)
    OBVIOUS
  <1> HIDE DEF a
  <1>3. QED
    BY <1>1, <1>2 DEF GroundWeighs, IsSum

\* A crossing that folds more weighs no more.
Total(rows, w, ph, omitted, folded, ground) ==
  TotalBytes(rows, Assembled(rows, w, ph, omitted, folded), ground)

\* Folding more makes a crossing no heavier.
LEMMA FoldingShrinks ==
  ASSUME NEW rows, IsRows(rows), HasSizes(rows), NEW w, NEW ph, NEW ground \in Nat,
         NEW omitted \in SUBSET DOMAIN rows, OnlyExchanges(rows, omitted),
         NEW G \in SUBSET Worthwhile(rows), NEW F \in SUBSET G
  PROVE  /\ Total(rows, w, ph, omitted, G, ground) \in Nat
         /\ Total(rows, w, ph, omitted, F, ground) \in Nat
         /\ Total(rows, w, ph, omitted, G, ground) <= Total(rows, w, ph, omitted, F, ground)
  <1> DEFINE L == Len(rows)
             g == Len(GroundBand(rows, w, ph))
  <1>1. G \in SUBSET DOMAIN rows /\ F \in SUBSET DOMAIN rows
    BY PairsAre
  <1>2. g \in Nat
    BY GroundBandIs
  <1>3. PICK gs : GroundWeighs(rows, w, ph, ground, gs)
    BY <1>2, GroundIsWeighed
  <1>4. PICK fF, hF : Weighs(rows, omitted, F, fF, hF)
    BY WeightsExist
  <1>5. PICK fG, hG : Weighs(rows, omitted, G, fG, hG)
    BY WeightsExist
  <1>6. fG[L] + hG[L] <= fF[L] + hF[L]
    BY <1>4, <1>5, FoldingSaves
  <1>7. /\ Total(rows, w, ph, omitted, F, ground) = fF[L] + gs[g] + hF[L]
        /\ fF[L] \in Nat /\ gs[g] \in Nat /\ hF[L] \in Nat
    <2>1. FoldsWeigh(rows, F, fF) /\ HistoryWeighs(rows, omitted, F, hF)
      BY <1>4 DEF Weighs
    <2>2. QED
      BY <1>1, <1>3, <2>1, CastWeighs DEF Total
  <1>8. /\ Total(rows, w, ph, omitted, G, ground) = fG[L] + gs[g] + hG[L]
        /\ fG[L] \in Nat /\ gs[g] \in Nat /\ hG[L] \in Nat
    <2>1. FoldsWeigh(rows, G, fG) /\ HistoryWeighs(rows, omitted, G, hG)
      BY <1>5 DEF Weighs
    <2>2. QED
      BY <1>1, <1>3, <2>1, CastWeighs DEF Total
  <1> HIDE DEF L, g
  <1>9. QED
    BY <1>6, <1>7, <1>8

\* Every set of numbers that is not empty has a least one.
LEMMA LeastOfNats ==
  ASSUME NEW S \in SUBSET Nat, S # {}
  PROVE  \E i \in S : \A j \in S : ~(j < i)
  <1> DEFINE R == OpToRel(<, Nat)
  <1>1. \A x, y \in Nat : <<y, x>> \in R <=> y < x
    BY DEF OpToRel
  <1>2. IsWellFoundedOn(R, Nat)
    BY NatLessThanWellFounded
  <1> HIDE DEF R
  <1>3. PICK i \in S : \A j \in S : ~(<<j, i>> \in R)
    BY <1>2, WFMin
  <1>4. QED
    BY <1>1, <1>3

\* Folding stops short only of the low water.
LEMMA FoldingStops ==
  ASSUME NEW rows, IsRows(rows), HasSizes(rows), NEW w, NEW ph, ph # "orientation", NEW ground \in Nat,
         NEW omitted \in SUBSET DOMAIN rows, OnlyExchanges(rows, omitted),
         NEW folded, folded = Folded(rows, w, ph, omitted, ground),
         ~(Total(rows, w, ph, omitted, folded, ground) < RefuseBytes)
  PROVE  Worthwhile(rows) \subseteq folded
  <1> DEFINE after(folds) == Total(rows, w, ph, omitted, folds, ground)
             worthwhile == Worthwhile(rows)
             before(i) == {j \in worthwhile : j < i}
  <1>1. folded = IF after({}) < HighWater THEN {}
                 ELSE {i \in worthwhile : before(i) = {} \/ after(before(i)) > LowWater}
    BY DEF Folded, Total
  <1>2. folded \in SUBSET worthwhile
    BY <1>1
  <1>3. HighWater \in Nat /\ LowWater \in Nat /\ RefuseBytes \in Nat /\ LowWater < HighWater /\ HighWater <= RefuseBytes
    BY WatermarksAssumption
  <1>4. \A F \in SUBSET folded : after(F) \in Nat /\ after(folded) \in Nat /\ after(folded) <= after(F)
    BY <1>2, FoldingShrinks
  <1>5. ~(after(folded) < RefuseBytes)
    OBVIOUS
  <1>6. worthwhile \in SUBSET Nat
    BY PairsAre
  <1> HIDE DEF after, worthwhile
  <1>7. ~(after({}) < HighWater)
    <2> SUFFICES ASSUME after({}) < HighWater PROVE FALSE
      OBVIOUS
    <2>1. folded = {}
      BY <1>1
    <2>2. after(folded) = after({})
      BY <2>1
    <2>3. after({}) \in Nat
      BY <1>4
    <2>4. QED
      BY <1>3, <1>5, <2>2, <2>3
  <1>8. ASSUME worthwhile \ folded # {}
        PROVE  FALSE
    <2>1. PICK i \in worthwhile \ folded : \A j \in worthwhile \ folded : ~(j < i)
      BY <1>6, <1>8, LeastOfNats
    <2>2. before(i) \in SUBSET folded
      BY <2>1
    <2>3. ~(after(before(i)) > LowWater)
      BY <1>1, <1>7, <2>1
    <2>4. after(before(i)) \in Nat /\ after(folded) \in Nat /\ after(folded) <= after(before(i))
      BY <1>4, <2>2
    <2> HIDE DEF before
    <2>5. QED
      BY <1>3, <1>5, <2>3, <2>4
  <1>9. QED
    BY <1>8 DEF worthwhile

\* A refused crossing has folded all that is worth it and left out all that may leave.
LEMMA RefusedIsExhausted ==
  ASSUME AttentionInv
  PROVE  RefusesOnlyWhenExhausted
  <1>1. ASSUME step = "refused", phase # "orientation"
        PROVE  Worthwhile(Rows) \subseteq cast.folded /\ Omitted(Rows, wake) \subseteq Absent(cast)
    <2>1. PICK rows, c, ground, omitted : Fitted(rows, c, ground, omitted) /\ ground \in GroundSize
      BY <1>1, CastInFlight
    <2>2. /\ IsRows(rows) /\ rows = Rows /\ c = cast /\ omitted = Omitted(rows, wake)
          /\ IsCastOf(c, rows, wake, phase, ground, omitted)
          /\ ~(TotalBytes(rows, c.messages, ground) < RefuseBytes)
      BY <1>1, <2>1 DEF Fitted
    <2>3. ground \in Nat
      BY <2>1, AttentionAssumption
    <2>4. /\ c.folded = Folded(rows, wake, phase, omitted, ground)
          /\ c.messages = Assembled(rows, wake, phase, omitted, c.folded)
          /\ omitted \in SUBSET DOMAIN rows /\ Absent(c) = Told(c, "fold") \cup omitted
      BY <2>2 DEF IsCastOf
    <2>5. HasSizes(rows)
      <3>1. ASSUME NEW i \in DOMAIN scroll
            PROVE  scroll[i].size \in Nat
        <4>1. scroll[i] \in ScrollRow
          BY <3>1, RowsAre
        <4>2. QED
          BY <4>1 DEF ScrollRow
      <3>2. QED
        BY <2>2, <3>1, RowsAre DEF HasSizes
    <2>6. OnlyExchanges(rows, omitted)
      <3>1. ASSUME NEW i \in omitted
            PROVE  rows[i].kind \in {"assistant_tool_call", "tool_result"}
        <4>1. PICK d \in Leaving(rows, wake) : i \in Exchange(rows, d)
          BY <2>2, <3>1 DEF Omitted
        <4>2. d \in DOMAIN rows /\ IsCall(rows[d])
          BY <4>1 DEF Leaving, MayLeave, Answered
        <4>3. QED
          BY <2>2, <4>1, <4>2, ExchangeKinds
      <3>2. QED
        BY <3>1 DEF OnlyExchanges
    <2>7. ~(Total(rows, wake, phase, omitted, c.folded, ground) < RefuseBytes)
      BY <2>2, <2>4 DEF Total
    <2>8. Worthwhile(rows) \subseteq c.folded
      BY <1>1, <2>2, <2>3, <2>4, <2>5, <2>6, <2>7, FoldingStops
    <2>9. QED
      BY <2>2, <2>4, <2>8
  <1>2. QED
    BY <1>1 DEF RefusesOnlyWhenExhausted

\* For any watermarks that readConfig() accepts and any weights: attention_ceiling_exceeded
\* comes only after planRollingConversationFold() has folded every pair that saves
\* something and every exchange that may leave has left.
THEOREM RefusalIsTheLastResort ==
  Spec => []RefusesOnlyWhenExhausted
  BY AttentionIsInductive, RefusedIsExhausted, PTL
=============================================================================
