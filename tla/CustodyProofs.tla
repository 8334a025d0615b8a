---------------------------- MODULE CustodyProofs ----------------------------
(***************************************************************************)
(* Custody, for any number of wakes, sessions, faults, verifications and   *)
(* backfills.  First, the Forest tells the Source: where a wake stands in  *)
(* Source order at each of its steps (so that the predecessor it carries   *)
(* is always the utterance just before), and, for every utterance, its     *)
(* entry, its edge and its intake history.  Then the verified ancestry: a  *)
(* scan of a ledger may stop after any line and go on, so what a verifier  *)
(* carries, retains and publishes is always what a full scan finds.  Then  *)
(* readiness: what the first proof of a Hub still knows when it settles.   *)
(* Last, writers and verifiers: how far each wake has come in Spine,       *)
(* Source and Forest, step by step, so that one that is over left behind   *)
(* what the verifier asks for.                                             *)
(***************************************************************************)
EXTENDS Custody, TLAPS, SequenceTheorems, FiniteSetTheorems

-----------------------------------------------------------------------------
(* Induction on the naturals, with a set in place of a predicate *)

\* A set of naturals that is not empty has a least element.
LEMMA LeastOfNats ==
  ASSUME NEW T, T \subseteq Nat, T # {}
  PROVE  \E n \in T : \A m \in T : n <= m
  <1> DEFINE R == OpToRel(<, Nat)
  <1>1. IsWellFoundedOn(R, Nat)
    BY NatLessThanWellFounded
  <1>2. \A x, y \in Nat : <<y, x>> \in R <=> y < x
    BY DEF OpToRel
  <1> HIDE DEF R
  <1>3. PICK x \in T : \A y \in T : ~(<<y, x>> \in R)
    BY <1>1, WFMin
  <1>4. ASSUME NEW y \in T PROVE x <= y
    <2>1. x \in Nat /\ y \in Nat
      OBVIOUS
    <2>2. ~(y < x)
      BY <1>2, <1>3, <2>1
    <2>3. QED
      BY <2>1, <2>2
  <1>5. QED
    BY <1>4

\* A set with zero in it and with the successor of each of its numbers holds them all.
LEMMA NatsByInduction ==
  ASSUME NEW S, 0 \in S, \A n \in Nat : n \in S => n + 1 \in S
  PROVE  \A n \in Nat : n \in S
  <1> SUFFICES ASSUME Nat \ S # {} PROVE FALSE
    OBVIOUS
  <1>1. PICK n \in Nat \ S : \A m \in Nat \ S : n <= m
    BY LeastOfNats
  <1>2. n # 0 /\ n - 1 \in Nat
    BY <1>1
  <1>3. n - 1 \in S
    BY <1>1, <1>2
  <1>4. QED
    BY <1>1, <1>2, <1>3

\* The same up to a bound.
LEMMA IntervalByInduction ==
  ASSUME NEW N \in Nat, NEW S, 0 \in S, \A n \in 0..N : n < N /\ n \in S => n + 1 \in S
  PROVE  \A n \in 0..N : n \in S
  <1> DEFINE T == { n \in Nat : n <= N => n \in S }
  <1>1. 0 \in T
    OBVIOUS
  <1>2. \A n \in Nat : n \in T => n + 1 \in T
    OBVIOUS
  <1> HIDE DEF T
  <1>3. \A n \in Nat : n \in T
    BY <1>1, <1>2, NatsByInduction
  <1>4. QED
    BY <1>3 DEF T

-----------------------------------------------------------------------------

\* A history of decisions: an admission comes last, if at all.
HistoryOK(h) == h \in Seq(Decision) /\ \A i \in 1..Len(h) - 1 : h[i].state = "held"
LastOf(h) == h[Len(h)]
Admitted(u) == [state |-> "admitted", pred |-> u - 1]

UtteranceOK(u) ==
  IF u \in DOMAIN entry
  THEN /\ entry[u] \in Entry /\ entry[u].edge = u - 1
       /\ u \in DOMAIN intake /\ HistoryOK(intake[u])
       /\ intake[u] # <<>> /\ LastOf(intake[u]) = Admitted(u)
  ELSE u \in DOMAIN intake =>
         HistoryOK(intake[u]) /\ (intake[u] # <<>> => LastOf(intake[u]).state = "held")

ForestOK ==
  /\ \E k \in 0..Len(said) : DOMAIN entry = 1..k
  /\ DOMAIN intake \subseteq 1..Len(said)
  /\ \A u \in 1..Len(said) : UtteranceOK(u)
  /\ presented \subseteq Wake \X (1..Len(said)) /\ emitted \subseteq Wake \X (1..Len(said))

-----------------------------------------------------------------------------
(* Intake histories *)

\* What Decided() makes of a history.
Continued(h, d) ==
  IF h # <<>> /\ (LastOf(h) = d \/ LastOf(h).state = "admitted") THEN h ELSE Append(h, d)

LEMMA AppendedHistory ==
  ASSUME NEW h, HistoryOK(h), NEW d \in Decision, h # <<>> => LastOf(h).state = "held"
  PROVE  HistoryOK(Append(h, d)) /\ Append(h, d) # <<>> /\ LastOf(Append(h, d)) = d
  <1>1. /\ Append(h, d) \in Seq(Decision) /\ Append(h, d) # <<>>
        /\ Len(Append(h, d)) = Len(h) + 1
        /\ \A i \in 1..Len(h) : Append(h, d)[i] = h[i]
        /\ Append(h, d)[Len(h) + 1] = d
    BY AppendProperties DEF HistoryOK
  <1>2. \A i \in 1..Len(h) : h[i].state = "held"
    <2>1. TAKE i \in 1..Len(h)
    <2>2. Len(h) \in Nat /\ h # <<>>
      BY <2>1 DEF HistoryOK
    <2>3. CASE i = Len(h)
      BY <2>2, <2>3 DEF LastOf
    <2>4. CASE i # Len(h)
      BY <2>1, <2>2, <2>4 DEF HistoryOK
    <2>5. QED
      BY <2>3, <2>4
  <1>3. QED
    BY <1>1, <1>2 DEF HistoryOK, LastOf

LEMMA AdmittedHistory ==
  ASSUME NEW h, HistoryOK(h), NEW d \in Decision, d.state = "admitted",
         h # <<>> => LastOf(h).state = "held" \/ LastOf(h) = d
  PROVE  LET g == Continued(h, d) IN HistoryOK(g) /\ g # <<>> /\ LastOf(g) = d
  <1>1. CASE h # <<>> /\ LastOf(h) = d
    BY <1>1 DEF Continued
  <1>2. CASE ~(h # <<>> /\ LastOf(h) = d)
    <2>1. Continued(h, d) = Append(h, d) /\ (h # <<>> => LastOf(h).state = "held")
      BY <1>2 DEF Continued
    <2>2. QED
      BY <2>1, AppendedHistory
  <1>3. QED
    BY <1>1, <1>2

LEMMA HeldHistory ==
  ASSUME NEW h, HistoryOK(h), NEW d \in Decision, d.state = "held"
  PROVE  LET g == Continued(h, d) IN
         /\ HistoryOK(g)
         /\ h # <<>> /\ LastOf(h).state = "admitted" => g = h
         /\ ~(h # <<>> /\ LastOf(h).state = "admitted") => g # <<>> /\ LastOf(g).state = "held"
  <1>1. CASE h # <<>> /\ LastOf(h).state = "admitted"
    BY <1>1 DEF Continued
  <1>2. CASE ~(h # <<>> /\ LastOf(h).state = "admitted")
    <2>1. h # <<>> => LastOf(h) \in Decision
      BY DEF HistoryOK, LastOf
    <2>2. h # <<>> => LastOf(h).state = "held"
      BY <1>2, <2>1 DEF Decision
    <2>3. QED
      BY <1>2, <2>2, AppendedHistory DEF Continued
  <1>3. QED
    BY <1>1, <1>2

\* The decisions on u, when there may be none yet.
SoFar(u) == IF u \in DOMAIN intake THEN intake[u] ELSE <<>>

LEMMA WhatIsOffered ==
  ASSUME NEW u
  PROVE  Offered(u) = [v \in DOMAIN intake \cup {u} |-> IF v \in DOMAIN intake THEN intake[v] ELSE <<>>]
  BY DEF Offered, With

LEMMA WhatIsDecided ==
  ASSUME NEW u, NEW d
  PROVE  Decided(u, d) = [v \in DOMAIN intake \cup {u} |->
                            IF v = u THEN Continued(SoFar(u), d) ELSE intake[v]]
  <1>1. Offered(u) = [v \in DOMAIN intake \cup {u} |-> IF v \in DOMAIN intake THEN intake[v] ELSE <<>>]
    BY WhatIsOffered
  <1>2. Decided(u, d) = IF SoFar(u) # <<>> /\ (LastOf(SoFar(u)) = d \/ LastOf(SoFar(u)).state = "admitted")
                        THEN Offered(u) ELSE [Offered(u) EXCEPT ![u] = Append(SoFar(u), d)]
    BY <1>1 DEF Decided, SoFar, LastOf
  <1>3. QED
    BY <1>1, <1>2 DEF SoFar, Continued

-----------------------------------------------------------------------------
(* The commands of the store *)

\* The entry just before an utterance, when the entries are the first k.
LEMMA BeforeIs ==
  ASSUME NEW k \in Nat, DOMAIN entry = 1..k, NEW u \in Nat \ {0}
  PROVE  Before(u) = IF k < u THEN k ELSE u - 1
  <1> DEFINE V == {v \in 1..k : v < u}
             n == IF k < u THEN k ELSE u - 1
  <1>1. Before(u) = IF V = {} THEN 0 ELSE CHOOSE x \in V : \A v \in V : v <= x
    BY DEF Before, Newest, Root
  <1>2. CASE V = {}
    <2>1. n = 0
      <3>1. k = 0 \/ ~(1 < u)
        BY <1>2
      <3>2. QED
        BY <3>1
    <2>2. QED
      BY <1>1, <1>2, <2>1
  <1>3. CASE V # {}
    <2>1. n \in V /\ \A v \in V : v <= n
      BY <1>3
    <2>2. \A x \in V : (\A v \in V : v <= x) => x = n
      BY <2>1
    <2>3. (CHOOSE x \in V : \A v \in V : v <= x) = n
      BY <2>1, <2>2
    <2>4. QED
      BY <1>1, <1>3, <2>3
  <1>4. QED
    BY <1>2, <1>3

\* Nothing happens to the Forest while Source may grow.
LEMMA ForestRests ==
  ASSUME ForestOK, Len(said) \in Nat, Len(said') \in Nat, Len(said) <= Len(said'), UNCHANGED forestVars
  PROVE  ForestOK'
  <1>1. 1..Len(said) \subseteq 1..Len(said') /\ 0..Len(said) \subseteq 0..Len(said')
    OBVIOUS
  <1>2. \A u \in 1..Len(said') : UtteranceOK(u)'
    <2>1. TAKE u \in 1..Len(said')
    <2>2. entry' = entry /\ intake' = intake
      BY DEF forestVars
    <2>3. CASE u \in 1..Len(said)
      BY <2>2, <2>3 DEF ForestOK, UtteranceOK
    <2>4. CASE u \notin 1..Len(said)
      BY <1>1, <2>2, <2>4 DEF ForestOK, UtteranceOK
    <2>5. QED
      BY <2>3, <2>4
  <1>3. QED
    BY <1>1, <1>2 DEF ForestOK, forestVars

\* Only the history of u changes, and it still ends as its entry says.
LEMMA HistoryGrows ==
  ASSUME ForestOK, Len(said) \in Nat, NEW u \in 1..Len(said), NEW pred \in Nat,
         intake' \in {intake, Offered(u), Decided(u, [state |-> "held", pred |-> pred])},
         UNCHANGED <<said, entry, presented, emitted>>
  PROVE  ForestOK'
  <1> DEFINE d == [state |-> "held", pred |-> pred]
  <1>1. d \in Decision /\ d.state = "held"
    BY DEF Decision
  <1>2. CASE intake' = intake
    BY <1>2, ForestRests DEF forestVars
  <1>3. HistoryOK(SoFar(u))
    BY DEF ForestOK, UtteranceOK, SoFar, HistoryOK
  <1> HIDE DEF d
  <1>4. ASSUME intake' # intake
        PROVE  /\ DOMAIN intake' = DOMAIN intake \cup {u}
               /\ \A v \in DOMAIN intake : v # u => intake'[v] = intake[v]
               /\ intake'[u] \in {SoFar(u), Continued(SoFar(u), d)}
    <2>1. CASE intake' = Offered(u)
      BY <2>1, WhatIsOffered DEF SoFar
    <2>2. CASE intake' = Decided(u, d)
      BY <2>2, WhatIsDecided
    <2>3. QED
      BY <1>4, <2>1, <2>2 DEF d
  <1>5. ASSUME intake' # intake
        PROVE  \A v \in 1..Len(said) : UtteranceOK(v)'
    <2>1. ASSUME NEW v \in 1..Len(said), v # u
          PROVE  UtteranceOK(v)'
      BY <1>4, <1>5, <2>1 DEF ForestOK, UtteranceOK
    <2>2. UtteranceOK(u)'
      <3>1. CASE u \in DOMAIN entry
        <4>1. SoFar(u) = intake[u] /\ SoFar(u) # <<>> /\ LastOf(SoFar(u)) = Admitted(u)
          BY <3>1 DEF ForestOK, UtteranceOK, SoFar
        <4>2. intake'[u] = intake[u]
          BY <1>1, <1>3, <1>4, <1>5, <4>1, HeldHistory DEF Admitted
        <4>3. QED
          BY <1>4, <1>5, <3>1, <4>2 DEF ForestOK, UtteranceOK
      <3>2. CASE u \notin DOMAIN entry
        <4>1. SoFar(u) # <<>> => LastOf(SoFar(u)).state = "held"
          BY <3>2 DEF ForestOK, UtteranceOK, SoFar
        <4>2. HistoryOK(intake'[u]) /\ (intake'[u] # <<>> => LastOf(intake'[u]).state = "held")
          BY <1>1, <1>3, <1>4, <1>5, <4>1, HeldHistory
        <4>3. QED
          BY <3>2, <4>2 DEF UtteranceOK
      <3>3. QED
        BY <3>1, <3>2
    <2>3. QED
      BY <2>1, <2>2
  <1>6. CASE intake' # intake
    BY <1>4, <1>5, <1>6 DEF ForestOK
  <1>7. QED
    BY <1>2, <1>6

\* The newest utterance enters on the edge to the one before it, or not at all.
LEMMA AdmissionKeeps ==
  ASSUME ForestOK, Len(said) \in Nat \ {0}, NEW live \in BOOLEAN,
         Admit(Len(said), Len(said) - 1, live), UNCHANGED said
  PROVE  ForestOK'
  <1> DEFINE u == Len(said)
             d == [state |-> "admitted", pred |-> u - 1]
  <1>1. PICK k \in 0..u : DOMAIN entry = 1..k
    BY DEF ForestOK
  <1>2. Before(u) = u - 1
    BY DEF Admit, Admissible, ExpectedPredecessor
  <1>3. k \in {u - 1, u}
    BY <1>1, <1>2, BeforeIs
  <1>4. /\ DOMAIN entry' = DOMAIN entry \cup {u}
        /\ \A v \in DOMAIN entry : entry'[v] = entry[v]
        /\ u \notin DOMAIN entry => entry'[u] = [live |-> live, edge |-> u - 1]
    BY <1>2 DEF Admit, With
  <1>5. DOMAIN entry' = 1..u
    BY <1>1, <1>3, <1>4
  <1>6. d \in Decision /\ d.state = "admitted" /\ d = Admitted(u)
    BY DEF Decision, Admitted
  <1>7. intake' = Decided(u, d) /\ UNCHANGED <<presented, emitted>>
    BY DEF Admit
  <1>8. HistoryOK(SoFar(u)) /\ (SoFar(u) # <<>> => LastOf(SoFar(u)).state = "held" \/ LastOf(SoFar(u)) = Admitted(u))
    BY DEF ForestOK, UtteranceOK, SoFar, HistoryOK
  <1> HIDE DEF d
  <1>9. /\ DOMAIN intake' = DOMAIN intake \cup {u}
        /\ \A v \in DOMAIN intake : v # u => intake'[v] = intake[v]
        /\ intake'[u] = Continued(SoFar(u), d)
    BY <1>7, WhatIsDecided
  <1>10. HistoryOK(intake'[u]) /\ intake'[u] # <<>> /\ LastOf(intake'[u]) = Admitted(u)
    BY <1>6, <1>8, <1>9, AdmittedHistory
  <1>11. ASSUME NEW v \in 1..u
         PROVE  UtteranceOK(v)'
    <2>1. CASE v # u
      BY <1>4, <1>9, <2>1 DEF ForestOK, UtteranceOK
    <2>2. CASE v = u
      <3>1. entry'[u] \in Entry /\ entry'[u].edge = u - 1
        BY <1>4 DEF ForestOK, UtteranceOK, Entry
      <3>2. QED
        BY <1>4, <1>9, <1>10, <2>2, <3>1 DEF UtteranceOK
    <2>3. QED
      BY <2>1, <2>2
  <1>12. QED
    BY <1>5, <1>7, <1>9, <1>11 DEF ForestOK

LEMMA LinksKeep ==
  ASSUME ForestOK, UNCHANGED <<said, entry, intake>>,
         presented' \subseteq Wake \X (1..Len(said)), emitted' \subseteq Wake \X (1..Len(said))
  PROVE  ForestOK'
  BY DEF ForestOK, UtteranceOK

\* The backfill admits every utterance there is, each on its own edge.
LEMMA BackfillKeeps ==
  ASSUME ForestOK, Len(said) \in Nat, DOMAIN said = 1..Len(said), NEW view, Backfill(view), UNCHANGED said
  PROVE  ForestOK'
  <1>1. /\ entry' = With(entry, [u \in 1..Len(said) |-> [live |-> FALSE, edge |-> u - 1]])
        /\ intake' = [u \in 1..Len(said) |-> Decided(u, Admitted(u))[u]]
        /\ UNCHANGED <<presented, emitted>>
    BY DEF Backfill, Utterance, Admitted
  <1>2. PICK k \in 0..Len(said) : DOMAIN entry = 1..k
    BY DEF ForestOK
  <1>3. DOMAIN entry' = 1..Len(said) /\ DOMAIN intake' = 1..Len(said)
    <2>1. DOMAIN entry' = DOMAIN entry \cup 1..Len(said)
      BY <1>1 DEF With
    <2>2. DOMAIN intake' = 1..Len(said)
      BY <1>1
    <2>3. QED
      BY <1>2, <2>1, <2>2
  <1>4. ASSUME NEW u \in 1..Len(said)
        PROVE  UtteranceOK(u)'
    <2>1. entry'[u] \in Entry /\ entry'[u].edge = u - 1
      <3>1. CASE u \in DOMAIN entry
        BY <1>1, <3>1 DEF ForestOK, UtteranceOK, With
      <3>2. CASE u \notin DOMAIN entry
        <4>1. entry'[u] = [live |-> FALSE, edge |-> u - 1]
          BY <1>1, <3>2 DEF With
        <4>2. QED
          BY <4>1 DEF Entry
      <3>3. QED
        BY <3>1, <3>2
    <2>2. intake'[u] = Continued(SoFar(u), Admitted(u))
      BY <1>1, WhatIsDecided
    <2>3. /\ HistoryOK(SoFar(u))
          /\ SoFar(u) # <<>> => LastOf(SoFar(u)).state = "held" \/ LastOf(SoFar(u)) = Admitted(u)
      BY DEF ForestOK, UtteranceOK, SoFar, HistoryOK
    <2>4. Admitted(u) \in Decision /\ Admitted(u).state = "admitted"
      BY DEF Admitted, Decision
    <2>5. HistoryOK(intake'[u]) /\ intake'[u] # <<>> /\ LastOf(intake'[u]) = Admitted(u)
      BY <2>2, <2>3, <2>4, AdmittedHistory
    <2>6. QED
      BY <1>3, <2>1, <2>5 DEF UtteranceOK
  <1>5. Len(said) \in 0..Len(said) /\ said' = said
    OBVIOUS
  <1>6. QED
    BY <1>1, <1>3, <1>4, <1>5 DEF ForestOK

-----------------------------------------------------------------------------
(* The Source half *)

Unanswered == {"through", "prepared", "recorded", "presented", "sent", "answered"}
Answered == {"spoken", "kept"}

\* Where a wake stands: whatever it hands to the Forest next is the newest
\* utterance, and the predecessor it carries is the one before.
WakeOK ==
  wake # Idle =>
    /\ wake \in [w : DOMAIN woken, pc : {"said"} \cup Unanswered \cup Answered, pred : Nat]
    /\ stage \in {"ready", "failed"}
    /\ wake.pc = "said" => wake.w \notin Autonomous /\ Len(said) = wake.pred + 1
    /\ wake.pc \in Unanswered => Len(said) = ReplyPredecessor
    /\ wake.pc \in Answered => Len(said) = ReplyPredecessor + 1

SourceOK ==
  /\ said \in Seq([by : {"user", "resident"}, wake : Wake])
  /\ DOMAIN woken \subseteq Wake /\ \A w \in DOMAIN woken : woken[w] \in 1..starts
  /\ DOMAIN row \subseteq DOMAIN woken /\ \A w \in DOMAIN row : row[w] \subseteq 1..Len(said)
  /\ DOMAIN ledger \subseteq 1..starts
  /\ WakeOK

\* A Hub that was never started does nothing.
HubOK ==
  /\ starts \in Nat /\ stage \in {"down", "pending", "ready", "failed"}
  /\ DOMAIN job = Verifier
  /\ starts = 0 => stage = "down" /\ job["hub"] = Nothing

CustodyInv == SourceOK /\ HubOK /\ ForestOK

LEMMA SaidIs ==
  ASSUME SourceOK
  PROVE  Len(said) \in Nat /\ DOMAIN said = 1..Len(said)
  BY DEF SourceOK

\* Steps that leave Source, the wake and the stage alone.
LEMMA SourceRests ==
  ASSUME SourceOK, UNCHANGED <<said, woken, row, wake, starts>>, DOMAIN ledger' \subseteq 1..starts,
         wake # Idle => stage' \in {"ready", "failed"}
  PROVE  SourceOK'
  BY DEF SourceOK, WakeOK, ReplyPredecessor

\* Steps after which there is no wake.
LEMMA WakeIsOver ==
  ASSUME SourceOK, UNCHANGED <<said, woken, row, starts>>, DOMAIN ledger' \subseteq 1..starts, wake' = Idle
  PROVE  SourceOK'
  BY DEF SourceOK, WakeOK

LEMMA HubRests ==
  ASSUME HubOK, UNCHANGED <<starts, stage, job>>
  PROVE  HubOK'
  BY DEF HubOK

\* The wake goes to its next step without a word said.
LEMMA WakeGoesOn ==
  ASSUME SourceOK, wake # Idle, wake.pc \in Unanswered \cup Answered, NEW pc, To(pc),
         pc \in Unanswered <=> wake.pc \in Unanswered, pc \in Unanswered \cup Answered,
         UNCHANGED <<said, woken, starts, stage>>,
         DOMAIN row' \subseteq DOMAIN woken, \A w \in DOMAIN row' : row'[w] \subseteq 1..Len(said),
         DOMAIN ledger' \subseteq 1..starts
  PROVE  SourceOK'
  <1>1. /\ wake' \in [w : DOMAIN woken, pc : {"said"} \cup Unanswered \cup Answered, pred : Nat]
        /\ wake'.w = wake.w /\ wake'.pred = wake.pred /\ wake'.pc = pc
    BY DEF SourceOK, WakeOK, To
  <1>2. Unanswered \cap Answered = {} /\ "said" \notin Unanswered \cup Answered
    BY DEF Unanswered, Answered
  <1>3. WakeOK'
    BY <1>1, <1>2 DEF SourceOK, WakeOK, ReplyPredecessor
  <1>4. QED
    BY <1>3 DEF SourceOK

-----------------------------------------------------------------------------
(* The wake *)

LEMMA SaidGrows ==
  ASSUME SourceOK, NEW e \in [by : {"user", "resident"}, wake : Wake], said' = Append(said, e)
  PROVE  /\ said' \in Seq([by : {"user", "resident"}, wake : Wake])
         /\ Len(said') = Len(said) + 1 /\ Len(said) \in Nat
  BY AppendProperties DEF SourceOK

LEMMA AcceptKeeps ==
  ASSUME CustodyInv, NEW w \in Wake, Accept(w)
  PROVE  CustodyInv'
  <1>1. /\ stage = "ready" /\ woken' = With(woken, [v \in {w} |-> starts])
        /\ UNCHANGED <<row, forestVars, ledger, stage, starts, job>>
    BY DEF Accept, hub
  <1>2. starts \in Nat /\ starts >= 1
    BY <1>1 DEF CustodyInv, HubOK
  <1>3. DOMAIN woken' = DOMAIN woken \cup {w} /\ \A v \in DOMAIN woken' : woken'[v] \in 1..starts
    BY <1>1, <1>2 DEF With, CustodyInv, SourceOK
  <1>4. /\ said' \in Seq([by : {"user", "resident"}, wake : Wake])
        /\ Len(said) \in Nat /\ Len(said') = IF w \in Autonomous THEN Len(said) ELSE Len(said) + 1
    <2>1. CASE w \in Autonomous
      BY <2>1 DEF Accept, CustodyInv, SourceOK
    <2>2. CASE w \notin Autonomous
      <3>1. said' = Append(said, [by |-> "user", wake |-> w])
        BY <2>2 DEF Accept
      <3>2. QED
        BY <2>2, <3>1, SaidGrows DEF CustodyInv
    <2>3. QED
      BY <2>1, <2>2
  <1>5. WakeOK'
    <2>1. wake' = [w |-> w, pc |-> IF w \in Autonomous THEN "through" ELSE "said", pred |-> Len(said)]
      BY DEF Accept
    <2>2. QED
      BY <1>1, <1>3, <1>4, <2>1 DEF WakeOK, ReplyPredecessor, Unanswered, Answered
  <1>6. SourceOK'
    <2>1. \A v \in DOMAIN row : row[v] \subseteq 1..Len(said')
      BY <1>4 DEF CustodyInv, SourceOK
    <2>2. QED
      BY <1>1, <1>3, <1>4, <1>5, <2>1 DEF CustodyInv, SourceOK
  <1>7. ForestOK'
    BY <1>1, <1>4, ForestRests DEF CustodyInv
  <1>8. QED
    BY <1>1, <1>6, <1>7, HubRests DEF CustodyInv

LEMMA TakeInKeeps ==
  ASSUME CustodyInv, TakeIn
  PROVE  CustodyInv'
  <1>1. /\ wake # Idle /\ wake.pc = "said" /\ wake.pred \in Nat /\ wake.w \notin Autonomous
        /\ wake \in [w : DOMAIN woken, pc : {"said"} \cup Unanswered \cup Answered, pred : Nat]
        /\ Len(said) = wake.pred + 1 /\ stage \in {"ready", "failed"}
    BY DEF TakeIn, At, CustodyInv, SourceOK, WakeOK
  <1>2. UNCHANGED <<said, row, ledger, woken, stage, starts, job>>
    BY DEF TakeIn, Steady, hub
  <1>3. wake' = Idle \/ wake' = [wake EXCEPT !.pc = "through"]
    BY DEF TakeIn
  <1>4. SourceOK'
    <2>1. CASE wake' = Idle
      BY <1>2, <2>1, WakeIsOver DEF CustodyInv, SourceOK
    <2>2. CASE wake' = [wake EXCEPT !.pc = "through"]
      <3>1. /\ wake' \in [w : DOMAIN woken, pc : {"said"} \cup Unanswered \cup Answered, pred : Nat]
            /\ wake'.w = wake.w /\ wake'.pred = wake.pred /\ wake'.pc = "through"
        BY <1>1, <2>2 DEF Unanswered
      <3>2. WakeOK'
        BY <1>1, <1>2, <3>1 DEF WakeOK, ReplyPredecessor, Answered
      <3>3. QED
        BY <1>2, <3>2 DEF CustodyInv, SourceOK
    <2>3. QED
      BY <1>3, <2>1, <2>2
  <1>5. Len(said) \in Nat \ {0} /\ wake.pred = Len(said) - 1
    BY <1>1
  <1>6. ForestOK'
    <2>1. CASE Admit(Len(said), wake.pred, TRUE)
      BY <1>2, <1>5, <2>1, AdmissionKeeps DEF CustodyInv
    <2>2. CASE Hold(Len(said), wake.pred)
      BY <1>1, <1>2, <1>5, <2>2, HistoryGrows DEF Hold, CustodyInv
    <2>3. CASE UNCHANGED forestVars
      BY <1>2, <1>5, <2>3, ForestRests DEF CustodyInv
    <2>4. QED
      BY <2>1, <2>2, <2>3 DEF TakeIn
  <1>7. QED
    BY <1>2, <1>4, <1>6, HubRests DEF CustodyInv

\* The steps from the Spine's first frame to the answer.
LEMMA LedgerGrows ==
  ASSUME SourceOK, wake # Idle, NEW lines, AppendTo(wake.w, lines)
  PROVE  DOMAIN ledger' \subseteq 1..starts
  <1>1. woken[wake.w] \in 1..starts
    BY DEF SourceOK, WakeOK
  <1>2. DOMAIN ledger' = {woken[wake.w]} \cup DOMAIN ledger
    BY DEF AppendTo, With
  <1>3. QED
    BY <1>1, <1>2 DEF SourceOK

LEMMA CrossingKeeps ==
  ASSUME CustodyInv, Prepare \/ Record \/ Present \/ Dispatch \/ Answer
  PROVE  CustodyInv'
  <1>1. /\ wake # Idle /\ UNCHANGED <<said, woken, stage, starts, job>>
        /\ wake.pc \in {"through", "prepared", "recorded", "presented", "sent"}
    BY DEF Prepare, Record, Present, Dispatch, Answer, At, Steady, hub, storeVars
  <1>2. wake.pc \in Unanswered
    BY <1>1 DEF Unanswered
  <1>3. Len(said) \in Nat /\ DOMAIN said = 1..Len(said)
    BY SaidIs DEF CustodyInv
  <1>4. DOMAIN ledger' \subseteq 1..starts
    <2>1. CASE Prepare \/ Dispatch \/ Answer
      BY <1>1, <2>1, LedgerGrows DEF Prepare, Dispatch, Answer, CustodyInv
    <2>2. CASE Record \/ Present
      BY <2>2 DEF Record, Present, CustodyInv, SourceOK
    <2>3. QED
      BY <2>1, <2>2
  <1>5. DOMAIN row' \subseteq DOMAIN woken /\ \A w \in DOMAIN row' : row'[w] \subseteq 1..Len(said)
    <2>1. CASE Record
      <3>1. row' = With(row, [w \in {wake.w} |-> History(wake.w)])
        BY <2>1 DEF Record
      <3>2. History(wake.w) \subseteq 1..Len(said)
        BY <1>3 DEF History, Utterance
      <3>3. wake.w \in DOMAIN woken
        BY <1>1 DEF CustodyInv, SourceOK, WakeOK
      <3>4. QED
        BY <3>1, <3>2, <3>3 DEF With, CustodyInv, SourceOK
    <2>2. CASE ~Record
      BY <2>2 DEF Prepare, Present, Dispatch, Answer, storeVars, CustodyInv, SourceOK
    <2>3. QED
      BY <2>1, <2>2
  <1>6. SourceOK'
    <2>1. CASE wake' = Idle
      BY <1>1, <1>4, <1>5, <2>1 DEF CustodyInv, SourceOK, WakeOK
    <2>2. CASE wake' # Idle
      <3>1. \E pc \in {"prepared", "recorded", "presented", "sent", "answered"} : To(pc)
        BY <2>2 DEF Prepare, Record, Present, Dispatch, Answer
      <3>2. PICK pc \in Unanswered : To(pc)
        BY <3>1 DEF Unanswered
      <3>3. QED
        BY <1>1, <1>2, <1>4, <1>5, <3>2, WakeGoesOn DEF CustodyInv
    <2>3. QED
      BY <2>1, <2>2
  <1>7. ForestOK'
    <2>1. CASE UNCHANGED forestVars
      BY <1>1, <1>3, <2>1, ForestRests DEF CustodyInv
    <2>2. CASE Present /\ LinkPresentations(wake.w, row[wake.w])
      <3>1. DOMAIN entry \subseteq 1..Len(said) /\ wake.w \in Wake
        BY <1>1, <1>3 DEF CustodyInv, ForestOK, SourceOK, WakeOK
      <3>2. presented' \subseteq Wake \X (1..Len(said)) /\ UNCHANGED <<entry, intake, emitted>>
        BY <2>2, <3>1 DEF LinkPresentations, CustodyInv, ForestOK
      <3>3. QED
        BY <1>1, <3>2, LinksKeep DEF CustodyInv, ForestOK
    <2>3. QED
      BY <2>1, <2>2 DEF Prepare, Record, Present, Dispatch, Answer, storeVars, forestVars
  <1>8. QED
    BY <1>1, <1>6, <1>7, HubRests DEF CustodyInv

LEMMA CommitKeeps ==
  ASSUME CustodyInv, Commit
  PROVE  CustodyInv'
  <1>1. /\ wake # Idle /\ wake.pc = "answered"
        /\ UNCHANGED <<row, forestVars, ledger, woken, stage, starts, job>>
        /\ said' = Append(said, [by |-> "resident", wake |-> wake.w])
        /\ wake' = [wake EXCEPT !.pc = "spoken"]
    BY DEF Commit, At, To, Steady, hub
  <1>2. /\ wake \in [w : DOMAIN woken, pc : {"said"} \cup Unanswered \cup Answered, pred : Nat]
        /\ Len(said) = ReplyPredecessor /\ wake.w \in Wake /\ stage \in {"ready", "failed"}
    BY <1>1 DEF CustodyInv, SourceOK, WakeOK, Unanswered
  <1>3. /\ said' \in Seq([by : {"user", "resident"}, wake : Wake])
        /\ Len(said') = Len(said) + 1 /\ Len(said) \in Nat
    BY <1>1, <1>2, SaidGrows DEF CustodyInv
  <1>4. /\ wake' \in [w : DOMAIN woken, pc : {"said"} \cup Unanswered \cup Answered, pred : Nat]
        /\ wake'.w = wake.w /\ wake'.pred = wake.pred /\ wake'.pc = "spoken"
    BY <1>1, <1>2 DEF Answered
  <1>5. WakeOK'
    BY <1>1, <1>2, <1>3, <1>4 DEF WakeOK, ReplyPredecessor, Unanswered
  <1>6. \A v \in DOMAIN row : row[v] \subseteq 1..Len(said')
    BY <1>3 DEF CustodyInv, SourceOK
  <1>7. SourceOK'
    BY <1>1, <1>3, <1>5, <1>6 DEF CustodyInv, SourceOK
  <1>8. ForestOK'
    BY <1>1, <1>3, ForestRests DEF CustodyInv
  <1>9. QED
    BY <1>1, <1>7, <1>8, HubRests DEF CustodyInv

LEMMA ReplyKeeps ==
  ASSUME CustodyInv, TakeReply \/ Emit
  PROVE  CustodyInv'
  <1>1. /\ wake # Idle /\ wake.pc \in Answered
        /\ UNCHANGED <<said, row, ledger, woken, stage, starts, job>>
        /\ wake' = Idle \/ To("kept")
    BY DEF TakeReply, Emit, At, Steady, hub, Answered
  <1>2. Len(said) = ReplyPredecessor + 1 /\ ReplyPredecessor \in Nat /\ wake.w \in Wake
    BY <1>1 DEF CustodyInv, SourceOK, WakeOK, ReplyPredecessor
  <1>3. Len(said) \in Nat \ {0} /\ ReplyPredecessor = Len(said) - 1
    BY <1>2
  <1>4. SourceOK'
    <2>1. CASE wake' = Idle
      BY <1>1, <2>1, WakeIsOver DEF CustodyInv, SourceOK
    <2>2. CASE To("kept")
      <3>1. "kept" \in Answered /\ Unanswered \cap Answered = {}
        BY DEF Unanswered, Answered
      <3>2. QED
        BY <1>1, <2>2, <3>1, WakeGoesOn DEF CustodyInv, SourceOK
    <2>3. QED
      BY <1>1, <2>1, <2>2
  <1>5. ForestOK'
    <2>1. CASE TakeReply /\ Admit(Len(said), ReplyPredecessor, TRUE)
      BY <1>1, <1>3, <2>1, AdmissionKeeps DEF CustodyInv
    <2>2. CASE TakeReply /\ Hold(Len(said), ReplyPredecessor)
      BY <1>1, <1>2, <1>3, <2>2, HistoryGrows DEF Hold, CustodyInv
    <2>3. CASE UNCHANGED forestVars
      BY <1>1, <1>3, <2>3, ForestRests DEF CustodyInv
    <2>4. CASE Emit
      <3>1. emitted' = emitted \cup {<<wake.w, Len(said)>>} /\ UNCHANGED <<entry, intake, presented>>
        BY <2>4 DEF Emit, LinkEmission
      <3>2. emitted' \subseteq Wake \X (1..Len(said)) /\ presented' \subseteq Wake \X (1..Len(said))
        BY <1>2, <1>3, <3>1 DEF CustodyInv, ForestOK
      <3>3. QED
        BY <1>1, <3>1, <3>2, LinksKeep DEF CustodyInv
    <2>5. QED
      BY <2>1, <2>2, <2>3, <2>4 DEF TakeReply
  <1>6. QED
    BY <1>1, <1>4, <1>5, HubRests DEF CustodyInv

-----------------------------------------------------------------------------
(* Everybody else *)

LEMMA BystanderKeeps ==
  ASSUME CustodyInv, UNCHANGED <<said, row, forestVars, woken, wake, starts>>,
         DOMAIN ledger' \subseteq 1..starts, wake # Idle => stage' \in {"ready", "failed"}, HubOK'
  PROVE  CustodyInv'
  <1>1. SourceOK'
    BY SourceRests DEF CustodyInv
  <1>2. ForestOK'
    BY SaidIs, ForestRests DEF CustodyInv
  <1>3. QED
    BY <1>1, <1>2 DEF CustodyInv

\* A verifier that works on, the Hub's or the script.
LEMMA VerifierKeeps ==
  ASSUME CustodyInv, NEW v \in Verifier,
         LookAtSpine(v) \/ LookAtForest(v) \/ ReadLatest(v) \/ PublishProof(v)
  PROVE  CustodyInv'
  <1>1. job[v] # Nothing /\ UNCHANGED <<disk, stage, wake, starts>>
    BY DEF LookAtSpine, LookAtForest, ReadLatest, PublishProof, Does, Elsewhere
  <1>2. PICK j : job' = [job EXCEPT ![v] = j]
    BY DEF LookAtSpine, LookAtForest, ReadLatest, PublishProof, Turns, Settles
  <1>3. HubOK'
    BY <1>1, <1>2 DEF CustodyInv, HubOK, Verifier
  <1>4. QED
    BY <1>1, <1>3, BystanderKeeps DEF disk, storeVars, forestVars, CustodyInv, SourceOK, WakeOK

LEMMA StagesKeep ==
  ASSUME CustodyInv, Start \/ Activate \/ AuditEnds \/ Stop \/ \E full \in BOOLEAN : StartScript(full)
  PROVE  CustodyInv'
  <1>1. \A j : "hub" \in Verifier /\ "script" \in Verifier /\ "hub" # "script"
    BY DEF Verifier
  <1>2. CASE Activate \/ AuditEnds
    <2>1. /\ UNCHANGED <<disk, wake, starts>> /\ job["hub"] # Nothing
          /\ stage' \in {"ready", "failed", stage} /\ \E j : job' = [job EXCEPT !["hub"] = j]
      BY <1>2 DEF Activate, AuditEnds, Does, Turns
    <2>2. HubOK'
      BY <1>1, <2>1 DEF CustodyInv, HubOK
    <2>3. wake # Idle => stage' \in {"ready", "failed"}
      BY <2>1 DEF CustodyInv, SourceOK, WakeOK
    <2>4. QED
      BY <2>1, <2>2, <2>3, BystanderKeeps DEF disk, storeVars, forestVars, CustodyInv, SourceOK
  <1>3. CASE Stop
    <2>1. UNCHANGED <<disk, wake, starts>> /\ wake = Idle /\ stage' = "down" /\ job' = [job EXCEPT !["hub"] = Nothing]
      BY <1>3 DEF Stop, Turns
    <2>2. HubOK'
      BY <1>1, <2>1 DEF CustodyInv, HubOK
    <2>3. QED
      BY <2>1, <2>2, BystanderKeeps DEF disk, storeVars, forestVars, CustodyInv, SourceOK
  <1>4. CASE \E full \in BOOLEAN : StartScript(full)
    <2>1. UNCHANGED <<disk, wake, stage, starts>> /\ \E j : job' = [job EXCEPT !["script"] = j]
      BY <1>4 DEF StartScript, Turns
    <2>2. HubOK'
      BY <1>1, <2>1 DEF CustodyInv, HubOK
    <2>3. QED
      BY <2>1, <2>2, BystanderKeeps DEF disk, storeVars, forestVars, CustodyInv, SourceOK, WakeOK
  <1>5. CASE Start
    <2>1. /\ UNCHANGED <<disk, wake>> /\ stage = "down" /\ starts' = starts + 1 /\ stage' = "pending"
          /\ \E j : job' = [job EXCEPT !["hub"] = j]
      BY <1>5 DEF Start, Turns
    <2>2. starts \in Nat /\ 1..starts \subseteq 1..starts' /\ HubOK'
      BY <1>1, <2>1 DEF CustodyInv, HubOK
    <2>3. wake = Idle
      BY <2>1 DEF CustodyInv, SourceOK, WakeOK
    <2>4. SourceOK'
      BY <2>1, <2>2, <2>3 DEF disk, storeVars, CustodyInv, SourceOK, WakeOK
    <2>5. ForestOK'
      BY <2>1, SaidIs, ForestRests DEF disk, storeVars, forestVars, CustodyInv
    <2>6. QED
      BY <2>2, <2>4, <2>5 DEF CustodyInv
  <1>6. QED
    BY <1>2, <1>3, <1>4, <1>5

LEMMA BackfillsKeep ==
  ASSUME CustodyInv, Backfills
  PROVE  CustodyInv'
  <1>1. /\ UNCHANGED <<said, row, woken, ledger, stage, wake, starts>>
        /\ Backfill(View(FullSpine))
        /\ job' = IF job["hub"] = Nothing THEN job ELSE [job EXCEPT !["hub"].moved = TRUE]
    BY DEF Backfills, HubJob
  <1>2. HubOK'
    BY <1>1 DEF CustodyInv, HubOK
  <1>3. SourceOK'
    BY <1>1, SourceRests DEF CustodyInv, SourceOK, WakeOK
  <1>4. ForestOK'
    BY <1>1, SaidIs, BackfillKeeps DEF CustodyInv
  <1>5. QED
    BY <1>2, <1>3, <1>4 DEF CustodyInv

LEMMA DeathKeeps ==
  ASSUME CustodyInv, Die
  PROVE  CustodyInv'
  <1>1. UNCHANGED <<disk, starts>> /\ wake' = Idle /\ stage' = "down" /\ job' = [job EXCEPT !["hub"] = Nothing]
    BY DEF Die, Turns
  <1>2. HubOK'
    BY <1>1 DEF CustodyInv, HubOK, Verifier
  <1>3. SourceOK'
    BY <1>1, WakeIsOver DEF disk, storeVars, CustodyInv, SourceOK
  <1>4. ForestOK'
    BY <1>1, SaidIs, ForestRests DEF disk, storeVars, forestVars, CustodyInv
  <1>5. QED
    BY <1>2, <1>3, <1>4 DEF CustodyInv

\* A refused write leaves at most an offer or a hold of the utterance at hand.
LEMMA RefusalKeeps ==
  ASSUME CustodyInv, Refuse
  PROVE  CustodyInv'
  <1>1. wake # Idle /\ wake' = Idle /\ UNCHANGED <<said, row, woken, ledger, stage, starts, job>>
    BY DEF Refuse, hub
  <1>2. SourceOK'
    BY <1>1, WakeIsOver DEF CustodyInv, SourceOK
  <1>3. Len(said) \in Nat
    BY SaidIs DEF CustodyInv
  <1>4. ForestOK'
    <2>1. CASE At("said") /\ AdmissionFails(Len(said), wake.pred)
      <3>1. wake.pred \in Nat /\ Len(said) = wake.pred + 1
        BY <2>1 DEF At, CustodyInv, SourceOK, WakeOK
      <3>2. QED
        BY <1>1, <1>3, <2>1, <3>1, HistoryGrows DEF AdmissionFails, CustodyInv
    <2>2. CASE At("spoken") /\ AdmissionFails(Len(said), ReplyPredecessor)
      <3>1. ReplyPredecessor \in Nat /\ Len(said) = ReplyPredecessor + 1
        BY <2>2 DEF At, CustodyInv, SourceOK, WakeOK, ReplyPredecessor, Answered
      <3>2. QED
        BY <1>1, <1>3, <2>2, <3>1, HistoryGrows DEF AdmissionFails, CustodyInv
    <2>3. CASE UNCHANGED forestVars
      BY <1>1, <1>3, <2>3, ForestRests DEF CustodyInv
    <2>4. QED
      BY <2>1, <2>2, <2>3 DEF Refuse
  <1>5. QED
    BY <1>1, <1>2, <1>4, HubRests DEF CustodyInv

LEMMA DamageKeeps ==
  ASSUME CustodyInv, Damage \/ DamageCheckpoints
  PROVE  CustodyInv'
  <1>1. /\ UNCHANGED <<said, row, forestVars, woken, stage, wake, job, starts>>
        /\ DOMAIN ledger' \subseteq DOMAIN ledger
    BY DEF Damage, DamageCheckpoints, disk, storeVars, forestVars
  <1>2. QED
    BY <1>1, HubRests, BystanderKeeps DEF CustodyInv, SourceOK, WakeOK

-----------------------------------------------------------------------------
(* The Forest tells the Source *)

LEMMA InitKeeps == Init => CustodyInv
  <1>1. SUFFICES ASSUME Init
                 PROVE  CustodyInv
    OBVIOUS
  <1>2. /\ said = <<>> /\ row = <<>> /\ entry = <<>> /\ intake = <<>> /\ presented = {} /\ emitted = {}
        /\ woken = <<>> /\ ledger = <<>> /\ stage = "down" /\ wake = Idle /\ starts = 0
        /\ job = [v \in {"hub", "script"} |-> Nothing]
    BY <1>1 DEF Init, ForestInit
  <1>3. Len(said) = 0 /\ DOMAIN <<>> = {} /\ 1..0 = {} /\ 0 \in 0..0
    BY <1>2
  <1>4. SourceOK
    BY <1>2, <1>3 DEF SourceOK, WakeOK
  <1>5. HubOK
    BY <1>2 DEF HubOK, Verifier
  <1>6. ForestOK
    BY <1>2, <1>3 DEF ForestOK
  <1>7. QED
    BY <1>4, <1>5, <1>6 DEF CustodyInv

LEMMA EveryStepKeeps == CustodyInv /\ [Next]_vars => CustodyInv'
  <1>1. SUFFICES ASSUME CustodyInv, [Next]_vars
                 PROVE  CustodyInv'
    OBVIOUS
  <1>2. CASE WakeStep
    BY <1>1, <1>2, AcceptKeeps, TakeInKeeps, CrossingKeeps, CommitKeeps, ReplyKeeps DEF WakeStep
  <1>3. CASE Start \/ Verify \/ Stop
    BY <1>1, <1>3, VerifierKeeps, StagesKeep DEF Verify
  <1>4. CASE Backfills \/ Die \/ Refuse \/ Damage \/ DamageCheckpoints
    BY <1>1, <1>4, BackfillsKeep, DeathKeeps, RefusalKeeps, DamageKeeps
  <1>5. CASE UNCHANGED vars
    <2>1. UNCHANGED <<said, row, forestVars, woken, wake, starts, ledger, stage, job>>
      BY <1>5 DEF vars, storeVars, forestVars
    <2>2. QED
      BY <1>1, <2>1, HubRests, BystanderKeeps DEF CustodyInv, SourceOK, WakeOK
  <1>6. QED
    BY <1>1, <1>2, <1>3, <1>4, <1>5 DEF Next

LEMMA InvTellsTheSource == CustodyInv => ForestTellsTheSource
  <1>1. SUFFICES ASSUME CustodyInv
                 PROVE  ForestTellsTheSource
    OBVIOUS
  <1>2. Len(said) \in Nat /\ DOMAIN said = 1..Len(said)
    BY <1>1, SaidIs DEF CustodyInv
  <1>3. PICK k \in 0..Len(said) : DOMAIN entry = 1..k
    BY <1>1 DEF CustodyInv, ForestOK
  <1>4. \A u \in DOMAIN entry \cup DOMAIN intake : u \in 1..Len(said) /\ UtteranceOK(u)
    BY <1>1, <1>2, <1>3 DEF CustodyInv, ForestOK
  <1>5. DOMAIN entry = 1..Cardinality(DOMAIN entry)
    <2>1. Cardinality(1..k) = k
      BY <1>2, <1>3, FS_Interval
    <2>2. QED
      BY <1>3, <2>1
  <1>6. \A u \in DOMAIN entry : entry[u] \in Entry /\ entry[u].edge = u - 1
    BY <1>4 DEF UtteranceOK
  <1>7. IntakeHolds
    <2>1. \A u \in DOMAIN intake : HistoryOK(intake[u])
      BY <1>4 DEF UtteranceOK
    <2>2. QED
      BY <1>4, <2>1 DEF UtteranceOK, HistoryOK, LastOf, Admitted, IntakeHolds
  <1>8. CustodyTypeOK
    <2>1. \A u \in DOMAIN intake : intake[u] \in Seq(Decision)
      BY <1>4 DEF UtteranceOK, HistoryOK
    <2>2. QED
      BY <1>1, <1>2, <1>4, <1>6, <2>1 DEF CustodyTypeOK, Utterance, CustodyInv, SourceOK, HubOK, WakeOK, ForestOK
  <1>9. QED
    BY <1>5, <1>6, <1>7, <1>8 DEF ForestTellsTheSource

\* Whatever is refused, lost, damaged, retried or backfilled, for any number of
\* wakes and lifespans of the Hub, the Forest holds an unbroken beginning of the
\* Source on the right edges, and every intake history ends as its entry says
\* (ingestEvent, holdIntake, applyBackfill; performAdmittedWake).
THEOREM ForestAlwaysTellsTheSource == Spec => []ForestTellsTheSource
  BY InitKeeps, EveryStepKeeps, InvTellsTheSource, PTL DEF Spec

-----------------------------------------------------------------------------
(* Scans of a ledger *)

IsSeq(s) == \E E : s \in Seq(E)

\* One line of scanLedger().
Scanned(before, line) ==
  IF before = Refused \/ ~line.whole THEN Refused
  ELSE IF SpineNow!Follows(before, line.frame) THEN SpineNow!Applied(before, line.frame) ELSE Refused
Scans(life, lines, f) == f = [i \in 0..Len(lines) |-> IF i = 0 THEN life ELSE Scanned(f[i - 1], lines[i])]

LEMMA ScanEnds ==
  ASSUME NEW life, NEW lines
  PROVE  SpineNow!Scan(life, lines) = (CHOOSE f : Scans(life, lines, f))[Len(lines)]
  BY DEF SpineNow!Scan, Scans, Scanned

LEMMA ScanRuns ==
  ASSUME NEW life, NEW lines, Len(lines) \in Nat
  PROVE  \E f : Scans(life, lines, f)
  <1> DEFINE R(N, f) == f = [i \in 0..N |-> IF i = 0 THEN life ELSE Scanned(f[i - 1], lines[i])]
             S == {N \in Nat : \E f : R(N, f)}
  <1>1. 0 \in S
    <2> DEFINE f == [i \in 0..0 |-> life]
    <2>1. R(0, f)
      OBVIOUS
    <2>2. QED
      BY <2>1
  <1>2. ASSUME NEW N \in Nat, N \in S
        PROVE  N + 1 \in S
    <2>1. PICK f : R(N, f)
      BY <1>2
    <2> DEFINE g == [i \in 0..N + 1 |-> IF i = 0 THEN life ELSE Scanned(f[i - 1], lines[i])]
    <2>2. \A i \in 0..N : g[i] = f[i]
      <3>1. TAKE i \in 0..N
      <3>2. i \in 0..N + 1
        OBVIOUS
      <3>3. f[i] = IF i = 0 THEN life ELSE Scanned(f[i - 1], lines[i])
        BY <2>1
      <3>4. QED
        BY <3>2, <3>3
    <2>3. ASSUME NEW i \in 0..N + 1
          PROVE  g[i] = IF i = 0 THEN life ELSE Scanned(g[i - 1], lines[i])
      <3>1. i # 0 => i - 1 \in 0..N
        OBVIOUS
      <3>2. i # 0 => g[i - 1] = f[i - 1]
        BY <2>2, <3>1
      <3>3. QED
        BY <3>2
    <2>4. R(N + 1, g)
      <3>1. g = [i \in 0..N + 1 |-> g[i]]
        OBVIOUS
      <3> HIDE DEF g
      <3>2. QED
        BY <2>3, <3>1
    <2>5. \E h : R(N + 1, h)
      BY <2>4
    <2>6. QED
      BY <2>5
  <1> HIDE DEF S
  <1>3. \A N \in Nat : N \in S
    BY <1>1, <1>2, NatsByInduction
  <1>4. Len(lines) \in S
    BY <1>3
  <1>5. QED
    BY <1>4 DEF S, Scans

\* What a scan does: line after line, from the life it was given.
LEMMA ScanIs ==
  ASSUME NEW life, NEW lines, Len(lines) \in Nat
  PROVE  \E f : /\ SpineNow!Scan(life, lines) = f[Len(lines)]
                /\ f[0] = life
                /\ \A i \in 1..Len(lines) : f[i] = Scanned(f[i - 1], lines[i])
  <1> DEFINE f == CHOOSE f : Scans(life, lines, f)
  <1>1. Scans(life, lines, f) /\ SpineNow!Scan(life, lines) = f[Len(lines)]
    BY ScanRuns, ScanEnds
  <1> HIDE DEF f
  <1>2. f[0] = life /\ \A i \in 1..Len(lines) : f[i] = Scanned(f[i - 1], lines[i])
    BY <1>1 DEF Scans
  <1>3. QED
    BY <1>1, <1>2

\* A scan may stop after any line and go on from the life it had reached.
LEMMA ScanGoesOn ==
  ASSUME NEW life, NEW lines, IsSeq(lines), NEW n \in 0..Len(lines)
  PROVE  SpineNow!Scan(life, lines) = SpineNow!Scan(SpineNow!Scan(life, SubSeq(lines, 1, n)), SpineNow!Suffix(lines, n))
  <1> DEFINE kept == SubSeq(lines, 1, n)
             rest == SubSeq(lines, n + 1, Len(lines))
             half == SpineNow!Scan(life, kept)
  <1>1. /\ Len(lines) \in Nat /\ Len(kept) = n /\ Len(rest) = Len(lines) - n
        /\ \A i \in 1..n : kept[i] = lines[i]
        /\ \A i \in 1..Len(lines) - n : rest[i] = lines[n + i]
    BY DEF IsSeq
  <1> HIDE DEF kept, rest
  <1>2. PICK f : /\ SpineNow!Scan(life, lines) = f[Len(lines)]
                 /\ f[0] = life
                 /\ \A i \in 1..Len(lines) : f[i] = Scanned(f[i - 1], lines[i])
    BY <1>1, ScanIs
  <1>3. PICK g : half = g[n] /\ g[0] = life /\ \A i \in 1..n : g[i] = Scanned(g[i - 1], kept[i])
    <2>1. \A l : Len(l) \in Nat =>
            \E g : /\ SpineNow!Scan(life, l) = g[Len(l)]
                  /\ g[0] = life
                  /\ \A i \in 1..Len(l) : g[i] = Scanned(g[i - 1], l[i])
      BY ScanIs
    <2>2. Len(kept) \in Nat
      BY <1>1
    <2>3. PICK g : /\ SpineNow!Scan(life, kept) = g[Len(kept)]
                   /\ g[0] = life
                   /\ \A i \in 1..Len(kept) : g[i] = Scanned(g[i - 1], kept[i])
      BY <2>1, <2>2
    <2>4. QED
      BY <1>1, <2>3
  <1> HIDE DEF half
  <1>4. PICK h : /\ SpineNow!Scan(half, rest) = h[Len(lines) - n]
                 /\ h[0] = half
                 /\ \A i \in 1..Len(lines) - n : h[i] = Scanned(h[i - 1], rest[i])
    BY <1>1, ScanIs
  <1>5. g[n] = f[n]
    <2> DEFINE S == {i \in Nat : g[i] = f[i]}
    <2>1. 0 \in S
      BY <1>2, <1>3
    <2>2. ASSUME NEW i \in 0..n, i < n, i \in S
          PROVE  i + 1 \in S
      <3>1. i + 1 \in 1..n /\ i + 1 \in 1..Len(lines) /\ i + 1 - 1 = i
        BY <1>1, <2>2
      <3>2. f[i + 1] = Scanned(f[i], lines[i + 1])
        BY <1>2, <3>1
      <3>3. g[i + 1] = Scanned(g[i], kept[i + 1])
        BY <1>3, <3>1
      <3>4. QED
        BY <1>1, <2>2, <3>1, <3>2, <3>3
    <2> HIDE DEF S
    <2>3. \A i \in 0..n : i \in S
      BY <2>1, <2>2, IntervalByInduction
    <2>4. QED
      BY <2>3 DEF S
  <1>6. h[Len(lines) - n] = f[n + (Len(lines) - n)]
    <2> DEFINE N == Len(lines) - n
               S == {i \in Nat : h[i] = f[n + i]}
    <2>1. 0 \in S
      BY <1>3, <1>4, <1>5
    <2>2. ASSUME NEW i \in 0..N, i < N, i \in S
          PROVE  i + 1 \in S
      <3>1. /\ i + 1 \in 1..N /\ i + 1 - 1 = i /\ n + (i + 1) \in 1..Len(lines)
            /\ n + (i + 1) - 1 = n + i
        BY <1>1, <2>2
      <3>2. f[n + (i + 1)] = Scanned(f[n + i], lines[n + (i + 1)])
        BY <1>2, <3>1
      <3>3. h[i + 1] = Scanned(h[i], rest[i + 1])
        BY <1>4, <3>1
      <3>4. QED
        BY <1>1, <2>2, <3>1, <3>2, <3>3
    <2>3. N \in Nat
      BY <1>1
    <2> HIDE DEF S
    <2>4. \A i \in 0..N : i \in S
      <3> HIDE DEF N
      <3>1. QED
        BY <2>1, <2>2, <2>3, IntervalByInduction
    <2>5. QED
      BY <2>3, <2>4 DEF S
  <1>7. n + (Len(lines) - n) = Len(lines)
    BY <1>1
  <1>8. SpineNow!Scan(half, rest) = SpineNow!Scan(life, lines)
    BY <1>2, <1>4, <1>6, <1>7
  <1>9. QED
    BY <1>8 DEF half, kept, rest, SpineNow!Suffix

-----------------------------------------------------------------------------
(* A retained proof *)

\* What a proof keeps is what the scan of its prefix found.
ProofRight(p) ==
  /\ DOMAIN p.lives = DOMAIN p.prefix
  /\ \A s \in DOMAIN p.prefix : p.lives[s] = SpineNow!Scan(SpineNow!Fresh, p.prefix[s])

LedgersOK == \A s \in DOMAIN ledger : IsSeq(ledger[s])

\* A retained ledger accepted again has the life a full scan finds.
LEMMA AcceptedOn ==
  ASSUME NEW prefix, NEW life, NEW lines, IsSeq(lines), life = SpineNow!Scan(SpineNow!Fresh, prefix),
         SpineNow!ScanOn([lines |-> prefix, life |-> life], lines) # Refused, Len(prefix) \in Nat
  PROVE  SpineNow!ScanOn([lines |-> prefix, life |-> life], lines) = SpineNow!Scan(SpineNow!Fresh, lines)
  <1>1. /\ Len(lines) >= Len(prefix) /\ SubSeq(lines, 1, Len(prefix)) = prefix
        /\ SpineNow!ScanOn([lines |-> prefix, life |-> life], lines)
             = SpineNow!Scan(life, SpineNow!Suffix(lines, Len(prefix)))
    BY DEF SpineNow!ScanOn, SpineNow!KeepsPrefix
  <1>2. Len(prefix) \in 0..Len(lines)
    BY <1>1 DEF IsSeq
  <1>3. SpineNow!Scan(SpineNow!Fresh, lines)
          = SpineNow!Scan(SpineNow!Scan(SpineNow!Fresh, SubSeq(lines, 1, Len(prefix))), SpineNow!Suffix(lines, Len(prefix)))
    BY <1>2, ScanGoesOn
  <1>4. QED
    BY <1>1, <1>3

LEMMA SealedIs ==
  ASSUME NEW lives, SpineNow!Sealed(lives) # Refused
  PROVE  SpineNow!Sealed(lives) = lives /\ \A s \in DOMAIN lives : lives[s] # Refused
  BY DEF SpineNow!Sealed

\* A checkpoint that still holds proves what the full scan would have proved.
LEMMA AcceptedAgain ==
  ASSUME NEW p, ProofRight(p), \A s \in DOMAIN p.prefix : IsSeq(p.prefix[s]), LedgersOK,
         SpineNow!Revalidated(p, ledger) # Refused
  PROVE  SpineNow!Revalidated(p, ledger) = SpineNow!FullProof(ledger)
  <1> DEFINE again == [s \in DOMAIN ledger |->
                         IF s \in DOMAIN p.prefix
                         THEN SpineNow!ScanOn([lines |-> p.prefix[s], life |-> p.lives[s]], ledger[s])
                         ELSE SpineNow!Scan(SpineNow!Fresh, ledger[s])]
             full == [s \in DOMAIN ledger |-> SpineNow!Scan(SpineNow!Fresh, ledger[s])]
  <1>1. SpineNow!Revalidated(p, ledger) = SpineNow!Sealed(again)
    BY DEF SpineNow!Revalidated
  <1>2. SpineNow!FullProof(ledger) = SpineNow!Sealed(full)
    BY DEF SpineNow!FullProof
  <1>3. \A s \in DOMAIN ledger : again[s] # Refused
    <2> HIDE DEF again
    <2>1. \A s \in DOMAIN again : again[s] # Refused
      BY <1>1, SealedIs
    <2>2. DOMAIN again = DOMAIN ledger
      BY DEF again
    <2>3. QED
      BY <2>1, <2>2
  <1>4. ASSUME NEW s \in DOMAIN ledger
        PROVE  again[s] = full[s]
    <2>1. CASE s \in DOMAIN p.prefix
      <3>1. again[s] = SpineNow!ScanOn([lines |-> p.prefix[s], life |-> p.lives[s]], ledger[s])
        BY <2>1
      <3>2. SpineNow!ScanOn([lines |-> p.prefix[s], life |-> p.lives[s]], ledger[s]) # Refused
        BY <1>3, <3>1
      <3>3. Len(p.prefix[s]) \in Nat /\ IsSeq(ledger[s]) /\ p.lives[s] = SpineNow!Scan(SpineNow!Fresh, p.prefix[s])
        BY <2>1 DEF IsSeq, LedgersOK, ProofRight
      <3>4. QED
        BY <3>1, <3>2, <3>3, AcceptedOn
    <2>2. CASE s \notin DOMAIN p.prefix
      BY <2>2
    <2>3. QED
      BY <2>1, <2>2
  <1>5. again = full
    <2>1. again = [s \in DOMAIN ledger |-> again[s]] /\ full = [s \in DOMAIN ledger |-> full[s]]
      OBVIOUS
    <2> HIDE DEF again, full
    <2>2. QED
      BY <1>4, <2>1
  <1>6. QED
    BY <1>1, <1>2, <1>5

\* What a full proof accepts may be retained.
LEMMA FullProofIsRight ==
  ASSUME NEW prefix, SpineNow!FullProof(prefix) # Refused
  PROVE  ProofRight(SpineNow!Retained(prefix, SpineNow!FullProof(prefix)))
  <1> DEFINE full == [s \in DOMAIN prefix |-> SpineNow!Scan(SpineNow!Fresh, prefix[s])]
  <1>1. SpineNow!FullProof(prefix) = SpineNow!Sealed(full)
    BY DEF SpineNow!FullProof
  <1>2. SpineNow!FullProof(prefix) = full
    <2> HIDE DEF full
    <2>1. QED
      BY <1>1, SealedIs
  <1>3. QED
    BY <1>2 DEF ProofRight, SpineNow!Retained

-----------------------------------------------------------------------------
(* The verifiers and the chain of generations *)

JobOf(L, P) ==
  [kind : {"proof", "audit", "script"}, full : BOOLEAN, step : {"spine", "forest", "latest", "publish", "settle"},
   mode : {"full", "suffix", "unchanged"}, lives : L, prefix : P, ok : BOOLEAN, store : BOOLEAN, latest : Nat,
   upTo : Nat, moved : BOOLEAN]
IsJob(j) == \E L, P : j \in JobOf(L, P)
Proving == {"forest", "latest", "publish"}

\* What a verifier carries from the Spine half on is what the full scan of the
\* ledgers it read would have found.
JobRight(j) ==
  /\ IsJob(j)
  /\ j.step \in Proving /\ j.lives # Refused =>
       j.lives = SpineNow!FullProof(j.prefix) /\ \A s \in DOMAIN j.prefix : IsSeq(j.prefix[s])
  /\ j.step \in {"latest", "publish"} => j.lives # Refused

ProofHolds(p) == ProofRight(p) /\ \A s \in DOMAIN p.prefix : IsSeq(p.prefix[s])
GenOf(P) == [number : Nat, prior : Nat, proof : P, sound : BOOLEAN]
GensOK == \E P : gens \in Seq(GenOf(P))
Generations == \A i \in 1..Len(gens) : gens[i].sound => ProofHolds(gens[i].proof)
Chain == \A i \in 1..Len(gens) :
           gens[i].sound /\ gens[i].number = i /\ gens[i].prior = i - 1

JobsRight == DOMAIN job = Verifier /\ \A v \in Verifier : job[v] # Nothing => JobRight(job[v])

CheckpointInv ==
  /\ LedgersOK
  /\ GensOK /\ Generations
  /\ faults \in Nat /\ (faults = 0 => Chain)
  /\ JobsRight

LEMMA GensAre ==
  ASSUME GensOK
  PROVE  Len(gens) \in Nat /\ DOMAIN gens = 1..Len(gens) /\ (gens # <<>> => Len(gens) \in 1..Len(gens))
  BY DEF GensOK

LEMMA CompatibleMeans ==
  ASSUME CheckpointInv, Compatible, SpineNow!Revalidated(NewestProof, ledger) # Refused
  PROVE  SpineNow!Revalidated(NewestProof, ledger) = FullSpine
  <1>1. Len(gens) \in 1..Len(gens) /\ gens[Len(gens)].sound
    BY GensAre DEF CheckpointInv, Compatible, LineageHolds, RowHolds
  <1>2. ProofHolds(NewestProof) /\ LedgersOK
    BY <1>1 DEF CheckpointInv, Generations, NewestProof
  <1>3. QED
    BY <1>2, AcceptedAgain DEF ProofHolds, FullSpine

LEMMA ChainHolds ==
  ASSUME GensOK, Chain
  PROVE  LineageHolds /\ Latest = Len(gens)
  <1>1. Len(gens) \in Nat /\ DOMAIN gens = 1..Len(gens)
    BY GensAre
  <1>2. LineageHolds
    <2>1. ASSUME NEW i \in 1..Len(gens)
          PROVE  gens[i].sound /\ gens[i].prior = IF i = 1 THEN 0 ELSE gens[i - 1].number
      <3>1. gens[i].sound /\ gens[i].prior = i - 1
        BY DEF Chain
      <3>2. i # 1 => i - 1 \in 1..Len(gens)
        BY <1>1
      <3>3. i # 1 => gens[i - 1].number = i - 1
        BY <3>2 DEF Chain
      <3>4. i = 1 => i - 1 = 0
        OBVIOUS
      <3>5. QED
        BY <3>1, <3>3, <3>4
    <2>2. QED
      BY <1>1, <2>1 DEF LineageHolds, RowHolds, NoGeneration
  <1>3. Latest = Len(gens)
    <2>1. CASE gens = <<>>
      BY <2>1 DEF Latest, NoGeneration
    <2>2. CASE gens # <<>>
      BY <2>2, GensAre DEF Latest, Chain
    <2>3. QED
      BY <2>1, <2>2
  <1>4. QED
    BY <1>2, <1>3

LEMMA InvProvesAll == CheckpointInv => CheckpointIsTheFullProof
  BY CompatibleMeans, ChainHolds DEF CheckpointIsTheFullProof, CheckpointInv

-----------------------------------------------------------------------------
(* Jobs *)

LEMMA BegunIsJob ==
  ASSUME NEW kind \in {"proof", "audit", "script"}, NEW full \in BOOLEAN, Len(said) \in Nat
  PROVE  JobRight(Begin(kind, full))
  <1>1. Begin(kind, full) \in JobOf({Nothing}, {<<>>})
    BY DEF Begin, JobOf, NoGeneration
  <1>2. Begin(kind, full).step = "spine"
    BY DEF Begin
  <1>3. QED
    BY <1>1, <1>2 DEF JobRight, IsJob, Proving

LEMMA JobLooksOn ==
  ASSUME NEW j, IsJob(j), NEW lives, NEW prefix, NEW mode \in {"full", "suffix", "unchanged"}, NEW store \in BOOLEAN,
         lives = Refused \/ (lives = SpineNow!FullProof(prefix) /\ \A s \in DOMAIN prefix : IsSeq(prefix[s]))
  PROVE  LET looked == [j EXCEPT !.step = "forest", !.prefix = prefix, !.store = @ /\ store] IN
         /\ JobRight([looked EXCEPT !.lives = lives])
         /\ JobRight([looked EXCEPT !.lives = lives, !.mode = mode])
  <1> DEFINE looked == [j EXCEPT !.step = "forest", !.prefix = prefix, !.store = @ /\ store]
             k == [looked EXCEPT !.lives = lives]
             l == [looked EXCEPT !.lives = lives, !.mode = mode]
  <1>1. PICK L, P : j \in JobOf(L, P)
    BY DEF IsJob
  <1>2. looked \in JobOf(L, {prefix}) /\ looked.step = "forest" /\ looked.prefix = prefix
    BY <1>1 DEF JobOf
  <1> HIDE DEF looked
  <1>3. k \in JobOf({lives}, {prefix}) /\ l \in JobOf({lives}, {prefix})
    BY <1>2 DEF JobOf
  <1>4. k.step = "forest" /\ k.lives = lives /\ k.prefix = prefix
    BY <1>2 DEF JobOf
  <1>5. l.step = "forest" /\ l.lives = lives /\ l.prefix = prefix
    BY <1>2 DEF JobOf
  <1> HIDE DEF k, l
  <1>6. JobRight(k)
    BY <1>3, <1>4 DEF JobRight, IsJob
  <1>7. JobRight(l)
    BY <1>3, <1>5 DEF JobRight, IsJob
  <1>8. QED
    BY <1>6, <1>7 DEF k, l, looked

LEMMA JobSteps ==
  ASSUME NEW j, JobRight(j), NEW step \in {"latest", "publish"}, j.step \in Proving, j.lives # Refused,
         NEW latest \in Nat
  PROVE  JobRight([j EXCEPT !.step = step]) /\ JobRight([j EXCEPT !.step = step, !.latest = latest])
  <1> DEFINE k == [j EXCEPT !.step = step]
             l == [j EXCEPT !.step = step, !.latest = latest]
  <1>1. PICK L, P : j \in JobOf(L, P)
    BY DEF JobRight, IsJob
  <1>2. k \in JobOf(L, P) /\ l \in JobOf(L, P)
    BY <1>1 DEF JobOf
  <1>3. k.step = step /\ k.lives = j.lives /\ k.prefix = j.prefix
    BY <1>1 DEF JobOf
  <1>4. l.step = step /\ l.lives = j.lives /\ l.prefix = j.prefix
    BY <1>1 DEF JobOf
  <1> HIDE DEF k, l
  <1>5. JobRight(k)
    BY <1>2, <1>3 DEF JobRight, IsJob
  <1>6. JobRight(l)
    BY <1>2, <1>4 DEF JobRight, IsJob
  <1>7. QED
    BY <1>5, <1>6 DEF k, l

LEMMA JobSettles ==
  ASSUME NEW j, IsJob(j), NEW ok \in BOOLEAN
  PROVE  JobRight([j EXCEPT !.step = "settle", !.ok = ok, !.lives = Nothing, !.prefix = <<>>, !.latest = NoGeneration])
  <1> DEFINE k == [j EXCEPT !.step = "settle", !.ok = ok, !.lives = Nothing, !.prefix = <<>>, !.latest = NoGeneration]
  <1>1. PICK L, P : j \in JobOf(L, P)
    BY DEF IsJob
  <1>2. k \in JobOf({Nothing}, {<<>>})
    BY <1>1 DEF JobOf, NoGeneration
  <1>3. k.step = "settle"
    BY <1>1 DEF JobOf
  <1> HIDE DEF k
  <1>4. JobRight(k)
    BY <1>2, <1>3 DEF JobRight, IsJob, Proving
  <1>5. QED
    BY <1>4 DEF k

LEMMA JobMoved ==
  ASSUME NEW j, JobRight(j)
  PROVE  JobRight([j EXCEPT !.moved = TRUE])
  <1> DEFINE k == [j EXCEPT !.moved = TRUE]
  <1>1. PICK L, P : j \in JobOf(L, P)
    BY DEF JobRight, IsJob
  <1>2. k \in JobOf(L, P)
    BY <1>1 DEF JobOf
  <1>3. k.step = j.step /\ k.lives = j.lives /\ k.prefix = j.prefix
    BY <1>1 DEF JobOf
  <1> HIDE DEF k
  <1>4. JobRight(k)
    BY <1>2, <1>3 DEF JobRight, IsJob
  <1>5. QED
    BY <1>4 DEF k

-----------------------------------------------------------------------------
(* The steps *)

LEMMA JobTurns ==
  ASSUME JobsRight, NEW v \in Verifier, NEW j, j # Nothing => JobRight(j), Turns(v, j)
  PROVE  JobsRight'
  <1>1. job' = [job EXCEPT ![v] = j] /\ DOMAIN job' = Verifier
    BY DEF Turns, JobsRight
  <1>2. ASSUME NEW x \in Verifier, job'[x] # Nothing
        PROVE  JobRight(job'[x])
    <2>1. job'[x] = IF x = v THEN j ELSE job[x]
      BY <1>1, <1>2 DEF JobsRight
    <2>2. CASE x = v
      BY <1>2, <2>1, <2>2
    <2>3. CASE x # v
      BY <1>2, <2>1, <2>3 DEF JobsRight
    <2>4. QED
      BY <2>2, <2>3
  <1>3. QED
    BY <1>1, <1>2 DEF JobsRight

LEMMA JobsRest ==
  ASSUME JobsRight, UNCHANGED job
  PROVE  JobsRight'
  BY DEF JobsRight

LEMMA CheckpointsRest ==
  ASSUME CheckpointInv, UNCHANGED gens, LedgersOK', JobsRight', UNCHANGED faults \/ Fault
  PROVE  CheckpointInv'
  <1>1. faults' \in Nat /\ (faults' = 0 => faults = 0)
    BY DEF CheckpointInv, Fault
  <1>2. GensOK' /\ Generations' /\ (Chain => Chain')
    BY DEF CheckpointInv, Generations, Chain, GensOK
  <1>3. QED
    BY <1>1, <1>2 DEF CheckpointInv

LEMMA LedgersRest ==
  ASSUME LedgersOK, UNCHANGED ledger
  PROVE  LedgersOK'
  BY DEF LedgersOK

LEMMA SeqsJoin ==
  ASSUME NEW s, NEW t, IsSeq(s), IsSeq(t)
  PROVE  IsSeq(s \o t)
  <1>1. PICK E, F : s \in Seq(E) /\ t \in Seq(F)
    BY DEF IsSeq
  <1>2. s \in Seq(E \cup F) /\ t \in Seq(E \cup F)
    BY <1>1
  <1>3. s \o t \in Seq(E \cup F)
    BY <1>2
  <1>4. QED
    BY <1>3 DEF IsSeq

LEMMA LinesAreSeqs ==
  ASSUME NEW x, NEW y
  PROVE  IsSeq(<<x>>) /\ IsSeq(<<x, y>>)
  <1>1. <<x>> \in Seq({x}) /\ <<x, y>> \in Seq({x, y})
    OBVIOUS
  <1>2. QED
    BY <1>1 DEF IsSeq

LEMMA LedgersGrow ==
  ASSUME LedgersOK, NEW w, NEW lines, IsSeq(lines), AppendTo(w, lines)
  PROVE  LedgersOK'
  <1> DEFINE more == LedgerOf(w) \o lines
  <1>1. IsSeq(LedgerOf(w))
    <2>1. IsSeq(<<>>)
      <3>1. <<>> \in Seq({})
        OBVIOUS
      <3>2. QED
        BY <3>1 DEF IsSeq
    <2>2. QED
      BY <2>1 DEF LedgerOf, LedgersOK
  <1>2. IsSeq(more)
    BY <1>1, SeqsJoin
  <1>3. /\ DOMAIN ledger' = {woken[w]} \cup DOMAIN ledger
        /\ \A s \in DOMAIN ledger' : ledger'[s] = IF s = woken[w] THEN more ELSE ledger[s]
    BY DEF AppendTo, With
  <1> HIDE DEF more
  <1>4. \A s \in DOMAIN ledger' : IsSeq(ledger'[s])
    BY <1>2, <1>3 DEF LedgersOK
  <1>5. QED
    BY <1>4 DEF LedgersOK

\* No wake touches the checkpoints.
LEMMA WakesKeepCheckpoints ==
  ASSUME CheckpointInv, WakeStep
  PROVE  CheckpointInv'
  <1>1. UNCHANGED <<gens, job, faults>>
    BY DEF WakeStep, Accept, TakeIn, Prepare, Record, Present, Dispatch, Answer, Commit, TakeReply, Emit, Steady, hub
  <1>2. \/ UNCHANGED ledger
        \/ \E w, x : AppendTo(w, <<x>>)
        \/ \E w, x, y : AppendTo(w, <<x, y>>)
    BY DEF WakeStep, Accept, TakeIn, Prepare, Record, Present, Dispatch, Answer, Commit, TakeReply, Emit
  <1>3. LedgersOK'
    BY <1>2, LedgersRest, LedgersGrow, LinesAreSeqs DEF CheckpointInv
  <1>4. QED
    BY <1>1, <1>3, JobsRest, CheckpointsRest DEF CheckpointInv

LEMMA SpineLookKeeps ==
  ASSUME CheckpointInv, NEW v \in Verifier, LookAtSpine(v)
  PROVE  CheckpointInv'
  <1> DEFINE looked == [job[v] EXCEPT !.step = "forest", !.prefix = ledger,
                                      !.store = @ /\ (job[v].full \/ LineageHolds)]
             mode == IF NewestProof.prefix = ledger THEN "unchanged" ELSE "suffix"
             lives == CheckpointProof(v)
  <1>1. job[v] # Nothing /\ IsJob(job[v]) /\ UNCHANGED <<gens, faults, ledger>>
    BY DEF LookAtSpine, Does, Elsewhere, disk, CheckpointInv, JobsRight, JobRight
  <1>2. lives # Refused => lives = FullSpine
    BY CompatibleMeans DEF CheckpointProof
  <1>3. \A s \in DOMAIN ledger : IsSeq(ledger[s])
    BY DEF CheckpointInv, LedgersOK
  <1>4. job[v].full \in BOOLEAN
    BY <1>1 DEF IsJob, JobOf
  <1>5. (job[v].full \/ LineageHolds) \in BOOLEAN /\ mode \in {"full", "suffix", "unchanged"}
    BY <1>4 DEF LineageHolds
  <1>6. \/ Turns(v, [looked EXCEPT !.lives = FullSpine])
        \/ lives # Refused /\ Turns(v, [looked EXCEPT !.lives = lives, !.mode = mode])
    BY DEF LookAtSpine
  <1> HIDE DEF mode, lives
  <1>7. JobRight([looked EXCEPT !.lives = FullSpine])
    BY <1>1, <1>3, <1>5, JobLooksOn DEF FullSpine
  <1>8. lives # Refused => JobRight([looked EXCEPT !.lives = lives, !.mode = mode])
    BY <1>1, <1>2, <1>3, <1>5, JobLooksOn DEF FullSpine
  <1> HIDE DEF looked
  <1>9. JobsRight'
    BY <1>6, <1>7, <1>8, JobTurns DEF CheckpointInv
  <1>10. QED
    BY <1>1, <1>9, LedgersRest, CheckpointsRest DEF CheckpointInv

\* A verdict is a job that carries nothing more.
LEMMA VerdictKeeps ==
  ASSUME JobsRight, NEW v \in Verifier, job[v] # Nothing, NEW ok \in BOOLEAN, Settles(v, ok)
  PROVE  JobsRight'
  <1> DEFINE k == [job[v] EXCEPT !.step = "settle", !.ok = ok, !.lives = Nothing, !.prefix = <<>>, !.latest = NoGeneration]
  <1>1. JobRight(k)
    BY JobSettles DEF JobsRight, JobRight
  <1>2. Turns(v, Nothing) \/ Turns(v, k)
    BY DEF Settles
  <1> HIDE DEF k
  <1>3. QED
    BY <1>1, <1>2, JobTurns

LEMMA ForestLookKeeps ==
  ASSUME CheckpointInv, NEW v \in Verifier, LookAtForest(v) \/ ReadLatest(v)
  PROVE  CheckpointInv'
  <1>1. /\ job[v] # Nothing /\ JobRight(job[v]) /\ UNCHANGED <<gens, faults, ledger>>
        /\ job[v].step \in Proving
    BY DEF LookAtForest, ReadLatest, Does, Elsewhere, disk, CheckpointInv, JobsRight, Proving
  <1>2. \/ \E ok \in BOOLEAN : Settles(v, ok)
        \/ job[v].lives # Refused /\ Turns(v, [job[v] EXCEPT !.step = "latest"])
        \/ job[v].lives # Refused /\ Turns(v, [job[v] EXCEPT !.step = "publish", !.latest = Latest])
    <2>1. CASE LookAtForest(v)
      <3>1. (job[v].lives # Refused /\ Verifies(View(job[v].lives), TRUE)) \in BOOLEAN
        OBVIOUS
      <3>2. QED
        BY <2>1, <3>1 DEF LookAtForest
    <2>2. CASE ReadLatest(v)
      BY <1>1, <2>2 DEF ReadLatest, Does, JobRight
    <2>3. QED
      BY <2>1, <2>2
  <1>3. Latest \in Nat
    <2>1. gens # <<>> => gens[Len(gens)].number \in Nat
      <3>1. PICK P : gens \in Seq(GenOf(P))
        BY DEF CheckpointInv, GensOK
      <3>2. gens # <<>> => gens[Len(gens)] \in GenOf(P)
        BY <3>1
      <3>3. QED
        BY <3>2 DEF GenOf
    <2>2. QED
      BY <2>1 DEF Latest, NoGeneration
  <1>4. JobsRight'
    <2>1. CASE \E ok \in BOOLEAN : Settles(v, ok)
      BY <1>1, <2>1, VerdictKeeps DEF CheckpointInv
    <2>2. CASE job[v].lives # Refused /\ Turns(v, [job[v] EXCEPT !.step = "latest"])
      <3>1. JobRight([job[v] EXCEPT !.step = "latest"])
        BY <1>1, <1>3, <2>2, JobSteps
      <3>2. QED
        BY <2>2, <3>1, JobTurns DEF CheckpointInv
    <2>3. CASE job[v].lives # Refused /\ Turns(v, [job[v] EXCEPT !.step = "publish", !.latest = Latest])
      <3>1. JobRight([job[v] EXCEPT !.step = "publish", !.latest = Latest])
        BY <1>1, <1>3, <2>3, JobSteps
      <3>2. QED
        BY <2>3, <3>1, JobTurns DEF CheckpointInv
    <2>4. QED
      BY <1>2, <2>1, <2>2, <2>3
  <1>5. QED
    BY <1>1, <1>4, LedgersRest, CheckpointsRest DEF CheckpointInv

\* What is published is what a full scan found, and it follows the latest
\* generation: the predecessor is compared inside the transaction.
LEMMA PublicationKeeps ==
  ASSUME CheckpointInv, NEW v \in Verifier, PublishProof(v)
  PROVE  CheckpointInv'
  <1> DEFINE p == SpineNow!Retained(job[v].prefix, job[v].lives)
             g == Generation(job[v].latest, p)
  <1>1. /\ job[v] # Nothing /\ JobRight(job[v]) /\ UNCHANGED ledger /\ job[v].step = "publish"
        /\ \E ok \in BOOLEAN : Settles(v, ok)
    BY DEF PublishProof, Does, Elsewhere, disk, CheckpointInv, JobsRight
  <1>2. LedgersOK' /\ JobsRight'
    BY <1>1, LedgersRest, VerdictKeeps DEF CheckpointInv
  <1>3. CASE UNCHANGED gens
    <2>1. UNCHANGED faults \/ Fault
      BY DEF PublishProof
    <2>2. QED
      BY <1>2, <1>3, <2>1, CheckpointsRest
  <1>4. CASE gens' # gens
    <2>1. gens' = Append(gens, g) /\ job[v].latest = Latest /\ faults' = faults
      BY <1>4 DEF PublishProof, Publish, MayPublish
    <2>2. ProofHolds(p)
      <3>1. job[v].lives = SpineNow!FullProof(job[v].prefix) /\ SpineNow!FullProof(job[v].prefix) # Refused
            /\ \A s \in DOMAIN job[v].prefix : IsSeq(job[v].prefix[s])
        BY <1>1 DEF JobRight, Proving
      <3>2. ProofRight(p)
        BY <3>1, FullProofIsRight
      <3>3. p.prefix = job[v].prefix
        BY DEF SpineNow!Retained
      <3>4. QED
        BY <3>1, <3>2, <3>3 DEF ProofHolds
    <2>3. g.number = Len(gens) + 1 /\ g.prior = Latest /\ g.proof = p /\ g.sound = TRUE
      BY <2>1 DEF Generation
    <2>4. PICK P : gens \in Seq(GenOf(P))
      BY DEF CheckpointInv, GensOK
    <2>5. gens \in Seq(GenOf(P \cup {p})) /\ g \in GenOf(P \cup {p})
      <3>1. job[v].latest \in Nat /\ Len(gens) \in Nat
        BY <1>1, <2>4 DEF JobRight, IsJob, JobOf
      <3>2. g \in GenOf(P \cup {p})
        BY <3>1 DEF Generation, GenOf
      <3>3. GenOf(P) \subseteq GenOf(P \cup {p})
        BY DEF GenOf
      <3>4. QED
        BY <2>4, <3>2, <3>3, SeqMonotonic
    <2> HIDE DEF g, p
    <2>6. /\ gens' \in Seq(GenOf(P \cup {p})) /\ Len(gens') = Len(gens) + 1 /\ Len(gens) \in Nat
          /\ gens'[Len(gens) + 1] = g
          /\ \A i \in 1..Len(gens) : gens'[i] = gens[i]
      BY <2>1, <2>5
    <2>7. GensOK'
      BY <2>6 DEF GensOK
    <2>8. Generations'
      <3>1. \A i \in 1..Len(gens') : gens'[i].sound => ProofHolds(gens'[i].proof)
        BY <2>2, <2>3, <2>6 DEF CheckpointInv, Generations
      <3>2. QED
        BY <3>1 DEF Generations
    <2>9. faults' = 0 => Chain'
      <3>1. ASSUME faults = 0
            PROVE  \A i \in 1..Len(gens') : gens'[i].sound /\ gens'[i].number = i /\ gens'[i].prior = i - 1
        <4>1. Chain /\ Latest = Len(gens)
          BY <3>1, ChainHolds DEF CheckpointInv
        <4>2. Len(gens) = Len(gens) + 1 - 1
          BY <2>6
        <4>3. TAKE i \in 1..Len(gens')
        <4>4. CASE i = Len(gens) + 1
          BY <2>3, <2>6, <4>1, <4>2, <4>4
        <4>5. CASE i # Len(gens) + 1
          BY <2>6, <4>1, <4>3, <4>5 DEF Chain
        <4>6. QED
          BY <4>4, <4>5
      <3>2. QED
        BY <2>1, <3>1 DEF Chain
    <2>10. QED
      BY <1>2, <2>1, <2>7, <2>8, <2>9 DEF CheckpointInv
  <1>5. QED
    BY <1>3, <1>4

\* Nothing but Begin(), Nothing or a note that the Forest moved.
LEMMA StagesKeepCheckpoints ==
  ASSUME CheckpointInv, Len(said) \in Nat,
         Start \/ Activate \/ AuditEnds \/ Stop \/ Die \/ Backfills \/ \E full \in BOOLEAN : StartScript(full)
  PROVE  CheckpointInv'
  <1>1. UNCHANGED <<gens, ledger>> /\ (UNCHANGED faults \/ Fault)
    BY DEF Start, Activate, AuditEnds, Stop, Die, Backfills, StartScript, disk
  <1>2. JobsRight'
    <2>1. "hub" \in Verifier /\ "script" \in Verifier
      BY DEF Verifier
    <2>2. \A kind \in {"proof", "audit", "script"} : \A full \in BOOLEAN : JobRight(Begin(kind, full))
      BY BegunIsJob
    <2>3. CASE Start \/ Activate \/ AuditEnds \/ Stop \/ Die
      <3>1. Turns("hub", Nothing) \/ \E kind \in {"proof", "audit"}, full \in BOOLEAN : Turns("hub", Begin(kind, full))
        BY <2>3 DEF Start, Activate, AuditEnds, Stop, Die
      <3>2. QED
        BY <2>1, <2>2, <3>1, JobTurns DEF CheckpointInv
    <2>4. CASE \E full \in BOOLEAN : StartScript(full)
      <3>1. \E full \in BOOLEAN : Turns("script", Begin("script", full))
        BY <2>4 DEF StartScript
      <3>2. QED
        BY <2>1, <2>2, <3>1, JobTurns DEF CheckpointInv
    <2>5. CASE Backfills
      <3>1. CASE job["hub"] = Nothing
        BY <2>5, <3>1, JobsRest DEF Backfills, HubJob, CheckpointInv
      <3>2. CASE job["hub"] # Nothing
        <4> DEFINE k == [job["hub"] EXCEPT !.moved = TRUE]
        <4>1. job' = [job EXCEPT !["hub"] = k]
          BY <2>5, <3>2 DEF Backfills, HubJob
        <4>2. JobRight(k)
          BY <2>1, <3>2, JobMoved DEF CheckpointInv, JobsRight
        <4> HIDE DEF k
        <4>3. QED
          BY <2>1, <4>1, <4>2, JobTurns DEF Turns, CheckpointInv
      <3>3. QED
        BY <3>1, <3>2
    <2>6. QED
      BY <2>3, <2>4, <2>5
  <1>3. QED
    BY <1>1, <1>2, LedgersRest, CheckpointsRest DEF CheckpointInv

LEMMA DamageKeepsCheckpoints ==
  ASSUME CheckpointInv, Refuse \/ Damage
  PROVE  CheckpointInv'
  <1>1. UNCHANGED <<gens, job>> /\ Fault
    BY DEF Refuse, Damage, hub
  <1>2. LedgersOK'
    <2>1. CASE Refuse
      BY <2>1, LedgersRest DEF Refuse, CheckpointInv
    <2>2. CASE Damage
      <3>1. PICK s \in DOMAIN ledger :
              \/ \E i \in DOMAIN ledger[s] : ledger' = [ledger EXCEPT ![s][i].whole = FALSE]
              \/ \E n \in 0..Len(ledger[s]) - 1 : ledger' = [ledger EXCEPT ![s] = SubSeq(@, 1, n)]
              \/ ledger' = [t \in DOMAIN ledger \ {s} |-> ledger[t]]
        BY <2>2 DEF Damage
      <3>2. PICK E : ledger[s] \in Seq(E)
        BY DEF CheckpointInv, LedgersOK, IsSeq
      <3>3. ASSUME NEW lines, IsSeq(lines), ledger' = [ledger EXCEPT ![s] = lines]
            PROVE  LedgersOK'
        <4>1. DOMAIN ledger' = DOMAIN ledger /\ \A t \in DOMAIN ledger : ledger'[t] = IF t = s THEN lines ELSE ledger[t]
          BY <3>3
        <4>2. \A t \in DOMAIN ledger' : IsSeq(ledger'[t])
          BY <3>3, <4>1 DEF CheckpointInv, LedgersOK
        <4>3. QED
          BY <4>2 DEF LedgersOK
      <3>4. CASE \E i \in DOMAIN ledger[s] : ledger' = [ledger EXCEPT ![s][i].whole = FALSE]
        <4>1. PICK i \in DOMAIN ledger[s] : ledger' = [ledger EXCEPT ![s][i].whole = FALSE]
          BY <3>4
        <4> DEFINE x == [ledger[s][i] EXCEPT !.whole = FALSE]
                   lines == [ledger[s] EXCEPT ![i] = x]
        <4>2. ledger' = [ledger EXCEPT ![s] = lines]
          BY <4>1
        <4>3. lines \in Seq(E \cup {x})
          <5> HIDE DEF x
          <5>1. QED
            BY <3>2
        <4> HIDE DEF lines
        <4>4. QED
          BY <3>3, <4>2, <4>3 DEF IsSeq
      <3>5. CASE \E n \in 0..Len(ledger[s]) - 1 : ledger' = [ledger EXCEPT ![s] = SubSeq(@, 1, n)]
        <4>1. PICK n \in 0..Len(ledger[s]) - 1 : ledger' = [ledger EXCEPT ![s] = SubSeq(ledger[s], 1, n)]
          BY <3>5
        <4>2. SubSeq(ledger[s], 1, n) \in Seq(E)
          BY <3>2
        <4>3. QED
          BY <3>3, <4>1, <4>2 DEF IsSeq
      <3>6. CASE ledger' = [t \in DOMAIN ledger \ {s} |-> ledger[t]]
        <4>1. DOMAIN ledger' \subseteq DOMAIN ledger /\ \A t \in DOMAIN ledger' : ledger'[t] = ledger[t]
          BY <3>6
        <4>2. \A t \in DOMAIN ledger' : IsSeq(ledger'[t])
          BY <4>1 DEF CheckpointInv, LedgersOK
        <4>3. QED
          BY <4>2 DEF LedgersOK
      <3>7. QED
        BY <3>1, <3>4, <3>5, <3>6
    <2>3. QED
      BY <2>1, <2>2
  <1>3. QED
    BY <1>1, <1>2, JobsRest, CheckpointsRest DEF CheckpointInv

LEMMA WithoutOne ==
  ASSUME NEW S, NEW s \in Seq(S), NEW i \in 1..Len(s)
  PROVE  LET t == SubSeq(s, 1, i - 1) \o SubSeq(s, i + 1, Len(s)) IN
         t \in Seq(S) /\ \A k \in 1..Len(t) : \E n \in 1..Len(s) : t[k] = s[n]
  <1> DEFINE t == SubSeq(s, 1, i - 1) \o SubSeq(s, i + 1, Len(s))
             a == SubSeq(s, 1, i - 1)
             b == SubSeq(s, i + 1, Len(s))
  <1>1. a \in Seq(S) /\ b \in Seq(S)
    OBVIOUS
  <1>2. Len(a) = i - 1 /\ Len(b) = Len(s) - i /\ Len(s) \in Nat
    OBVIOUS
  <1>3. \A k \in 1..i - 1 : a[k] = s[k]
    OBVIOUS
  <1>4. \A k \in 1..Len(s) - i : b[k] = s[i + k]
    OBVIOUS
  <1>5. t = a \o b
    OBVIOUS
  <1> HIDE DEF a, b, t
  <1>6. /\ t \in Seq(S) /\ Len(t) = Len(a) + Len(b)
        /\ \A k \in 1..Len(t) : t[k] = IF k <= Len(a) THEN a[k] ELSE b[k - Len(a)]
    <2>1. /\ a \o b \in Seq(S) /\ Len(a \o b) = Len(a) + Len(b)
          /\ \A k \in 1..Len(a) + Len(b) : (a \o b)[k] = IF k <= Len(a) THEN a[k] ELSE b[k - Len(a)]
      BY <1>1, ConcatProperties
    <2>2. QED
      BY <1>5, <2>1
  <1>8. ASSUME NEW k \in 1..Len(t)
        PROVE  \E n \in 1..Len(s) : t[k] = s[n]
    <2>1. CASE k <= i - 1
      <3>1. k \in 1..i - 1 /\ k \in 1..Len(s)
        BY <1>2, <2>1
      <3>2. t[k] = s[k]
        BY <1>2, <1>3, <1>6, <3>1
      <3>3. QED
        BY <3>1, <3>2
    <2>2. CASE ~(k <= i - 1)
      <3> DEFINE m == k - (i - 1)
      <3>1. m \in 1..Len(s) - i /\ i + m \in 1..Len(s) /\ ~(k <= Len(a)) /\ k - Len(a) = m
        <4>1. Len(t) = (i - 1) + (Len(s) - i) /\ Len(s) \in Nat /\ Len(a) = i - 1
          BY <1>2, <1>6
        <4>2. QED
          BY <2>2, <4>1
      <3>2. t[k] = b[m]
        BY <1>6, <3>1
      <3> HIDE DEF m
      <3>3. t[k] = s[i + m]
        BY <1>4, <3>1, <3>2
      <3>4. QED
        BY <3>1, <3>3
    <2>3. QED
      BY <2>1, <2>2
  <1>9. QED
    BY <1>6, <1>8 DEF t

\* A damaged generation is not sound, and the others are as they were.
LEMMA LostCheckpointsKeep ==
  ASSUME CheckpointInv, DamageCheckpoints
  PROVE  CheckpointInv'
  <1>1. UNCHANGED <<job, ledger>> /\ Fault
    BY DEF DamageCheckpoints, disk
  <1>2. LedgersOK' /\ JobsRight' /\ faults' \in Nat /\ faults' # 0
    BY <1>1, LedgersRest, JobsRest DEF CheckpointInv, Fault
  <1>3. PICK P : gens \in Seq(GenOf(P))
    BY DEF CheckpointInv, GensOK
  <1>4. ASSUME NEW Q, gens' \in Seq(GenOf(Q)),
               \A k \in 1..Len(gens') : gens'[k].sound => \E i \in 1..Len(gens) : gens'[k] = gens[i]
        PROVE  CheckpointInv'
    <2>1. GensOK'
      BY <1>4 DEF GensOK
    <2>2. \A k \in 1..Len(gens') : gens'[k].sound => ProofHolds(gens'[k].proof)
      BY <1>4 DEF CheckpointInv, Generations
    <2>3. Generations'
      BY <2>2 DEF Generations
    <2>4. QED
      BY <1>2, <2>1, <2>3 DEF CheckpointInv
  <1>5. CASE Rebuild
    <2>1. gens' = <<>> /\ gens' \in Seq(GenOf({})) /\ 1..Len(gens') = {}
      BY <1>5 DEF Rebuild
    <2>2. QED
      BY <1>4, <2>1
  <1>6. CASE RowLost
    <2>1. PICK i \in DOMAIN gens : gens' = SubSeq(gens, 1, i - 1) \o SubSeq(gens, i + 1, Len(gens))
      BY <1>6 DEF RowLost
    <2>2. i \in 1..Len(gens)
      BY <1>3, <2>1
    <2>3. gens' \in Seq(GenOf(P)) /\ \A k \in 1..Len(gens') : \E n \in 1..Len(gens) : gens'[k] = gens[n]
      <3> DEFINE t == SubSeq(gens, 1, i - 1) \o SubSeq(gens, i + 1, Len(gens))
      <3>1. t \in Seq(GenOf(P)) /\ \A k \in 1..Len(t) : \E n \in 1..Len(gens) : t[k] = gens[n]
        BY <1>3, <2>2, WithoutOne
      <3>2. gens' = t
        BY <2>1
      <3> HIDE DEF t
      <3>3. QED
        BY <3>1, <3>2
    <2>4. QED
      BY <1>4, <2>3
  <1>7. ASSUME NEW proof, PayloadDamaged(proof)
        PROVE  CheckpointInv'
    <2>1. PICK i \in DOMAIN gens : gens' = [gens EXCEPT ![i].proof = proof, ![i].sound = FALSE]
      BY <1>7 DEF PayloadDamaged
    <2> DEFINE g == [gens[i] EXCEPT !.proof = proof, !.sound = FALSE]
    <2>2. gens' = [gens EXCEPT ![i] = g]
      BY <2>1
    <2>3. gens[i] \in GenOf(P) /\ g \in GenOf(P \cup {proof}) /\ g.sound = FALSE
      <3>1. gens[i] \in GenOf(P)
        BY <1>3, <2>1
      <3>2. QED
        BY <3>1 DEF GenOf
    <2>4. GenOf(P) \subseteq GenOf(P \cup {proof})
      BY DEF GenOf
    <2> HIDE DEF g
    <2>5. gens \in Seq(GenOf(P \cup {proof})) /\ gens' \in Seq(GenOf(P \cup {proof})) /\ Len(gens') = Len(gens)
      <3>1. gens \in Seq(GenOf(P \cup {proof}))
        BY <1>3, <2>4, SeqMonotonic
      <3>2. QED
        BY <2>2, <2>3, <3>1
    <2>6. \A k \in 1..Len(gens') : gens'[k] = IF k = i THEN g ELSE gens[k]
      BY <1>3, <2>2, <2>5
    <2>7. QED
      BY <1>4, <2>3, <2>5, <2>6
  <1>8. QED
    BY <1>5, <1>6, <1>7 DEF DamageCheckpoints

LEMMA InitChecks == Init => CheckpointInv
  <1>1. SUFFICES ASSUME Init
                 PROVE  CheckpointInv
    OBVIOUS
  <1>2. ledger = <<>> /\ gens = <<>> /\ job = [v \in {"hub", "script"} |-> Nothing] /\ faults = 0
    BY <1>1 DEF Init
  <1>3. DOMAIN <<>> = {} /\ Len(<<>>) = 0 /\ 1..0 = {} /\ <<>> \in Seq(GenOf({}))
    OBVIOUS
  <1>4. QED
    BY <1>2, <1>3 DEF CheckpointInv, LedgersOK, GensOK, Generations, Chain, JobsRight, Verifier

LEMMA EveryStepChecks == CustodyInv /\ CheckpointInv /\ [Next]_vars => CheckpointInv'
  <1>1. SUFFICES ASSUME CustodyInv, CheckpointInv, [Next]_vars
                 PROVE  CheckpointInv'
    OBVIOUS
  <1>2. Len(said) \in Nat
    BY <1>1, SaidIs DEF CustodyInv
  <1>3. CASE WakeStep
    BY <1>1, <1>3, WakesKeepCheckpoints
  <1>4. CASE \E v \in Verifier : LookAtSpine(v) \/ LookAtForest(v) \/ ReadLatest(v) \/ PublishProof(v)
    BY <1>1, <1>4, SpineLookKeeps, ForestLookKeeps, PublicationKeeps
  <1>5. CASE Start \/ Activate \/ AuditEnds \/ Stop \/ Die \/ Backfills \/ \E full \in BOOLEAN : StartScript(full)
    BY <1>1, <1>2, <1>5, StagesKeepCheckpoints
  <1>6. CASE Refuse \/ Damage \/ DamageCheckpoints
    BY <1>1, <1>6, DamageKeepsCheckpoints, LostCheckpointsKeep
  <1>7. CASE UNCHANGED vars
    <2>1. UNCHANGED <<gens, ledger, job, faults>>
      BY <1>7 DEF vars
    <2>2. QED
      BY <1>1, <2>1, LedgersRest, JobsRest, CheckpointsRest DEF CheckpointInv
  <1>8. QED
    BY <1>1, <1>3, <1>4, <1>5, <1>6, <1>7 DEF Next, Verify

\* For any number of wakes, sessions, generations, verifications that publish at
\* once, damages and deaths: a retained proof that is accepted again is what the
\* scan of every ledger from its first line would find, and without a fault the
\* chain of generations neither forks nor breaks (validateSpineVerifiedProof,
\* publish).
THEOREM CheckpointsAlwaysProveAll == Spec => []CheckpointIsTheFullProof
  <1>1. Init => CustodyInv /\ CheckpointInv
    BY InitKeeps, InitChecks
  <1>2. CustodyInv /\ CheckpointInv /\ [Next]_vars => (CustodyInv /\ CheckpointInv)'
    BY EveryStepKeeps, EveryStepChecks
  <1>3. QED
    BY <1>1, <1>2, InvProvesAll, PTL DEF Spec

-----------------------------------------------------------------------------
(* Readiness *)

Sealing == FullSpine # Refused
Standing == Verifies(View(FullSpine), TRUE)

\* What the first proof of a Hub knows of the disk: it read the ledgers that are
\* there, and once it has accepted them the Forest stands, or has moved since.
Tells(j) ==
  /\ j.step \in Proving => j.prefix = ledger
  /\ j.step \in {"latest", "publish"} \/ (j.step = "settle" /\ j.ok) => Sealing /\ (j.moved \/ Standing)

ReadinessInv == stage = "pending" /\ HubJob # Nothing => Tells(HubJob)

LEMMA SpineStays ==
  ASSUME UNCHANGED ledger
  PROVE  FullSpine' = FullSpine /\ (Sealing' <=> Sealing)
  BY DEF FullSpine, Sealing

LEMMA VerdictStays ==
  ASSUME UNCHANGED <<said, row, entry, intake, presented, emitted, woken, ledger>>
  PROVE  Standing' <=> Standing
  BY SpineStays DEF Standing, Verifies, SourceHolds, TopologyHolds, PresentationHolds, EmissionHolds, IntakeHolds,
     Utterance, Live, LinksOf, Owns, Answers, Before, View


\* Nothing on the disk moves and the job stays what it was.
LEMMA ReadinessRests ==
  ASSUME ReadinessInv, UNCHANGED <<disk, stage>>, HubJob' = HubJob
  PROVE  ReadinessInv'
  <1>1. UNCHANGED <<said, row, entry, intake, presented, emitted, woken, ledger>>
    BY DEF disk, storeVars
  <1>2. (Sealing' <=> Sealing) /\ (Standing' <=> Standing)
    BY <1>1, SpineStays, VerdictStays
  <1>3. QED
    BY <1>1, <1>2 DEF ReadinessInv, Tells

\* The job of the Hub turns while the disk stays.
LEMMA HubJobTurns ==
  ASSUME UNCHANGED disk, DOMAIN job = Verifier, NEW j, Turns("hub", j), Tells(j)
  PROVE  ReadinessInv'
  <1>1. UNCHANGED <<said, row, entry, intake, presented, emitted, woken, ledger>>
    BY DEF disk, storeVars
  <1>2. (Sealing' <=> Sealing) /\ (Standing' <=> Standing)
    BY <1>1, SpineStays, VerdictStays
  <1>3. HubJob' = j
    BY DEF HubJob, Turns, Verifier
  <1>4. QED
    BY <1>1, <1>2, <1>3 DEF ReadinessInv, Tells

LEMMA VerdictTells ==
  ASSUME UNCHANGED disk, DOMAIN job = Verifier, IsJob(HubJob), NEW ok \in BOOLEAN, Settles("hub", ok),
         ok => Sealing /\ (HubJob.moved \/ Standing)
  PROVE  ReadinessInv'
  <1> DEFINE k == [HubJob EXCEPT !.step = "settle", !.ok = ok, !.lives = Nothing, !.prefix = <<>>, !.latest = NoGeneration]
  <1>1. Turns("hub", k)
    BY DEF Settles, HubJob
  <1>2. PICK L, P : HubJob \in JobOf(L, P)
    BY DEF IsJob
  <1>3. k.step = "settle" /\ k.moved = HubJob.moved
    BY <1>2 DEF JobOf
  <1>4. k.ok = ok
    BY <1>2 DEF JobOf
  <1> HIDE DEF k
  <1>5. Tells(k)
    BY <1>3, <1>4 DEF Tells, Proving
  <1>6. QED
    BY <1>1, <1>5, HubJobTurns

\* The Hub's first proof, step by step.
LEMMA ProofTells ==
  ASSUME CheckpointInv, ReadinessInv, stage = "pending",
         LookAtSpine("hub") \/ LookAtForest("hub") \/ ReadLatest("hub") \/ PublishProof("hub")
  PROVE  ReadinessInv'
  <1>1. /\ HubJob # Nothing /\ JobRight(HubJob) /\ UNCHANGED disk /\ DOMAIN job = Verifier
        /\ HubJob = job["hub"] /\ Tells(HubJob)
    BY DEF LookAtSpine, LookAtForest, ReadLatest, PublishProof, Does, Elsewhere, HubJob, CheckpointInv, JobsRight,
       Verifier, ReadinessInv
  <1>2. PICK L, P : HubJob \in JobOf(L, P)
    BY <1>1 DEF JobRight, IsJob
  <1>3. CASE LookAtSpine("hub")
    <2> DEFINE looked == [HubJob EXCEPT !.step = "forest", !.prefix = ledger,
                                        !.store = @ /\ (HubJob.full \/ LineageHolds)]
               mode == IF NewestProof.prefix = ledger THEN "unchanged" ELSE "suffix"
    <2>1. \/ Turns("hub", [looked EXCEPT !.lives = FullSpine])
          \/ Turns("hub", [looked EXCEPT !.lives = CheckpointProof("hub"), !.mode = mode])
      BY <1>1, <1>3 DEF LookAtSpine
    <2>2. DOMAIN looked = DOMAIN HubJob /\ looked.step = "forest" /\ looked.prefix = ledger
      BY <1>2 DEF JobOf
    <2> HIDE DEF looked, mode
    <2>3. \A j : \/ j = [looked EXCEPT !.lives = FullSpine]
                 \/ j = [looked EXCEPT !.lives = CheckpointProof("hub"), !.mode = mode]
                 => Tells(j)
      <3>1. {"step", "prefix"} \subseteq DOMAIN looked
        BY <1>2, <2>2 DEF JobOf
      <3>2. ASSUME NEW j, \/ j = [looked EXCEPT !.lives = FullSpine]
                          \/ j = [looked EXCEPT !.lives = CheckpointProof("hub"), !.mode = mode]
            PROVE  j.step = "forest" /\ j.prefix = ledger
        BY <2>2, <3>1, <3>2
      <3>3. QED
        BY <3>2 DEF Tells
    <2>4. QED
      BY <1>1, <2>1, <2>3, HubJobTurns
  <1>4. CASE LookAtForest("hub")
    <2> DEFINE ok == HubJob.lives # Refused /\ Verifies(View(HubJob.lives), TRUE)
    <2>1. HubJob.step = "forest" /\ (Settles("hub", ok) \/ (ok /\ Turns("hub", [HubJob EXCEPT !.step = "latest"])))
      BY <1>1, <1>4 DEF LookAtForest, Does
    <2>2. HubJob.prefix = ledger
      BY <1>1, <2>1 DEF Tells, Proving
    <2>3. HubJob.lives # Refused => HubJob.lives = FullSpine
      BY <1>1, <2>1, <2>2 DEF JobRight, Proving, FullSpine
    <2>4. ok => Sealing /\ Standing
      BY <2>3 DEF Sealing, Standing
    <2>5. ok \in BOOLEAN
      OBVIOUS
    <2> HIDE DEF ok
    <2>6. CASE Settles("hub", ok)
      BY <1>1, <2>4, <2>5, <2>6, VerdictTells DEF JobRight
    <2>7. CASE ok /\ Turns("hub", [HubJob EXCEPT !.step = "latest"])
      <3> DEFINE k == [HubJob EXCEPT !.step = "latest"]
      <3>1. k.step = "latest" /\ k.prefix = HubJob.prefix
        BY <1>2 DEF JobOf
      <3> HIDE DEF k
      <3>2. Tells(k)
        BY <2>2, <2>4, <2>7, <3>1 DEF Tells
      <3>3. QED
        BY <1>1, <2>7, <3>2, HubJobTurns DEF k
    <2>8. QED
      BY <2>1, <2>6, <2>7
  <1>5. CASE ReadLatest("hub") \/ PublishProof("hub")
    <2>1. HubJob.step \in {"latest", "publish"}
      BY <1>1, <1>5 DEF ReadLatest, PublishProof, Does
    <2>2. Sealing /\ (HubJob.moved \/ Standing) /\ HubJob.prefix = ledger
      BY <1>1, <2>1 DEF Tells, Proving
    <2>3. \/ \E ok \in BOOLEAN : Settles("hub", ok)
          \/ Turns("hub", [HubJob EXCEPT !.step = "publish", !.latest = Latest])
      BY <1>1, <1>5 DEF ReadLatest, PublishProof
    <2>4. CASE \E ok \in BOOLEAN : Settles("hub", ok)
      BY <1>1, <2>2, <2>4, VerdictTells DEF JobRight
    <2>5. CASE Turns("hub", [HubJob EXCEPT !.step = "publish", !.latest = Latest])
      <3> DEFINE k == [HubJob EXCEPT !.step = "publish", !.latest = Latest]
      <3>1. k.step = "publish" /\ k.prefix = HubJob.prefix
        BY <1>2 DEF JobOf
      <3>2. k.moved = HubJob.moved
        BY <1>2 DEF JobOf
      <3> HIDE DEF k
      <3>3. Tells(k)
        BY <2>2, <3>1, <3>2 DEF Tells
      <3>4. QED
        BY <1>1, <2>5, <3>3, HubJobTurns DEF k
    <2>6. QED
      BY <2>3, <2>4, <2>5
  <1>6. QED
    BY <1>3, <1>4, <1>5

\* A backfill is noted in the job, whatever it added.
LEMMA BackfillTells ==
  ASSUME CheckpointInv, ReadinessInv, Backfills
  PROVE  ReadinessInv'
  <1>1. UNCHANGED <<stage, ledger>> /\ DOMAIN job = Verifier
    BY DEF Backfills, CheckpointInv, JobsRight
  <1>2. Sealing' <=> Sealing
    BY <1>1, SpineStays
  <1>3. CASE HubJob = Nothing
    BY <1>1, <1>3 DEF Backfills, HubJob, ReadinessInv
  <1>4. CASE HubJob # Nothing
    <2>1. PICK L, P : HubJob \in JobOf(L, P)
      BY <1>4 DEF CheckpointInv, JobsRight, JobRight, IsJob, HubJob, Verifier
    <2> DEFINE k == [HubJob EXCEPT !.moved = TRUE]
    <2>2. HubJob' = k
      BY <1>1, <1>4 DEF Backfills, HubJob, Verifier
    <2>3. k.step = HubJob.step /\ k.prefix = HubJob.prefix
      BY <2>1 DEF JobOf
    <2>4. k.moved /\ (k.ok <=> HubJob.ok)
      BY <2>1 DEF JobOf
    <2> HIDE DEF k
    <2>5. QED
      BY <1>1, <1>2, <1>4, <2>2, <2>3, <2>4 DEF ReadinessInv, Tells
  <1>5. QED
    BY <1>3, <1>4

LEMMA EveryStepTells == CustodyInv /\ CheckpointInv /\ ReadinessInv /\ [Next]_vars => ReadinessInv'
  <1>1. SUFFICES ASSUME CustodyInv, CheckpointInv, ReadinessInv, [Next]_vars, stage' = "pending"
                 PROVE  ReadinessInv'
    BY DEF ReadinessInv
  <1>2. DOMAIN job = Verifier /\ "hub" # "script"
    BY <1>1 DEF CheckpointInv, JobsRight
  <1>3. CASE WakeStep
    <2>1. UNCHANGED stage /\ (stage = "ready" \/ wake # Idle)
      BY <1>3 DEF WakeStep, Accept, TakeIn, Prepare, Record, Present, Dispatch, Answer, Commit, TakeReply, Emit,
         Steady, hub, At
    <2>2. FALSE
      BY <1>1, <2>1 DEF CustodyInv, SourceOK, WakeOK
    <2>3. QED
      BY <2>2
  <1>4. CASE \E v \in Verifier : LookAtSpine(v) \/ LookAtForest(v) \/ ReadLatest(v) \/ PublishProof(v)
    <2>1. PICK v \in Verifier : LookAtSpine(v) \/ LookAtForest(v) \/ ReadLatest(v) \/ PublishProof(v)
      BY <1>4
    <2>2. UNCHANGED <<disk, stage>> /\ \E j : job' = [job EXCEPT ![v] = j]
      BY <2>1 DEF LookAtSpine, LookAtForest, ReadLatest, PublishProof, Elsewhere, Turns, Settles
    <2>3. CASE v = "hub"
      BY <1>1, <2>1, <2>2, <2>3, ProofTells
    <2>4. CASE v # "hub"
      BY <1>1, <2>2, <2>4, ReadinessRests DEF HubJob
    <2>5. QED
      BY <2>3, <2>4
  <1>5. CASE Start
    <2> DEFINE k == Begin("proof", FALSE)
    <2>1. UNCHANGED disk /\ Turns("hub", k)
      BY <1>5 DEF Start
    <2>2. k.step = "spine"
      BY DEF Begin
    <2> HIDE DEF k
    <2>3. Tells(k)
      BY <2>2 DEF Tells, Proving
    <2>4. QED
      BY <1>2, <2>1, <2>3, HubJobTurns
  <1>6. CASE Activate \/ AuditEnds
    <2>1. HubJob' = Nothing
      BY <1>1, <1>2, <1>6 DEF Activate, AuditEnds, Turns, HubJob, Verifier
    <2>2. QED
      BY <2>1 DEF ReadinessInv
  <1>7. CASE \E full \in BOOLEAN : StartScript(full)
    <2>1. UNCHANGED <<disk, stage>> /\ HubJob' = HubJob
      BY <1>2, <1>7 DEF StartScript, Turns, HubJob
    <2>2. QED
      BY <1>1, <2>1, ReadinessRests
  <1>8. CASE Stop \/ Die \/ Damage \/ Refuse
    <2>1. stage' = "down" \/ (UNCHANGED stage /\ stage = "down") \/ (UNCHANGED stage /\ wake # Idle)
      BY <1>8 DEF Stop, Die, Damage, Refuse, hub
    <2>2. QED
      BY <1>1, <2>1 DEF CustodyInv, SourceOK, WakeOK
  <1>9. CASE Backfills
    BY <1>1, <1>9, BackfillTells
  <1>10. CASE DamageCheckpoints \/ UNCHANGED vars
    <2>1. UNCHANGED <<disk, stage>> /\ HubJob' = HubJob
      BY <1>10 DEF DamageCheckpoints, vars, disk, HubJob
    <2>2. QED
      BY <1>1, <2>1, ReadinessRests
  <1>11. QED
    BY <1>1, <1>3, <1>4, <1>5, <1>6, <1>7, <1>8, <1>9, <1>10 DEF Next, Verify

\* For any number of wakes, scripts, backfills, faults and lifespans of the Hub:
\* the Forest becomes ready only where a full strict proof would accept it at that
\* moment, whatever moved while the worker was at it (activate).
THEOREM ReadyIsAlwaysWhole == Spec => ReadyCustodyIsWhole
  <1> DEFINE Becomes == stage = "pending" /\ stage' = "ready" =>
               /\ wake = Idle
               /\ FullSpine # Refused
               /\ Verifies(View(FullSpine), TRUE)
             Inv == CustodyInv /\ CheckpointInv /\ ReadinessInv
  <1>1. Init => Inv
    <2>1. Init => ReadinessInv
      BY DEF Init, ReadinessInv
    <2>2. QED
      BY <2>1, InitKeeps, InitChecks
  <1>2. Inv /\ [Next]_vars => Inv'
    BY EveryStepKeeps, EveryStepChecks, EveryStepTells
  <1>3. Inv /\ [Next]_vars => Becomes
    <2>1. SUFFICES ASSUME Inv, [Next]_vars, stage = "pending", stage' = "ready"
                   PROVE  wake = Idle /\ FullSpine # Refused /\ Verifies(View(FullSpine), TRUE)
      OBVIOUS
    <2>2. wake = Idle
      BY <2>1 DEF CustodyInv, SourceOK, WakeOK
    <2>3. Activate
      <3>1. stage' # stage
        BY <2>1
      <3>2. ~WakeStep
        BY <3>1 DEF WakeStep, Accept, TakeIn, Prepare, Record, Present, Dispatch, Answer, Commit, TakeReply, Emit,
           Steady, hub
      <3>3. ~(Start \/ AuditEnds \/ Stop \/ Die)
        BY <2>1, <3>1 DEF Start, AuditEnds, Stop, Die
      <3>4. ~(Backfills \/ Refuse \/ Damage \/ DamageCheckpoints)
        BY <3>1 DEF Backfills, Refuse, Damage, DamageCheckpoints, hub
      <3>5. ~(\E v \in Verifier : LookAtSpine(v) \/ LookAtForest(v) \/ ReadLatest(v) \/ PublishProof(v))
        BY <3>1 DEF LookAtSpine, LookAtForest, ReadLatest, PublishProof, Elsewhere
      <3>6. ~(\E full \in BOOLEAN : StartScript(full)) /\ ~UNCHANGED vars
        BY <3>1 DEF StartScript, vars
      <3>7. QED
        BY <2>1, <3>2, <3>3, <3>4, <3>5, <3>6 DEF Next, Verify
    <2>4. HubJob # Nothing /\ HubJob.step = "settle" /\ HubJob.ok /\ ~HubJob.moved
      BY <2>1, <2>3 DEF Activate, Does, HubJob, Blessed, Stale
    <2>5. Sealing /\ Standing
      BY <2>1, <2>4 DEF ReadinessInv, Tells
    <2>6. QED
      BY <2>2, <2>5 DEF Sealing, Standing
  <1>4. Spec => [][Becomes]_vars
    <2> HIDE DEF Becomes, Inv
    <2>1. QED
      BY <1>1, <1>2, <1>3, PTL DEF Spec
  <1>5. QED
    BY <1>4 DEF ReadyCustodyIsWhole

-----------------------------------------------------------------------------
(* Writers and verifiers agree *)

\* The life of a wake's crossing as the full scan finds it: what it may have
\* become when no write was refused.
Of(prepared, dispatched, raw, code) ==
  [prepared |-> prepared, dispatched |-> dispatched, raw |-> raw, code |-> code]
Blank == Of(FALSE, FALSE, FALSE, NoCode)
Begun == Of(TRUE, FALSE, FALSE, NoCode)
Away == Of(TRUE, TRUE, FALSE, NoCode)
Lost == Of(TRUE, TRUE, FALSE, "fetch_failed")
Done == Of(TRUE, TRUE, TRUE, "success")
Life == {Blank, Begun, Away, Lost, Done}

Book(s) == IF s \in DOMAIN ledger THEN ledger[s] ELSE <<>>
LivesIn(s) == SpineNow!Scan(SpineNow!Fresh, Book(s))
LifeOf(w) == IF w \in DOMAIN woken THEN LivesIn(woken[w])[w] ELSE Blank

\* Every ledger is accepted, and speaks of the wakes of its session only.
BooksOK ==
  \A s \in 1..starts :
    /\ LivesIn(s) \in [Wake -> Life]
    /\ \A w \in Wake : ~(w \in DOMAIN woken /\ woken[w] = s) => LivesIn(s)[w] = Blank

\* What the Forest and Source hold of a wake.
Says(u, w) == said[u].by = "resident" /\ said[u].wake = w
Silent(w) == (\A u \in 1..Len(said) : ~Says(u, w)) /\ \A l \in emitted : l[1] # w
Unlinked(w) == \A l \in presented : l[1] # w
Shown(w) == /\ w \in DOMAIN row /\ row[w] \subseteq DOMAIN entry
            /\ \A u \in row[w] : <<w, u>> \in presented
            /\ \A l \in presented : l[1] = w => l[2] \in row[w]
Spoken(w, u) == /\ \A v \in 1..Len(said) : Says(v, w) <=> v = u
                /\ u \in 1..Len(said)
                /\ \A l \in emitted : l[1] = w => l[2] = u /\ u \in DOMAIN entry
Owned(w, u) == Live(u) => <<w, u>> \in emitted

\* How far a wake has come.
Untouched(w) == LifeOf(w) = Blank /\ w \notin DOMAIN row /\ Unlinked(w) /\ Silent(w)
Noted(w) == LifeOf(w) = Begun /\ w \notin DOMAIN row /\ Unlinked(w) /\ Silent(w)
Rowed(w) == LifeOf(w) = Begun /\ w \in DOMAIN row /\ Unlinked(w) /\ Silent(w)
Linked(w) == LifeOf(w) = Begun /\ Shown(w) /\ Silent(w)
Sent(w) == LifeOf(w) = Away /\ Shown(w) /\ Silent(w)
Failed(w) == LifeOf(w) = Lost /\ Shown(w) /\ Silent(w)
Replied(w) == LifeOf(w) = Done /\ Shown(w) /\ Silent(w)
Spoke(w, u) == LifeOf(w) = Done /\ Shown(w) /\ Spoken(w, u)
Finished(w) == \E u \in 1..Len(said) : Spoke(w, u) /\ Owned(w, u)

\* A wake that is over, or has not begun, left nothing half done that a verifier
\* would refuse.
Over(w) == Untouched(w) \/ Rowed(w) \/ Failed(w) \/ Finished(w)
\* The wake under way has come as far as its step says.
Underway(w) ==
  /\ wake.pc = "said" => said[Len(said)].by = "user"
  /\ wake.pc \in {"said", "through"} => Untouched(w)
  /\ wake.pc = "prepared" => Noted(w)
  /\ wake.pc = "recorded" => Rowed(w)
  /\ wake.pc = "presented" => Linked(w)
  /\ wake.pc = "sent" => Sent(w)
  /\ wake.pc = "answered" => Replied(w)
  /\ wake.pc \in Answered =>
       \E u \in {Len(said)} : /\ Spoke(w, u)
                              /\ wake.pc = "spoken" => ~Live(u)
                              /\ wake.pc = "kept" => u \in DOMAIN entry

Active(w) == wake # Idle /\ wake.w = w
WakesOK ==
  \A w \in Wake : /\ w \notin DOMAIN woken => Untouched(w)
                  /\ IF Active(w) THEN Underway(w) ELSE Over(w)

\* A ready Forest lacks at most the utterance just said.
Complete == DOMAIN entry = 1..Len(said)
ReadyOK ==
  stage = "ready" =>
    \/ Complete
    \/ wake # Idle /\ wake.pc \in {"said", "spoken"} /\ 1..Len(said) - 1 \subseteq DOMAIN entry

\* A first proof is of a Hub that is not ready yet.
FirstProof == HubJob # Nothing /\ HubJob.kind = "proof" => stage = "pending"

AgreeInv == FirstProof /\ starts <= MaxStarts /\ (faults = 0 => BooksOK /\ WakesOK /\ ReadyOK)

\* Nobody has written the book of a session before its first line.
LEMMA FreshIs ==
  /\ SpineNow!Fresh = [r \in Wake |-> Blank]
  /\ Life \subseteq [prepared : BOOLEAN, dispatched : BOOLEAN, raw : BOOLEAN, code : SpineNow!S!Code \cup {NoCode}]
  /\ [Wake -> Life] \subseteq SpineNow!Lifecycle
  <1>1. {"success", "fetch_failed"} \subseteq SpineNow!S!Code
    BY DEF SpineNow!S!Code, SpineNow!S!NetworkCode
  <1>2. Life \subseteq [prepared : BOOLEAN, dispatched : BOOLEAN, raw : BOOLEAN, code : SpineNow!S!Code \cup {NoCode}]
    BY <1>1 DEF Life, Blank, Begun, Away, Lost, Done, Of
  <1>3. QED
    BY <1>2 DEF SpineNow!Fresh, SpineNow!Lifecycle, Blank, Of

LEMMA LivesDiffer ==
  /\ Blank # Begun /\ Blank # Away /\ Blank # Lost /\ Blank # Done
  /\ Begun # Away /\ Begun # Lost /\ Begun # Done
  /\ Away # Lost /\ Away # Done /\ Lost # Done
  <1>1. NoCode # "success" /\ NoCode # "fetch_failed"
    BY CustodyAssumption DEF SpineNow!S!Code, SpineNow!S!NetworkCode
  <1>2. QED
    BY <1>1 DEF Blank, Begun, Away, Lost, Done, Of

\* A whole line that may come next does to a life what its frame says.
LEMMA LineScan ==
  ASSUME NEW life, NEW x
  PROVE  SpineNow!Scan(life, <<x>>) = Scanned(life, x)
  <1>1. Len(<<x>>) = 1 /\ <<x>>[1] = x /\ 1 \in 1..1 /\ 1 - 1 = 0
    OBVIOUS
  <1>2. \A l : Len(l) \in Nat =>
          \E f : /\ SpineNow!Scan(life, l) = f[Len(l)]
                /\ f[0] = life
                /\ \A i \in 1..Len(l) : f[i] = Scanned(f[i - 1], l[i])
    BY ScanIs
  <1>3. PICK f : /\ SpineNow!Scan(life, <<x>>) = f[1]
                 /\ f[0] = life
                 /\ \A i \in 1..1 : f[i] = Scanned(f[i - 1], <<x>>[i])
    BY <1>1, <1>2
  <1>4. QED
    BY <1>1, <1>3

LEMMA NoLineScan ==
  ASSUME NEW life
  PROVE  SpineNow!Scan(life, <<>>) = life
  <1>1. Len(<<>>) = 0
    OBVIOUS
  <1>2. \A l : Len(l) \in Nat => \E f : SpineNow!Scan(life, l) = f[Len(l)] /\ f[0] = life
    BY ScanIs
  <1>3. PICK f : SpineNow!Scan(life, <<>>) = f[0] /\ f[0] = life
    BY <1>1, <1>2
  <1>4. QED
    BY <1>3

\* Lines written after others are scanned after them.
LEMMA ScanJoins ==
  ASSUME NEW life, NEW l, NEW m, IsSeq(l), IsSeq(m)
  PROVE  SpineNow!Scan(life, l \o m) = SpineNow!Scan(SpineNow!Scan(life, l), m)
  <1>1. PICK E : l \in Seq(E) /\ m \in Seq(E)
    <2>1. PICK A, B : l \in Seq(A) /\ m \in Seq(B)
      BY DEF IsSeq
    <2>2. l \in Seq(A \cup B) /\ m \in Seq(A \cup B)
      BY <2>1
    <2>3. QED
      BY <2>2
  <1> DEFINE n == Len(l)
             all == l \o m
  <1>2. /\ n \in Nat /\ Len(m) \in Nat /\ all \in Seq(E) /\ Len(all) = n + Len(m)
        /\ \A i \in 1..n : all[i] = l[i]
        /\ \A i \in 1..Len(m) : all[n + i] = m[i]
    BY <1>1, ConcatProperties
  <1> HIDE DEF n, all
  <1>3. n \in 0..Len(all) /\ IsSeq(all)
    BY <1>2 DEF IsSeq
  <1>4. SubSeq(all, 1, n) = l
    <2>1. Len(SubSeq(all, 1, n)) = n /\ SubSeq(all, 1, n) \in Seq(E) /\ \A i \in 1..n : SubSeq(all, 1, n)[i] = all[i]
      BY <1>2, <1>3
    <2>2. Len(l) = n
      BY DEF n
    <2>3. QED
      BY <1>1, <1>2, <2>1, <2>2, SeqEqual
  <1>5. SubSeq(all, n + 1, Len(all)) = m
    <2> DEFINE rest == SubSeq(all, n + 1, Len(all))
    <2>1. Len(rest) = Len(m) /\ rest \in Seq(E)
      BY <1>2, <1>3
    <2>2. \A i \in 1..Len(m) : rest[i] = m[i]
      <3>1. TAKE i \in 1..Len(m)
      <3>2. rest[i] = all[n + 1 + i - 1]
        BY <1>2, <1>3
      <3>3. n + 1 + i - 1 = n + i
        BY <1>2
      <3>4. QED
        BY <1>2, <3>2, <3>3
    <2> HIDE DEF rest
    <2>3. QED
      BY <1>1, <2>1, <2>2, SeqEqual DEF rest
  <1>6. SpineNow!Scan(life, all) = SpineNow!Scan(SpineNow!Scan(life, SubSeq(all, 1, n)), SpineNow!Suffix(all, n))
    BY <1>3, ScanGoesOn
  <1>7. QED
    BY <1>4, <1>5, <1>6 DEF all, SpineNow!Suffix

LEMMA TwoLinesScan ==
  ASSUME NEW life, NEW x, NEW y
  PROVE  SpineNow!Scan(life, <<x, y>>) = Scanned(Scanned(life, x), y)
  <1>1. <<x>> \o <<y>> = <<x, y>>
    <2>1. <<x>> \in Seq({x, y}) /\ <<y>> \in Seq({x, y}) /\ <<x, y>> \in Seq({x, y})
      OBVIOUS
    <2>2. /\ <<x>> \o <<y>> \in Seq({x, y}) /\ Len(<<x>> \o <<y>>) = 2
          /\ (<<x>> \o <<y>>)[1] = x /\ (<<x>> \o <<y>>)[2] = y
      BY <2>1, ConcatProperties
    <2>3. Len(<<x, y>>) = 2 /\ <<x, y>>[1] = x /\ <<x, y>>[2] = y /\ 1..2 = {1, 2}
      OBVIOUS
    <2>4. QED
      BY <2>1, <2>2, <2>3, SeqEqual
  <1>2. IsSeq(<<x>>) /\ IsSeq(<<y>>)
    BY LinesAreSeqs
  <1>3. SpineNow!Scan(life, <<x>> \o <<y>>) = SpineNow!Scan(SpineNow!Scan(life, <<x>>), <<y>>)
    BY <1>2, ScanJoins
  <1>4. QED
    BY <1>1, <1>3, LineScan

\* The frames a wake writes, one after another.
LEMMA FrameIsApplied ==
  ASSUME NEW L \in SpineNow!Lifecycle, NEW w
  PROVE  /\ \A kind : LET f == Frame(kind, w) IN
              SpineNow!Follows(L, f.frame) => Scanned(L, f) = SpineNow!Applied(L, f.frame)
         /\ \A c : LET f == Outcome(w, c) IN
              SpineNow!Follows(L, f.frame) => Scanned(L, f) = SpineNow!Applied(L, f.frame)
  <1>1. L # Refused
    BY CustodyAssumption
  <1>2. \A f : f.whole /\ SpineNow!Follows(L, f.frame) => Scanned(L, f) = SpineNow!Applied(L, f.frame)
    BY <1>1 DEF Scanned
  <1>3. (\A kind : Frame(kind, w).whole) /\ \A c : Outcome(w, c).whole
    BY DEF Frame, Outcome
  <1>4. QED
    BY <1>2, <1>3

LEMMA FramesFollow ==
  ASSUME NEW L \in SpineNow!Lifecycle, NEW w \in Wake
  PROVE  /\ L[w] = Blank => SpineNow!Follows(L, Frame("prepared", w).frame)
         /\ L[w] = Begun => SpineNow!Follows(L, Frame("dispatched", w).frame)
         /\ L[w] = Away => SpineNow!Follows(L, Frame("raw", w).frame)
         /\ L[w] = Away => SpineNow!Follows(L, Outcome(w, "fetch_failed").frame)
         /\ L[w] = Of(TRUE, TRUE, TRUE, NoCode) => SpineNow!Follows(L, Outcome(w, "success").frame)
  <1>1. "fetch_failed" \in SpineNow!S!NetworkCode
    BY DEF SpineNow!S!NetworkCode
  <1>2. SpineNow!Follows(L, Frame("prepared", w).frame) <=> ~L[w].prepared
    BY DEF SpineNow!Follows, Frame
  <1>3. SpineNow!Follows(L, Frame("dispatched", w).frame) <=> L[w].prepared /\ ~L[w].dispatched
    BY DEF SpineNow!Follows, Frame
  <1>4. SpineNow!Follows(L, Frame("raw", w).frame) <=> L[w].dispatched /\ ~L[w].raw /\ L[w].code = NoCode
    BY DEF SpineNow!Follows, Frame
  <1>5. \A c : SpineNow!Follows(L, Outcome(w, c).frame)
                 <=> L[w].dispatched /\ L[w].code = NoCode /\ (c \notin SpineNow!S!NetworkCode => L[w].raw)
    BY DEF SpineNow!Follows, Outcome
  <1>6. /\ ~Blank.prepared
        /\ Begun.prepared /\ ~Begun.dispatched
        /\ Away.dispatched /\ ~Away.raw /\ Away.code = NoCode
        /\ Of(TRUE, TRUE, TRUE, NoCode).dispatched /\ Of(TRUE, TRUE, TRUE, NoCode).raw
        /\ Of(TRUE, TRUE, TRUE, NoCode).code = NoCode
    BY DEF Blank, Begun, Away, Of
  <1>7. L[w] = Blank => SpineNow!Follows(L, Frame("prepared", w).frame)
    BY <1>2, <1>6, Zenon
  <1>8. L[w] = Begun => SpineNow!Follows(L, Frame("dispatched", w).frame)
    BY <1>3, <1>6, Zenon
  <1>9. L[w] = Away => SpineNow!Follows(L, Frame("raw", w).frame)
    BY <1>4, <1>6, Zenon
  <1>10. L[w] = Away => SpineNow!Follows(L, Outcome(w, "fetch_failed").frame)
    BY <1>1, <1>5, <1>6, Zenon
  <1>11. L[w] = Of(TRUE, TRUE, TRUE, NoCode) => SpineNow!Follows(L, Outcome(w, "success").frame)
    BY <1>5, <1>6, Zenon
  <1>12. QED
    BY <1>7, <1>8, <1>9, <1>10, <1>11

\* A crossing is its four parts, and a frame sets one of them.
Crossing(C) == [prepared : BOOLEAN, dispatched : BOOLEAN, raw : BOOLEAN, code : C]

LEMMA SameCrossing ==
  ASSUME NEW C, NEW s \in Crossing(C), NEW t \in Crossing(C), s.prepared <=> t.prepared,
         s.dispatched <=> t.dispatched, s.raw <=> t.raw, s.code = t.code
  PROVE  s = t
  BY DEF Crossing

LEMMA OfChanges ==
  ASSUME NEW C, NEW s \in Crossing(C)
  PROVE  /\ [s EXCEPT !.prepared = TRUE] = Of(TRUE, s.dispatched, s.raw, s.code)
         /\ [s EXCEPT !.dispatched = TRUE] = Of(s.prepared, TRUE, s.raw, s.code)
         /\ [s EXCEPT !.raw = TRUE] = Of(s.prepared, s.dispatched, TRUE, s.code)
         /\ \A c : [s EXCEPT !.code = c] = Of(s.prepared, s.dispatched, s.raw, c)
  <1>1. [s EXCEPT !.prepared = TRUE] = Of(TRUE, s.dispatched, s.raw, s.code)
    <2> DEFINE e == [s EXCEPT !.prepared = TRUE]
               o == Of(TRUE, s.dispatched, s.raw, s.code)
    <2>1. e \in Crossing(C) /\ o \in Crossing(C)
      BY DEF Crossing, Of
    <2>2. e.prepared /\ (e.dispatched <=> s.dispatched) /\ (e.raw <=> s.raw) /\ e.code = s.code
      BY DEF Crossing
    <2>3. o.prepared /\ (o.dispatched <=> s.dispatched) /\ (o.raw <=> s.raw) /\ o.code = s.code
      BY DEF Crossing, Of
    <2> HIDE DEF e, o
    <2>4. e = o
      BY <2>1, <2>2, <2>3, SameCrossing
    <2>5. QED
      BY <2>4 DEF e, o
  <1>2. [s EXCEPT !.dispatched = TRUE] = Of(s.prepared, TRUE, s.raw, s.code)
    <2> DEFINE e == [s EXCEPT !.dispatched = TRUE]
               o == Of(s.prepared, TRUE, s.raw, s.code)
    <2>1. e \in Crossing(C) /\ o \in Crossing(C)
      BY DEF Crossing, Of
    <2>2. (e.prepared <=> s.prepared) /\ e.dispatched /\ (e.raw <=> s.raw) /\ e.code = s.code
      BY DEF Crossing
    <2>3. (o.prepared <=> s.prepared) /\ o.dispatched /\ (o.raw <=> s.raw) /\ o.code = s.code
      BY DEF Crossing, Of
    <2> HIDE DEF e, o
    <2>4. e = o
      BY <2>1, <2>2, <2>3, SameCrossing
    <2>5. QED
      BY <2>4 DEF e, o
  <1>3. [s EXCEPT !.raw = TRUE] = Of(s.prepared, s.dispatched, TRUE, s.code)
    <2> DEFINE e == [s EXCEPT !.raw = TRUE]
               o == Of(s.prepared, s.dispatched, TRUE, s.code)
    <2>1. e \in Crossing(C) /\ o \in Crossing(C)
      BY DEF Crossing, Of
    <2>2. (e.prepared <=> s.prepared) /\ (e.dispatched <=> s.dispatched) /\ e.raw /\ e.code = s.code
      BY DEF Crossing
    <2>3. (o.prepared <=> s.prepared) /\ (o.dispatched <=> s.dispatched) /\ o.raw /\ o.code = s.code
      BY DEF Crossing, Of
    <2> HIDE DEF e, o
    <2>4. e = o
      BY <2>1, <2>2, <2>3, SameCrossing
    <2>5. QED
      BY <2>4 DEF e, o
  <1>4. ASSUME NEW c
        PROVE  [s EXCEPT !.code = c] = Of(s.prepared, s.dispatched, s.raw, c)
    <2> DEFINE e == [s EXCEPT !.code = c]
               o == Of(s.prepared, s.dispatched, s.raw, c)
    <2>1. e \in Crossing({c}) /\ o \in Crossing({c})
      BY DEF Crossing, Of
    <2>2. (e.prepared <=> s.prepared) /\ (e.dispatched <=> s.dispatched) /\ (e.raw <=> s.raw) /\ e.code = c
      BY DEF Crossing
    <2>3. (o.prepared <=> s.prepared) /\ (o.dispatched <=> s.dispatched) /\ (o.raw <=> s.raw) /\ o.code = c
      BY DEF Crossing, Of
    <2> HIDE DEF e, o
    <2>4. e = o
      BY <2>1, <2>2, <2>3, SameCrossing
    <2>5. QED
      BY <2>4 DEF e, o
  <1>5. QED
    BY <1>1, <1>2, <1>3, <1>4

LEMMA FramesApply ==
  ASSUME NEW L \in SpineNow!Lifecycle, NEW w \in Wake
  PROVE  /\ L[w] = Blank => SpineNow!Applied(L, Frame("prepared", w).frame) = [L EXCEPT ![w] = Begun]
         /\ L[w] = Begun => SpineNow!Applied(L, Frame("dispatched", w).frame) = [L EXCEPT ![w] = Away]
         /\ L[w] = Away => SpineNow!Applied(L, Frame("raw", w).frame) = [L EXCEPT ![w] = Of(TRUE, TRUE, TRUE, NoCode)]
         /\ L[w] = Away => SpineNow!Applied(L, Outcome(w, "fetch_failed").frame) = [L EXCEPT ![w] = Lost]
         /\ L[w] = Of(TRUE, TRUE, TRUE, NoCode) =>
              SpineNow!Applied(L, Outcome(w, "success").frame) = [L EXCEPT ![w] = Done]
  <1>1. /\ [Blank EXCEPT !.prepared = TRUE] = Begun
        /\ [Begun EXCEPT !.dispatched = TRUE] = Away
        /\ [Away EXCEPT !.raw = TRUE] = Of(TRUE, TRUE, TRUE, NoCode)
        /\ [Away EXCEPT !.code = "fetch_failed"] = Lost
        /\ [Of(TRUE, TRUE, TRUE, NoCode) EXCEPT !.code = "success"] = Done
    <2>1. /\ {Blank, Begun, Away} \subseteq Crossing({NoCode})
          /\ ~Blank.dispatched /\ ~Blank.raw /\ Blank.code = NoCode
          /\ Begun.prepared /\ ~Begun.raw /\ Begun.code = NoCode
          /\ Away.prepared /\ Away.dispatched /\ Away.code = NoCode
      BY DEF Blank, Begun, Away, Of, Crossing
    <2>2. [Blank EXCEPT !.prepared = TRUE] = Of(TRUE, Blank.dispatched, Blank.raw, Blank.code)
      BY <2>1, OfChanges
    <2>3. [Begun EXCEPT !.dispatched = TRUE] = Of(Begun.prepared, TRUE, Begun.raw, Begun.code)
      BY <2>1, OfChanges
    <2>4. [Away EXCEPT !.raw = TRUE] = Of(Away.prepared, Away.dispatched, TRUE, Away.code)
      BY <2>1, OfChanges
    <2>5. [Blank EXCEPT !.prepared = TRUE] = Begun
      BY <2>2 DEF Blank, Begun, Of
    <2>6. [Begun EXCEPT !.dispatched = TRUE] = Away
      BY <2>3 DEF Begun, Away, Of
    <2>7. [Away EXCEPT !.raw = TRUE] = Of(TRUE, TRUE, TRUE, NoCode)
      BY <2>4 DEF Away, Of
    <2>8. [Away EXCEPT !.code = "fetch_failed"] = Lost
      <3>1. [Away EXCEPT !.code = "fetch_failed"] = Of(Away.prepared, Away.dispatched, Away.raw, "fetch_failed")
        BY <2>1, OfChanges
      <3>2. QED
        BY <3>1 DEF Away, Lost, Of
    <2>9. [Of(TRUE, TRUE, TRUE, NoCode) EXCEPT !.code = "success"] = Done
      <3> DEFINE s == Of(TRUE, TRUE, TRUE, NoCode)
      <3>1. s \in Crossing({NoCode})
        BY DEF Crossing, Of
      <3> HIDE DEF s
      <3>2. [s EXCEPT !.code = "success"] = Of(s.prepared, s.dispatched, s.raw, "success")
        BY <3>1, OfChanges
      <3>3. QED
        BY <3>2 DEF s, Done, Of
    <2>10. QED
      BY <2>5, <2>6, <2>7, <2>8, <2>9
  <1>2. SpineNow!Applied(L, Frame("prepared", w).frame) = [L EXCEPT ![w] = [L[w] EXCEPT !.prepared = TRUE]]
    BY DEF SpineNow!Applied, Frame
  <1>3. SpineNow!Applied(L, Frame("dispatched", w).frame) = [L EXCEPT ![w] = [L[w] EXCEPT !.dispatched = TRUE]]
    BY DEF SpineNow!Applied, Frame
  <1>4. SpineNow!Applied(L, Frame("raw", w).frame) = [L EXCEPT ![w] = [L[w] EXCEPT !.raw = TRUE]]
    BY DEF SpineNow!Applied, Frame
  <1>5. \A c : SpineNow!Applied(L, Outcome(w, c).frame) = [L EXCEPT ![w] = [L[w] EXCEPT !.code = c]]
    BY DEF SpineNow!Applied, Outcome
  <1>6. QED
    BY <1>1, <1>2, <1>3, <1>4, <1>5, Zenon

\* What each of a wake's writes makes of its life.
LEMMA FramesScanned ==
  ASSUME NEW L \in SpineNow!Lifecycle, NEW w \in Wake
  PROVE  /\ L[w] = Blank => Scanned(L, Frame("prepared", w)) = [L EXCEPT ![w] = Begun]
         /\ L[w] = Begun => Scanned(L, Frame("dispatched", w)) = [L EXCEPT ![w] = Away]
         /\ L[w] = Away => Scanned(L, Frame("raw", w)) = [L EXCEPT ![w] = Of(TRUE, TRUE, TRUE, NoCode)]
         /\ L[w] = Away => Scanned(L, Outcome(w, "fetch_failed")) = [L EXCEPT ![w] = Lost]
         /\ L[w] = Of(TRUE, TRUE, TRUE, NoCode) => Scanned(L, Outcome(w, "success")) = [L EXCEPT ![w] = Done]
  <1>1. \A kind : SpineNow!Follows(L, Frame(kind, w).frame)
                    => Scanned(L, Frame(kind, w)) = SpineNow!Applied(L, Frame(kind, w).frame)
    BY FrameIsApplied
  <1>2. \A c : SpineNow!Follows(L, Outcome(w, c).frame)
                 => Scanned(L, Outcome(w, c)) = SpineNow!Applied(L, Outcome(w, c).frame)
    BY FrameIsApplied
  <1>3. L[w] = Blank => Scanned(L, Frame("prepared", w)) = [L EXCEPT ![w] = Begun]
    BY <1>1, FramesFollow, FramesApply
  <1>4. L[w] = Begun => Scanned(L, Frame("dispatched", w)) = [L EXCEPT ![w] = Away]
    BY <1>1, FramesFollow, FramesApply
  <1>5. L[w] = Away => Scanned(L, Frame("raw", w)) = [L EXCEPT ![w] = Of(TRUE, TRUE, TRUE, NoCode)]
    BY <1>1, FramesFollow, FramesApply
  <1>6. L[w] = Away => Scanned(L, Outcome(w, "fetch_failed")) = [L EXCEPT ![w] = Lost]
    BY <1>2, FramesFollow, FramesApply
  <1>7. L[w] = Of(TRUE, TRUE, TRUE, NoCode) => Scanned(L, Outcome(w, "success")) = [L EXCEPT ![w] = Done]
    BY ZenonT(60), <1>2, FramesFollow, FramesApply
  <1>8. QED
    BY <1>3, <1>4, <1>5, <1>6, <1>7

LEMMA WritesScan ==
  ASSUME NEW L \in [Wake -> Life], NEW w \in Wake
  PROVE  /\ L[w] = Blank => SpineNow!Scan(L, <<Frame("prepared", w)>>) = [L EXCEPT ![w] = Begun]
         /\ L[w] = Begun => SpineNow!Scan(L, <<Frame("dispatched", w)>>) = [L EXCEPT ![w] = Away]
         /\ L[w] = Away => SpineNow!Scan(L, <<Outcome(w, "fetch_failed")>>) = [L EXCEPT ![w] = Lost]
         /\ L[w] = Away => SpineNow!Scan(L, <<Frame("raw", w), Outcome(w, "success")>>) = [L EXCEPT ![w] = Done]
  <1> DEFINE M == [L EXCEPT ![w] = Of(TRUE, TRUE, TRUE, NoCode)]
  <1>1. L \in SpineNow!Lifecycle
    BY FreshIs
  <1>2. M \in SpineNow!Lifecycle
    BY <1>1 DEF SpineNow!Lifecycle, Of
  <1>3. M[w] = Of(TRUE, TRUE, TRUE, NoCode) /\ [M EXCEPT ![w] = Done] = [L EXCEPT ![w] = Done]
    OBVIOUS
  <1> HIDE DEF M
  <1>4. Scanned(M, Outcome(w, "success")) = [L EXCEPT ![w] = Done]
    BY <1>2, <1>3, FramesScanned
  <1>5. L[w] = Away => Scanned(L, Frame("raw", w)) = M
    BY <1>1, FramesScanned DEF M
  <1>6. /\ \A x : SpineNow!Scan(L, <<x>>) = Scanned(L, x)
        /\ \A x, y : SpineNow!Scan(L, <<x, y>>) = Scanned(Scanned(L, x), y)
    BY LineScan, TwoLinesScan
  <1>7. L[w] = Away => SpineNow!Scan(L, <<Frame("raw", w), Outcome(w, "success")>>) = [L EXCEPT ![w] = Done]
    BY <1>4, <1>5, <1>6, Zenon
  <1>8. L[w] = Blank => SpineNow!Scan(L, <<Frame("prepared", w)>>) = [L EXCEPT ![w] = Begun]
    BY <1>1, <1>6, FramesScanned, Zenon
  <1>9. L[w] = Begun => SpineNow!Scan(L, <<Frame("dispatched", w)>>) = [L EXCEPT ![w] = Away]
    BY <1>1, <1>6, FramesScanned, Zenon
  <1>10. L[w] = Away => SpineNow!Scan(L, <<Outcome(w, "fetch_failed")>>) = [L EXCEPT ![w] = Lost]
    BY <1>1, <1>6, FramesScanned, Zenon
  <1>11. QED
    BY <1>7, <1>8, <1>9, <1>10

\* What is written to the book of a session, and what that leaves alone.
LEMMA BookGrows ==
  ASSUME LedgersOK, NEW w, NEW lines, IsSeq(lines), AppendTo(w, lines)
  PROVE  \A s : LivesIn(s)' = IF s = woken[w] THEN SpineNow!Scan(LivesIn(s), lines) ELSE LivesIn(s)
  <1>1. ASSUME NEW s
        PROVE  Book(s)' = IF s = woken[w] THEN Book(s) \o lines ELSE Book(s)
    BY DEF Book, AppendTo, LedgerOf, With
  <1>2. ASSUME NEW s
        PROVE  IsSeq(Book(s))
    <2>1. <<>> \in Seq({})
      OBVIOUS
    <2>2. QED
      BY <2>1 DEF Book, LedgersOK, IsSeq
  <1>3. ASSUME NEW s
        PROVE  LivesIn(s)' = SpineNow!Scan(SpineNow!Fresh, Book(s)')
    BY DEF LivesIn
  <1>4. ASSUME NEW s
        PROVE  SpineNow!Scan(SpineNow!Fresh, Book(s) \o lines) = SpineNow!Scan(LivesIn(s), lines)
    BY <1>2, ScanJoins DEF LivesIn
  <1>5. ASSUME NEW s
        PROVE  LivesIn(s)' = IF s = woken[w] THEN SpineNow!Scan(LivesIn(s), lines) ELSE LivesIn(s)
    <2>1. CASE s = woken[w]
      BY <1>1, <1>3, <1>4, <2>1
    <2>2. CASE s # woken[w]
      BY <1>1, <1>3, <2>2 DEF LivesIn
    <2>3. QED
      BY <2>1, <2>2
  <1>6. QED
    BY <1>5

LEMMA WriteKeepsBooks ==
  ASSUME CustodyInv, LedgersOK, BooksOK, NEW w \in DOMAIN woken, NEW lines, IsSeq(lines), AppendTo(w, lines),
         NEW life \in Life, SpineNow!Scan(LivesIn(woken[w]), lines) = [LivesIn(woken[w]) EXCEPT ![w] = life],
         UNCHANGED <<woken, starts>>
  PROVE  BooksOK' /\ LifeOf(w)' = life /\ \A v \in Wake : v # w => LifeOf(v)' = LifeOf(v)
  <1>1. w \in Wake /\ \A v \in DOMAIN woken : woken[v] \in 1..starts
    BY DEF CustodyInv, SourceOK
  <1>2. \A s : LivesIn(s)' = IF s = woken[w] THEN [LivesIn(s) EXCEPT ![w] = life] ELSE LivesIn(s)
    <2>1. \A s : LivesIn(s)' = IF s = woken[w] THEN SpineNow!Scan(LivesIn(s), lines) ELSE LivesIn(s)
      BY BookGrows
    <2>2. QED
      BY <2>1
  <1>3. BooksOK'
    <2>1. ASSUME NEW s \in 1..starts
          PROVE  /\ LivesIn(s)' \in [Wake -> Life]
                 /\ \A v \in Wake : ~(v \in DOMAIN woken /\ woken[v] = s) => LivesIn(s)'[v] = Blank
      <3>1. LivesIn(s) \in [Wake -> Life] /\ \A v \in Wake : ~(v \in DOMAIN woken /\ woken[v] = s) => LivesIn(s)[v] = Blank
        BY DEF BooksOK
      <3>2. CASE s = woken[w]
        <4>1. LivesIn(s)' = [LivesIn(s) EXCEPT ![w] = life]
          BY <1>2, <3>2
        <4>2. QED
          BY <3>1, <3>2, <4>1
      <3>3. CASE s # woken[w]
        BY <1>2, <3>1, <3>3
      <3>4. QED
        BY <3>2, <3>3
    <2>2. QED
      BY <2>1 DEF BooksOK
  <1>4. ASSUME NEW v \in Wake
        PROVE  LifeOf(v)' = IF v = w THEN life ELSE LifeOf(v)
    <2>1. LifeOf(v)' = IF v \in DOMAIN woken THEN LivesIn(woken[v])'[v] ELSE Blank
      BY DEF LifeOf, LivesIn, Book
    <2>2. v \in DOMAIN woken => LivesIn(woken[v]) \in [Wake -> Life]
      BY <1>1 DEF BooksOK
    <2>3. CASE v \in DOMAIN woken /\ woken[v] = woken[w]
      <3>1. LivesIn(woken[v])' = [LivesIn(woken[v]) EXCEPT ![w] = life]
        BY <1>2, <2>3
      <3>2. QED
        BY <1>1, <2>1, <2>2, <2>3, <3>1 DEF LifeOf
    <2>4. CASE v \in DOMAIN woken /\ woken[v] # woken[w]
      BY <1>2, <2>1, <2>4 DEF LifeOf
    <2>5. CASE v \notin DOMAIN woken
      BY <2>1, <2>5 DEF LifeOf
    <2>6. QED
      BY <2>3, <2>4, <2>5
  <1>5. QED
    BY <1>1, <1>3, <1>4

LEMMA BooksRest ==
  ASSUME BooksOK, UNCHANGED <<ledger, woken, starts>>
  PROVE  BooksOK' /\ \A v : LifeOf(v)' = LifeOf(v)
  <1>1. \A s : LivesIn(s)' = LivesIn(s)
    BY DEF LivesIn, Book
  <1>2. \A v : LifeOf(v)' = LifeOf(v)
    BY <1>1 DEF LifeOf, LivesIn, Book
  <1>3. QED
    BY <1>1, <1>2 DEF BooksOK

\* The book of a session that was not opened yet is empty.
LEMMA NewBook ==
  ASSUME CustodyInv, BooksOK, UNCHANGED <<ledger, woken>>, starts' = starts + 1
  PROVE  BooksOK' /\ \A v : LifeOf(v)' = LifeOf(v)
  <1>1. \A s : LivesIn(s)' = LivesIn(s)
    BY DEF LivesIn, Book
  <1>2. \A v : LifeOf(v)' = LifeOf(v)
    BY <1>1 DEF LifeOf, LivesIn, Book
  <1>3. ASSUME NEW s \in 1..starts', s \notin 1..starts
        PROVE  LivesIn(s) = [v \in Wake |-> Blank]
    <2>1. Book(s) = <<>>
      BY <1>3 DEF Book, CustodyInv, SourceOK
    <2>2. QED
      BY <2>1, NoLineScan, FreshIs DEF LivesIn
  <1>4. [v \in Wake |-> Blank] \in [Wake -> Life]
    BY DEF Life
  <1>5. ASSUME NEW s \in 1..starts'
        PROVE  /\ LivesIn(s) \in [Wake -> Life]
               /\ \A v \in Wake : ~(v \in DOMAIN woken /\ woken[v] = s) => LivesIn(s)[v] = Blank
    BY <1>3, <1>4 DEF BooksOK
  <1>6. QED
    BY <1>1, <1>2, <1>5 DEF BooksOK

\* A wake that begins has an empty crossing.
LEMMA NewWakeIsBlank ==
  ASSUME CustodyInv, BooksOK, NEW w \in Wake, w \notin DOMAIN woken, starts \in Nat, starts >= 1,
         woken' = With(woken, [v \in {w} |-> starts]), UNCHANGED <<ledger, starts>>
  PROVE  BooksOK' /\ \A v \in Wake : LifeOf(v)' = LifeOf(v)
  <1>1. \A s : LivesIn(s)' = LivesIn(s)
    BY DEF LivesIn, Book
  <1>2. DOMAIN woken' = DOMAIN woken \cup {w} /\ woken'[w] = starts /\ \A v \in DOMAIN woken : woken'[v] = woken[v]
    BY DEF With
  <1>3. LifeOf(w) = Blank /\ LivesIn(starts)[w] = Blank
    BY DEF LifeOf, BooksOK
  <1>4. ASSUME NEW v \in Wake
        PROVE  LifeOf(v)' = LifeOf(v)
    <2>1. LifeOf(v)' = IF v \in DOMAIN woken' THEN LivesIn(woken'[v])[v] ELSE Blank
      BY DEF LifeOf, LivesIn, Book
    <2>2. QED
      BY <1>2, <1>3, <2>1 DEF LifeOf
  <1>5. BooksOK'
    <2>1. ASSUME NEW s \in 1..starts, NEW v \in Wake, ~(v \in DOMAIN woken' /\ woken'[v] = s)
          PROVE  ~(v \in DOMAIN woken /\ woken[v] = s)
      BY <1>2, <2>1
    <2>2. QED
      BY <1>1, <2>1 DEF BooksOK
  <1>6. QED
    BY <1>4, <1>5

\* A step that leaves wake v where it is: its crossing, its row and its links stay,
\* nothing more is said in its name, and no utterance of its own comes to life.
Aside(v) ==
  /\ LifeOf(v)' = LifeOf(v)
  /\ (v \in DOMAIN row') <=> (v \in DOMAIN row)
  /\ v \in DOMAIN row => row'[v] = row[v]
  /\ \A l : l[1] = v => /\ l \in presented' <=> l \in presented
                        /\ l \in emitted' <=> l \in emitted
  /\ \A u \in 1..Len(said') : IF u \in 1..Len(said) THEN said'[u] = said[u] ELSE ~Says(u, v)'
  /\ 1..Len(said) \subseteq 1..Len(said')
  /\ DOMAIN entry \subseteq DOMAIN entry'
  /\ \A u \in 1..Len(said) : Says(u, v) /\ Live(u)' => Live(u)

LEMMA AsideKeepsParts ==
  ASSUME NEW v, Aside(v)
  PROVE  /\ Silent(v) => Silent(v)'
         /\ Unlinked(v) => Unlinked(v)'
         /\ Shown(v) => Shown(v)'
         /\ \A u \in 1..Len(said) : Spoken(v, u) => Spoken(v, u)'
         /\ \A u \in 1..Len(said) : Spoken(v, u) /\ Owned(v, u) => Owned(v, u)'
  <1>1. ASSUME NEW u \in 1..Len(said')
        PROVE  Says(u, v)' <=> u \in 1..Len(said) /\ Says(u, v)
    BY DEF Aside, Says
  <1>2. ASSUME Silent(v)
        PROVE  Silent(v)'
    <2>1. \A u \in 1..Len(said') : ~Says(u, v)'
      BY <1>1, <1>2 DEF Silent
    <2>2. \A l \in emitted' : l[1] # v
      BY <1>2 DEF Silent, Aside
    <2>3. QED
      BY <2>1, <2>2 DEF Silent
  <1>3. Unlinked(v) => Unlinked(v)'
    BY DEF Unlinked, Aside
  <1>4. ASSUME Shown(v)
        PROVE  Shown(v)'
    <2>1. \A u : <<v, u>>[1] = v
      OBVIOUS
    <2>2. \A u \in row[v] : <<v, u>> \in presented'
      BY <1>4, <2>1 DEF Shown, Aside
    <2>3. \A l \in presented' : l[1] = v => l[2] \in row[v]
      BY <1>4 DEF Shown, Aside
    <2>4. v \in DOMAIN row' /\ row'[v] = row[v] /\ row[v] \subseteq DOMAIN entry'
      BY <1>4 DEF Shown, Aside
    <2>5. QED
      BY <2>2, <2>3, <2>4 DEF Shown
  <1>5. ASSUME NEW u \in 1..Len(said), Spoken(v, u)
        PROVE  Spoken(v, u)'
    <2>1. u \in 1..Len(said') /\ DOMAIN entry \subseteq DOMAIN entry'
      BY DEF Aside
    <2>2. \A x \in 1..Len(said') : Says(x, v)' <=> x = u
      BY <1>1, <1>5 DEF Spoken
    <2>3. \A l \in emitted' : l[1] = v => l[2] = u /\ u \in DOMAIN entry'
      BY <1>5, <2>1 DEF Spoken, Aside
    <2>4. QED
      BY <2>1, <2>2, <2>3 DEF Spoken
  <1>6. ASSUME NEW u \in 1..Len(said), Spoken(v, u), Owned(v, u)
        PROVE  Owned(v, u)'
    <2>1. Says(u, v)
      BY <1>6 DEF Spoken
    <2>2. Live(u)' => Live(u)
      BY <2>1 DEF Aside
    <2>3. <<v, u>>[1] = v
      OBVIOUS
    <2>4. <<v, u>> \in emitted => <<v, u>> \in emitted'
      BY <2>3 DEF Aside
    <2>5. QED
      BY <1>6, <2>2, <2>4 DEF Owned
  <1>7. QED
    BY <1>2, <1>3, <1>4, <1>5, <1>6

LEMMA AsideKeepsPlace ==
  ASSUME NEW v, Aside(v)
  PROVE  /\ Untouched(v) => Untouched(v)'
         /\ Noted(v) => Noted(v)'
         /\ Rowed(v) => Rowed(v)'
         /\ Linked(v) => Linked(v)'
         /\ Sent(v) => Sent(v)'
         /\ Failed(v) => Failed(v)'
         /\ Replied(v) => Replied(v)'
         /\ \A u \in 1..Len(said) : Spoke(v, u) => Spoke(v, u)'
         /\ Finished(v) => Finished(v)'
         /\ Over(v) => Over(v)'
  <1>1. LifeOf(v)' = LifeOf(v) /\ (v \in DOMAIN row' <=> v \in DOMAIN row) /\ 1..Len(said) \subseteq 1..Len(said')
    BY DEF Aside
  <1>2. Untouched(v) => Untouched(v)'
    BY <1>1, AsideKeepsParts DEF Untouched
  <1>3. Noted(v) => Noted(v)'
    BY <1>1, AsideKeepsParts DEF Noted
  <1>4. Rowed(v) => Rowed(v)'
    BY <1>1, AsideKeepsParts DEF Rowed
  <1>5. Linked(v) => Linked(v)'
    BY <1>1, AsideKeepsParts DEF Linked
  <1>6. Sent(v) => Sent(v)'
    BY <1>1, AsideKeepsParts DEF Sent
  <1>7. Failed(v) => Failed(v)'
    BY <1>1, AsideKeepsParts DEF Failed
  <1>8. Replied(v) => Replied(v)'
    BY <1>1, AsideKeepsParts DEF Replied
  <1>9. ASSUME NEW u \in 1..Len(said), Spoke(v, u)
        PROVE  Spoke(v, u)'
    BY <1>1, <1>9, AsideKeepsParts DEF Spoke
  <1>10. ASSUME Finished(v)
         PROVE  Finished(v)'
    <2>1. PICK u \in 1..Len(said) : Spoke(v, u) /\ Owned(v, u)
      BY <1>10 DEF Finished
    <2>2. Spoke(v, u)' /\ Owned(v, u)' /\ u \in 1..Len(said')
      BY <1>1, <1>9, <2>1, AsideKeepsParts DEF Spoke
    <2>3. QED
      BY <2>2 DEF Finished
  <1>11. Over(v) => Over(v)'
    BY <1>2, <1>4, <1>7, <1>10 DEF Over
  <1>12. QED
    BY <1>2, <1>3, <1>4, <1>5, <1>6, <1>7, <1>8, <1>9, <1>10, <1>11

\* A step of the wake under way leaves the others where they are.
LEMMA OthersStay ==
  ASSUME WakesOK, NEW w \in Wake, Active(w), w \in DOMAIN woken, UNCHANGED woken,
         \A v \in Wake : v # w => Aside(v),
         wake' = Idle \/ wake'.w = w,
         wake' = Idle => Over(w)',
         wake' # Idle => Underway(w)'
  PROVE  WakesOK'
  <1>1. ASSUME NEW v \in Wake, v # w
        PROVE  (v \notin DOMAIN woken => Untouched(v)') /\ Over(v)'
    <2>1. ~Active(v) /\ Aside(v)
      BY <1>1 DEF Active
    <2>2. (v \notin DOMAIN woken => Untouched(v)) /\ Over(v)
      BY <2>1 DEF WakesOK
    <2>3. QED
      BY <2>1, <2>2, AsideKeepsPlace
  <1>2. \A v \in Wake : Active(v)' <=> v = w /\ wake' # Idle
    BY DEF Active
  <1>3. QED
    BY <1>1, <1>2 DEF WakesOK
-----------------------------------------------------------------------------
(* The steps of a wake *)

Steps == {"said"} \cup Unanswered \cup Answered

LEMMA NotIdle == Idle \notin [w : Wake, pc : Steps, pred : Nat]
  BY CustodyAssumption DEF Steps, Unanswered, Answered

LEMMA WakeMoves ==
  ASSUME CustodyInv, wake # Idle, NEW pc \in Steps, To(pc)
  PROVE  wake' # Idle /\ wake'.w = wake.w /\ wake'.pc = pc
  <1>1. wake \in [w : Wake, pc : Steps, pred : Nat]
    BY DEF CustodyInv, SourceOK, WakeOK, Steps
  <1>2. wake' \in [w : Wake, pc : Steps, pred : Nat] /\ wake'.w = wake.w /\ wake'.pc = pc
    BY <1>1 DEF To
  <1>3. QED
    BY <1>2, NotIdle

LEMMA AsideWhenResting ==
  ASSUME NEW v, LifeOf(v)' = LifeOf(v), UNCHANGED <<said, row, entry, presented, emitted>>
  PROVE  Aside(v)
  BY DEF Aside, Live

\* Where the wake under way stands.
LEMMA WakeIsAt ==
  ASSUME CustodyInv, WakesOK, wake # Idle
  PROVE  /\ wake.w \in DOMAIN woken /\ wake.w \in Wake /\ Active(wake.w) /\ Underway(wake.w)
         /\ Len(said) \in Nat /\ DOMAIN said = 1..Len(said) /\ DOMAIN entry \subseteq 1..Len(said)
  <1>1. wake.w \in DOMAIN woken /\ wake.w \in Wake
    BY DEF CustodyInv, SourceOK, WakeOK
  <1>2. Active(wake.w) /\ Underway(wake.w)
    BY <1>1 DEF WakesOK, Active
  <1>3. Len(said) \in Nat /\ DOMAIN said = 1..Len(said)
    BY SaidIs DEF CustodyInv
  <1>4. DOMAIN entry \subseteq 1..Len(said)
    BY <1>3 DEF CustodyInv, ForestOK
  <1>5. QED
    BY <1>1, <1>2, <1>3, <1>4

LEMMA AcceptAgrees ==
  ASSUME CustodyInv, BooksOK, WakesOK, ReadyOK, NEW w \in Wake, Accept(w)
  PROVE  BooksOK' /\ WakesOK' /\ ReadyOK'
  <1>1. /\ stage = "ready" /\ wake = Idle /\ w \notin DOMAIN woken
        /\ woken' = With(woken, [v \in {w} |-> starts])
        /\ UNCHANGED <<row, entry, presented, emitted, ledger, stage, starts>>
        /\ wake' = [w |-> w, pc |-> IF w \in Autonomous THEN "through" ELSE "said", pred |-> Len(said)]
    BY DEF Accept, hub, forestVars
  <1>2. starts \in Nat /\ starts >= 1
    BY <1>1 DEF CustodyInv, HubOK
  <1>3. BooksOK' /\ \A v \in Wake : LifeOf(v)' = LifeOf(v)
    BY <1>1, <1>2, NewWakeIsBlank
  <1>4. Len(said) \in Nat /\ Len(said') \in Nat
        /\ IF w \in Autonomous THEN said' = said
           ELSE /\ Len(said') = Len(said) + 1 /\ said'[Len(said) + 1] = [by |-> "user", wake |-> w]
                /\ \A u \in 1..Len(said) : said'[u] = said[u]
    BY AppendProperties DEF Accept, CustodyInv, SourceOK
  <1>5. ASSUME NEW v \in Wake
        PROVE  Aside(v)
    <2>1. \A u \in 1..Len(said') : IF u \in 1..Len(said) THEN said'[u] = said[u] ELSE ~Says(u, v)'
      <3>1. TAKE u \in 1..Len(said')
      <3>2. u \notin 1..Len(said) => u = Len(said) + 1 /\ said'[u] = [by |-> "user", wake |-> w]
        BY <1>4
      <3>3. u \notin 1..Len(said) => said'[u].by # "resident"
        BY <3>2
      <3>4. u \in 1..Len(said) => said'[u] = said[u]
        BY <1>4
      <3>5. QED
        BY <3>3, <3>4 DEF Says
    <2>2. 1..Len(said) \subseteq 1..Len(said')
      BY <1>4
    <2>3. \A u : Live(u)' => Live(u)
      BY <1>1 DEF Live
    <2>4. QED
      BY <1>1, <1>3, <2>1, <2>2, <2>3 DEF Aside
  <1>6. Untouched(w)'
    BY <1>1, <1>5, AsideKeepsPlace DEF WakesOK
  <1>7. wake'.w = w /\ wake'.pc \in {"said", "through"} /\ (wake'.pc = "said" <=> w \notin Autonomous)
    BY <1>1
  <1>8. Underway(w)'
    <2>1. wake'.pc = "said" => said'[Len(said')].by = "user"
      BY <1>4, <1>7
    <2>2. QED
      BY <1>6, <1>7, <2>1 DEF Underway, Answered
  <1>9. wake' # Idle
    <2>1. wake' \in [w : Wake, pc : Steps, pred : Nat]
      <3>1. \A pc \in Steps : [w |-> w, pc |-> pc, pred |-> Len(said)] \in [w : Wake, pc : Steps, pred : Nat]
        BY <1>4
      <3>2. (IF w \in Autonomous THEN "through" ELSE "said") \in Steps
        BY DEF Steps, Unanswered
      <3>3. QED
        BY <1>1, <3>1, <3>2
    <2>2. QED
      BY <2>1, NotIdle
  <1>10. WakesOK'
    <2>1. ASSUME NEW v \in Wake, v # w
          PROVE  (v \notin DOMAIN woken' => Untouched(v)') /\ Over(v)'
      <3>1. DOMAIN woken \subseteq DOMAIN woken' /\ ~Active(v)
        BY <1>1 DEF With, Active
      <3>2. (v \notin DOMAIN woken => Untouched(v)) /\ Over(v)
        BY <3>1 DEF WakesOK
      <3>3. QED
        BY <1>5, <3>1, <3>2, AsideKeepsPlace
    <2>2. \A v \in Wake : Active(v)' <=> v = w
      BY <1>7, <1>9 DEF Active
    <2>3. QED
      BY <1>6, <1>8, <2>1, <2>2 DEF WakesOK
  <1>11. ReadyOK'
    <2>1. DOMAIN entry = 1..Len(said)
      BY <1>1 DEF ReadyOK, Complete
    <2>2. CASE w \in Autonomous
      BY <1>1, <1>4, <2>1, <2>2 DEF ReadyOK, Complete
    <2>3. CASE w \notin Autonomous
      <3>1. 1..Len(said') - 1 \subseteq DOMAIN entry' /\ wake'.pc = "said"
        BY <1>1, <1>4, <1>7, <2>1, <2>3
      <3>2. QED
        BY <1>9, <3>1 DEF ReadyOK
    <2>4. QED
      BY <2>2, <2>3
  <1>12. QED
    BY <1>3, <1>10, <1>11

\* What an admission adds to the Forest.
LEMMA AdmissionAdds ==
  ASSUME NEW u, NEW pred, Admit(u, pred, TRUE)
  PROVE  /\ DOMAIN entry' = DOMAIN entry \cup {u} /\ UNCHANGED <<presented, emitted>>
         /\ \A v \in DOMAIN entry : entry'[v] = entry[v]
         /\ \A v : v # u /\ Live(v)' => Live(v)
  BY DEF Admit, With, Live

\* A ready Forest never holds the utterance just said.
LEMMA ReadyAdmits ==
  ASSUME CustodyInv, WakesOK, ReadyOK, wake # Idle, wake.pc \in {"said", "spoken"}, Opened
  PROVE  Admissible(Len(said), Len(said) - 1) /\ Len(said) \in Nat \ {0}
  <1>1. PICK k \in 0..Len(said) : DOMAIN entry = 1..k
    BY DEF CustodyInv, ForestOK
  <1>2. Len(said) \in Nat \ {0}
    BY WakeIsAt DEF CustodyInv, SourceOK, WakeOK, ReplyPredecessor, Answered
  <1>3. k \in {Len(said) - 1, Len(said)}
    <2>1. PICK n \in Nat \ {0} : n = Len(said)
      BY <1>2
    <2>2. 1..n - 1 \subseteq 1..k
      BY <1>1, <2>1 DEF ReadyOK, Complete, Opened
    <2>3. k \in 0..n
      BY <1>1, <2>1
    <2>4. n - 1 # 0 => n - 1 \in 1..k
      <3>1. n - 1 # 0 => n - 1 \in 1..n - 1
        BY <2>1
      <3>2. QED
        BY <2>2, <3>1
    <2>5. k \in {n - 1, n}
      <3>1. n \in Nat /\ k \in Nat /\ k <= n
        BY <2>1, <2>3
      <3>2. n - 1 <= k
        BY <2>4, <3>1
      <3>3. k = n - 1 \/ k = n
        BY <3>1, <3>2
      <3>4. QED
        BY <3>3
    <2>6. QED
      BY <2>1, <2>5
  <1>4. Before(Len(said)) = Len(said) - 1
    BY <1>1, <1>2, <1>3, BeforeIs
  <1>5. Len(said) \in DOMAIN entry => entry[Len(said)].edge = Len(said) - 1
    BY <1>2 DEF CustodyInv, ForestOK, UtteranceOK
  <1>6. QED
    BY <1>2, <1>4, <1>5 DEF Admissible, ExpectedPredecessor

LEMMA TakeInAgrees ==
  ASSUME CustodyInv, BooksOK, WakesOK, ReadyOK, TakeIn
  PROVE  BooksOK' /\ WakesOK' /\ ReadyOK'
  <1>1. /\ wake # Idle /\ wake.pc = "said"
        /\ UNCHANGED <<said, row, ledger, woken, stage, starts>>
        /\ UNCHANGED <<presented, emitted>>
        /\ wake' = Idle \/ To("through")
    BY DEF TakeIn, At, To, Steady, hub, Admit, Hold, forestVars
  <1>2. PICK w \in Wake : w = wake.w /\ w \in DOMAIN woken /\ Active(w) /\ Underway(w)
    BY <1>1, WakeIsAt
  <1>3. Len(said) \in Nat \ {0} /\ wake.pred = Len(said) - 1 /\ said[Len(said)].by = "user" /\ Untouched(w)
    BY <1>1, <1>2, WakeIsAt DEF Underway, CustodyInv, SourceOK, WakeOK
  <1>4. BooksOK' /\ \A v : LifeOf(v)' = LifeOf(v)
    BY <1>1, BooksRest
  <1>5. Opened => Admit(Len(said), Len(said) - 1, TRUE)
    BY <1>1, <1>3, ReadyAdmits DEF TakeIn
  <1>6. ~Opened => UNCHANGED entry
    BY <1>1 DEF TakeIn, forestVars
  <1>7. /\ DOMAIN entry \subseteq DOMAIN entry'
        /\ \A v : v # Len(said) /\ Live(v)' => Live(v)
        /\ Opened => DOMAIN entry' = DOMAIN entry \cup {Len(said)}
    <2>1. CASE Opened
      BY <1>5, <2>1, AdmissionAdds
    <2>2. CASE ~Opened
      BY <1>6, <2>2 DEF Live
    <2>3. QED
      BY <2>1, <2>2
  <1>8. ASSUME NEW v \in Wake
        PROVE  Aside(v)
    <2>1. ~Says(Len(said), v)
      BY <1>3 DEF Says
    <2>2. \A u \in 1..Len(said) : Says(u, v) /\ Live(u)' => Live(u)
      BY <1>7, <2>1
    <2>3. QED
      BY <1>1, <1>4, <1>7, <2>2 DEF Aside
  <1>9. Untouched(w)' /\ Over(w)'
    BY <1>3, <1>8, AsideKeepsPlace DEF Over
  <1>10. wake' # Idle => wake'.w = w /\ wake'.pc = "through"
    <2>1. "through" \in Steps
      BY DEF Steps, Unanswered
    <2>2. QED
      BY <1>1, <1>2, <2>1, WakeMoves
  <1>11. wake' # Idle => Underway(w)'
    BY <1>9, <1>10 DEF Underway, Answered
  <1>12. WakesOK'
    BY <1>1, <1>2, <1>8, <1>9, <1>10, <1>11, OthersStay
  <1>13. ReadyOK'
    <2>1. CASE stage = "ready"
      <3>1. 1..Len(said) - 1 \subseteq DOMAIN entry /\ DOMAIN entry \subseteq 1..Len(said)
        BY <1>1, <1>3, <2>1, WakeIsAt DEF ReadyOK, Complete
      <3>2. DOMAIN entry' = 1..Len(said)
        BY <1>3, <1>7, <2>1, <3>1 DEF Opened
      <3>3. QED
        BY <1>1, <3>2 DEF ReadyOK, Complete
    <2>2. CASE stage # "ready"
      BY <1>1, <2>2 DEF ReadyOK
    <2>3. QED
      BY <2>1, <2>2
  <1>14. QED
    BY <1>4, <1>12, <1>13

\* A line of the wake under way changes its own crossing only.
LEMMA OwnLine ==
  ASSUME CustodyInv, LedgersOK, BooksOK, NEW w \in DOMAIN woken, NEW lines, IsSeq(lines), AppendTo(w, lines),
         NEW life \in Life, NEW old, LifeOf(w) = old,
         \A L \in [Wake -> Life] : L[w] = old => SpineNow!Scan(L, lines) = [L EXCEPT ![w] = life],
         UNCHANGED <<said, row, entry, presented, emitted, woken, starts>>
  PROVE  /\ BooksOK' /\ \A v \in Wake : v # w => Aside(v)
         /\ LifeOf(w)' = life
         /\ (Shown(w) <=> Shown(w)') /\ (Silent(w) <=> Silent(w)') /\ (Unlinked(w) <=> Unlinked(w)')
  <1>1. woken[w] \in 1..starts
    BY DEF CustodyInv, SourceOK
  <1>2. LivesIn(woken[w]) \in [Wake -> Life] /\ LivesIn(woken[w])[w] = old
    BY <1>1 DEF BooksOK, LifeOf
  <1>3. SpineNow!Scan(LivesIn(woken[w]), lines) = [LivesIn(woken[w]) EXCEPT ![w] = life]
    BY <1>1, <1>2
  <1>4. BooksOK' /\ LifeOf(w)' = life /\ \A v \in Wake : v # w => LifeOf(v)' = LifeOf(v)
    BY <1>1, <1>3, WriteKeepsBooks
  <1>5. \A v \in Wake : v # w => Aside(v)
    BY <1>4, AsideWhenResting
  <1>6. (Shown(w) <=> Shown(w)') /\ (Silent(w) <=> Silent(w)') /\ (Unlinked(w) <=> Unlinked(w)')
    BY DEF Shown, Silent, Unlinked, Says
  <1>7. QED
    BY <1>4, <1>5, <1>6

LEMMA ReadyStays ==
  ASSUME ReadyOK, UNCHANGED <<said, entry, stage>>, wake # Idle, wake.pc \notin {"said", "spoken"}
  PROVE  ReadyOK'
  BY DEF ReadyOK, Complete

LEMMA PrepareAgrees ==
  ASSUME CustodyInv, LedgersOK, BooksOK, WakesOK, ReadyOK, Prepare
  PROVE  BooksOK' /\ WakesOK' /\ ReadyOK'
  <1>1. /\ wake # Idle /\ wake.pc = "through" /\ AppendTo(wake.w, <<Frame("prepared", wake.w)>>) /\ To("prepared")
        /\ UNCHANGED <<said, row, entry, presented, emitted, woken, starts, stage>>
    BY DEF Prepare, At, Steady, hub, storeVars
  <1>2. PICK w \in Wake : w = wake.w /\ w \in DOMAIN woken /\ Active(w) /\ Untouched(w)
    BY <1>1, WakeIsAt DEF Underway
  <1> DEFINE lines == <<Frame("prepared", w)>>
  <1>3. /\ LifeOf(w) = Blank /\ Begun \in Life /\ IsSeq(lines)
        /\ \A L \in [Wake -> Life] : L[w] = Blank =>
             SpineNow!Scan(L, lines) = [L EXCEPT ![w] = Begun]
        /\ AppendTo(w, lines)
    BY <1>1, <1>2, WritesScan, LinesAreSeqs DEF Untouched, Life
  <1> HIDE DEF lines
  <1>4. /\ BooksOK' /\ \A v \in Wake : v # w => Aside(v)
        /\ LifeOf(w)' = Begun /\ (Silent(w) <=> Silent(w)') /\ (Unlinked(w) <=> Unlinked(w)')
    BY <1>1, <1>2, <1>3, OwnLine
  <1>5. Noted(w)'
    BY <1>1, <1>2, <1>4 DEF Noted, Untouched
  <1>6. wake' # Idle /\ wake'.w = w /\ wake'.pc = "prepared"
    BY <1>1, <1>2, WakeMoves DEF Steps, Unanswered
  <1>7. Underway(w)'
    BY <1>5, <1>6 DEF Underway, Answered
  <1>8. QED
    BY <1>1, <1>2, <1>4, <1>6, <1>7, OthersStay, ReadyStays

LEMMA DispatchAgrees ==
  ASSUME CustodyInv, LedgersOK, BooksOK, WakesOK, ReadyOK, Dispatch
  PROVE  BooksOK' /\ WakesOK' /\ ReadyOK'
  <1>1. /\ wake # Idle /\ wake.pc = "presented" /\ AppendTo(wake.w, <<Frame("dispatched", wake.w)>>) /\ To("sent")
        /\ UNCHANGED <<said, row, entry, presented, emitted, woken, starts, stage>>
    BY DEF Dispatch, At, Steady, hub, storeVars
  <1>2. PICK w \in Wake : w = wake.w /\ w \in DOMAIN woken /\ Active(w) /\ Linked(w)
    BY <1>1, WakeIsAt DEF Underway
  <1> DEFINE lines == <<Frame("dispatched", w)>>
  <1>3. /\ LifeOf(w) = Begun /\ Away \in Life /\ IsSeq(lines)
        /\ \A L \in [Wake -> Life] : L[w] = Begun =>
             SpineNow!Scan(L, lines) = [L EXCEPT ![w] = Away]
        /\ AppendTo(w, lines)
    BY <1>1, <1>2, WritesScan, LinesAreSeqs DEF Linked, Life
  <1> HIDE DEF lines
  <1>4. /\ BooksOK' /\ \A v \in Wake : v # w => Aside(v)
        /\ LifeOf(w)' = Away /\ (Silent(w) <=> Silent(w)') /\ (Shown(w) <=> Shown(w)')
    BY <1>1, <1>2, <1>3, OwnLine
  <1>5. Sent(w)'
    BY <1>2, <1>4 DEF Linked, Sent
  <1>6. wake' # Idle /\ wake'.w = w /\ wake'.pc = "sent"
    BY <1>1, <1>2, WakeMoves DEF Steps, Unanswered
  <1>7. Underway(w)'
    BY <1>5, <1>6 DEF Underway, Answered
  <1>8. QED
    BY <1>1, <1>2, <1>4, <1>6, <1>7, OthersStay, ReadyStays

LEMMA AnswerAgrees ==
  ASSUME CustodyInv, LedgersOK, BooksOK, WakesOK, ReadyOK, Answer
  PROVE  BooksOK' /\ WakesOK' /\ ReadyOK'
  <1>1. /\ wake # Idle /\ wake.pc = "sent"
        /\ UNCHANGED <<said, row, entry, presented, emitted, woken, starts, stage>>
    BY DEF Answer, At, Steady, hub, storeVars
  <1>2. PICK w \in Wake : w = wake.w /\ w \in DOMAIN woken /\ Active(w) /\ Sent(w)
    BY <1>1, WakeIsAt DEF Underway
  <1>3. LifeOf(w) = Away /\ Done \in Life /\ Lost \in Life
    BY <1>2 DEF Sent, Life
  <1>4. CASE AppendTo(wake.w, <<Frame("raw", wake.w), Outcome(wake.w, "success")>>) /\ To("answered")
    <2> DEFINE lines == <<Frame("raw", w), Outcome(w, "success")>>
    <2>1. /\ IsSeq(lines)
          /\ \A L \in [Wake -> Life] : L[w] = Away =>
               SpineNow!Scan(L, lines) = [L EXCEPT ![w] = Done]
          /\ AppendTo(w, lines)
      BY <1>2, <1>4, WritesScan, LinesAreSeqs
    <2> HIDE DEF lines
    <2>2. /\ BooksOK' /\ \A v \in Wake : v # w => Aside(v)
          /\ LifeOf(w)' = Done /\ (Silent(w) <=> Silent(w)') /\ (Shown(w) <=> Shown(w)')
      BY <1>1, <1>2, <1>3, <2>1, OwnLine
    <2>3. Replied(w)'
      BY <1>2, <2>2 DEF Sent, Replied
    <2>4. wake' # Idle /\ wake'.w = w /\ wake'.pc = "answered"
      BY <1>1, <1>2, <1>4, WakeMoves DEF Steps, Unanswered
    <2>5. Underway(w)'
      BY <2>3, <2>4 DEF Underway, Answered
    <2>6. QED
      BY <1>1, <1>2, <2>2, <2>4, <2>5, OthersStay, ReadyStays
  <1>5. CASE AppendTo(wake.w, <<Outcome(wake.w, "fetch_failed")>>) /\ wake' = Idle
    <2> DEFINE lines == <<Outcome(w, "fetch_failed")>>
    <2>1. /\ IsSeq(lines)
          /\ \A L \in [Wake -> Life] : L[w] = Away =>
               SpineNow!Scan(L, lines) = [L EXCEPT ![w] = Lost]
          /\ AppendTo(w, lines)
      BY <1>2, <1>5, WritesScan, LinesAreSeqs
    <2> HIDE DEF lines
    <2>2. /\ BooksOK' /\ \A v \in Wake : v # w => Aside(v)
          /\ LifeOf(w)' = Lost /\ (Silent(w) <=> Silent(w)') /\ (Shown(w) <=> Shown(w)')
      BY <1>1, <1>2, <1>3, <2>1, OwnLine
    <2>3. Over(w)'
      BY <1>2, <2>2 DEF Sent, Failed, Over
    <2>4. QED
      BY <1>1, <1>2, <1>5, <2>2, <2>3, OthersStay, ReadyStays
  <1>6. QED
    BY <1>4, <1>5 DEF Answer

LEMMA RecordAgrees ==
  ASSUME CustodyInv, BooksOK, WakesOK, ReadyOK, Record
  PROVE  BooksOK' /\ WakesOK' /\ ReadyOK'
  <1>1. /\ wake # Idle /\ wake.pc = "prepared" /\ To("recorded")
        /\ row' = With(row, [w \in {wake.w} |-> History(wake.w)])
        /\ UNCHANGED <<said, entry, presented, emitted, ledger, woken, starts, stage>>
    BY DEF Record, At, Steady, hub, forestVars
  <1>2. PICK w \in Wake : w = wake.w /\ w \in DOMAIN woken /\ Active(w) /\ Noted(w)
    BY <1>1, WakeIsAt DEF Underway
  <1>3. BooksOK' /\ \A v : LifeOf(v)' = LifeOf(v)
    BY <1>1, BooksRest
  <1>4. DOMAIN row' = DOMAIN row \cup {w} /\ \A v \in DOMAIN row : row'[v] = row[v]
    BY <1>1, <1>2 DEF With
  <1>5. ASSUME NEW v \in Wake, v # w
        PROVE  \/ v \notin DOMAIN row /\ v \notin DOMAIN row'
               \/ v \in DOMAIN row /\ v \in DOMAIN row' /\ row'[v] = row[v]
    BY <1>4, <1>5
  <1>6. Rowed(w)'
    BY <1>1, <1>2, <1>3, <1>4 DEF Noted, Rowed, Unlinked, Silent, Says
  <1>7. wake' # Idle /\ wake'.w = w /\ wake'.pc = "recorded"
    BY <1>1, <1>2, WakeMoves DEF Steps, Unanswered
  <1>8. Underway(w)'
    BY <1>6, <1>7 DEF Underway, Answered
  <1>9. \A v \in Wake : v # w => Aside(v)
    BY <1>1, <1>3, <1>5 DEF Aside, Live
  <1>10. QED
    BY <1>1, <1>2, <1>3, <1>7, <1>8, <1>9, OthersStay, ReadyStays

LEMMA PresentAgrees ==
  ASSUME CustodyInv, BooksOK, WakesOK, ReadyOK, Present
  PROVE  BooksOK' /\ WakesOK' /\ ReadyOK'
  <1>1. /\ wake # Idle /\ wake.pc = "recorded"
        /\ UNCHANGED <<said, row, entry, emitted, ledger, woken, starts, stage>>
    BY DEF Present, At, Steady, hub, forestVars, LinkPresentations
  <1>2. PICK w \in Wake : w = wake.w /\ w \in DOMAIN woken /\ Active(w) /\ Rowed(w)
    BY <1>1, WakeIsAt DEF Underway
  <1>3. BooksOK' /\ \A v : LifeOf(v)' = LifeOf(v)
    BY <1>1, BooksRest
  <1>4. CASE LinkPresentations(wake.w, row[wake.w]) /\ To("presented")
    <2>1. row[w] \subseteq DOMAIN entry /\ presented' = presented \cup {<<w, u>> : u \in row[w]}
      BY <1>2, <1>4 DEF LinkPresentations
    <2>2. \A v \in Wake : v # w => \A l : l[1] = v => (l \in presented' <=> l \in presented)
      BY <2>1
    <2>3. \A v \in Wake : v # w => Aside(v)
      BY <1>1, <1>3, <2>2 DEF Aside, Live
    <2>4. Shown(w)'
      BY <1>1, <1>2, <2>1 DEF Shown, Rowed, Unlinked
    <2>5. Linked(w)'
      BY <1>1, <1>2, <1>3, <2>4 DEF Linked, Rowed, Silent, Says
    <2>6. wake' # Idle /\ wake'.w = w /\ wake'.pc = "presented"
      BY <1>1, <1>2, <1>4, WakeMoves DEF Steps, Unanswered
    <2>7. Underway(w)'
      BY <2>5, <2>6 DEF Underway, Answered
    <2>8. QED
      BY <1>1, <1>2, <1>3, <2>3, <2>6, <2>7, OthersStay, ReadyStays
  <1>5. CASE UNCHANGED forestVars /\ wake' = Idle
    <2>1. \A v : Aside(v)
      BY <1>1, <1>3, <1>5, AsideWhenResting DEF forestVars
    <2>2. Over(w)'
      BY <1>2, <2>1, AsideKeepsPlace DEF Over
    <2>3. QED
      BY <1>1, <1>2, <1>3, <1>5, <2>1, <2>2, OthersStay, ReadyStays
  <1>6. QED
    BY <1>4, <1>5 DEF Present

LEMMA CommitAgrees ==
  ASSUME CustodyInv, BooksOK, WakesOK, ReadyOK, Commit
  PROVE  BooksOK' /\ WakesOK' /\ ReadyOK'
  <1>1. /\ wake # Idle /\ wake.pc = "answered" /\ To("spoken")
        /\ said' = Append(said, [by |-> "resident", wake |-> wake.w])
        /\ UNCHANGED <<row, entry, presented, emitted, ledger, woken, starts, stage>>
    BY DEF Commit, At, Steady, hub, forestVars
  <1>2. PICK w \in Wake : w = wake.w /\ w \in DOMAIN woken /\ Active(w) /\ Replied(w)
    BY <1>1, WakeIsAt DEF Underway
  <1>3. BooksOK' /\ \A v : LifeOf(v)' = LifeOf(v)
    BY <1>1, BooksRest
  <1>4. PICK n \in Nat : n = Len(said) /\ DOMAIN entry \subseteq 1..n
    BY <1>1, WakeIsAt
  <1>5. /\ Len(said') = n + 1 /\ said'[n + 1] = [by |-> "resident", wake |-> w]
        /\ \A u \in 1..n : said'[u] = said[u]
    BY <1>1, <1>2, <1>4, AppendProperties DEF CustodyInv, SourceOK
  <1>6. n + 1 \notin 1..n /\ 1..n \subseteq 1..n + 1 /\ \A u \in 1..n + 1 : u \notin 1..n => u = n + 1
    OBVIOUS
  <1>7. \A v : Says(n + 1, v)' <=> v = w
    BY <1>5 DEF Says
  <1>8. ASSUME NEW v \in Wake, v # w
        PROVE  Aside(v)
    <2>1. \A u \in 1..Len(said') : IF u \in 1..Len(said) THEN said'[u] = said[u] ELSE ~Says(u, v)'
      BY <1>4, <1>5, <1>6, <1>7, <1>8
    <2>2. 1..Len(said) \subseteq 1..Len(said') /\ \A u : Live(u)' => Live(u)
      BY <1>1, <1>4, <1>5, <1>6 DEF Live
    <2>3. QED
      BY <1>1, <1>3, <2>1, <2>2 DEF Aside
  <1>9. Spoken(w, n + 1)'
    <2>1. \A u \in 1..n : ~Says(u, w)'
      BY <1>2, <1>4, <1>5 DEF Replied, Silent, Says
    <2>2. \A u \in 1..n + 1 : Says(u, w)' <=> u = n + 1
      BY <1>6, <1>7, <2>1
    <2>3. \A l \in emitted' : l[1] # w
      BY <1>1, <1>2 DEF Replied, Silent
    <2>4. n + 1 \in 1..Len(said') /\ Len(said') = n + 1
      BY <1>5
    <2>5. QED
      BY <2>2, <2>3, <2>4 DEF Spoken
  <1>10. Spoke(w, n + 1)' /\ ~Live(n + 1)'
    <2>1. Shown(w)'
      BY <1>1, <1>2 DEF Replied, Shown
    <2>2. ~Live(n + 1)'
      BY <1>1, <1>4, <1>6 DEF Live
    <2>3. QED
      BY <1>2, <1>3, <1>9, <2>1, <2>2 DEF Replied, Spoke
  <1>11. wake' # Idle /\ wake'.w = w /\ wake'.pc = "spoken"
    BY <1>1, <1>2, WakeMoves DEF Steps, Answered
  <1>12. Underway(w)'
    BY <1>5, <1>10, <1>11 DEF Underway
  <1>13. ReadyOK'
    <2>1. CASE stage = "ready"
      <3>1. DOMAIN entry = 1..n
        BY <1>1, <1>4, <2>1 DEF ReadyOK, Complete
      <3>2. Len(said') - 1 = n
        BY <1>5
      <3>3. QED
        BY <1>1, <1>11, <3>1, <3>2 DEF ReadyOK
    <2>2. CASE stage # "ready"
      BY <1>1, <2>2 DEF ReadyOK
    <2>3. QED
      BY <2>1, <2>2
  <1>14. QED
    BY <1>1, <1>2, <1>3, <1>8, <1>11, <1>12, <1>13, OthersStay

LEMMA TakeReplyAgrees ==
  ASSUME CustodyInv, BooksOK, WakesOK, ReadyOK, TakeReply
  PROVE  BooksOK' /\ WakesOK' /\ ReadyOK'
  <1>1. /\ wake # Idle /\ wake.pc = "spoken"
        /\ UNCHANGED <<said, row, ledger, woken, stage, starts>>
        /\ UNCHANGED <<presented, emitted>>
    BY DEF TakeReply, At, Steady, hub, Admit, Hold, forestVars
  <1>2. PICK w \in Wake : w = wake.w /\ w \in DOMAIN woken /\ Active(w) /\ Underway(w)
    BY <1>1, WakeIsAt
  <1>3. PICK n \in Nat \ {0} : n = Len(said) /\ n - 1 = ReplyPredecessor
    BY <1>1, WakeIsAt DEF CustodyInv, SourceOK, WakeOK, ReplyPredecessor, Answered
  <1>4. Spoke(w, n) /\ ~Live(n) /\ n \in 1..n /\ Says(n, w)
    BY <1>1, <1>2, <1>3 DEF Underway, Answered, Spoke, Spoken
  <1>5. BooksOK' /\ \A v : LifeOf(v)' = LifeOf(v)
    BY <1>1, BooksRest
  <1>6. Opened => Admit(n, n - 1, TRUE) /\ To("kept")
    BY <1>1, <1>3, ReadyAdmits DEF TakeReply
  <1>7. ~Opened => UNCHANGED entry /\ wake' = Idle
    BY <1>1 DEF TakeReply, forestVars
  <1>8. /\ DOMAIN entry \subseteq DOMAIN entry'
        /\ \A v : v # n /\ Live(v)' => Live(v)
        /\ Opened => DOMAIN entry' = DOMAIN entry \cup {n}
    <2>1. CASE Opened
      BY <1>6, <2>1, AdmissionAdds
    <2>2. CASE ~Opened
      BY <1>7, <2>2 DEF Live
    <2>3. QED
      BY <2>1, <2>2
  <1>9. ASSUME NEW v \in Wake, v # w
        PROVE  Aside(v)
    <2>1. ~Says(n, v)
      BY <1>4, <1>9 DEF Says
    <2>2. \A u \in 1..Len(said) : Says(u, v) /\ Live(u)' => Live(u)
      BY <1>8, <2>1
    <2>3. QED
      BY <1>1, <1>5, <1>8, <2>2 DEF Aside
  <1>10. Spoke(w, n)'
    <2>1. Shown(w)'
      BY <1>1, <1>4, <1>8 DEF Spoke, Shown
    <2>2. Spoken(w, n)'
      BY <1>1, <1>4, <1>8 DEF Spoke, Spoken, Says
    <2>3. QED
      BY <1>4, <1>5, <2>1, <2>2 DEF Spoke
  <1>11. ASSUME wake' = Idle
         PROVE  Over(w)'
    <2>1. ~Opened
      BY <1>1, <1>6, <1>11, WakeMoves DEF Steps, Answered
    <2>2. ~Live(n)'
      BY <1>4, <1>7, <2>1 DEF Live
    <2>3. Finished(w)'
      BY <1>1, <1>3, <1>4, <1>10, <2>2 DEF Finished, Owned
    <2>4. QED
      BY <2>3 DEF Over
  <1>12. wake' # Idle => Opened /\ wake'.w = w /\ wake'.pc = "kept"
    BY <1>1, <1>2, <1>6, <1>7, WakeMoves DEF Steps, Answered
  <1>13. ASSUME wake' # Idle
         PROVE  Underway(w)'
    <2>1. n \in DOMAIN entry'
      BY <1>8, <1>12, <1>13
    <2>2. QED
      BY <1>1, <1>3, <1>10, <1>12, <1>13, <2>1 DEF Underway, Answered
  <1>14. WakesOK'
    BY <1>1, <1>2, <1>9, <1>11, <1>12, <1>13, OthersStay
  <1>15. ReadyOK'
    <2>1. CASE stage = "ready"
      <3>1. 1..n - 1 \subseteq DOMAIN entry /\ DOMAIN entry \subseteq 1..n
        BY <1>1, <1>3, <2>1, WakeIsAt DEF ReadyOK, Complete
      <3>2. DOMAIN entry' = 1..n
        BY <1>3, <1>8, <2>1, <3>1 DEF Opened
      <3>3. QED
        BY <1>1, <1>3, <3>2 DEF ReadyOK, Complete
    <2>2. CASE stage # "ready"
      BY <1>1, <2>2 DEF ReadyOK
    <2>3. QED
      BY <2>1, <2>2
  <1>16. QED
    BY <1>5, <1>14, <1>15

LEMMA EmitAgrees ==
  ASSUME CustodyInv, BooksOK, WakesOK, ReadyOK, Emit
  PROVE  BooksOK' /\ WakesOK' /\ ReadyOK'
  <1>1. /\ wake # Idle /\ wake.pc = "kept" /\ wake' = Idle
        /\ UNCHANGED <<said, row, entry, presented, ledger, woken, stage, starts>>
        /\ emitted' = emitted \cup {<<wake.w, Len(said)>>}
    BY DEF Emit, At, Steady, hub, LinkEmission
  <1>2. PICK w \in Wake : w = wake.w /\ w \in DOMAIN woken /\ Active(w) /\ Underway(w)
    BY <1>1, WakeIsAt
  <1>3. PICK n : n = Len(said)
    OBVIOUS
  <1>4. Spoke(w, n) /\ n \in DOMAIN entry /\ n \in 1..n
    BY <1>1, <1>2, <1>3 DEF Underway, Answered, Spoke, Spoken
  <1>5. BooksOK' /\ \A v : LifeOf(v)' = LifeOf(v)
    BY <1>1, BooksRest
  <1>6. \A v \in Wake : v # w => Aside(v)
    <2>1. \A v \in Wake : v # w => \A l : l[1] = v => (l \in emitted' <=> l \in emitted)
      BY <1>1, <1>2
    <2>2. QED
      BY <1>1, <1>5, <2>1 DEF Aside, Live
  <1>7. Spoke(w, n)'
    <2>1. Shown(w)'
      BY <1>1, <1>4 DEF Spoke, Shown
    <2>2. Spoken(w, n)'
      BY <1>1, <1>2, <1>3, <1>4 DEF Spoke, Spoken, Says
    <2>3. QED
      BY <1>4, <1>5, <2>1, <2>2 DEF Spoke
  <1>8. Over(w)'
    BY <1>1, <1>2, <1>3, <1>4, <1>7 DEF Over, Finished, Owned
  <1>9. QED
    BY <1>1, <1>2, <1>5, <1>6, <1>8, OthersStay, ReadyStays
-----------------------------------------------------------------------------
(* Everybody else *)

LEMMA DiskStays ==
  ASSUME CustodyInv, BooksOK, WakesOK, UNCHANGED <<disk, wake>>, starts' = starts \/ starts' = starts + 1
  PROVE  BooksOK' /\ WakesOK' /\ (Complete' <=> Complete)
  <1>1. UNCHANGED <<said, row, entry, presented, emitted, woken, ledger, wake>>
    BY DEF disk, storeVars
  <1>2. BooksOK' /\ \A v : LifeOf(v)' = LifeOf(v)
    BY <1>1, BooksRest, NewBook
  <1>3. \A v \in Wake : Aside(v)
    BY <1>1, <1>2, AsideWhenResting
  <1>4. ASSUME NEW v \in Wake
        PROVE  /\ v \notin DOMAIN woken' => Untouched(v)'
               /\ IF Active(v)' THEN Underway(v)' ELSE Over(v)'
    <2>1. Aside(v) /\ (Active(v)' <=> Active(v)) /\ \A u : Live(u)' => Live(u)
      BY <1>1, <1>3 DEF Active, Live
    <2>2. v \notin DOMAIN woken' => Untouched(v)'
      BY <1>1, <2>1, AsideKeepsPlace DEF WakesOK
    <2>3. CASE Active(v)
      <3>1. Underway(v)
        BY <2>3 DEF WakesOK
      <3>2. \A u : Spoke(v, u) => Spoke(v, u)'
        BY <2>1, AsideKeepsPlace DEF Spoke, Spoken
      <3>3. Underway(v)'
        BY <1>1, <2>1, <3>1, <3>2, AsideKeepsPlace DEF Underway
      <3>4. QED
        BY <2>1, <2>2, <2>3, <3>3
    <2>4. CASE ~Active(v)
      BY <2>1, <2>2, <2>4, AsideKeepsPlace DEF WakesOK
    <2>5. QED
      BY <2>3, <2>4
  <1>5. QED
    BY <1>1, <1>2, <1>4 DEF WakesOK, Complete

\* The backfill brings nothing to life.
LEMMA BackfillAgrees ==
  ASSUME CustodyInv, BooksOK, WakesOK, Backfills
  PROVE  BooksOK' /\ WakesOK' /\ ReadyOK'
  <1>1. /\ UNCHANGED <<said, row, presented, emitted, woken, ledger, wake, starts>>
        /\ entry' = With(entry, [u \in Utterance |-> [live |-> FALSE, edge |-> u - 1]])
    BY DEF Backfills, Backfill
  <1>2. DOMAIN said = 1..Len(said) /\ DOMAIN entry \subseteq 1..Len(said)
    BY SaidIs DEF CustodyInv, ForestOK
  <1>3. Complete'
    BY <1>1, <1>2 DEF Complete, With, Utterance
  <1>4. DOMAIN entry \subseteq DOMAIN entry' /\ \A u : Live(u)' => Live(u)
    BY <1>1 DEF With, Live
  <1>5. BooksOK' /\ \A v : LifeOf(v)' = LifeOf(v)
    BY <1>1, BooksRest
  <1>6. \A v \in Wake : Aside(v)
    BY <1>1, <1>4, <1>5 DEF Aside
  <1>7. ASSUME NEW v \in Wake
        PROVE  /\ v \notin DOMAIN woken' => Untouched(v)'
               /\ IF Active(v)' THEN Underway(v)' ELSE Over(v)'
    <2>1. Aside(v) /\ (Active(v)' <=> Active(v))
      BY <1>1, <1>6 DEF Active
    <2>2. v \notin DOMAIN woken' => Untouched(v)'
      BY <1>1, <2>1, AsideKeepsPlace DEF WakesOK
    <2>3. CASE Active(v)
      <3>1. Underway(v)
        BY <2>3 DEF WakesOK
      <3>2. \A u : Spoke(v, u) => Spoke(v, u)'
        BY <2>1, AsideKeepsPlace DEF Spoke, Spoken
      <3>3. Underway(v)'
        BY <1>1, <1>4, <2>1, <3>1, <3>2, AsideKeepsPlace DEF Underway
      <3>4. QED
        BY <2>1, <2>2, <2>3, <3>3
    <2>4. CASE ~Active(v)
      BY <2>1, <2>2, <2>4, AsideKeepsPlace DEF WakesOK
    <2>5. QED
      BY <2>3, <2>4
  <1>8. QED
    BY <1>3, <1>5, <1>7 DEF WakesOK, ReadyOK

\* A first proof ends in the step that makes the Hub ready or not.
LEMMA KindStays ==
  ASSUME NEW j, IsJob(j)
  PROVE  /\ \A a : [j EXCEPT !.step = a].kind = j.kind
         /\ \A a, b : [j EXCEPT !.step = a, !.latest = b].kind = j.kind
         /\ [j EXCEPT !.moved = TRUE].kind = j.kind
         /\ \A ok : [j EXCEPT !.step = "settle", !.ok = ok, !.lives = Nothing, !.prefix = <<>>, !.latest = NoGeneration].kind
                     = j.kind
  <1>1. PICK L, P : j \in JobOf(L, P)
    BY DEF IsJob
  <1>2. QED
    BY <1>1 DEF JobOf

LEMMA LookKeepsKind ==
  ASSUME NEW j, IsJob(j), NEW store \in BOOLEAN, NEW prefix
  PROVE  LET looked == [j EXCEPT !.step = "forest", !.prefix = prefix, !.store = @ /\ store] IN
         /\ \A lives : [looked EXCEPT !.lives = lives].kind = j.kind
         /\ \A lives, mode : [looked EXCEPT !.lives = lives, !.mode = mode].kind = j.kind
  <1> DEFINE looked == [j EXCEPT !.step = "forest", !.prefix = prefix, !.store = @ /\ store]
  <1>1. PICK L, P : j \in JobOf(L, P)
    BY DEF IsJob
  <1>2. looked \in JobOf(L, {prefix}) /\ looked.kind = j.kind
    BY <1>1 DEF JobOf
  <1> HIDE DEF looked
  <1>3. (\A lives : [looked EXCEPT !.lives = lives].kind = looked.kind)
        /\ \A lives, mode : [looked EXCEPT !.lives = lives, !.mode = mode].kind = looked.kind
    BY <1>2 DEF JobOf
  <1>4. QED
    BY <1>2, <1>3 DEF looked

LEMMA VerifierKeepsKind ==
  ASSUME CheckpointInv, FirstProof, NEW v \in Verifier,
         LookAtSpine(v) \/ LookAtForest(v) \/ ReadLatest(v) \/ PublishProof(v)
  PROVE  FirstProof'
  <1> DEFINE Keeps == \E k : job' = [job EXCEPT ![v] = k] /\ (k = Nothing \/ k.kind = job[v].kind)
  <1>1. /\ UNCHANGED stage /\ job[v] # Nothing /\ IsJob(job[v]) /\ DOMAIN job = Verifier
    BY DEF LookAtSpine, LookAtForest, ReadLatest, PublishProof, Elsewhere, Does, CheckpointInv, JobsRight, JobRight
  <1>2. /\ \A a : [job[v] EXCEPT !.step = a].kind = job[v].kind
        /\ \A a, b : [job[v] EXCEPT !.step = a, !.latest = b].kind = job[v].kind
        /\ \A ok : [job[v] EXCEPT !.step = "settle", !.ok = ok, !.lives = Nothing, !.prefix = <<>>,
                                  !.latest = NoGeneration].kind = job[v].kind
    BY <1>1, KindStays
  <1>3. \A ok : Settles(v, ok) => Keeps
    BY <1>2 DEF Settles, Turns
  <1>4. ASSUME LookAtSpine(v)
        PROVE  Keeps
    <2> DEFINE store == job[v].full \/ LineageHolds
               looked == [job[v] EXCEPT !.step = "forest", !.prefix = ledger, !.store = @ /\ store]
               k == [looked EXCEPT !.lives = FullSpine]
               l == [looked EXCEPT !.lives = CheckpointProof(v),
                                   !.mode = IF NewestProof.prefix = ledger THEN "unchanged" ELSE "suffix"]
    <2>1. Turns(v, k) \/ Turns(v, l)
      BY <1>4 DEF LookAtSpine
    <2>2. store \in BOOLEAN
      BY <1>1 DEF IsJob, JobOf, LineageHolds
    <2> HIDE DEF store
    <2>3. k.kind = job[v].kind /\ l.kind = job[v].kind
      BY <1>1, <2>2, LookKeepsKind
    <2> HIDE DEF k, l
    <2>4. QED
      BY <2>1, <2>3 DEF Turns
  <1>5. ASSUME LookAtForest(v)
        PROVE  Keeps
    <2>1. \E ok : Settles(v, ok) \/ Turns(v, [job[v] EXCEPT !.step = "latest"])
      BY <1>5 DEF LookAtForest
    <2>2. QED
      BY <1>2, <1>3, <2>1 DEF Turns
  <1>6. ASSUME ReadLatest(v)
        PROVE  Keeps
    <2> DEFINE k == [job[v] EXCEPT !.step = "publish", !.latest = Latest]
    <2>1. Settles(v, FALSE) \/ Settles(v, TRUE) \/ Turns(v, k)
      BY <1>6 DEF ReadLatest
    <2>2. k.kind = job[v].kind
      BY <1>2
    <2> HIDE DEF k
    <2>3. QED
      BY <1>3, <2>1, <2>2 DEF Turns
  <1>7. ASSUME PublishProof(v)
        PROVE  Keeps
    <2>1. Settles(v, FALSE) \/ Settles(v, TRUE)
      BY <1>7 DEF PublishProof
    <2>2. QED
      BY <1>3, <2>1
  <1>8. PICK k : job' = [job EXCEPT ![v] = k] /\ (k = Nothing \/ k.kind = job[v].kind)
    BY <1>4, <1>5, <1>6, <1>7
  <1>9. CASE v = "hub"
    BY <1>1, <1>8, <1>9 DEF FirstProof, HubJob
  <1>10. CASE v # "hub"
    BY <1>1, <1>8, <1>10 DEF FirstProof, HubJob, Verifier
  <1>11. QED
    BY <1>9, <1>10

LEMMA FirstProofStays ==
  ASSUME CheckpointInv, FirstProof, [Next]_vars
  PROVE  FirstProof'
  <1>1. DOMAIN job = Verifier /\ "hub" \in Verifier /\ "hub" # "script"
    BY DEF CheckpointInv, JobsRight, Verifier
  <1>2. CASE WakeStep \/ Refuse \/ Damage \/ DamageCheckpoints \/ UNCHANGED vars
    <2>1. UNCHANGED <<job, stage>>
      BY <1>2 DEF WakeStep, Accept, TakeIn, Prepare, Record, Present, Dispatch, Answer, Commit, TakeReply, Emit,
         Steady, hub, Refuse, Damage, DamageCheckpoints, vars
    <2>2. QED
      BY <2>1 DEF FirstProof, HubJob
  <1>3. CASE \E v \in Verifier : LookAtSpine(v) \/ LookAtForest(v) \/ ReadLatest(v) \/ PublishProof(v)
    BY <1>3, VerifierKeepsKind
  <1>4. CASE Start
    BY <1>4 DEF Start, FirstProof
  <1>5. CASE Activate \/ AuditEnds \/ Stop \/ Die
    <2>1. HubJob' = Nothing \/ HubJob' = Begin("audit", TRUE)
      BY <1>1, <1>5 DEF Activate, AuditEnds, Stop, Die, Turns, HubJob
    <2>2. Begin("audit", TRUE).kind = "audit"
      BY DEF Begin
    <2>3. QED
      BY <2>1, <2>2 DEF FirstProof
  <1>6. CASE \E full \in BOOLEAN : StartScript(full)
    <2>1. UNCHANGED stage /\ HubJob' = HubJob
      BY <1>1, <1>6 DEF StartScript, Turns, HubJob
    <2>2. QED
      BY <2>1 DEF FirstProof
  <1>7. CASE Backfills
    <2>1. UNCHANGED stage /\ (HubJob' = HubJob \/ HubJob' = [HubJob EXCEPT !.moved = TRUE])
      BY <1>1, <1>7 DEF Backfills, HubJob
    <2>2. HubJob # Nothing => IsJob(HubJob)
      BY <1>1 DEF CheckpointInv, JobsRight, JobRight, HubJob
    <2>3. CASE HubJob = Nothing
      BY <1>7, <2>3 DEF Backfills, HubJob, FirstProof
    <2>4. CASE HubJob # Nothing
      BY <2>1, <2>2, <2>4, KindStays DEF FirstProof
    <2>5. QED
      BY <2>3, <2>4
  <1>8. QED
    BY <1>2, <1>3, <1>4, <1>5, <1>6, <1>7 DEF Next, Verify

\* What other processes do: they die, refuse and damage only at the price of a
\* fault, and the rest leave the disk alone.
LEMMA StartsStay ==
  ASSUME CustodyInv, starts <= MaxStarts, [Next]_vars
  PROVE  starts' <= MaxStarts
  <1>1. starts \in Nat /\ MaxStarts \in Nat
    BY CustodyAssumption DEF CustodyInv, HubOK
  <1>2. UNCHANGED starts \/ (starts' = starts + 1 /\ starts < MaxStarts)
    <2>1. CASE WakeStep \/ Refuse \/ Damage \/ DamageCheckpoints \/ UNCHANGED vars \/ Die \/ Stop \/ Backfills
      BY <2>1 DEF WakeStep, Accept, TakeIn, Prepare, Record, Present, Dispatch, Answer, Commit, TakeReply, Emit,
         Steady, hub, Refuse, Damage, DamageCheckpoints, vars, Die, Stop, Backfills
    <2>2. CASE Verify
      BY <2>2 DEF Verify, LookAtSpine, LookAtForest, ReadLatest, PublishProof, Elsewhere, Activate, AuditEnds, StartScript
    <2>3. CASE Start
      BY <2>3 DEF Start
    <2>4. QED
      BY <2>1, <2>2, <2>3 DEF Next
  <1>3. QED
    BY <1>1, <1>2

\* The steps that read the disk, and no more.
LEMMA BystandersAgree ==
  ASSUME CustodyInv, CheckpointInv, ReadinessInv, AgreeInv, faults = 0, UNCHANGED <<disk, wake>>,
         starts' = starts \/ starts' = starts + 1, stage' = "ready" => stage = "ready" \/ Activate
  PROVE  BooksOK' /\ WakesOK' /\ ReadyOK'
  <1>1. BooksOK /\ WakesOK /\ ReadyOK /\ FirstProof
    BY DEF AgreeInv
  <1>2. BooksOK' /\ WakesOK' /\ (Complete' <=> Complete)
    BY <1>1, DiskStays
  <1>3. UNCHANGED <<said, entry, wake>>
    BY DEF disk, storeVars
  <1>4. CASE stage' # "ready"
    BY <1>2, <1>4 DEF ReadyOK
  <1>5. CASE stage = "ready"
    BY <1>1, <1>2, <1>3, <1>5 DEF ReadyOK
  <1>6. CASE stage' = "ready" /\ Activate
    <2>1. HubJob # Nothing /\ HubJob.kind = "proof" /\ HubJob.step = "settle" /\ HubJob.ok /\ ~HubJob.moved
      BY <1>6 DEF Activate, Does, HubJob, Blessed, Stale
    <2>2. Standing
      BY <1>1, <2>1 DEF FirstProof, ReadinessInv, Tells
    <2>3. Complete
      BY <2>2, SaidIs DEF Standing, Verifies, SourceHolds, Complete, Utterance, CustodyInv
    <2>4. QED
      BY <1>2, <2>3 DEF ReadyOK
  <1>7. QED
    BY <1>2, <1>4, <1>5, <1>6

LEMMA EveryStepAgrees ==
  CustodyInv /\ CheckpointInv /\ ReadinessInv /\ AgreeInv /\ [Next]_vars => AgreeInv'
  <1>1. SUFFICES ASSUME CustodyInv, CheckpointInv, ReadinessInv, AgreeInv, [Next]_vars
                 PROVE  AgreeInv'
    OBVIOUS
  <1>2. FirstProof' /\ starts' <= MaxStarts
    BY <1>1, FirstProofStays, StartsStay DEF AgreeInv
  <1>3. faults \in Nat /\ LedgersOK
    BY <1>1 DEF CheckpointInv
  <1>4. SUFFICES ASSUME faults' = 0
                 PROVE  BooksOK' /\ WakesOK' /\ ReadyOK'
    BY <1>2 DEF AgreeInv
  <1>5. ~(Die \/ Refuse \/ Damage \/ DamageCheckpoints)
    <2>1. ~Fault
      BY <1>3, <1>4 DEF Fault
    <2>2. QED
      BY <2>1 DEF Die, Refuse, Damage, DamageCheckpoints
  <1>6. faults = 0
    <2>1. UNCHANGED faults \/ faults' = faults + 1
      <3>1. CASE WakeStep \/ UNCHANGED vars \/ Stop \/ Backfills \/ Start
        BY <3>1 DEF WakeStep, Accept, TakeIn, Prepare, Record, Present, Dispatch, Answer, Commit, TakeReply, Emit,
           Steady, vars, Stop, Backfills, Start
      <3>2. CASE Verify
        BY <3>2 DEF Verify, LookAtSpine, LookAtForest, ReadLatest, PublishProof, Fault, Activate, AuditEnds, StartScript
      <3>3. QED
        BY <1>1, <1>5, <3>1, <3>2 DEF Next
    <2>2. QED
      BY <1>3, <1>4, <2>1
  <1>7. BooksOK /\ WakesOK /\ ReadyOK
    BY <1>1, <1>6 DEF AgreeInv
  <1>8. CASE WakeStep
    BY <1>1, <1>3, <1>7, <1>8, AcceptAgrees, TakeInAgrees, PrepareAgrees, DispatchAgrees, AnswerAgrees, RecordAgrees,
       PresentAgrees, CommitAgrees, TakeReplyAgrees, EmitAgrees DEF WakeStep
  <1>9. CASE Backfills
    BY <1>1, <1>7, <1>9, BackfillAgrees
  <1>10. CASE Start \/ Verify \/ Stop \/ UNCHANGED vars
    <2>1. UNCHANGED <<disk, wake>> /\ (starts' = starts \/ starts' = starts + 1)
      BY <1>10 DEF Start, Verify, LookAtSpine, LookAtForest, ReadLatest, PublishProof, Elsewhere, Activate, AuditEnds,
         StartScript, Stop, vars, disk
    <2>2. stage' = "ready" => stage = "ready" \/ Activate
      BY <1>10 DEF Start, Verify, LookAtSpine, LookAtForest, ReadLatest, PublishProof, Elsewhere, AuditEnds,
         StartScript, Stop, vars
    <2>3. QED
      BY <1>1, <1>6, <2>1, <2>2, BystandersAgree
  <1>11. QED
    BY <1>1, <1>5, <1>8, <1>9, <1>10 DEF Next

LEMMA InitAgrees == Init => AgreeInv
  <1>1. SUFFICES ASSUME Init
                 PROVE  AgreeInv
    OBVIOUS
  <1>2. /\ said = <<>> /\ row = <<>> /\ entry = <<>> /\ presented = {} /\ emitted = {} /\ woken = <<>>
        /\ stage = "down" /\ wake = Idle /\ job["hub"] = Nothing /\ starts = 0
    BY <1>1 DEF Init, ForestInit
  <1>3. Len(said) = 0 /\ DOMAIN row = {} /\ DOMAIN woken = {}
    BY <1>2
  <1>4. FirstProof /\ starts <= MaxStarts
    BY <1>2, CustodyAssumption DEF FirstProof, HubJob
  <1>5. BooksOK /\ ReadyOK
    BY <1>2 DEF BooksOK, ReadyOK
  <1>6. \A w \in Wake : Untouched(w)
    BY <1>2, <1>3 DEF Untouched, LifeOf, Unlinked, Silent
  <1>7. WakesOK
    BY <1>2, <1>6 DEF WakesOK, Active, Over
  <1>8. QED
    BY <1>4, <1>5, <1>7 DEF AgreeInv

-----------------------------------------------------------------------------
(* What the verifier makes of it *)

\* The full scan accepts every ledger, and finds of each wake the life it had.
LEMMA ScanFindsLives ==
  ASSUME CustodyInv, BooksOK, starts <= MaxStarts
  PROVE  FullSpine # Refused /\ \A w \in Wake : View(FullSpine)[w] = LifeOf(w)
  <1> DEFINE lives == [s \in DOMAIN ledger |-> SpineNow!Scan(SpineNow!Fresh, ledger[s])]
  <1>1. DOMAIN ledger \subseteq 1..starts /\ DOMAIN ledger \subseteq 1..MaxStarts
    BY CustodyAssumption DEF CustodyInv, SourceOK, HubOK
  <1>2. \A s \in DOMAIN ledger : lives[s] = LivesIn(s)
    BY DEF LivesIn, Book
  <1>3. DOMAIN lives = DOMAIN ledger /\ FullSpine = SpineNow!Sealed(lives)
    BY DEF FullSpine, SpineNow!FullProof
  <1>4. \A s \in DOMAIN ledger : lives[s] \in SpineNow!Lifecycle
    BY <1>1, <1>2, FreshIs DEF BooksOK
  <1>5. lives \in [DOMAIN ledger -> SpineNow!Lifecycle]
    BY <1>4
  <1> HIDE DEF lives
  <1>6. Refused \notin {lives[s] : s \in DOMAIN lives}
    BY <1>3, <1>4, CustodyAssumption
  <1>7. FullSpine = lives
    BY <1>3, <1>6 DEF SpineNow!Sealed
  <1>8. lives # Refused
    BY <1>1, <1>5, CustodyAssumption
  <1>9. ASSUME NEW w \in Wake
        PROVE  View(FullSpine)[w] = LifeOf(w)
    <2>1. View(FullSpine)[w] = IF w \in DOMAIN woken /\ woken[w] \in DOMAIN ledger THEN lives[woken[w]][w] ELSE Blank
      BY <1>3, <1>7, FreshIs DEF View, SpineNow!View
    <2>2. \A s : s \notin DOMAIN ledger => LivesIn(s) = [r \in Wake |-> Blank]
      BY NoLineScan, FreshIs DEF LivesIn, Book
    <2>3. QED
      BY <1>2, <2>1, <2>2 DEF LifeOf
  <1>10. QED
    BY <1>7, <1>8, <1>9

\* What each life says of its crossing.
LEMMA LivesAre ==
  /\ ~Blank.prepared
  /\ Begun.prepared /\ ~Begun.dispatched
  /\ Lost.prepared /\ Lost.dispatched /\ Lost.code # "success"
  /\ Done.prepared /\ Done.dispatched /\ Done.code = "success"
  BY DEF Blank, Begun, Lost, Done, Of

\* The links of a wake that is over.
LEMMA LinksAgree ==
  ASSUME CustodyInv, \A w \in Wake : Over(w), NEW view, \A w \in Wake : view[w] = LifeOf(w), NEW strict \in BOOLEAN
  PROVE  PresentationHolds(view, strict)
  <1>1. /\ Utterance = 1..Len(said) /\ DOMAIN entry \subseteq 1..Len(said)
        /\ presented \subseteq Wake \X (1..Len(said)) /\ emitted \subseteq Wake \X (1..Len(said))
    BY SaidIs DEF CustodyInv, ForestOK, Utterance
  <1>2. ASSUME NEW l \in presented
        PROVE  l[2] \in DOMAIN entry /\ view[l[1]].prepared
    <2>1. l[1] \in Wake /\ ~Unlinked(l[1])
      BY <1>1 DEF Unlinked
    <2>2. Failed(l[1]) \/ Finished(l[1])
      BY <2>1 DEF Over, Untouched, Rowed
    <2>3. Shown(l[1]) /\ LifeOf(l[1]) \in {Lost, Done}
      BY <2>2 DEF Failed, Finished, Spoke
    <2>4. QED
      BY <2>1, <2>3, LivesAre DEF Shown
  <1>3. ASSUME NEW l \in emitted
        PROVE  l[2] \in DOMAIN entry /\ view[l[1]].prepared
    <2>1. l[1] \in Wake /\ ~Silent(l[1])
      BY <1>1 DEF Silent
    <2>2. Finished(l[1])
      BY <2>1 DEF Over, Untouched, Rowed, Failed
    <2>3. PICK u \in 1..Len(said) : Spoke(l[1], u)
      BY <2>2 DEF Finished
    <2>4. LifeOf(l[1]) = Done /\ l[2] = u /\ u \in DOMAIN entry
      BY <2>3 DEF Spoke, Spoken
    <2>5. QED
      BY <2>1, <2>4, LivesAre
  <1>4. ASSUME NEW w \in Wake, view[w].prepared
        PROVE  /\ w \in DOMAIN row
               /\ ~view[w].dispatched => LinksOf(w) = {}
               /\ view[w].dispatched =>
                    /\ LinksOf(w) \subseteq row[w]
                    /\ \A u \in row[w] : u \in DOMAIN entry /\ u \in LinksOf(w)
    <2>1. \A u : <<w, u>>[1] = w /\ <<w, u>>[2] = u
      OBVIOUS
    <2>2. CASE Untouched(w)
      BY <1>4, <2>2, LivesAre DEF Untouched
    <2>3. CASE Rowed(w)
      <3>1. w \in DOMAIN row /\ ~view[w].dispatched
        BY <2>3, LivesAre DEF Rowed
      <3>2. LinksOf(w) = {}
        BY <2>1, <2>3 DEF Rowed, Unlinked, LinksOf
      <3>3. QED
        BY <3>1, <3>2
    <2>4. CASE Failed(w) \/ Finished(w)
      <3>1. Shown(w) /\ LifeOf(w) \in {Lost, Done}
        BY <2>4 DEF Failed, Finished, Spoke
      <3>2. w \in DOMAIN row /\ view[w].dispatched
        BY <3>1, LivesAre DEF Shown
      <3>3. LinksOf(w) \subseteq row[w]
        BY <2>1, <3>1 DEF LinksOf, Shown
      <3>4. \A u \in row[w] : u \in DOMAIN entry /\ u \in LinksOf(w)
        BY <1>1, <3>1 DEF LinksOf, Shown
      <3>5. QED
        BY <3>2, <3>3, <3>4
    <2>5. QED
      BY <2>2, <2>3, <2>4 DEF Over
  <1>5. QED
    BY <1>2, <1>3, <1>4 DEF PresentationHolds

LEMMA EmissionsAgree ==
  ASSUME CustodyInv, \A w \in Wake : Over(w), NEW view, \A w \in Wake : view[w] = LifeOf(w),
         NEW strict \in BOOLEAN, strict => Complete
  PROVE  EmissionHolds(view, strict)
  <1>1. Utterance = 1..Len(said) /\ emitted \subseteq Wake \X (1..Len(said))
    BY SaidIs DEF CustodyInv, ForestOK, Utterance
  <1>2. \A w : Answers(w) = {u \in 1..Len(said) : Says(u, w)}
    BY <1>1 DEF Answers, Says
  <1>3. \A w, u : Spoken(w, u) => Answers(w) = {u}
    BY <1>2 DEF Spoken
  <1>4. ASSUME NEW l \in emitted
        PROVE  l[2] \in Answers(l[1]) /\ Owns(view, l[1])
    <2>1. l[1] \in Wake /\ ~Silent(l[1])
      BY <1>1 DEF Silent
    <2>2. Finished(l[1])
      BY <2>1 DEF Over, Untouched, Rowed, Failed
    <2>3. PICK u \in 1..Len(said) : Spoke(l[1], u)
      BY <2>2 DEF Finished
    <2>4. LifeOf(l[1]) = Done /\ l[2] = u /\ Answers(l[1]) = {u}
      BY <1>3, <2>3 DEF Spoke, Spoken
    <2>5. QED
      BY <2>1, <2>4, LivesAre DEF Owns
  <1>5. ASSUME NEW w \in Wake, Owns(view, w)
        PROVE  \E u \in Answers(w) : /\ Answers(w) = {u}
                                     /\ strict => u \in DOMAIN entry
                                     /\ Live(u) => <<w, u>> \in emitted
    <2>1. LifeOf(w).dispatched /\ LifeOf(w).code = "success"
      BY <1>5 DEF Owns
    <2>2. Finished(w)
      <3>1. LifeOf(w) \notin {Blank, Begun, Lost}
        <4>1. ~Blank.dispatched /\ ~Begun.dispatched /\ Lost.code # "success"
          BY DEF Blank, Begun, Lost, Of
        <4>2. QED
          BY <2>1, <4>1
      <3>2. QED
        BY <3>1 DEF Over, Untouched, Rowed, Failed
    <2>3. PICK u \in 1..Len(said) : Spoke(w, u) /\ Owned(w, u)
      BY <2>2 DEF Finished
    <2>4. Answers(w) = {u} /\ (strict => u \in DOMAIN entry) /\ (Live(u) => <<w, u>> \in emitted)
      BY <1>3, <2>3 DEF Spoke, Owned, Complete
    <2>5. QED
      BY <2>4
  <1>6. QED
    BY <1>4, <1>5 DEF EmissionHolds

LEMMA InvAgrees == CustodyInv /\ AgreeInv => WriterAndVerifierAgree
  <1>1. SUFFICES ASSUME CustodyInv, AgreeInv, faults = 0, wake = Idle
                 PROVE  FullSpine # Refused /\ Verifies(View(FullSpine), stage = "ready")
    BY DEF WriterAndVerifierAgree
  <1> DEFINE strict == stage = "ready"
             view == View(FullSpine)
  <1>2. BooksOK /\ WakesOK /\ ReadyOK /\ starts <= MaxStarts
    BY <1>1 DEF AgreeInv
  <1>3. FullSpine # Refused /\ \A w \in Wake : view[w] = LifeOf(w)
    BY <1>1, <1>2, ScanFindsLives
  <1>4. \A w \in Wake : Over(w)
    BY <1>1, <1>2 DEF WakesOK, Active
  <1>5. strict \in BOOLEAN /\ (strict => Complete)
    BY <1>1, <1>2 DEF ReadyOK
  <1> HIDE DEF strict, view
  <1>6. PresentationHolds(view, strict) /\ EmissionHolds(view, strict)
    BY <1>1, <1>3, <1>4, <1>5, LinksAgree, EmissionsAgree
  <1>7. IntakeHolds
    BY <1>1, InvTellsTheSource DEF ForestTellsTheSource
  <1>8. SourceHolds(strict)
    <2>1. DOMAIN said = 1..Len(said) /\ Len(said) \in Nat
      BY <1>1, SaidIs DEF CustodyInv
    <2>2. PICK k \in 0..Len(said) : DOMAIN entry = 1..k
      BY <1>1 DEF CustodyInv, ForestOK
    <2>3. DOMAIN entry \subseteq DOMAIN said
      BY <2>1, <2>2
    <2>4. strict => DOMAIN entry = DOMAIN said
      BY <1>5, <2>1 DEF Complete
    <2>5. QED
      BY <2>3, <2>4 DEF SourceHolds, Utterance
  <1>9. TopologyHolds
    <2>1. PICK k \in 0..Len(said) : DOMAIN entry = 1..k
      BY <1>1 DEF CustodyInv, ForestOK
    <2>2. k \in Nat
      BY <1>1, <2>1, SaidIs DEF CustodyInv
    <2>3. ASSUME NEW u \in DOMAIN entry
          PROVE  entry[u].edge = Before(u)
      <3>1. u \in Nat \ {0} /\ u <= k
        BY <2>1, <2>2
      <3>2. Before(u) = u - 1
        BY <2>1, <2>2, <3>1, BeforeIs
      <3>3. entry[u].edge = u - 1
        BY <1>1, InvTellsTheSource DEF ForestTellsTheSource
      <3>4. QED
        BY <3>2, <3>3
    <2>4. QED
      BY <2>3 DEF TopologyHolds
  <1>10. Verifies(view, strict)
    BY <1>6, <1>7, <1>8, <1>9 DEF Verifies
  <1>11. QED
    BY <1>3, <1>10 DEF strict, view

\* For any number of wakes, autonomous or not, of lifespans of the Hub, scripts and
\* backfills: as long as no write fails, nobody dies and nothing is damaged, what
\* the wakes wrote to Source, Forest and Spine is what verifyForest() demands,
\* strictly where the Forest is ready, whenever no wake is under way.
THEOREM WritersAndVerifiersAlwaysAgree == Spec => []WriterAndVerifierAgree
  <1> DEFINE Inv == CustodyInv /\ CheckpointInv /\ ReadinessInv /\ AgreeInv
  <1>1. Init => Inv
    <2>1. Init => ReadinessInv
      BY DEF Init, ReadinessInv
    <2>2. QED
      BY <2>1, InitKeeps, InitChecks, InitAgrees
  <1>2. Inv /\ [Next]_vars => Inv'
    BY EveryStepKeeps, EveryStepChecks, EveryStepTells, EveryStepAgrees
  <1>3. Inv => WriterAndVerifierAgree
    BY InvAgrees
  <1>4. QED
    <2> HIDE DEF Inv
    <2>1. QED
      BY <1>1, <1>2, <1>3, PTL DEF Spec

=============================================================================
