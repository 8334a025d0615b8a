---------------------------- MODULE ForestStore ----------------------------
(* The Forest's custody of utterances: admission with its intake ledger, the    *)
(* links of a provider crossing, the verifier and the backfill                  *)
(* (src/src/forest/store.js, verify.js, backfill.js).                           *)
(*                                                                              *)
(* One thread.  An utterance is its place in Source order (created_at, id).     *)
(* Abstracted: bodies and hashes (admission is the identity scrub), the Wild,   *)
(* the journal bucket, and the reason text of a hold.                           *)
EXTENDS Naturals, Sequences, FiniteSets
CONSTANTS Wake, NoCode
VARIABLES said,      \* Source: eligible utterances, in order
          row,       \* Source: provider row of a wake's crossing -> utterances it presents
          entry,     \* forest_entries and forest_edges, by utterance
          intake,    \* forest_intake_offers, each with its decisions
          presented, \* presentation_links
          emitted    \* emission_links

forestVars == <<entry, intake, presented, emitted>>
storeVars == <<said, row, entry, intake, presented, emitted>>
Root == 0
Utterance == DOMAIN said
Entry == [live : BOOLEAN, edge : Nat]
Decision == [state : {"held", "admitted"}, pred : Nat]

ForestInit == said = <<>> /\ row = <<>> /\ entry = <<>> /\ intake = <<>>
              /\ presented = {} /\ emitted = {}

\* What f holds stays, and g adds to it.
With(f, g) == [x \in DOMAIN f \cup DOMAIN g |-> IF x \in DOMAIN f THEN f[x] ELSE g[x]]

Newest(U) == IF U = {} THEN Root ELSE CHOOSE u \in U : \A v \in U : v <= u
Before(u) == Newest({v \in DOMAIN entry : v < u})

\* Variant: whatever entry came before is taken for the predecessor.
ExpectedPredecessor_Trusting(u, pred) == TRUE
\* expectedPredecessor(): the caller's predecessor is the entry just before it.
ExpectedPredecessor(u, pred) == Before(u) = pred

\* ensureIntakeOffer(), a write of its own, and appendIntakeDecision(): the same
\* decision is not repeated and an admission is final.
Offered(u) == With(intake, [v \in {u} |-> <<>>])
Decided(u, d) ==
  LET history == Offered(u)[u] IN
  IF history # <<>> /\ (history[Len(history)] = d \/ history[Len(history)].state = "admitted")
  THEN Offered(u) ELSE [Offered(u) EXCEPT ![u] = Append(history, d)]

\* What ingestEvent() accepts: a new utterance, or one it has with the same edge.
Admissible(u, pred) == /\ ExpectedPredecessor(u, pred)
                       /\ u \in DOMAIN entry => entry[u].edge = pred

Admit(u, pred, live) ==
  /\ Admissible(u, pred)
  /\ entry' = With(entry, [v \in {u} |-> [live |-> live, edge |-> Before(u)]])
  /\ intake' = Decided(u, [state |-> "admitted", pred |-> pred])
  /\ UNCHANGED <<presented, emitted>>

\* holdIntake(): the refusal is written down and the event stays in Source.
Hold(u, pred) ==
  /\ intake' = Decided(u, [state |-> "held", pred |-> pred])
  /\ UNCHANGED <<entry, presented, emitted>>

\* The disk refuses the admission, and perhaps the offer or the hold as well.
AdmissionFails(u, pred) ==
  /\ intake' \in {intake, Offered(u), Decided(u, [state |-> "held", pred |-> pred])}
  /\ UNCHANGED <<entry, presented, emitted>>

\* intakeStatus(): an offer held, or without a decision.
Unsettled == {u \in DOMAIN intake : intake[u] = <<>> \/ intake[u][Len(intake[u])].state = "held"}
CaughtUp == Unsettled = {} /\ Cardinality(DOMAIN entry) = Len(said)

LinkPresentations(w, us) == /\ us \subseteq DOMAIN entry
                            /\ presented' = presented \cup {<<w, u>> : u \in us}
                            /\ UNCHANGED <<entry, intake, emitted>>
LinkEmission(w, u) == emitted' = emitted \cup {<<w, u>>} /\ UNCHANGED <<entry, intake, presented>>

(* verifyForest(), `view` being the lifecycle of each wake's crossing.          *)
SourceHolds(strict) == /\ DOMAIN entry \subseteq Utterance
                       /\ strict => DOMAIN entry = Utterance
TopologyHolds == \A u \in DOMAIN entry : entry[u].edge = Before(u)
Live(u) == u \in DOMAIN entry /\ entry[u].live
LinksOf(w) == {u \in Utterance : <<w, u>> \in presented}

PresentationHolds(view, strict) ==
  /\ \A l \in presented \cup emitted : l[2] \in DOMAIN entry /\ view[l[1]].prepared
  /\ \A w \in Wake : view[w].prepared =>
       /\ w \in DOMAIN row
       /\ ~view[w].dispatched => LinksOf(w) = {}
       /\ view[w].dispatched =>
            /\ LinksOf(w) \subseteq row[w]
            /\ \A u \in row[w] : IF u \in DOMAIN entry THEN Live(u) => u \in LinksOf(w) ELSE ~strict

Owns(view, w) == view[w].dispatched /\ view[w].code = "success"
Answers(w) == {u \in Utterance : said[u].by = "resident" /\ said[u].wake = w}
EmissionHolds(view, strict) ==
  /\ \A l \in emitted : l[2] \in Answers(l[1]) /\ Owns(view, l[1])
  /\ \A w \in Wake : view[w].prepared /\ Owns(view, w) =>
       \E u \in Answers(w) : /\ Answers(w) = {u}
                             /\ strict => u \in DOMAIN entry
                             /\ Live(u) => <<w, u>> \in emitted

IntakeHolds ==
  /\ \A u \in DOMAIN intake : \A i \in 1..Len(intake[u]) - 1 : intake[u][i].state = "held"
  /\ \A u \in DOMAIN entry :
       /\ u \in DOMAIN intake /\ intake[u] # <<>>
       /\ intake[u][Len(intake[u])] = [state |-> "admitted", pred |-> entry[u].edge]
  /\ \A u \in DOMAIN intake \ DOMAIN entry :
       intake[u] # <<>> => intake[u][Len(intake[u])].state = "held"

Verifies(view, strict) ==
  /\ SourceHolds(strict)
  /\ TopologyHolds
  /\ PresentationHolds(view, strict)
  /\ EmissionHolds(view, strict)
  /\ IntakeHolds

\* applyBackfill(): the non-strict proof, then every utterance again, in order;
\* what it adds is pre_spine, not live.
Backfill(view) ==
  /\ Verifies(view, FALSE)
  /\ \A u \in DOMAIN entry : Admissible(u, u - 1)
  /\ entry' = With(entry, [u \in Utterance |-> [live |-> FALSE, edge |-> u - 1]])
  /\ intake' = [u \in Utterance |-> Decided(u, [state |-> "admitted", pred |-> u - 1])[u]]
  /\ UNCHANGED <<presented, emitted>>
=============================================================================
