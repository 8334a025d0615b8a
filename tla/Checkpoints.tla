---------------------------- MODULE Checkpoints ----------------------------
(* The verified ancestry store (src/src/integrity/checkpoint-store.js): retained *)
(* proofs in a chain of generations, each naming the one before it.  The store  *)
(* is a projection that may be deleted; the Hub's worker and the operator's     *)
(* scripts open it at once, each with a connection of its own.                  *)
(*                                                                              *)
(* One domain and one set of versions.  A generation's hash is its number: two  *)
(* generations never share one.  Envelope, payload and index rows commit as one *)
(* transaction and are append-only, so a generation is sound until it is        *)
(* damaged at rest.                                                             *)
EXTENDS Naturals, Sequences
VARIABLE gens    \* generations, oldest first: [number, prior, proof, sound]

NoGeneration == 0
Generation(prior, proof) == [number |-> Len(gens) + 1, prior |-> prior, proof |-> proof, sound |-> TRUE]
Latest == IF gens = <<>> THEN NoGeneration ELSE gens[Len(gens)].number

\* _verifyRow(): envelope, manifest, payload and indexes hash to what they say.
RowHolds(g) == g.sound

\* _verifyLineage(): every row down to the root, each naming the row before it.
LineageHolds ==
  \A i \in DOMAIN gens :
    /\ RowHolds(gens[i])
    /\ gens[i].prior = IF i = 1 THEN NoGeneration ELSE gens[i - 1].number

\* selectCompatible() throws for a chain that does not hold; an empty one has no
\* compatible generation.
Compatible == gens # <<>> /\ LineageHolds

\* publish(): BEGIN IMMEDIATE, the predecessor named must still be the latest.
MayPublish(prior) == prior = Latest
Publish(prior, proof) == MayPublish(prior) /\ gens' = Append(gens, Generation(prior, proof))

\* rebuild() and the operator's deletion of the file
Rebuild == gens' = <<>>

\* Damage at rest: a payload says something else, or a row is gone.
PayloadDamaged(proof) == \E i \in DOMAIN gens : gens' = [gens EXCEPT ![i].proof = proof, ![i].sound = FALSE]
RowLost == \E i \in DOMAIN gens : gens' = SubSeq(gens, 1, i - 1) \o SubSeq(gens, i + 1, Len(gens))
=============================================================================
