------------------------------ MODULE Custody ------------------------------
(* One Hub keeping its Forest true to its Source and Spine: the wakes that      *)
(* write all three, the progressive verification that decides whether they may  *)
(* (src/src/runtime/progressive-forest-lifecycle.js, integrity/forest-          *)
(* checkpoint.js), the background audit, the operator's backfill, refused       *)
(* writes, deaths of the process and damage to the ledgers at rest.             *)
(*                                                                              *)
(* A wake makes one crossing, its final one; earlier crossings own no emission. *)
(* The raw return and its outcome are appended together.                        *)
EXTENDS ForestStore, Checkpoints
CONSTANTS Autonomous, \* the wakes no user utterance opened
          MaxFaults,  \* refused writes, deaths and damages
          MaxStarts,  \* lifespans of the Hub, each one session
          MaxScripts, \* runs of the operator's verification
          Idle, Nothing, Refused
VARIABLES woken,   \* Source: the wakes there were, and their sessions
          ledger,  \* Spine ledgers on disk, by session
          stage,   \* readiness of the Forest; "down" without a Hub
          wake,    \* the active wake: [w, pc, pred], or Idle
          job,     \* the verification each verifier has under way, or Nothing
          drift,   \* another connection wrote the Forest since it was activated
          faults, starts, runs

vars == <<storeVars, woken, ledger, gens, stage, wake, job, drift, faults, starts, runs>>
hub == <<stage, job, drift, gens, starts, runs>>
disk == <<storeVars, woken, ledger>>

SpineNow == INSTANCE SpineProof WITH Request <- Wake
\* What stands for "none" is none of the things it stands beside.
ASSUME CustodyAssumption ==
  /\ Idle \notin [w : Wake, pred : Nat, pc : {"said", "through", "prepared", "recorded", "presented",
                                             "sent", "answered", "spoken", "kept"}]
  /\ MaxStarts \in Nat
  /\ Refused \notin SpineNow!Lifecycle
  /\ \A sessions \in SUBSET (1..MaxStarts) : Refused \notin [sessions -> SpineNow!Lifecycle]
  /\ NoCode \notin SpineNow!S!Code
Frame(kind, w) == [whole |-> TRUE, frame |-> [kind |-> kind, req |-> w, code |-> NoCode]]
Outcome(w, code) == [whole |-> TRUE, frame |-> [kind |-> "outcome", req |-> w, code |-> code]]
LedgerOf(w) == IF woken[w] \in DOMAIN ledger THEN ledger[woken[w]] ELSE <<>>
AppendTo(w, lines) == ledger' = With([s \in {woken[w]} |-> LedgerOf(w) \o lines], ledger)
FullSpine == SpineNow!FullProof(ledger)
View(lives) == SpineNow!View(lives, woken)

History(w) == {u \in Utterance : woken[said[u].wake] = woken[w]}

Init == /\ ForestInit
        /\ woken = <<>> /\ ledger = <<>> /\ gens = <<>>
        /\ stage = "down" /\ wake = Idle /\ job = [v \in {"hub", "script"} |-> Nothing] /\ drift = FALSE
        /\ faults = 0 /\ starts = 0 /\ runs = 0

Fault == faults < MaxFaults /\ faults' = faults + 1
At(pc) == wake # Idle /\ wake.pc = pc
To(pc) == wake' = [wake EXCEPT !.pc = pc]
Steady == UNCHANGED <<hub, woken, faults>>
Opened == stage = "ready"   \* revoke() closes the store a wake may still hold

(* ---- a wake ----                                                            *)
\* prepareWake(): refused unless the Forest is ready; a human wake puts its
\* utterance in Source.  `pred` is priorEligible.
Accept(w) ==
  /\ stage = "ready" /\ wake = Idle /\ w \notin DOMAIN woken /\ woken' = With(woken, [v \in {w} |-> starts])
  /\ IF w \in Autonomous THEN UNCHANGED said
     ELSE said' = Append(said, [by |-> "user", wake |-> w])
  /\ wake' = [w |-> w, pc |-> IF w \in Autonomous THEN "through" ELSE "said", pred |-> Len(said)]
  /\ UNCHANGED <<row, forestVars, ledger, hub, faults>>

\* performAdmittedWake(): the user utterance is admitted, then the custody must
\* be caught up and written by this connection alone.
TakeIn ==
  /\ At("said") /\ UNCHANGED <<said, row, ledger>>
  /\ LET u == Len(said) IN
     \/ Opened /\ Admit(u, wake.pred, TRUE)
        /\ wake' = IF ~drift /\ CaughtUp' THEN [wake EXCEPT !.pc = "through"] ELSE Idle
     \/ Opened /\ ~Admissible(u, wake.pred) /\ Hold(u, wake.pred) /\ wake' = Idle
     \/ ~Opened /\ UNCHANGED forestVars /\ wake' = Idle
  /\ Steady

Prepare == At("through") /\ AppendTo(wake.w, <<Frame("prepared", wake.w)>>) /\ To("prepared")
           /\ UNCHANGED storeVars /\ Steady

Record == At("prepared") /\ row' = With(row, [w \in {wake.w} |-> History(wake.w)]) /\ To("recorded")
          /\ UNCHANGED <<said, forestVars, ledger>> /\ Steady

\* registerPresentationBoundary(): every presented utterance must have an entry.
Present ==
  /\ At("recorded")
  /\ \/ Opened /\ LinkPresentations(wake.w, row[wake.w]) /\ To("presented")
     \/ (~Opened \/ ~(row[wake.w] \subseteq DOMAIN entry)) /\ UNCHANGED forestVars /\ wake' = Idle
  /\ UNCHANGED <<said, row, ledger>> /\ Steady

Dispatch == At("presented") /\ AppendTo(wake.w, <<Frame("dispatched", wake.w)>>) /\ To("sent")
            /\ UNCHANGED storeVars /\ Steady

Answer ==
  /\ At("sent")
  /\ \/ AppendTo(wake.w, <<Frame("raw", wake.w), Outcome(wake.w, "success")>>) /\ To("answered")
     \/ AppendTo(wake.w, <<Outcome(wake.w, "fetch_failed")>>) /\ wake' = Idle
  /\ UNCHANGED storeVars /\ Steady

Commit == At("answered") /\ said' = Append(said, [by |-> "resident", wake |-> wake.w]) /\ To("spoken")
          /\ UNCHANGED <<row, forestVars, ledger>> /\ Steady

\* Variant: an autonomous answer follows its own wake's event, as a human one does.
ReplyPredecessor_OwnEvent == Len(said) - 1 + (IF wake.w \in Autonomous THEN 1 ELSE 0)
\* The predecessor of the answer: the utterance it answers, or priorEligible.
ReplyPredecessor == IF wake.w \in Autonomous THEN wake.pred ELSE wake.pred + 1

TakeReply ==
  /\ At("spoken")
  /\ LET u == Len(said) IN
     \/ Opened /\ Admit(u, ReplyPredecessor, TRUE) /\ To("kept")
     \/ Opened /\ ~Admissible(u, ReplyPredecessor) /\ Hold(u, ReplyPredecessor) /\ wake' = Idle
     \/ ~Opened /\ UNCHANGED forestVars /\ wake' = Idle
  /\ UNCHANGED <<said, row, ledger>> /\ Steady

Emit == /\ At("kept") /\ LinkEmission(wake.w, Len(said)) /\ wake' = Idle
        /\ UNCHANGED <<said, row, ledger>> /\ Steady

WakeStep == (\E w \in Wake : Accept(w)) \/ TakeIn \/ Prepare \/ Record \/ Present \/ Dispatch
            \/ Answer \/ Commit \/ TakeReply \/ Emit

(* ---- verification ----                                                      *)
(* verifyForestWithCheckpoint() runs in the Hub's worker, for its first proof and *)
(* its audit, and in scripts/forest-verify.js beside it.                          *)
Verifier == {"hub", "script"}
\* The Source view and data version the proof will belong to
Begin(kind, full) ==
  [kind |-> kind, full |-> full, step |-> "spine", mode |-> "full", lives |-> Nothing, prefix |-> <<>>,
   ok |-> FALSE, store |-> TRUE, latest |-> NoGeneration, upTo |-> Len(said), moved |-> FALSE]
Does(v, step) == job[v] # Nothing /\ job[v].step = step
Turns(v, j) == job' = [job EXCEPT ![v] = j]
\* The proof is done: the Hub has its verdict to settle, the script prints it.
Settles(v, ok) ==
  Turns(v, IF v = "script" THEN Nothing
           ELSE [job[v] EXCEPT !.step = "settle", !.ok = ok, !.lives = Nothing, !.prefix = <<>>, !.latest = NoGeneration])
Elsewhere == UNCHANGED <<disk, stage, wake, drift, starts, runs>>

Start == /\ stage = "down" /\ starts < MaxStarts /\ starts' = starts + 1
         /\ stage' = "pending" /\ Turns("hub", Begin("proof", FALSE)) /\ drift' = FALSE
         /\ UNCHANGED <<disk, gens, wake, faults, runs>>

StartScript(full) ==
  /\ job["script"] = Nothing /\ runs < MaxScripts /\ runs' = runs + 1
  /\ Turns("script", Begin("script", full))
  /\ UNCHANGED <<disk, gens, stage, wake, drift, faults, starts>>

\* The Spine half: a checkpoint that does not hold selects the full proof, and a
\* store that cannot be read is left alone.  A full proof asks for none.
NewestProof == gens[Len(gens)].proof
CheckpointProof(v) == IF job[v].full \/ ~Compatible THEN Refused
                      ELSE SpineNow!Revalidated(NewestProof, ledger)
LookAtSpine(v) ==
  /\ Does(v, "spine")
  /\ LET looked == [job[v] EXCEPT !.step = "forest", !.prefix = ledger,
                                  !.store = @ /\ (job[v].full \/ LineageHolds)]
     IN Turns(v, IF CheckpointProof(v) = Refused THEN [looked EXCEPT !.lives = FullSpine]
                 ELSE [looked EXCEPT !.lives = CheckpointProof(v),
                                     !.mode = IF NewestProof.prefix = ledger THEN "unchanged" ELSE "suffix"])
  /\ UNCHANGED <<gens, faults>> /\ Elsewhere

\* The Source and Forest half.  A proof that went further is published; without a
\* ledger there is nothing to publish.
LookAtForest(v) ==
  /\ Does(v, "forest")
  /\ LET ok == job[v].lives # Refused /\ Verifies(View(job[v].lives), TRUE)
         more == ok /\ job[v].store /\ job[v].mode # "unchanged" /\ job[v].prefix # <<>>
     IN IF more THEN Turns(v, [job[v] EXCEPT !.step = "latest"]) ELSE Settles(v, ok)
  /\ UNCHANGED <<gens, faults>> /\ Elsewhere

\* What is published follows the latest generation, unless that one covers the
\* same frontier.  A chain that does not hold throws, and the proof is lost.
ReadLatest(v) ==
  /\ Does(v, "latest")
  /\ IF ~LineageHolds THEN Settles(v, FALSE)
     ELSE IF gens # <<>> /\ NewestProof.prefix = job[v].prefix THEN Settles(v, TRUE)
     ELSE Turns(v, [job[v] EXCEPT !.step = "publish", !.latest = Latest])
  /\ UNCHANGED <<gens, faults>> /\ Elsewhere

\* The publication is made, or refused: another verifier was first, or the disk
\* refuses.  A refusal throws, and the proof is lost.
PublishProof(v) ==
  /\ Does(v, "publish")
  /\ \/ /\ Publish(job[v].latest, SpineNow!Retained(job[v].prefix, job[v].lives))
        /\ Settles(v, TRUE) /\ UNCHANGED faults
     \/ ~MayPublish(job[v].latest) /\ Settles(v, FALSE) /\ UNCHANGED <<gens, faults>>
     \/ Fault /\ Settles(v, FALSE) /\ UNCHANGED gens
  /\ Elsewhere

\* The event loop turns only where the wake awaits something.
LoopTurns == wake # Idle => wake.pc \in {"said", "through", "sent"}
HubJob == job["hub"]
Stale == HubJob.upTo # Len(said) \/ HubJob.moved
\* Variant: a proof that comes back is taken for a proof that held.
Blessed_AnyAnswer == wake = Idle /\ ~Stale
Blessed == wake = Idle /\ ~Stale /\ HubJob.ok
\* activate(): no wake is under way; a proof of another Source view or data
\* version, or one that failed, leaves the Forest failed.  After a checkpointed
\* proof the audit begins, a full one.
Activate ==
  /\ Does("hub", "settle") /\ HubJob.kind = "proof" /\ LoopTurns
  /\ stage' = IF Blessed THEN "ready" ELSE "failed"
  /\ drift' = FALSE
  /\ Turns("hub", IF stage' = "ready" /\ HubJob.mode \in {"suffix", "unchanged"} THEN Begin("audit", TRUE) ELSE Nothing)
  /\ UNCHANGED <<disk, gens, wake, faults, starts, runs>>

\* The audit ends: a failure of a view that is still the present one revokes.
AuditEnds ==
  /\ Does("hub", "settle") /\ HubJob.kind = "audit" /\ LoopTurns
  /\ stage' = IF ~HubJob.ok /\ ~Stale THEN "failed" ELSE stage
  /\ Turns("hub", Nothing)
  /\ UNCHANGED <<disk, gens, wake, drift, faults, starts, runs>>

Verify == \/ \E v \in Verifier : LookAtSpine(v) \/ LookAtForest(v) \/ ReadLatest(v) \/ PublishProof(v)
          \/ Activate \/ AuditEnds \/ \E full \in BOOLEAN : StartScript(full)

Stop == /\ stage # "down" /\ wake = Idle
        /\ stage' = "down" /\ Turns("hub", Nothing)
        /\ UNCHANGED <<disk, gens, wake, drift, faults, starts, runs>>

\* scripts/forest-apply.js: it reads the ledgers themselves, without a checkpoint.
Backfills ==
  /\ ~CaughtUp   \* with nothing to add it writes nothing
  /\ FullSpine # Refused
  /\ Backfill(View(FullSpine))
  /\ drift' = (stage = "ready" \/ drift)
  /\ job' = IF HubJob = Nothing THEN job ELSE [job EXCEPT !["hub"].moved = TRUE]
  /\ UNCHANGED <<said, row, woken, ledger, gens, stage, wake, faults, starts, runs>>

(* ---- faults ----                                                            *)

Die == /\ stage # "down" /\ Fault
       /\ stage' = "down" /\ wake' = Idle /\ Turns("hub", Nothing)
       /\ UNCHANGED <<disk, gens, drift, starts, runs>>

\* A write of the wake is refused, and the wake with it.
Refuse ==
  /\ wake # Idle /\ Fault
  /\ IF At("said") THEN AdmissionFails(Len(said), wake.pred)
     ELSE IF At("spoken") THEN AdmissionFails(Len(said), ReplyPredecessor)
     ELSE UNCHANGED forestVars
  /\ wake' = Idle
  /\ UNCHANGED <<said, row, woken, ledger, hub>>

\* At rest a line is damaged, or lines or a whole ledger are lost.
Damage ==
  /\ stage = "down" /\ Fault
  /\ \E s \in DOMAIN ledger :
       \/ \E i \in DOMAIN ledger[s] : ledger' = [ledger EXCEPT ![s][i].whole = FALSE]
       \/ \E n \in 0..Len(ledger[s]) - 1 : ledger' = [ledger EXCEPT ![s] = SubSeq(@, 1, n)]
       \/ ledger' = [t \in DOMAIN ledger \ {s} |-> ledger[t]]
  /\ UNCHANGED <<storeVars, woken, gens, stage, wake, job, drift, starts, runs>>

\* The checkpoint store is damaged or deleted while nobody has it open.
DamageCheckpoints ==
  /\ gens # <<>> /\ \A v \in Verifier : job[v] = Nothing
  /\ Fault
  /\ \/ Rebuild \/ RowLost
     \/ PayloadDamaged(SpineNow!Retained(NewestProof.prefix, [s \in DOMAIN NewestProof.prefix |-> SpineNow!Fresh]))
  /\ UNCHANGED <<disk, stage, wake, job, drift, starts, runs>>

Next == WakeStep \/ Start \/ Verify \/ Stop \/ Backfills \/ Die \/ Refuse \/ Damage \/ DamageCheckpoints
Spec == Init /\ [][Next]_vars

(* ---- properties ----                                                        *)
\* Every variable keeps its shape; a failed or revoked Forest has no wake to come.
CustodyTypeOK ==
  /\ said \in Seq([by : {"user", "resident"}, wake : Wake])
  /\ DOMAIN woken \subseteq Wake /\ DOMAIN row \subseteq DOMAIN woken /\ \A w \in DOMAIN row : row[w] \subseteq Utterance
  /\ DOMAIN entry \subseteq Utterance /\ \A u \in DOMAIN entry : entry[u] \in Entry
  /\ DOMAIN intake \subseteq Utterance /\ \A u \in DOMAIN intake : intake[u] \in Seq(Decision)
  /\ presented \subseteq Wake \X Utterance /\ emitted \subseteq Wake \X Utterance
  /\ DOMAIN ledger \subseteq 1..starts
  /\ stage \in {"down", "pending", "ready", "failed"}
  /\ wake # Idle => stage \in {"ready", "failed"}

\* Whatever was refused, lost, retried or backfilled, the Forest holds an unbroken
\* beginning of the Source: no utterance is skipped, each one responds to the
\* utterance said before it, and its last intake decision names that edge.
ForestTellsTheSource ==
  /\ CustodyTypeOK
  /\ DOMAIN entry = 1..Cardinality(DOMAIN entry)
  /\ \A u \in DOMAIN entry : entry[u].edge = u - 1
  /\ IntakeHolds

\* Without damage or failure what wakes write is what the verifier demands:
\* between wakes a ready Forest passes the full strict proof, and any other one
\* the proof the backfill asks for.
WriterAndVerifierAgree ==
  faults = 0 /\ wake = Idle =>
    FullSpine # Refused /\ Verifies(View(FullSpine), stage = "ready")

\* A checkpoint that still holds proves what the full scan would have proved,
\* after any damage, loss or growth of the ledgers since it was published; and
\* verifiers that publish at once never fork or break the chain of generations.
CheckpointIsTheFullProof ==
  /\ Compatible =>
       LET again == SpineNow!Revalidated(NewestProof, ledger) IN
       again # Refused => again = FullSpine
  /\ faults = 0 => LineageHolds

\* The Forest becomes ready only on custody that a full strict proof accepts at
\* that moment, with no wake under way.
ReadyCustodyIsWhole ==
  [][stage = "pending" /\ stage' = "ready" =>
       /\ wake = Idle
       /\ FullSpine # Refused
       /\ Verifies(View(FullSpine), TRUE)]_vars
=============================================================================
