------------------------------ MODULE Gateway ------------------------------
(***************************************************************************)
(* src/src/world/gateway.js as the Hub runs it: approvals and the kiln,    *)
(* driven by the Resident's tools (one at a time), by the builder's        *)
(* decisions over HTTP (at any time, also while a tool or a wake is in     *)
(* progress), by processes that end, by the shutdown of the Hub, and by    *)
(* the death of its process.  The two parts meet in the promotion: its     *)
(* confirmation resets the sandbox in which a recipe may be running.       *)
(*                                                                         *)
(* JavaScript runs to the next await.  A stretch of a confirmation, or the *)
(* one between the launch of a recipe and its commit, is not interrupted   *)
(* by other requests; only the process may die in the middle.              *)
(***************************************************************************)
EXTENDS Approvals, Kiln

CONSTANT MaxCrashes   \* bound: deaths of the process

VARIABLES
  up,        \* the process is there
  crashes,   \* how often it has died
  awaited    \* awaited[a]: the run whose end the reset of promotion a awaits

vars == <<approvalVars, kilnVars, up, crashes, awaited>>

Init ==
  /\ ApprovalsInit
  /\ KilnInit
  /\ up = TRUE
  /\ crashes = 0
  /\ awaited = [a \in Approval |-> NoRun]

\* No stretch is under way, so a continuation may run; when none is due either,
\* another event may be served.
Between == up /\ stretch = AtRest /\ call.at # "launched"
ResetDue(a) ==
  \/ promoting[a] = "resetting" /\ Over(awaited[a]) /\ call.at # "provisioning"
  \/ promoting[a] = "reset"
SomethingDue == ContinuationDue \/ \E a \in Approval : ResetDue(a)
Free == Between /\ ~SomethingDue

-----------------------------------------------------------------------------
(* Approvals *)

\* A tool that waits for the builder.  A promotion needs a sandbox to promote.
Ask(a) ==
  /\ Free /\ call = Idle
  /\ \E kind \in {"asked", "promotion"} :
       /\ kind = "promotion" => live /\ runner.job # "none"
       /\ AskApproval(a, kind)
  /\ UNCHANGED <<kilnVars, up, crashes, awaited>>

AskAuto(a) ==
  /\ Free /\ call = Idle
  /\ AskAutomatic(a)
  /\ UNCHANGED <<kilnVars, up, crashes, awaited>>

Confirm(a) ==
  /\ Free \/ stretch = [of |-> a, at |-> "opened"]
  /\ BeginApplying(a)
  /\ UNCHANGED <<kilnVars, up, crashes, awaited>>

ConfirmFails(a) ==
  /\ BeginFails(a) \/ ApplyFails(a) \/ (call.at # "launched" /\ ResolveFails(a))
  /\ UNCHANGED <<kilnVars, up, crashes, awaited>>

\* The effect; that of a promotion goes on to close the runner it promoted from.
TakeEffect(a) ==
  /\ Apply(a)
  /\ \/ /\ approval[a].kind # "promotion"
        /\ UNCHANGED <<kilnVars, awaited>>
     \/ /\ approval[a].kind = "promotion"
        /\ CloseRunner("reset")
        /\ awaited' = [awaited EXCEPT ![a] = Executing]
        /\ UNCHANGED <<live, overlay, kilnRuns, call, closer>>
  /\ UNCHANGED <<up, crashes>>

\* Variant: nothing is reset once the Hub closes.
FinishReset_WhileOpen(a) ==
  /\ Between /\ ResetDue(a) /\ closer.at = "open"
  /\ ResetReturns(a)
  /\ ResetRunner \/ (runner.job # "none" /\ UNCHANGED kilnVars)
  /\ awaited' = [awaited EXCEPT ![a] = NoRun]
  /\ UNCHANGED <<up, crashes>>

\* destroy() settles, or throws and leaves the runner closed for good.
FinishReset(a) ==
  /\ Between /\ ResetDue(a)
  /\ ResetReturns(a)
  /\ ResetRunner \/ (runner.job # "none" /\ UNCHANGED kilnVars)
  /\ awaited' = [awaited EXCEPT ![a] = NoRun]
  /\ UNCHANGED <<up, crashes>>

Conclude(a) ==
  /\ call.at # "launched"
  /\ Resolve(a)
  /\ UNCHANGED <<kilnVars, up, crashes, awaited>>

Reject(a) ==
  /\ Free
  /\ RejectApproval(a)
  /\ UNCHANGED <<kilnVars, up, crashes, awaited>>

-----------------------------------------------------------------------------
(* The kiln *)

Start(r) ==
  /\ Free
  /\ RunRecipe(r) \/ Launch(r) \/ LaunchFails(r)
  /\ UNCHANGED <<approvalVars, up, crashes, awaited>>

FinishStart(r) ==
  /\ up /\ stretch = AtRest
  /\ CommitStart(r) \/ CommitStartFails(r)
  /\ UNCHANGED <<approvalVars, up, crashes, awaited>>

FinishCompensation(r) ==
  /\ Between
  /\ Compensated(r)
  /\ UNCHANGED <<approvalVars, up, crashes, awaited>>

CancelRecipe ==
  /\ Free
  /\ RequestCancel
  /\ UNCHANGED <<approvalVars, up, crashes, awaited>>

FinishCancel ==
  /\ Between
  /\ CancelSettles
  /\ UNCHANGED <<approvalVars, up, crashes, awaited>>

Expire(r) ==
  /\ Free
  /\ TimeOut(r)
  /\ UNCHANGED <<approvalVars, up, crashes, awaited>>

RecipeEnds(r) ==
  /\ up /\ stretch = AtRest /\ ~SomethingDue
  /\ ChildEnds(r)
  /\ UNCHANGED <<approvalVars, up, crashes, awaited>>

-----------------------------------------------------------------------------
(* Lives, shutdown and restart *)

NextLife ==
  /\ Free /\ call = Idle /\ closer.at = "open"
  /\ OpenLife
  /\ UNCHANGED <<kilnVars, up, crashes, awaited>>

Close ==
  /\ Free
  /\ RequestClose
  /\ UNCHANGED <<approvalVars, up, crashes, awaited>>

FinishClose ==
  /\ Between
  /\ CloseSettles \/ CloseFails
  /\ UNCHANGED <<approvalVars, up, crashes, awaited>>

Forget ==
  /\ ForgetConfirmations
  /\ KilnCrash
  /\ up' = FALSE
  /\ awaited' = [a \in Approval |-> NoRun]

\* The shutdown has awaited the wake with its tool, the open HTTP requests and
\* the gateway; the stores close and the process exits.
Stop ==
  /\ Free /\ call = Idle
  /\ closer.at \in {"closed", "failed"}
  /\ \A a \in Approval : promoting[a] = "no"
  /\ Forget
  /\ UNCHANGED crashes

Crash ==
  /\ up
  /\ crashes < MaxCrashes
  /\ crashes' = crashes + 1
  /\ Forget

Restart ==
  /\ ~up
  /\ ReconcileApprovals
  /\ ReconcileKiln
  /\ up' = TRUE
  /\ UNCHANGED <<crashes, awaited>>

Next ==
  \/ \E a \in Approval : Ask(a) \/ AskAuto(a) \/ Confirm(a) \/ ConfirmFails(a) \/ TakeEffect(a)
                         \/ FinishReset(a) \/ Conclude(a) \/ Reject(a)
  \/ \E r \in Run : Start(r) \/ FinishStart(r) \/ FinishCompensation(r) \/ Expire(r) \/ RecipeEnds(r)
  \/ CancelRecipe \/ FinishCancel
  \/ NextLife \/ Close \/ FinishClose \/ Stop \/ Crash \/ Restart

Spec == Init /\ [][Next]_vars

\* Awaits that nothing outside holds up come back.  A process ends because the
\* runner's timer kills its container; on the host a process may ignore the
\* signal, so nothing is assumed of it.
Fairness ==
  /\ \A a \in Approval : WF_vars(Confirm(a) /\ stretch # AtRest) /\ WF_vars(ConfirmFails(a) \/ TakeEffect(a))
                         /\ WF_vars(FinishReset(a)) /\ WF_vars(Conclude(a))
  /\ \A r \in Run : WF_vars(live /\ RecipeEnds(r)) /\ WF_vars(FinishStart(r)) /\ WF_vars(FinishCompensation(r))
                    /\ WF_vars(Start(r) /\ call # Idle)
  /\ WF_vars(FinishCancel) /\ WF_vars(FinishClose)

FairSpec == Spec /\ Fairness

-----------------------------------------------------------------------------
(* Properties *)

GatewayTypeOK ==
  /\ ApprovalsTypeOK
  /\ KilnTypeOK
  /\ up \in BOOLEAN
  /\ crashes \in Nat
  /\ awaited \in [Approval -> Run \cup {NoRun}]

\* The approval crossing keeps the promise of Consent, through crashes, failed
\* transactions, restarts and changes of life: the grant is durable before the
\* checkout changes, which it does at most once and never for a refused
\* request; only requests of the open lifespan are decided.
Verdict(a) ==
  CASE approval[a].status = "unborn" -> "unasked"
    [] approval[a].status = "pending" -> "waiting"
    [] approval[a].status = "applying" -> "granted"
    [] approval[a].status = "confirmed" -> "kept"
    [] OTHER -> "refused"

Promise == INSTANCE Consent WITH
  Request <- Approval, Life <- Lives, NoLife <- 0,
  verdict <- [a \in Approval |-> Verdict(a)],
  asker <- [a \in Approval |-> approval[a].life],
  touched <- applied, now <- life
KeepsConsent == Promise!Spec

\* The receipts of an approval tell its story: each phase once, in order, the
\* last one its status; only an automatic approval may lack the first one.
ReceiptsTellTheDecision ==
  \A a \in Approval :
    LET said == receipts[a]
        asked == IF approval[a].kind = "auto" THEN <<>> ELSE <<"pending">>
    IN CASE approval[a].status = "unborn" -> said = <<>>
         [] approval[a].status = "pending" -> said = asked
         [] approval[a].status = "confirmed" -> said = asked \o <<"applying", "confirmed">>
         [] OTHER -> said = asked \o <<approval[a].status>>

\* An approval that is applying is being applied, or nobody ever will: no
\* second attempt starts, and its confirmation is not forgotten while it runs.
ApplyingIsAttended ==
  \A a \in Approval :
    (promoting[a] # "no" \/ (stretch.of = a /\ stretch.at # "opened")) => approval[a].status = "applying"

\* At most one recipe has a process, whoever asked for its end.
OneProcessAtATime ==
  \A q, r \in Run : child[q].state = "live" /\ child[r].state = "live" => q = r

\* While the overlay says running, its process is there, or somebody who will
\* change the overlay waits for its end.
Attended(r) ==
  \/ child[r].state = "live"
  \/ call = [at |-> "cancelling", run |-> r]

\* No run is lost by the callbacks, the Resident's cancel and the compensation
\* of a failed start, except the one a promotion's reset has ended.
KilnFollowsItsRun ==
  up /\ overlay.status = "running" => Attended(overlay.run) \/ child[overlay.run].cancelled = "reset"

\* The overlay never invents a completion: it calls a run settled or failed
\* only if its process ended so, and cancelled only if somebody asked for its
\* end or its result died with the process of the Hub.  (The overlay of a run
\* that a reset has ended may be given the result of a later run.)
NoCompletionIsInvented ==
  /\ overlay.status \in {"settled", "failed"} =>
       child[overlay.run].result = overlay.status \/ child[overlay.run].cancelled = "reset"
  /\ overlay.status = "cancelled" => child[overlay.run].cancelled # "no" \/ life > 1

\* What the gateway tells the builder and the Resident is what happened: of an
\* approval its receipts, of a recipe the overlay of the kiln.
GatewayTellsWhatHappened ==
  ReceiptsTellTheDecision /\ OneProcessAtATime /\ KilnFollowsItsRun /\ NoCompletionIsInvented

\* The shutdown of a sandbox gateway that ends without an error leaves a cold
\* kiln: whatever was starting, running or being cancelled when it began, and
\* whatever ended or was reset while it waited.
CloseCoolsTheKiln ==
  [][live /\ closer.at = "waiting" /\ closer'.at = "closed" =>
       overlay'.status \notin {"running", "stopping"} \/ child'[overlay'.run].cancelled = "reset"]_vars

\* In the sandbox a run ends sooner or later and the overlay says so.
KilnSettles ==
  live /\ up /\ overlay.status = "running" ~>
    overlay.status # "running" \/ ~up \/ child[overlay.run].cancelled = "reset"

\* A promotion that was granted comes to an end, and so does a shutdown.
PromotionSettles ==
  \A a \in Approval : live /\ promoting[a] # "no" ~> promoting[a] = "no"
CloseSettlesAtLast == live /\ closer.at = "waiting" ~> closer.at # "waiting"

\* The reset of a promotion and the shutdown of the Hub both await the runner, and do
\* not wait for each other (applySandboxPromotionEffect, close, destroy).
NeitherBlocksTheOther == PromotionSettles /\ CloseSettlesAtLast

\* Runs, promotions and shutdowns that wait for each other all come to an end, and
\* leave a cold kiln.
KilnComesToRest == KilnSettles /\ NeitherBlocksTheOther /\ CloseCoolsTheKiln

-----------------------------------------------------------------------------
(* What the documents say and the code does not do *)
=============================================================================
