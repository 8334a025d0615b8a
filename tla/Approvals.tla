----------------------------- MODULE Approvals -----------------------------
(***************************************************************************)
(* The approval crossing: world_approvals and world_approval_receipts of   *)
(* src/src/world/graph.js and the part of src/src/world/gateway.js that    *)
(* asks, confirms, rejects and reconciles.                                 *)
(*                                                                         *)
(* An approval is asked by a Resident tool.  Confirming it takes three     *)
(* durable steps: a transaction makes it "applying", the effect changes    *)
(* the checkout outside any transaction, and a second transaction makes it *)
(* "confirmed".  The two first steps (all three, unless the approval is a  *)
(* sandbox promotion) are one uninterrupted stretch of JavaScript: nothing *)
(* else runs between them, but the process may die or a step may throw.    *)
(* Payloads, previews, hashes and evidence carry no control and are left   *)
(* out; so are the action receipts that accompany every crossing.          *)
(***************************************************************************)
EXTENDS Naturals, Sequences

CONSTANTS
  Approval,     \* ids an approval may be given
  NoApproval,
  MaxLives      \* bound: lifespans, the first included

ASSUME ApprovalsAssumption ==
  /\ NoApproval \notin Approval
  /\ MaxLives \in Nat \ {0}

VARIABLES
  life,        \* db.session.id: the lifespan that is open
  approval,    \* world_approvals
  receipts,    \* receipts[a]: phases of world_approval_receipts, in order
  applied,     \* applied[a]: how often the effect of a changed the checkout
  stretch,     \* the approval whose confirmation is running, and how far
  promoting    \* approvalConfirmations: how far each pending promise is

approvalVars == <<life, approval, receipts, applied, stretch, promoting>>

Lives == 1..MaxLives
ApprovalStatus == {"unborn", "pending", "applying", "confirmed", "rejected", "cancelled"}
\* "asked" tools wait for the builder, "auto" ones confirm themselves in the
\* microtask that follows, and a sandbox promotion always waits.
ApprovalKind == {"asked", "auto", "promotion"}
AtRest == [of |-> NoApproval, at |-> "rest"]

ApprovalsInit ==
  /\ life = 1
  /\ approval = [a \in Approval |-> [status |-> "unborn", life |-> 0, kind |-> "asked"]]
  /\ receipts = [a \in Approval |-> <<>>]
  /\ applied = [a \in Approval |-> 0]
  /\ stretch = AtRest
  /\ promoting = [a \in Approval |-> "no"]

Became(a, status) == approval' = [approval EXCEPT ![a].status = status]
Receipt(a, phase) == receipts' = [receipts EXCEPT ![a] = Append(@, phase)]

\* Variant: any lifespan may decide.
MayBeDecided_AnyLife(a) == approval[a].status = "pending"

\* getApproval, sessionId and status checks shared by both decisions.
MayBeDecided(a) == approval[a].status = "pending" /\ approval[a].life = life

-----------------------------------------------------------------------------
\* pendingConfirm() for a tool that waits: the row and its "pending" receipt
\* are one transaction, the tool's own.
AskApproval(a, kind) ==
  /\ stretch = AtRest
  /\ approval[a].status = "unborn"
  /\ kind # "auto"
  /\ approval' = [approval EXCEPT ![a] = [status |-> "pending", life |-> life, kind |-> kind]]
  /\ Receipt(a, "pending")
  /\ UNCHANGED <<life, applied, stretch, promoting>>

\* pendingConfirm() for an automatic tool: the row is committed without a
\* receipt, and its confirmation is the next thing that runs.
AskAutomatic(a) ==
  /\ stretch = AtRest
  /\ approval[a].status = "unborn"
  /\ approval' = [approval EXCEPT ![a] = [status |-> "pending", life |-> life, kind |-> "auto"]]
  /\ stretch' = [of |-> a, at |-> "opened"]
  /\ UNCHANGED <<life, receipts, applied, promoting>>

\* confirmApproval(), first transaction (beginApprovalEffect).  A second
\* confirmation of a promotion in progress only joins the first one's promise.
BeginApplying(a) ==
  /\ stretch \in {AtRest, [of |-> a, at |-> "opened"]}
  /\ promoting[a] = "no"
  /\ MayBeDecided(a)
  /\ Became(a, "applying")
  /\ Receipt(a, "applying")
  /\ stretch' = [of |-> a, at |-> "begun"]
  /\ promoting' = IF approval[a].kind = "promotion" THEN [promoting EXCEPT ![a] = "begun"] ELSE promoting
  /\ UNCHANGED <<life, applied>>

\* The first transaction of an automatic approval is rolled back: its tool is
\* refused, and the row stays pending, where the builder can find it.
BeginFails(a) ==
  /\ stretch = [of |-> a, at |-> "opened"]
  /\ stretch' = AtRest
  /\ UNCHANGED <<life, approval, receipts, applied, promoting>>

\* applyApprovalEffect() or applySandboxPromotion(): outside any transaction.
\* A promotion leaves the stretch here: the same code closes the sandbox runner
\* and awaits its reset.
Apply(a) ==
  /\ stretch = [of |-> a, at |-> "begun"]
  /\ applied' = [applied EXCEPT ![a] = @ + 1]
  /\ \/ /\ approval[a].kind # "promotion"
        /\ stretch' = [of |-> a, at |-> "applied"]
        /\ UNCHANGED promoting
     \/ /\ approval[a].kind = "promotion"
        /\ stretch' = AtRest
        /\ promoting' = [promoting EXCEPT ![a] = "resetting"]
  /\ UNCHANGED <<life, approval, receipts>>

\* The effect refuses: the preimage drifted, git failed, the plan is stale.
\* Nothing takes "applying" back.
ApplyFails(a) ==
  /\ stretch = [of |-> a, at |-> "begun"]
  /\ stretch' = AtRest
  /\ promoting' = [promoting EXCEPT ![a] = "no"]
  /\ UNCHANGED <<life, approval, receipts, applied>>

\* recipes.reset() has returned or thrown; either way the outcome is recorded.
ResetReturns(a) ==
  /\ stretch = AtRest
  /\ promoting[a] = "resetting"
  /\ promoting' = [promoting EXCEPT ![a] = "reset"]
  /\ UNCHANGED <<life, approval, receipts, applied, stretch>>

\* Variant: the promise of the confirmation is not deleted.
Resolve_KeepsPromise(a) ==
  /\ approval[a].status = "applying"
  /\ \/ stretch = [of |-> a, at |-> "applied"] /\ stretch' = AtRest
     \/ stretch = AtRest /\ promoting[a] = "reset" /\ UNCHANGED stretch
  /\ Became(a, "confirmed")
  /\ Receipt(a, "confirmed")
  /\ UNCHANGED <<life, applied, promoting>>

\* Second transaction, decideApproval(confirm) with its receipt.
Resolve(a) ==
  /\ approval[a].status = "applying"
  /\ \/ stretch = [of |-> a, at |-> "applied"] /\ stretch' = AtRest
     \/ stretch = AtRest /\ promoting[a] = "reset" /\ UNCHANGED stretch
  /\ Became(a, "confirmed")
  /\ Receipt(a, "confirmed")
  /\ promoting' = [promoting EXCEPT ![a] = "no"]
  /\ UNCHANGED <<life, applied>>

\* The second transaction is rolled back: the effect stays, "applying" stays.
ResolveFails(a) ==
  /\ \/ stretch = [of |-> a, at |-> "applied"] /\ stretch' = AtRest
     \/ stretch = AtRest /\ promoting[a] = "reset" /\ UNCHANGED stretch
  /\ promoting' = [promoting EXCEPT ![a] = "no"]
  /\ UNCHANGED <<life, approval, receipts, applied>>

\* rejectApproval()
RejectApproval(a) ==
  /\ stretch = AtRest
  /\ promoting[a] = "no"
  /\ MayBeDecided(a)
  /\ Became(a, "rejected")
  /\ Receipt(a, "rejected")
  /\ UNCHANGED <<life, applied, stretch, promoting>>

\* A Hearth-origin wake opens another lifespan; approvals are not looked at.
OpenLife ==
  /\ stretch = AtRest
  /\ life < MaxLives
  /\ life' = life + 1
  /\ UNCHANGED <<approval, receipts, applied, stretch, promoting>>

\* The memory of the process goes, whatever it was doing.
ForgetConfirmations ==
  /\ stretch' = AtRest
  /\ promoting' = [a \in Approval |-> "no"]
  /\ UNCHANGED <<life, approval, receipts, applied>>

\* Variant: what lapses leaves no receipt.
ReconcileApprovals_WithoutReceipt ==
  /\ life < MaxLives
  /\ life' = life + 1
  /\ approval' = [a \in Approval |-> IF approval[a].status = "pending" THEN [approval[a] EXCEPT !.status = "cancelled"] ELSE approval[a]]
  /\ UNCHANGED <<receipts, applied, stretch, promoting>>

\* reconcileStartup(), activateLifespan(): the startup lifespan is new, and
\* every approval another lifespan left pending is cancelled, with a receipt.
ReconcileApprovals ==
  LET left == {a \in Approval : approval[a].status = "pending" /\ approval[a].life # life'}
  IN /\ life < MaxLives
     /\ life' = life + 1
     /\ approval' = [a \in Approval |-> IF a \in left THEN [approval[a] EXCEPT !.status = "cancelled"] ELSE approval[a]]
     /\ receipts' = [a \in Approval |-> IF a \in left THEN Append(receipts[a], "cancelled") ELSE receipts[a]]
     /\ UNCHANGED <<applied, stretch, promoting>>

-----------------------------------------------------------------------------
ApprovalsTypeOK ==
  /\ life \in Lives
  /\ approval \in [Approval -> [status : ApprovalStatus, life : Lives \cup {0}, kind : ApprovalKind]]
  /\ receipts \in [Approval -> Seq(ApprovalStatus)]
  /\ applied \in [Approval -> Nat]
  /\ stretch \in [of : Approval \cup {NoApproval}, at : {"rest", "opened", "begun", "applied"}]
  /\ promoting \in [Approval -> {"no", "begun", "resetting", "reset"}]
=============================================================================
