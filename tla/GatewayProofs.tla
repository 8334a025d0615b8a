---------------------------- MODULE GatewayProofs ----------------------------
(***************************************************************************)
(* What the approval crossing guarantees for any number of approvals,      *)
(* runs, lifespans and crashes.  Gateway moves approvals only through the  *)
(* operations of Approvals, so everything is shown for those and carried   *)
(* over.  For what follows the end of a run, and for the answers of a run  *)
(* that is over, the kiln has an inductive invariant of its own, KilnInv.  *)
(***************************************************************************)
EXTENDS Gateway, TLAPS

ApprovalStep(a) ==
  \/ \E kind \in {"asked", "promotion"} : AskApproval(a, kind)
  \/ AskAutomatic(a)
  \/ BeginApplying(a)
  \/ BeginFails(a)
  \/ Apply(a)
  \/ ApplyFails(a)
  \/ ResetReturns(a)
  \/ Resolve(a)
  \/ ResolveFails(a)
  \/ RejectApproval(a)

ApprovalsNext ==
  \/ \E a \in Approval : ApprovalStep(a)
  \/ OpenLife
  \/ ForgetConfirmations
  \/ ReconcileApprovals

\* What the effect has done is known from the status and from how far the
\* confirmation has come.  This is the inductive strengthening.
EffectIsKnown ==
  /\ \A a \in Approval :
       /\ approval[a].status \in {"unborn", "pending", "rejected", "cancelled"} => applied[a] = 0
       /\ approval[a].status = "confirmed" => applied[a] = 1
       /\ approval[a].status = "applying" => applied[a] \in {0, 1}
       /\ stretch = [of |-> a, at |-> "begun"] => approval[a].status = "applying" /\ applied[a] = 0
       /\ stretch = [of |-> a, at |-> "applied"] => approval[a].status = "applying" /\ applied[a] = 1
       /\ promoting[a] = "begun" => stretch = [of |-> a, at |-> "begun"]
       /\ promoting[a] \in {"resetting", "reset"} => approval[a].status = "applying" /\ applied[a] = 1
       /\ promoting[a] # "no" => approval[a].kind = "promotion"
  /\ stretch.at = "rest" => stretch.of = NoApproval

ApprovalsInv == ApprovalsTypeOK /\ EffectIsKnown

-----------------------------------------------------------------------------
(* Gateway's steps are steps of its approvals *)

LEMMA StepsOfApprovals ==
  ASSUME [Next]_vars
  PROVE  [ApprovalsNext]_approvalVars
  <1>1. CASE UNCHANGED vars
    BY <1>1 DEF vars, approvalVars
  <1>2. ASSUME NEW a \in Approval, Ask(a)
        PROVE  ApprovalsNext
    BY <1>2 DEF Ask, ApprovalsNext, ApprovalStep
  <1>3. ASSUME NEW a \in Approval, AskAuto(a)
        PROVE  ApprovalsNext
    BY <1>3 DEF AskAuto, ApprovalsNext, ApprovalStep
  <1>4. ASSUME NEW a \in Approval, Confirm(a)
        PROVE  ApprovalsNext
    BY <1>4 DEF Confirm, ApprovalsNext, ApprovalStep
  <1>5. ASSUME NEW a \in Approval, ConfirmFails(a)
        PROVE  ApprovalsNext
    BY <1>5 DEF ConfirmFails, ApprovalsNext, ApprovalStep
  <1>6. ASSUME NEW a \in Approval, TakeEffect(a)
        PROVE  ApprovalsNext
    BY <1>6 DEF TakeEffect, ApprovalsNext, ApprovalStep
  <1>7. ASSUME NEW a \in Approval, FinishReset(a)
        PROVE  ApprovalsNext
    BY <1>7 DEF FinishReset, ApprovalsNext, ApprovalStep
  <1>8. ASSUME NEW a \in Approval, Conclude(a)
        PROVE  ApprovalsNext
    BY <1>8 DEF Conclude, ApprovalsNext, ApprovalStep
  <1>9. ASSUME NEW a \in Approval, Reject(a)
        PROVE  ApprovalsNext
    BY <1>9 DEF Reject, ApprovalsNext, ApprovalStep
  <1>10. ASSUME NEW r \in Run,
                Start(r) \/ FinishStart(r) \/ FinishCompensation(r) \/ Expire(r) \/ RecipeEnds(r)
         PROVE  UNCHANGED approvalVars
    BY <1>10 DEF Start, FinishStart, FinishCompensation, Expire, RecipeEnds
  <1>11. CancelRecipe \/ FinishCancel \/ Close \/ FinishClose => UNCHANGED approvalVars
    BY DEF CancelRecipe, FinishCancel, Close, FinishClose
  <1>12. NextLife \/ Stop \/ Crash \/ Restart => ApprovalsNext
    BY DEF NextLife, Stop, Crash, Restart, Forget, ApprovalsNext
  <1>13. QED
    BY <1>1, <1>2, <1>3, <1>4, <1>5, <1>6, <1>7, <1>8, <1>9, <1>10, <1>11, <1>12 DEF Next

-----------------------------------------------------------------------------
(* The invariant *)

LEMMA ApprovalsInvInit == Init => ApprovalsInv
  <1> SUFFICES ASSUME Init PROVE ApprovalsInv
    OBVIOUS
  <1> USE ApprovalsAssumption DEF Init, ApprovalsInit, AtRest, Lives
  <1>1. <<>> \in Seq(ApprovalStatus)
    OBVIOUS
  <1>2. ApprovalsTypeOK
    BY <1>1 DEF ApprovalsTypeOK, ApprovalStatus, ApprovalKind
  <1>3. EffectIsKnown
    BY DEF EffectIsKnown
  <1>4. QED
    BY <1>2, <1>3 DEF ApprovalsInv

ApprovalRows == [Approval -> [status : ApprovalStatus, life : Lives \cup {0}, kind : ApprovalKind]]

LEMMA BecameTold ==
  ASSUME approval \in ApprovalRows, NEW a \in Approval, NEW status \in ApprovalStatus, Became(a, status)
  PROVE  /\ approval' \in ApprovalRows
         /\ \A b \in Approval :
              /\ approval'[b].kind = approval[b].kind
              /\ approval'[b].life = approval[b].life
              /\ approval'[b].status = IF b = a THEN status ELSE approval[b].status
  BY DEF Became, ApprovalRows

LEMMA ReceiptTyped ==
  ASSUME receipts \in [Approval -> Seq(ApprovalStatus)], NEW a \in Approval,
         NEW phase \in ApprovalStatus, Receipt(a, phase)
  PROVE  receipts' \in [Approval -> Seq(ApprovalStatus)]
  BY DEF Receipt

LEMMA StepKeepsApprovalsInv ==
  ASSUME ApprovalsInv, NEW a \in Approval, ApprovalStep(a)
  PROVE  ApprovalsInv'
  <1> USE ApprovalsAssumption DEF ApprovalsInv
  <1>0. /\ approval \in ApprovalRows
        /\ receipts \in [Approval -> Seq(ApprovalStatus)]
        /\ {"applying", "confirmed", "rejected", "pending"} \subseteq ApprovalStatus
    BY DEF ApprovalsTypeOK, ApprovalRows, ApprovalStatus
  <1>1. CASE \E kind \in {"asked", "promotion"} : AskApproval(a, kind)
    BY <1>1 DEF AskApproval, ApprovalsTypeOK, EffectIsKnown, AtRest, Receipt, ApprovalStatus, ApprovalKind
  <1>2. CASE AskAutomatic(a)
    BY <1>2 DEF AskAutomatic, ApprovalsTypeOK, EffectIsKnown, AtRest, ApprovalStatus, ApprovalKind
  <1>3. CASE BeginApplying(a)
    <2>1. ApprovalsTypeOK'
      BY <1>0, <1>3, BecameTold, ReceiptTyped DEF BeginApplying, ApprovalsTypeOK, ApprovalRows
    <2>2. /\ approval[a].status = "pending" /\ promoting[a] = "no"
          /\ stretch \in {AtRest, [of |-> a, at |-> "opened"]}
          /\ stretch' = [of |-> a, at |-> "begun"]
          /\ applied' = applied
          /\ promoting' = IF approval[a].kind = "promotion" THEN [promoting EXCEPT ![a] = "begun"] ELSE promoting
      BY <1>3 DEF BeginApplying, MayBeDecided
    <2>3. \A b \in Approval :
            /\ approval'[b].kind = approval[b].kind
            /\ approval'[b].status = IF b = a THEN "applying" ELSE approval[b].status
      BY <1>0, <1>3, BecameTold DEF BeginApplying
    <2>4. QED
      BY <2>1, <2>2, <2>3 DEF EffectIsKnown, AtRest, ApprovalsTypeOK
  <1>4. CASE BeginFails(a)
    BY <1>4 DEF BeginFails, ApprovalsTypeOK, EffectIsKnown, AtRest
  <1>5. CASE Apply(a)
    <2>1. stretch = [of |-> a, at |-> "begun"] /\ approval' = approval /\ receipts' = receipts /\ life' = life
      BY <1>5 DEF Apply
    <2>2. approval[a].status = "applying" /\ applied[a] = 0
      BY <2>1 DEF EffectIsKnown
    <2>3. applied' = [applied EXCEPT ![a] = 1]
      BY <1>5, <2>2 DEF Apply, ApprovalsTypeOK
    <2>4. CASE approval[a].kind # "promotion" /\ stretch' = [of |-> a, at |-> "applied"] /\ promoting' = promoting
      BY <2>1, <2>2, <2>3, <2>4 DEF EffectIsKnown, ApprovalsTypeOK
    <2>5. CASE approval[a].kind = "promotion" /\ stretch' = AtRest /\ promoting' = [promoting EXCEPT ![a] = "resetting"]
      BY <2>1, <2>2, <2>3, <2>5 DEF EffectIsKnown, ApprovalsTypeOK, AtRest
    <2>6. QED
      BY <1>5, <2>4, <2>5 DEF Apply
  <1>6. CASE ApplyFails(a)
    BY <1>6 DEF ApplyFails, ApprovalsTypeOK, EffectIsKnown, AtRest
  <1>7. CASE ResetReturns(a)
    BY <1>7 DEF ResetReturns, ApprovalsTypeOK, EffectIsKnown, AtRest
  <1>8. CASE Resolve(a)
    <2>1. \/ stretch = [of |-> a, at |-> "applied"] /\ stretch' = AtRest
          \/ stretch = AtRest /\ promoting[a] = "reset" /\ stretch' = stretch
      BY <1>8 DEF Resolve
    <2>2. ApprovalsTypeOK'
      BY <1>0, <1>8, BecameTold, ReceiptTyped DEF Resolve, ApprovalsTypeOK, ApprovalRows, AtRest
    <2>3. applied[a] = 1 /\ applied' = applied /\ promoting' = [promoting EXCEPT ![a] = "no"]
      BY <1>8, <2>1 DEF Resolve, EffectIsKnown
    <2>4. \A b \in Approval :
            /\ approval'[b].kind = approval[b].kind
            /\ approval'[b].status = IF b = a THEN "confirmed" ELSE approval[b].status
      BY <1>0, <1>8, BecameTold DEF Resolve
    <2>5. QED
      BY <2>1, <2>2, <2>3, <2>4 DEF EffectIsKnown, AtRest, ApprovalsTypeOK
  <1>9. CASE ResolveFails(a)
    BY <1>9 DEF ResolveFails, ApprovalsTypeOK, EffectIsKnown, AtRest
  <1>10. CASE RejectApproval(a)
    <2>1. /\ stretch = AtRest /\ promoting[a] = "no" /\ approval[a].status = "pending"
          /\ applied' = applied /\ stretch' = stretch /\ promoting' = promoting
      BY <1>10 DEF RejectApproval, MayBeDecided
    <2>2. ApprovalsTypeOK'
      BY <1>0, <1>10, BecameTold, ReceiptTyped DEF RejectApproval, ApprovalsTypeOK, ApprovalRows
    <2>3. \A b \in Approval :
            /\ approval'[b].kind = approval[b].kind
            /\ approval'[b].status = IF b = a THEN "rejected" ELSE approval[b].status
      BY <1>0, <1>10, BecameTold DEF RejectApproval
    <2>4. applied[a] = 0
      BY <2>1 DEF EffectIsKnown
    <2>5. \A b \in Approval : stretch.of # b
      BY <2>1 DEF AtRest
    <2>6. EffectIsKnown'
      BY <2>1, <2>3, <2>4, <2>5 DEF EffectIsKnown
    <2>7. QED
      BY <2>2, <2>6
  <1>11. QED
    BY <1>1, <1>2, <1>3, <1>4, <1>5, <1>6, <1>7, <1>8, <1>9, <1>10 DEF ApprovalStep

LEMMA ApprovalsInvStep ==
  ASSUME ApprovalsInv, [ApprovalsNext]_approvalVars
  PROVE  ApprovalsInv'
  <1> USE ApprovalsAssumption DEF ApprovalsInv
  <1>1. CASE UNCHANGED approvalVars
    BY <1>1 DEF approvalVars, ApprovalsTypeOK, EffectIsKnown
  <1>2. ASSUME NEW a \in Approval, ApprovalStep(a)
        PROVE  ApprovalsInv'
    BY <1>2, StepKeepsApprovalsInv
  <1>3. CASE OpenLife
    BY <1>3 DEF OpenLife, ApprovalsTypeOK, EffectIsKnown, Lives
  <1>4. CASE ForgetConfirmations
    BY <1>4 DEF ForgetConfirmations, ApprovalsTypeOK, EffectIsKnown, AtRest
  <1>5. CASE ReconcileApprovals
    <2> DEFINE left == {a \in Approval : approval[a].status = "pending" /\ approval[a].life # life'}
    <2>1. /\ life < MaxLives /\ life' = life + 1
          /\ approval' = [a \in Approval |-> IF a \in left THEN [approval[a] EXCEPT !.status = "cancelled"] ELSE approval[a]]
          /\ receipts' = [a \in Approval |-> IF a \in left THEN Append(receipts[a], "cancelled") ELSE receipts[a]]
          /\ applied' = applied /\ stretch' = stretch /\ promoting' = promoting
      BY <1>5 DEF ReconcileApprovals
    <2>2. life' \in Lives
      BY <2>1 DEF ApprovalsTypeOK, Lives
    <2>3. approval' \in ApprovalRows
      <3> SUFFICES ASSUME NEW b \in Approval
                   PROVE  approval'[b] \in [status : ApprovalStatus, life : Lives \cup {0}, kind : ApprovalKind]
        BY <2>1 DEF ApprovalRows
      <3>1. approval[b] \in [status : ApprovalStatus, life : Lives \cup {0}, kind : ApprovalKind]
        BY DEF ApprovalsTypeOK
      <3>2. [approval[b] EXCEPT !.status = "cancelled"] \in [status : ApprovalStatus, life : Lives \cup {0}, kind : ApprovalKind]
        BY <3>1 DEF ApprovalStatus
      <3>3. QED
        BY <2>1, <3>1, <3>2
    <2>4. receipts' \in [Approval -> Seq(ApprovalStatus)]
      BY <2>1 DEF ApprovalsTypeOK, ApprovalStatus
    <2>5. ApprovalsTypeOK'
      BY <2>1, <2>2, <2>3, <2>4 DEF ApprovalsTypeOK, ApprovalRows
    <2>6. \A b \in Approval :
            /\ approval'[b].kind = approval[b].kind
            /\ \/ approval'[b].status = approval[b].status
               \/ approval[b].status = "pending" /\ approval'[b].status = "cancelled"
      BY <2>1 DEF ApprovalsTypeOK
    <2>7. EffectIsKnown'
      BY <2>1, <2>6 DEF EffectIsKnown
    <2>8. QED
      BY <2>5, <2>7
  <1>6. QED
    BY <1>1, <1>2, <1>3, <1>4, <1>5 DEF ApprovalsNext

\* The rows of the approvals stay typed, and what an effect has done follows from its
\* request's status and the place of its confirmation (confirmApproval, reconcile).
THEOREM ApprovalsInvariant == Spec => []ApprovalsInv
  <1>1. Init => ApprovalsInv
    BY ApprovalsInvInit
  <1>2. ApprovalsInv /\ [Next]_vars => ApprovalsInv'
    BY StepsOfApprovals, ApprovalsInvStep
  <1>3. QED
    BY <1>1, <1>2, PTL DEF Spec

\* An approval is being applied only while its durable status says so: no
\* confirmation runs twice, and none runs for a decided request.
THEOREM GatewayAttendsApplying == Spec => []ApplyingIsAttended
  <1>1. ApprovalsInv => ApplyingIsAttended
    <2> SUFFICES ASSUME ApprovalsInv, NEW a \in Approval,
                        promoting[a] # "no" \/ (stretch.of = a /\ stretch.at # "opened")
                 PROVE  approval[a].status = "applying"
      BY DEF ApplyingIsAttended
    <2> USE ApprovalsAssumption DEF ApprovalsInv
    <2>1. CASE promoting[a] # "no"
      BY <2>1 DEF ApprovalsTypeOK, EffectIsKnown
    <2>2. CASE stretch.of = a /\ stretch.at # "opened"
      <3>1. stretch.at \in {"begun", "applied"}
        BY <2>2 DEF ApprovalsTypeOK, EffectIsKnown
      <3>2. stretch = [of |-> a, at |-> "begun"] \/ stretch = [of |-> a, at |-> "applied"]
        BY <2>2, <3>1 DEF ApprovalsTypeOK
      <3>3. QED
        BY <3>2 DEF EffectIsKnown
    <2>3. QED
      BY <2>1, <2>2
  <1>2. QED
    BY <1>1, ApprovalsInvariant, PTL

-----------------------------------------------------------------------------
(* The refinement *)

\* The state functions that stand for the variables of Consent.
verdict == [a \in Approval |-> Verdict(a)]
asker == [a \in Approval |-> approval[a].life]

LEMMA PromiseInit == Init => Promise!Init
  BY ApprovalsAssumption DEF Init, ApprovalsInit, Promise!Init, Verdict, Lives

\* One request is decided, asked or carried out; the others are left alone.
LEMMA VerdictTold ==
  ASSUME ApprovalsInv, NEW a \in Approval, NEW status \in ApprovalStatus, Became(a, status)
  PROVE  /\ asker' = asker
         /\ status = "applying" => verdict' = [verdict EXCEPT ![a] = "granted"]
         /\ status = "confirmed" => verdict' = [verdict EXCEPT ![a] = "kept"]
         /\ status = "rejected" => verdict' = [verdict EXCEPT ![a] = "refused"]
  <1>1. /\ approval' \in ApprovalRows
        /\ \A b \in Approval : approval'[b].life = approval[b].life
                              /\ approval'[b].status = IF b = a THEN status ELSE approval[b].status
    BY BecameTold DEF ApprovalsInv, ApprovalsTypeOK, ApprovalRows
  <1>2. asker' = asker
    BY <1>1 DEF asker
  <1>3. \A b \in Approval : b # a => Verdict(b)' = Verdict(b)
    BY <1>1 DEF Verdict
  <1>4. /\ status = "applying" => Verdict(a)' = "granted"
        /\ status = "confirmed" => Verdict(a)' = "kept"
        /\ status = "rejected" => Verdict(a)' = "refused"
    BY <1>1 DEF Verdict
  <1>5. QED
    BY <1>2, <1>3, <1>4 DEF verdict

LEMMA ApprovalStepIsPromised ==
  ASSUME ApprovalsInv, NEW a \in Approval, ApprovalStep(a)
  PROVE  [Promise!Next]_(Promise!consentVars)
  <1> USE DEF ApprovalsInv, Promise!consentVars
  <1>1. ASSUME UNCHANGED approval, UNCHANGED applied, UNCHANGED life
        PROVE  UNCHANGED Promise!consentVars
    BY <1>1 DEF Verdict
  <1>2. CASE AskAutomatic(a) \/ \E kind \in {"asked", "promotion"} : AskApproval(a, kind)
    <2>1. PICK row : /\ row.status = "pending" /\ row.life = life
                     /\ approval' = [approval EXCEPT ![a] = row]
                     /\ approval[a].status = "unborn"
                     /\ applied' = applied /\ life' = life
      BY <1>2 DEF AskAutomatic, AskApproval
    <2>2. verdict[a] = "unasked" /\ verdict' = [verdict EXCEPT ![a] = "waiting"]
      BY <2>1 DEF verdict, Verdict, ApprovalsTypeOK
    <2>3. asker' = [asker EXCEPT ![a] = life]
      BY <2>1 DEF asker, ApprovalsTypeOK
    <2>4. Promise!Ask(a)
      BY <2>1, <2>2, <2>3 DEF Promise!Ask, verdict, asker
    <2>5. QED
      BY <2>4 DEF Promise!Next
  <1>3. CASE BeginApplying(a)
    <2>1. Became(a, "applying") /\ MayBeDecided(a) /\ applied' = applied /\ life' = life
      BY <1>3 DEF BeginApplying
    <2>2. verdict' = [verdict EXCEPT ![a] = "granted"] /\ asker' = asker
      BY <2>1, VerdictTold DEF ApprovalStatus
    <2>3. verdict[a] = "waiting" /\ asker[a] = life
      BY <2>1 DEF MayBeDecided, verdict, asker, Verdict
    <2>4. Promise!Grant(a)
      BY <2>1, <2>2, <2>3 DEF Promise!Grant, verdict, asker
    <2>5. QED
      BY <2>4 DEF Promise!Next
  <1>4. CASE Apply(a)
    <2>1. approval[a].status = "applying" /\ applied[a] = 0 /\ approval' = approval /\ life' = life
      BY <1>4 DEF Apply, EffectIsKnown
    <2>2. applied' = [applied EXCEPT ![a] = 1]
      BY <1>4, <2>1 DEF Apply
    <2>3. Promise!Touch(a)
      BY <2>1, <2>2 DEF Promise!Touch, Verdict
    <2>4. QED
      BY <2>3 DEF Promise!Next
  <1>5. CASE Resolve(a)
    <2>1. approval[a].status = "applying" /\ Became(a, "confirmed") /\ applied' = applied /\ life' = life
      BY <1>5 DEF Resolve
    <2>2. applied[a] = 1
      BY <1>5 DEF Resolve, EffectIsKnown
    <2>3. verdict' = [verdict EXCEPT ![a] = "kept"] /\ asker' = asker
      BY <2>1, VerdictTold DEF ApprovalStatus
    <2>4. verdict[a] = "granted"
      BY <2>1 DEF verdict, Verdict
    <2>5. Promise!Keep(a)
      BY <2>1, <2>2, <2>3, <2>4 DEF Promise!Keep, verdict, asker
    <2>6. QED
      BY <2>5 DEF Promise!Next
  <1>6. CASE RejectApproval(a)
    <2>1. Became(a, "rejected") /\ MayBeDecided(a) /\ applied' = applied /\ life' = life
      BY <1>6 DEF RejectApproval
    <2>2. verdict' = [verdict EXCEPT ![a] = "refused"] /\ asker' = asker
      BY <2>1, VerdictTold DEF ApprovalStatus
    <2>3. verdict[a] = "waiting" /\ asker[a] = life
      BY <2>1 DEF MayBeDecided, verdict, asker, Verdict
    <2>4. Promise!Refuse(a)
      BY <2>1, <2>2, <2>3 DEF Promise!Refuse, verdict, asker
    <2>5. QED
      BY <2>4 DEF Promise!Next
  <1>7. CASE BeginFails(a) \/ ApplyFails(a) \/ ResetReturns(a) \/ ResolveFails(a)
    BY <1>1, <1>7 DEF BeginFails, ApplyFails, ResetReturns, ResolveFails
  <1>8. QED
    BY <1>2, <1>3, <1>4, <1>5, <1>6, <1>7 DEF ApprovalStep

\* A change of life lets nothing lapse; a restart lets everything lapse that
\* another life had left waiting.
LEMMA LifeStepIsPromised ==
  ASSUME ApprovalsInv, OpenLife \/ ReconcileApprovals
  PROVE  Promise!Next
  <1> USE ApprovalsAssumption DEF ApprovalsInv
  <1>1. CASE OpenLife
    <2>1. life' \in Lives
      BY <1>1 DEF OpenLife, ApprovalsTypeOK, Lives
    <2>2. Promise!Pass({})
      BY <1>1, <2>1 DEF OpenLife, Promise!Pass, Verdict
    <2>3. QED
      BY <2>2 DEF Promise!Next
  <1>2. CASE ReconcileApprovals
    <2> DEFINE left == {a \in Approval : approval[a].status = "pending" /\ approval[a].life # life'}
    <2>1. /\ life < MaxLives /\ life' = life + 1
          /\ approval' = [a \in Approval |-> IF a \in left THEN [approval[a] EXCEPT !.status = "cancelled"] ELSE approval[a]]
          /\ applied' = applied
      BY <1>2 DEF ReconcileApprovals
    <2>2. life' \in Lives
      BY <2>1 DEF ApprovalsTypeOK, Lives
    <2>3. \A a \in Approval : approval'[a].life = approval[a].life
      BY <2>1 DEF ApprovalsTypeOK
    <2>4. \A a \in Approval : Verdict(a)' = IF a \in left THEN "refused" ELSE Verdict(a)
      <3> SUFFICES ASSUME NEW a \in Approval
                   PROVE  Verdict(a)' = IF a \in left THEN "refused" ELSE Verdict(a)
        OBVIOUS
      <3>1. CASE a \in left
        <4>1. approval'[a].status = "cancelled"
          BY <2>1, <3>1 DEF ApprovalsTypeOK
        <4>2. QED
          BY <3>1, <4>1 DEF Verdict
      <3>2. CASE a \notin left
        <4>1. approval'[a] = approval[a]
          BY <2>1, <3>2
        <4>2. QED
          BY <3>2, <4>1 DEF Verdict
      <3>3. QED
        BY <3>1, <3>2
    <2>5. left = {a \in Approval : verdict[a] = "waiting" /\ asker[a] # life'}
      BY DEF verdict, asker, Verdict
    <2>6. Promise!Pass(left)
      BY <2>1, <2>2, <2>3, <2>4, <2>5 DEF Promise!Pass, verdict, asker
    <2>7. left \in SUBSET Approval
      OBVIOUS
    <2>8. QED
      BY <2>6, <2>7 DEF Promise!Next
  <1>3. QED
    BY <1>1, <1>2

\* The Gateway keeps the promise of Consent: a request is granted once, by the
\* life that asked, before the checkout changes, which it does at most once and
\* never without the grant, whatever fails, dies or restarts in between.
THEOREM GatewayKeepsConsent == Spec => KeepsConsent
  <1>1. Init => Promise!Init
    BY PromiseInit
  <1>2. ApprovalsInv /\ [Next]_vars => [Promise!Next]_(Promise!consentVars)
    <2> SUFFICES ASSUME ApprovalsInv, [ApprovalsNext]_approvalVars
                 PROVE  [Promise!Next]_(Promise!consentVars)
      BY StepsOfApprovals
    <2>1. CASE UNCHANGED approvalVars
      BY <2>1 DEF approvalVars, Promise!consentVars, Verdict
    <2>2. ASSUME NEW a \in Approval, ApprovalStep(a)
          PROVE  [Promise!Next]_(Promise!consentVars)
      BY <2>2, ApprovalStepIsPromised
    <2>3. CASE OpenLife \/ ReconcileApprovals
      BY <2>3, LifeStepIsPromised
    <2>4. CASE ForgetConfirmations
      BY <2>4 DEF ForgetConfirmations, Promise!consentVars, Verdict
    <2>5. QED
      BY <2>1, <2>2, <2>3, <2>4 DEF ApprovalsNext
  <1>3. QED
    BY <1>1, <1>2, ApprovalsInvariant, PTL DEF Spec, KeepsConsent, Promise!Spec

\* What the promise is for: the checkout changes at most once per request.
THEOREM GatewayTouchesOnce == Spec => [](\A a \in Approval : applied[a] \in {0, 1})
  <1>1. ApprovalsInv => \A a \in Approval : applied[a] \in {0, 1}
    BY DEF ApprovalsInv, ApprovalsTypeOK, EffectIsKnown, ApprovalStatus
  <1>2. QED
    BY <1>1, ApprovalsInvariant, PTL

-----------------------------------------------------------------------------
(* The kiln: the inductive invariant *)

Active == overlay.status \in {"running", "stopping"}
Excused == child[overlay.run].cancelled = "reset"
StartUnderWay == call.at \in {"provisioning", "launched", "compensating"}

KilnEntry == [phase : {"none", "starting", "running", "compensating"},
              owner : {"nobody", "start_compensation", "resident_cancel", "hub_close"}, queued : BOOLEAN]
Runner == [active : Run \cup {NoRun}, closed : BOOLEAN, job : {"none", "ready", "spent"}, last : Run \cup {NoRun}]
Process == [state : {"none", "spawning", "live", "gone"},
            cancelled : {"no", "tool", "timeout", "commit", "close", "reset", "restart"},
            result : {"none"} \cup Terminal]
ProcessOfTheHubTyped == up \in BOOLEAN /\ crashes \in Nat /\ awaited \in [Approval -> Run \cup {NoRun}]

\* The runner's token is the process there is; its last result is a real one.
RunnerKnowsItsProcess ==
  /\ \A r \in Run : child[r].state \in {"spawning", "live"} <=> runner.active = r
  /\ \A r \in Run : child[r].state = "spawning" => call = [at |-> "provisioning", run |-> r]
  /\ \A r \in Run : child[r].result = "cancelled" => child[r].cancelled # "no"
  /\ runner.active # NoRun => runner.last = NoRun
  /\ runner.last # NoRun => child[runner.last].state = "gone" /\ child[runner.last].result \in Terminal

\* How far the tool in progress has come, and what its run has become meanwhile.
CallKnowsItsRun ==
  /\ call.at # "idle" => call.run \in Run
  /\ call.at = "provisioning" =>
       live /\ child[call.run].state = "spawning" /\ kilnRuns[call.run] = Fresh("starting")
  /\ StartUnderWay => overlay.run # call.run /\ runner.active \in {NoRun, call.run}
  /\ call.at = "launched" =>
       /\ ~runner.closed /\ stretch = AtRest
       /\ kilnRuns[call.run].phase = "starting" /\ kilnRuns[call.run].owner = "nobody"
       /\ IF kilnRuns[call.run].queued
          THEN child[call.run].state = "gone" /\ child[call.run].result \in Terminal
          ELSE child[call.run].state = "live"
  /\ call.at = "compensating" => child[call.run].state \in {"live", "gone"}
  /\ call.at = "cancelling" => call.run = overlay.run /\ child[call.run].cancelled # "no"

\* A process belongs to the overlay, or its start has not been committed.
OverlayKnowsItsRun ==
  /\ overlay.status # "absent" <=> overlay.run \in Run
  /\ overlay.run \in Run =>
       /\ child[overlay.run].state \in {"live", "gone"}
       /\ kilnRuns[overlay.run].phase \in {"none", "running"}
       /\ overlay.status \in Terminal => child[overlay.run].state = "gone"
  /\ \A r \in Run : child[r].state = "live" =>
       overlay.run = r \/ (call.at \in {"launched", "compensating"} /\ call.run = r)

\* While the process of the Hub is there, somebody will end a running overlay.
RunningIsFollowed ==
  /\ up /\ overlay.status = "running" =>
       \/ call = [at |-> "cancelling", run |-> overlay.run]
       \/ Excused
       \/ /\ child[overlay.run].state = "live"
          /\ kilnRuns[overlay.run].phase = "running" /\ kilnRuns[overlay.run].owner = "nobody"
          /\ ~(live /\ runner.closed)
  /\ up /\ closer.at = "open" => overlay.status # "stopping"
  /\ up /\ closer.at \in {"open", "waiting"} /\ Active =>
       /\ StartUnderWay => Excused
       /\ runner.last \in {NoRun, overlay.run} \/ Excused
  /\ ~up => /\ call = Idle /\ runner.active = NoRun /\ closer.at = "open" /\ stretch = AtRest
            /\ \A a \in Approval : promoting[a] = "no"

\* While a reset or the shutdown awaits the runner, no other process comes.
ResetsAwaitTheProcess ==
  \A a \in Approval : promoting[a] = "resetting" =>
    /\ awaited[a] \in Run => child[awaited[a]].state \in {"live", "gone"}
    /\ \A r \in Run : child[r].state = "live" => awaited[a] = r /\ runner.closed
    /\ ~runner.closed => call.at # "provisioning"

CloserAwaitsTheProcess ==
  closer.at = "waiting" =>
    /\ closer.run \in Run => child[closer.run].state \in {"live", "gone"}
    /\ live => /\ \A r \in Run : child[r].state = "live" => closer.run = r /\ runner.closed
               /\ ~runner.closed => call.at # "provisioning"
               /\ Active /\ runner.last = NoRun => Excused \/ child[overlay.run].state = "live"
    /\ overlay.status # "running" /\ call.at # "launched"
    /\ Active => closer.active

KilnInv ==
  /\ KilnTypeOK
  /\ ProcessOfTheHubTyped
  /\ RunnerKnowsItsProcess
  /\ CallKnowsItsRun
  /\ OverlayKnowsItsRun
  /\ RunningIsFollowed
  /\ NoCompletionIsInvented
  /\ ResetsAwaitTheProcess
  /\ CloserAwaitsTheProcess

LEMMA ProcessMoves ==
  ASSUME KilnTypeOK, NEW r \in Run, NEW s \in {"none", "spawning", "live", "gone"}
  PROVE  [child EXCEPT ![r].state = s] \in [Run -> Process]
  <1>1. child[r] \in Process
    BY DEF KilnTypeOK, Process
  <1>2. [child[r] EXCEPT !.state = s] \in Process
    BY <1>1 DEF Process
  <1>3. QED
    BY <1>2 DEF KilnTypeOK, Process

\* Only the process that runs is told that somebody wants its end.
LEMMA EndingTold ==
  ASSUME KilnTypeOK, NEW why \in {"tool", "commit", "close", "reset"}, Ending(why)
  PROVE  /\ child' \in [Run -> Process]
         /\ \A r \in Run : /\ child'[r].state = child[r].state
                           /\ child'[r].result = child[r].result
                           /\ child'[r].cancelled = IF r = runner.active /\ child[r].state = "live"
                                                    THEN why ELSE child[r].cancelled
  <1>1. \A r \in Run : child[r] \in Process
    BY DEF KilnTypeOK, Process
  <1>2. ASSUME NEW r \in Run
        PROVE  [child[r] EXCEPT !.cancelled = why] \in Process
    BY <1>1 DEF Process
  <1>3. child' \in [Run -> Process]
    BY <1>1, <1>2 DEF Ending
  <1>4. QED
    BY <1>1, <1>2, <1>3 DEF Ending, Process

LEMMA RunnerClosed ==
  ASSUME KilnTypeOK, NEW why \in {"close", "reset"}, CloseRunner(why)
  PROVE  /\ runner' \in Runner /\ runner'.closed /\ runner'.active = runner.active /\ runner'.last = runner.last
         /\ child' \in [Run -> Process]
         /\ \A r \in Run : /\ child'[r].state = child[r].state
                           /\ child'[r].result = child[r].result
                           /\ child'[r].cancelled = IF ~runner.closed /\ r = runner.active /\ child[r].state = "live"
                                                    THEN why ELSE child[r].cancelled
  <1>1. \A job \in {"none", "ready", "spent"} : [runner EXCEPT !.closed = TRUE, !.job = job] \in Runner
    BY DEF KilnTypeOK, Runner
  <1>2. /\ runner' \in Runner /\ runner'.closed
        /\ runner'.active = runner.active /\ runner'.last = runner.last
    BY <1>1 DEF CloseRunner, Spent, KilnTypeOK, Runner
  <1>3. CASE runner.closed
    BY <1>2, <1>3 DEF CloseRunner, KilnTypeOK, Process
  <1>4. CASE ~runner.closed
    BY <1>2, <1>4, EndingTold DEF CloseRunner
  <1>5. QED
    BY <1>3, <1>4

LEMMA ExecutingIsTheProcess ==
  ASSUME KilnTypeOK, RunnerKnowsItsProcess
  PROVE  /\ Executing \in Run \cup {NoRun}
         /\ Executing \in Run => child[Executing].state = "live"
         /\ \A r \in Run : child[r].state = "live" => Executing = r
  BY KilnAssumption DEF Executing, KilnTypeOK, RunnerKnowsItsProcess


\* What the shutdown does to the runner and its process, whichever runner it is.
LEMMA CloseTold ==
  ASSUME KilnTypeOK, Close
  PROVE  /\ closer.at = "open" /\ closer'.at = "waiting" /\ closer'.active = Active
         /\ closer'.run \in {Executing, NoRun}
         /\ live => runner'.closed /\ closer'.run = Executing
         /\ runner.closed => runner'.closed
         /\ runner'.active = runner.active /\ runner'.last = runner.last
         /\ live' = live /\ call' = call
         /\ overlay'.run = overlay.run /\ overlay'.status # "running" /\ Active' = Active
         /\ \A r \in Run : /\ child'[r].state = child[r].state /\ child'[r].result = child[r].result
                           /\ child'[r].cancelled \in {child[r].cancelled, "close"}
                           /\ child[r].state # "live" => child'[r].cancelled = child[r].cancelled
  <1>1. /\ runner.closed => runner'.closed
        /\ live => runner'.closed
        /\ runner'.active = runner.active /\ runner'.last = runner.last
        /\ \A r \in Run : /\ child'[r].state = child[r].state /\ child'[r].result = child[r].result
                          /\ child'[r].cancelled \in {child[r].cancelled, "close"}
                          /\ child[r].state # "live" => child'[r].cancelled = child[r].cancelled
    <2>1. CASE CloseRunner("close")
      BY <2>1, RunnerClosed
    <2>2. CASE ~live /\ Ending("close") /\ UNCHANGED runner
      BY <2>2, EndingTold
    <2>3. CASE ~live /\ UNCHANGED <<runner, child>>
      BY <2>3
    <2>4. QED
      BY <2>1, <2>2, <2>3 DEF Close, RequestClose
  <1>2. overlay'.run = overlay.run /\ overlay'.status # "running" /\ Active' = Active
    BY DEF Close, RequestClose, KilnTypeOK, Active
  <1>3. /\ closer'.at = "waiting" /\ closer'.active = Active /\ closer'.run \in {Executing, NoRun}
        /\ live => closer'.run = Executing
    BY DEF Close, RequestClose, Active
  <1>4. QED
    BY <1>1, <1>2, <1>3 DEF Close, RequestClose


\* A reset is due when the process it awaited has ended; no other has begun.
LEMMA ResetFindsNoProcess ==
  ASSUME KilnInv, NEW a \in Approval, FinishReset(a)
  PROVE  call.at # "provisioning" /\ \A r \in Run : child[r].state \notin {"spawning", "live"}
  <1> USE KilnAssumption DEF KilnInv
  <1>1. promoting[a] = "resetting" /\ Over(awaited[a]) /\ call.at # "provisioning"
    BY DEF FinishReset, ResetReturns, ResetDue
  <1>2. ASSUME NEW r \in Run, child[r].state = "live"
        PROVE  FALSE
    BY <1>1, <1>2 DEF ResetsAwaitTheProcess, Over
  <1>3. ASSUME NEW r \in Run, child[r].state = "spawning"
        PROVE  FALSE
    BY <1>1, <1>3 DEF RunnerKnowsItsProcess
  <1>4. QED
    BY <1>1, <1>2, <1>3

\* The effect of a promotion marks the process that runs as ended by a reset.
LEMMA EffectOnTheKiln ==
  ASSUME KilnTypeOK, NEW a \in Approval, TakeEffect(a)
  PROVE  /\ UNCHANGED <<live, overlay, kilnRuns, call, closer>>
         /\ runner' \in Runner /\ runner'.active = runner.active /\ runner'.last = runner.last
         /\ runner.closed => runner'.closed
         /\ child' \in [Run -> Process]
         /\ \A r \in Run : /\ child'[r].state = child[r].state /\ child'[r].result = child[r].result
                           /\ child'[r].cancelled \in {child[r].cancelled, "reset"}
  <1>1. CASE CloseRunner("reset") /\ UNCHANGED <<live, overlay, kilnRuns, call, closer>>
    BY <1>1, RunnerClosed
  <1>2. CASE UNCHANGED kilnVars
    BY <1>2 DEF kilnVars, KilnTypeOK, Runner, Process
  <1>3. QED
    BY <1>1, <1>2 DEF TakeEffect

LEMMA EffectFindsNoLaunch ==
  ASSUME KilnInv, NEW a \in Approval, TakeEffect(a)
  PROVE  call.at # "launched"
  BY DEF KilnInv, TakeEffect, Apply, AtRest, CallKnowsItsRun

-----------------------------------------------------------------------------
(* KilnInv through every step *)

\* A run is asked for: its entry is fresh and its process is being spawned.
LEMMA RunStarts ==
  ASSUME KilnInv, NEW r \in Run, Free, RunRecipe(r), UNCHANGED <<approvalVars, up, crashes, awaited>>
  PROVE  KilnInv'
  <1> USE KilnAssumption DEF KilnInv
  <1>1. KilnTypeOK'
    <2>1. kilnRuns' \in [Run -> KilnEntry]
      BY DEF RunRecipe, Fresh, KilnTypeOK, KilnEntry
    <2>2. runner' \in Runner
      BY DEF RunRecipe, KilnTypeOK, Runner
    <2>3. child' \in [Run -> Process]
      <3>1. KilnTypeOK
        OBVIOUS
      <3>2. \A q \in Run, s \in {"none", "spawning", "live", "gone"} :
              [child EXCEPT ![q].state = s] \in [Run -> Process]
        BY <3>1, ProcessMoves
      <3>3. child' = [child EXCEPT ![r].state = "spawning"] \/ child' = [child EXCEPT ![r].state = "live"]
        BY DEF RunRecipe
      <3>4. QED
        BY <3>2, <3>3
    <2>4. call' \in [at : {"idle", "provisioning", "launched", "compensating", "cancelling"}, run : Run \cup {NoRun}]
      BY DEF RunRecipe
    <2>5. /\ live' \in BOOLEAN
          /\ overlay' \in [status : {"absent", "running", "stopping"} \cup Terminal, run : Run \cup {NoRun}]
          /\ closer' \in [at : {"open", "waiting", "closed", "failed"}, run : Run \cup {NoRun}, active : BOOLEAN]
      BY DEF RunRecipe, KilnTypeOK
    <2>6. QED
      BY <2>1, <2>2, <2>3, <2>4, <2>5 DEF KilnTypeOK, KilnEntry, Runner, Process
  <1>2. ProcessOfTheHubTyped'
    BY DEF ProcessOfTheHubTyped
  <1>3. RunnerKnowsItsProcess'
    <2>1. /\ runner' = [runner EXCEPT !.active = r, !.last = NoRun]
          /\ runner'.active = r /\ runner'.last = NoRun
      BY DEF RunRecipe, KilnTypeOK
    <2>2. \A q \in Run : child[q].state \notin {"spawning", "live"}
      BY DEF RunRecipe, RunnerKnowsItsProcess
    <2>3. CASE live /\ call' = [at |-> "provisioning", run |-> r] /\ child' = [child EXCEPT ![r].state = "spawning"]
      BY <2>1, <2>2, <2>3 DEF KilnTypeOK, RunnerKnowsItsProcess
    <2>4. CASE ~live /\ child' = [child EXCEPT ![r].state = "live"]
      BY <2>1, <2>2, <2>4 DEF KilnTypeOK, RunnerKnowsItsProcess
    <2>5. QED
      BY <2>3, <2>4 DEF RunRecipe
  <1>4. CallKnowsItsRun'
    BY DEF RunRecipe, approvalVars, Free, Between, Fresh, KilnTypeOK, CallKnowsItsRun, OverlayKnowsItsRun
  <1>5. OverlayKnowsItsRun'
    BY DEF RunRecipe, Idle, KilnTypeOK, OverlayKnowsItsRun
  <1>6. RunningIsFollowed'
    BY DEF RunRecipe, Free, Between, SomethingDue, ContinuationDue, Over, KilnTypeOK, RunnerKnowsItsProcess,
           OverlayKnowsItsRun, RunningIsFollowed, CloserAwaitsTheProcess, Active, Excused, StartUnderWay
  <1>7. NoCompletionIsInvented'
    BY DEF RunRecipe, approvalVars, KilnTypeOK, OverlayKnowsItsRun, NoCompletionIsInvented
  <1>8. ResetsAwaitTheProcess'
    <2> SUFFICES ASSUME NEW a \in Approval, promoting'[a] = "resetting"
                 PROVE  FALSE
      BY DEF ResetsAwaitTheProcess
    <2>1. promoting[a] = "resetting" /\ ~ResetDue(a) /\ call = Idle /\ ~runner.closed
      BY DEF approvalVars, Free, SomethingDue, RunRecipe
    <2>2. ~Over(awaited[a])
      BY <2>1 DEF ResetDue, Idle
    <2>3. awaited[a] \in Run /\ child[awaited[a]].state = "live"
      BY <2>2, <2>1 DEF Over, ProcessOfTheHubTyped, ResetsAwaitTheProcess
    <2>4. QED
      BY <2>1, <2>3 DEF ResetsAwaitTheProcess
  <1>9. CloserAwaitsTheProcess'
    BY DEF RunRecipe, Free, SomethingDue, ContinuationDue, Over, KilnTypeOK, RunnerKnowsItsProcess, CallKnowsItsRun,
           CloserAwaitsTheProcess
  <1>10. QED
    BY <1>1, <1>2, <1>3, <1>4, <1>5, <1>6, <1>7, <1>8, <1>9

\* The process is there and the call waits for its start to be committed.
LEMMA Launches ==
  ASSUME KilnInv, NEW r \in Run, Free, Launch(r), UNCHANGED <<approvalVars, up, crashes, awaited>>
  PROVE  KilnInv'
  <1> USE KilnAssumption DEF KilnInv
  <1>1. KilnTypeOK'
    <2>1. runner' \in Runner
      BY DEF Launch, KilnTypeOK, Runner
    <2>2. child' \in [Run -> Process]
      BY ProcessMoves DEF Launch
    <2>3. QED
      BY <2>1, <2>2 DEF Launch, KilnTypeOK, Runner, Process
  <1>2. ProcessOfTheHubTyped'
    BY DEF ProcessOfTheHubTyped
  <1>3. RunnerKnowsItsProcess'
    <2>1. child[r].state = "spawning" /\ runner.active = r /\ runner.last = NoRun
      BY DEF Launch, Idle, RunnerKnowsItsProcess, CallKnowsItsRun
    <2>2. runner'.active = runner.active /\ runner'.last = runner.last
      BY DEF Launch, KilnTypeOK
    <2>3. \A q \in Run : /\ child'[q].state = IF q = r THEN "live" ELSE child[q].state
                         /\ child'[q].result = child[q].result /\ child'[q].cancelled = child[q].cancelled
      BY DEF Launch, KilnTypeOK
    <2>4. QED
      BY <2>1, <2>2, <2>3 DEF Launch, RunnerKnowsItsProcess
  <1>4. CallKnowsItsRun'
    <2>1. child'[r].state = "live" /\ call' = [at |-> "launched", run |-> r] /\ ~runner'.closed
      BY DEF Launch, KilnTypeOK
    <2>2. kilnRuns[r] = Fresh("starting") /\ overlay.run # r
      BY DEF Launch, CallKnowsItsRun, StartUnderWay
    <2>3. QED
      BY <2>1, <2>2 DEF Launch, CallKnowsItsRun, StartUnderWay, Fresh, approvalVars, Free, Between
  <1>5. OverlayKnowsItsRun'
    BY DEF Launch, CallKnowsItsRun, OverlayKnowsItsRun
  <1>6. RunningIsFollowed'
    BY DEF Launch, Idle, RunningIsFollowed, Active, Excused, StartUnderWay
  <1>7. NoCompletionIsInvented'
    BY DEF Launch, approvalVars, NoCompletionIsInvented
  <1>8. ResetsAwaitTheProcess'
    BY DEF Launch, approvalVars, ResetsAwaitTheProcess
  <1>9. CloserAwaitsTheProcess'
    BY DEF Launch, CallKnowsItsRun, CloserAwaitsTheProcess
  <1>10. QED
    BY <1>1, <1>2, <1>3, <1>4, <1>5, <1>6, <1>7, <1>8, <1>9

\* The process could not be spawned; nothing of it is left.
LEMMA LaunchFailing ==
  ASSUME KilnInv, NEW r \in Run, Free, LaunchFails(r), UNCHANGED <<approvalVars, up, crashes, awaited>>
  PROVE  KilnInv'
  <1> USE KilnAssumption DEF KilnInv
  <1>1. KilnTypeOK'
    <2>1. kilnRuns' \in [Run -> KilnEntry]
      BY DEF LaunchFails, Untracked, KilnTypeOK, KilnEntry
    <2>2. runner' \in Runner
      BY DEF LaunchFails, KilnTypeOK, Runner
    <2>3. child' \in [Run -> Process]
      BY ProcessMoves DEF LaunchFails
    <2>4. QED
      BY <2>1, <2>2, <2>3 DEF LaunchFails, Idle, KilnTypeOK, KilnEntry, Runner, Process
  <1>2. ProcessOfTheHubTyped'
    BY DEF ProcessOfTheHubTyped
  <1>3. RunnerKnowsItsProcess'
    BY DEF LaunchFails, Idle, KilnTypeOK, RunnerKnowsItsProcess
  <1>4. CallKnowsItsRun'
    BY DEF LaunchFails, Idle, CallKnowsItsRun, StartUnderWay
  <1>5. OverlayKnowsItsRun'
    BY DEF LaunchFails, Untracked, OverlayKnowsItsRun
  <1>6. RunningIsFollowed'
    BY DEF LaunchFails, RunnerKnowsItsProcess, CallKnowsItsRun, RunningIsFollowed, Active, Excused, StartUnderWay
  <1>7. NoCompletionIsInvented'
    BY DEF LaunchFails, approvalVars, NoCompletionIsInvented
  <1>8. ResetsAwaitTheProcess'
    BY DEF LaunchFails, approvalVars, ResetsAwaitTheProcess
  <1>9. CloserAwaitsTheProcess'
    BY DEF LaunchFails, Idle, CallKnowsItsRun, CloserAwaitsTheProcess, Active, Excused
  <1>10. QED
    BY <1>1, <1>2, <1>3, <1>4, <1>5, <1>6, <1>7, <1>8, <1>9

\* The start is committed; a completion that came before it is installed over it.
LEMMA StartCommitted ==
  ASSUME KilnInv, NEW r \in Run, up, CommitStart(r), UNCHANGED <<approvalVars, up, crashes, awaited>>
  PROVE  KilnInv'
  <1> USE KilnAssumption DEF KilnInv
  <1>1. KilnTypeOK'
    BY DEF CommitStart, Untracked, Idle, KilnTypeOK, CallKnowsItsRun
  <1>2. ProcessOfTheHubTyped'
    BY DEF ProcessOfTheHubTyped
  <1>3. RunnerKnowsItsProcess'
    BY DEF CommitStart, RunnerKnowsItsProcess
  <1>4. CallKnowsItsRun'
    BY DEF CommitStart, Idle, CallKnowsItsRun, StartUnderWay
  <1>5. OverlayKnowsItsRun'
    <2>1. /\ overlay'.run = r /\ child' = child /\ call'.at = "idle"
          /\ overlay'.status \in IF kilnRuns[r].queued THEN Terminal ELSE {"running"}
          /\ child[r].state = IF kilnRuns[r].queued THEN "gone" ELSE "live"
      BY DEF CommitStart, Idle, CallKnowsItsRun
    <2>2. kilnRuns'[r].phase \in {"none", "running"}
      BY DEF CommitStart, Untracked, KilnTypeOK
    <2>3. \A q \in Run : child[q].state = "live" => q = r
      BY DEF OverlayKnowsItsRun, CommitStart, Installed, From
    <2>4. QED
      BY <2>1, <2>2, <2>3 DEF OverlayKnowsItsRun, Terminal
  <1>6. RunningIsFollowed'
    BY DEF CommitStart, Idle, KilnTypeOK, RunnerKnowsItsProcess, CallKnowsItsRun, RunningIsFollowed, Active,
           StartUnderWay, Terminal
  <1>7. NoCompletionIsInvented'
    BY DEF CommitStart, RunnerKnowsItsProcess, NoCompletionIsInvented
  <1>8. ResetsAwaitTheProcess'
    BY DEF CommitStart, approvalVars, Idle, ResetsAwaitTheProcess
  <1>9. CloserAwaitsTheProcess'
    BY DEF CommitStart, CloserAwaitsTheProcess
  <1>10. QED
    BY <1>1, <1>2, <1>3, <1>4, <1>5, <1>6, <1>7, <1>8, <1>9

\* The start is refused and its process is ended in compensation.
LEMMA StartRefused ==
  ASSUME KilnInv, NEW r \in Run, up, CommitStartFails(r), UNCHANGED <<approvalVars, up, crashes, awaited>>
  PROVE  KilnInv'
  <1> USE KilnAssumption DEF KilnInv
  <1>1. KilnTypeOK'
    <2>1. runner' \in Runner
      BY DEF CommitStartFails, Spent, KilnTypeOK, Runner
    <2>2. child' \in [Run -> Process]
      BY EndingTold DEF CommitStartFails
    <2>3. QED
      BY <2>1, <2>2 DEF CommitStartFails, KilnTypeOK, Runner, Process
  <1>2. ProcessOfTheHubTyped'
    BY DEF ProcessOfTheHubTyped
  <1>3. RunnerKnowsItsProcess'
    BY DEF CommitStartFails, Ending, KilnTypeOK, RunnerKnowsItsProcess
  <1>4. CallKnowsItsRun'
    BY DEF CommitStartFails, Ending, CallKnowsItsRun, StartUnderWay
  <1>5. OverlayKnowsItsRun'
    BY DEF CommitStartFails, Ending, CallKnowsItsRun, OverlayKnowsItsRun
  <1>6. RunningIsFollowed'
    <2>1. /\ overlay' = overlay /\ up' = up /\ closer' = closer /\ live' = live
          /\ call.run = r /\ call' = [at |-> "compensating", run |-> r]
          /\ runner'.last = runner.last /\ runner'.closed = runner.closed
      BY DEF CommitStartFails, KilnTypeOK
    <2>2. overlay.run # r
      BY DEF CommitStartFails, CallKnowsItsRun, StartUnderWay
    <2>3. runner.active \in {r, NoRun}
      BY DEF CommitStartFails, CallKnowsItsRun, StartUnderWay
    <2>4. \A q \in Run \ {r} : kilnRuns'[q] = kilnRuns[q] /\ child'[q] = child[q]
      BY <2>3 DEF CommitStartFails, Ending, KilnTypeOK
    <2>5. up /\ Active /\ closer.at \in {"open", "waiting"} => Excused /\ overlay.run \in Run
      BY DEF CommitStartFails, RunningIsFollowed, OverlayKnowsItsRun, Active, StartUnderWay
    <2>6. up /\ Active /\ closer.at \in {"open", "waiting"} => Excused'
      BY <2>1, <2>2, <2>4, <2>5 DEF Excused
    <2>7. up /\ overlay.status = "running" => overlay.run \in Run
      BY DEF OverlayKnowsItsRun
    <2>8. up
      OBVIOUS
    <2>9. QED
      BY <2>1, <2>2, <2>4, <2>6, <2>7, <2>8 DEF RunningIsFollowed, Active, Excused
  <1>7. NoCompletionIsInvented'
    BY DEF CommitStartFails, approvalVars, Ending, OverlayKnowsItsRun, NoCompletionIsInvented, Terminal
  <1>8. ResetsAwaitTheProcess'
    BY DEF CommitStartFails, approvalVars, Ending, ResetsAwaitTheProcess
  <1>9. CloserAwaitsTheProcess'
    BY DEF CommitStartFails, CloserAwaitsTheProcess
  <1>10. QED
    BY <1>1, <1>2, <1>3, <1>4, <1>5, <1>6, <1>7, <1>8, <1>9

\* The compensation returns.
LEMMA CompensationDone ==
  ASSUME KilnInv, NEW r \in Run, Between, Compensated(r), UNCHANGED <<approvalVars, up, crashes, awaited>>
  PROVE  KilnInv'
  <1> USE KilnAssumption DEF KilnInv
  <1>1. KilnTypeOK'
    BY DEF Compensated, Untracked, Idle, KilnTypeOK
  <1>2. ProcessOfTheHubTyped'
    BY DEF ProcessOfTheHubTyped
  <1>3. RunnerKnowsItsProcess'
    BY DEF Compensated, RunnerKnowsItsProcess
  <1>4. CallKnowsItsRun'
    BY DEF Compensated, Idle, CallKnowsItsRun, StartUnderWay
  <1>5. OverlayKnowsItsRun'
    BY DEF Compensated, Over, Untracked, OverlayKnowsItsRun
  <1>6. RunningIsFollowed'
    BY DEF Compensated, Over, Idle, RunningIsFollowed, Active, Excused, StartUnderWay
  <1>7. NoCompletionIsInvented'
    BY DEF Compensated, approvalVars, NoCompletionIsInvented
  <1>8. ResetsAwaitTheProcess'
    BY DEF Compensated, approvalVars, Idle, ResetsAwaitTheProcess
  <1>9. CloserAwaitsTheProcess'
    BY DEF Compensated, Idle, CloserAwaitsTheProcess, Active, Excused
  <1>10. QED
    BY <1>1, <1>2, <1>3, <1>4, <1>5, <1>6, <1>7, <1>8, <1>9

\* The Resident asks for the run to be ended.
LEMMA CancelRequested ==
  ASSUME KilnInv, Free, RequestCancel, UNCHANGED <<approvalVars, up, crashes, awaited>>
  PROVE  KilnInv'
  <1> USE KilnAssumption DEF KilnInv
  <1>1. KilnTypeOK'
    <2>1. overlay.run \in Run
      BY DEF RequestCancel, OverlayKnowsItsRun
    <2>2. kilnRuns' \in [Run -> KilnEntry]
      <3>1. \A e \in KilnEntry, o \in {"nobody", "resident_cancel"} : [e EXCEPT !.owner = o] \in KilnEntry
        BY DEF KilnEntry
      <3>2. Fresh("running") \in KilnEntry /\ kilnRuns \in [Run -> KilnEntry]
        BY DEF Fresh, KilnTypeOK, KilnEntry
      <3>3. QED
        BY <2>1, <3>1, <3>2 DEF RequestCancel
    <2>3. runner' \in Runner /\ child' \in [Run -> Process]
      <3>1. CASE UNCHANGED <<runner, child>>
        BY <3>1 DEF KilnTypeOK, Runner, Process
      <3>2. CASE Ending("tool") /\ runner' = [runner EXCEPT !.job = Spent(@)]
        BY <3>2, EndingTold DEF Spent, KilnTypeOK, Runner
      <3>3. QED
        BY <3>1, <3>2 DEF RequestCancel
    <2>4. call' \in [at : {"idle", "cancelling"}, run : Run \cup {NoRun}]
      BY <2>1 DEF RequestCancel, Idle
    <2>5. QED
      BY <2>2, <2>3, <2>4 DEF RequestCancel, KilnTypeOK, KilnEntry, Runner, Process
  <1>2. ProcessOfTheHubTyped'
    BY DEF ProcessOfTheHubTyped
  <1>3. RunnerKnowsItsProcess'
    <2>1. CASE UNCHANGED <<runner, child, call>>
      BY <2>1 DEF RunnerKnowsItsProcess
    <2>2. CASE Ending("tool") /\ runner' = [runner EXCEPT !.job = Spent(@)]
      <3>1. runner'.active = runner.active /\ runner'.last = runner.last
        BY <2>2 DEF KilnTypeOK
      <3>2. \A q \in Run : child[q].state # "spawning"
        BY DEF RequestCancel, Idle, RunnerKnowsItsProcess
      <3>3. QED
        BY SMTT(30), <2>2, <3>1, <3>2, EndingTold DEF KilnTypeOK, RunnerKnowsItsProcess
    <2>3. QED
      BY <2>1, <2>2 DEF RequestCancel
  <1>4. CallKnowsItsRun'
    BY DEF RequestCancel, Ending, Idle, KilnTypeOK, RunnerKnowsItsProcess, CallKnowsItsRun, OverlayKnowsItsRun,
           RunningIsFollowed, Excused, StartUnderWay
  <1>5. OverlayKnowsItsRun'
    <2>1. overlay' = overlay /\ overlay.run \in Run /\ call = Idle
      BY DEF RequestCancel, OverlayKnowsItsRun
    <2>2. \A q \in Run : child'[q].state = child[q].state
      BY EndingTold DEF RequestCancel
    <2>3. kilnRuns'[overlay.run].phase \in {"none", "running"}
      BY <2>1 DEF RequestCancel, Fresh, KilnTypeOK, OverlayKnowsItsRun
    <2>4. QED
      BY <2>1, <2>2, <2>3 DEF OverlayKnowsItsRun, Idle
  <1>6. RunningIsFollowed'
    BY DEF RequestCancel, Free, Between, KilnTypeOK, RunnerKnowsItsProcess, RunningIsFollowed, Active, Excused,
           StartUnderWay
  <1>7. NoCompletionIsInvented'
    BY DEF RequestCancel, NoCompletionIsInvented
  <1>8. ResetsAwaitTheProcess'
    <2>1. \A q \in Run : child'[q].state = child[q].state
      BY EndingTold DEF RequestCancel
    <2>2. runner'.closed = runner.closed /\ (call'.at = "provisioning" => call.at = "provisioning")
      BY DEF RequestCancel, KilnTypeOK
    <2>3. QED
      BY <2>1, <2>2 DEF approvalVars, ProcessOfTheHubTyped, ResetsAwaitTheProcess
  <1>9. CloserAwaitsTheProcess'
    BY DEF RequestCancel, CloserAwaitsTheProcess
  <1>10. QED
    BY <1>1, <1>2, <1>3, <1>4, <1>5, <1>6, <1>7, <1>8, <1>9

\* The ended run is installed as what its process told.
LEMMA CancelDone ==
  ASSUME KilnInv, Between, CancelSettles, UNCHANGED <<approvalVars, up, crashes, awaited>>
  PROVE  KilnInv'
  <1> USE KilnAssumption DEF KilnInv
  <1>1. KilnTypeOK'
    BY DEF CancelSettles, Note, Untracked, Idle, KilnTypeOK, CallKnowsItsRun, Terminal
  <1>2. ProcessOfTheHubTyped'
    BY DEF ProcessOfTheHubTyped
  <1>3. RunnerKnowsItsProcess'
    BY DEF CancelSettles, RunnerKnowsItsProcess
  <1>4. CallKnowsItsRun'
    BY DEF CancelSettles, Idle, CallKnowsItsRun, StartUnderWay
  <1>5. OverlayKnowsItsRun'
    BY DEF CancelSettles, Over, Note, Installed, From, Untracked, OverlayKnowsItsRun
  <1>6. RunningIsFollowed'
    BY DEF CancelSettles, Note, Installed, From, Idle, RunningIsFollowed, Active, Excused, StartUnderWay
  <1>7. NoCompletionIsInvented'
    BY DEF CancelSettles, Note, CallKnowsItsRun, NoCompletionIsInvented
  <1>8. ResetsAwaitTheProcess'
    BY DEF CancelSettles, approvalVars, Idle, ResetsAwaitTheProcess
  <1>9. CloserAwaitsTheProcess'
    BY DEF CancelSettles, Note, Idle, CloserAwaitsTheProcess, Active, Excused
  <1>10. QED
    BY <1>1, <1>2, <1>3, <1>4, <1>5, <1>6, <1>7, <1>8, <1>9

\* The runner's own timeout ends a process and leaves the rest to its completion.
LEMMA TimesOut ==
  ASSUME KilnInv, NEW r \in Run, Free, TimeOut(r), UNCHANGED <<approvalVars, up, crashes, awaited>>
  PROVE  KilnInv'
  <1> USE KilnAssumption DEF KilnInv
  <1>1. KilnTypeOK'
    BY DEF TimeOut, Free, Spent, KilnTypeOK, RunnerKnowsItsProcess
  <1>2. ProcessOfTheHubTyped'
    BY DEF ProcessOfTheHubTyped
  <1>3. RunnerKnowsItsProcess'
    BY DEF TimeOut, RunnerKnowsItsProcess
  <1>4. CallKnowsItsRun'
    BY DEF TimeOut, Free, Between, CallKnowsItsRun, StartUnderWay
  <1>5. OverlayKnowsItsRun'
    BY DEF TimeOut, OverlayKnowsItsRun
  <1>6. RunningIsFollowed'
    BY DEF TimeOut, Free, Between, RunningIsFollowed, Active, Excused, StartUnderWay
  <1>7. NoCompletionIsInvented'
    BY DEF TimeOut, approvalVars, NoCompletionIsInvented
  <1>8. ResetsAwaitTheProcess'
    BY DEF TimeOut, approvalVars, ResetsAwaitTheProcess
  <1>9. CloserAwaitsTheProcess'
    BY DEF TimeOut, CloserAwaitsTheProcess, Active, Excused
  <1>10. QED
    BY <1>1, <1>2, <1>3, <1>4, <1>5, <1>6, <1>7, <1>8, <1>9

\* A process ends, by itself or because it was told to.
LEMMA ProcessEnds ==
  ASSUME KilnInv, NEW r \in Run, RecipeEnds(r)
  PROVE  KilnInv'
  <1> USE KilnAssumption DEF KilnInv
  <1>1. KilnTypeOK'
    <2>1. PICK result \in Terminal :
            /\ child' = [child EXCEPT ![r].state = "gone", ![r].result = result]
            /\ \/ UNCHANGED <<overlay, kilnRuns>>
               \/ Completion(r, kilnRuns[r], result)
      BY DEF RecipeEnds, ChildEnds
    <2>2. child' \in [Run -> Process]
      <3>1. child[r] \in Process /\ child \in [Run -> Process]
        BY DEF KilnTypeOK, Process
      <3>2. [child[r] EXCEPT !.state = "gone", !.result = result] \in Process
        BY <3>1 DEF Process
      <3>3. QED
        BY <2>1, <3>1, <3>2
    <2>3. runner' \in Runner
      BY DEF RecipeEnds, ChildEnds, KilnTypeOK, Runner
    <2>4. kilnRuns' \in [Run -> KilnEntry]
      <3>1. kilnRuns \in [Run -> KilnEntry] /\ Untracked \in KilnEntry
        BY DEF KilnTypeOK, KilnEntry, Untracked
      <3>2. [kilnRuns[r] EXCEPT !.queued = TRUE] \in KilnEntry
        BY <3>1 DEF KilnEntry
      <3>3. QED
        BY <2>1, <3>1, <3>2 DEF Completion
    <2>5. overlay' \in [status : {"absent", "running", "stopping"} \cup Terminal, run : Run \cup {NoRun}]
      BY <2>1 DEF Completion, Note, KilnTypeOK
    <2>6. QED
      BY <2>2, <2>3, <2>4, <2>5 DEF RecipeEnds, ChildEnds, KilnTypeOK, KilnEntry, Runner, Process
  <1>2. ProcessOfTheHubTyped'
    BY DEF RecipeEnds, ProcessOfTheHubTyped
  <1>3. RunnerKnowsItsProcess'
    BY DEF RecipeEnds, ChildEnds, KilnTypeOK, RunnerKnowsItsProcess
  <1>4. CallKnowsItsRun'
    BY DEF RecipeEnds, ChildEnds, approvalVars, Completion, Note, Installed, KilnTypeOK, CallKnowsItsRun, StartUnderWay
  <1>5. OverlayKnowsItsRun'
    BY DEF RecipeEnds, ChildEnds, Completion, Note, Installed, Untracked, KilnTypeOK, OverlayKnowsItsRun
  <1>6. RunningIsFollowed'
    BY DEF RecipeEnds, ChildEnds, Completion, Note, Installed, From, KilnTypeOK, OverlayKnowsItsRun, RunningIsFollowed,
           Active, Excused, StartUnderWay
  <1>7. NoCompletionIsInvented'
    BY DEF RecipeEnds, ChildEnds, approvalVars, Completion, Note, KilnTypeOK, OverlayKnowsItsRun,
           NoCompletionIsInvented
  <1>8. ResetsAwaitTheProcess'
    BY DEF RecipeEnds, ChildEnds, approvalVars, KilnTypeOK, ResetsAwaitTheProcess
  <1>9. CloserAwaitsTheProcess'
    BY DEF RecipeEnds, ChildEnds, Completion, Note, KilnTypeOK, CloserAwaitsTheProcess, Active
  <1>10. QED
    BY <1>1, <1>2, <1>3, <1>4, <1>5, <1>6, <1>7, <1>8, <1>9

\* A close of the kiln: its runner is told to end.
LEMMA CloseRequested ==
  ASSUME KilnInv, Close
  PROVE  KilnInv'
  <1> USE KilnAssumption DEF KilnInv
  <1>1. KilnTypeOK'
    <2>1. runner' \in Runner /\ child' \in [Run -> Process]
      <3>1. CASE CloseRunner("close")
        BY <3>1, RunnerClosed
      <3>2. CASE Ending("close") /\ UNCHANGED runner
        BY <3>2, EndingTold DEF KilnTypeOK, Runner
      <3>3. CASE UNCHANGED <<runner, child>>
        BY <3>3 DEF KilnTypeOK, Runner, Process
      <3>4. QED
        BY <3>1, <3>2, <3>3 DEF Close, RequestClose
    <2>2. kilnRuns' \in [Run -> KilnEntry]
      <3>1. kilnRuns \in [Run -> KilnEntry] /\ \A e \in KilnEntry : [e EXCEPT !.owner = "hub_close"] \in KilnEntry
        BY DEF KilnTypeOK, KilnEntry
      <3>2. QED
        BY <3>1 DEF Close, RequestClose
    <2>3. closer' \in [at : {"waiting"}, run : Run \cup {NoRun}, active : BOOLEAN]
      <3>1. Executing \in Run \cup {NoRun}
        BY ExecutingIsTheProcess
      <3>2. \E x \in {Executing, NoRun} : closer' = [at |-> "waiting", run |-> x, active |-> overlay.status \in {"running", "stopping"}]
        BY DEF Close, RequestClose
      <3>3. QED
        BY <3>1, <3>2
    <2>4. overlay' \in [status : {"absent", "running", "stopping"} \cup Terminal, run : Run \cup {NoRun}]
      BY DEF Close, RequestClose, KilnTypeOK
    <2>5. live' = live /\ call' = call
      BY DEF Close, RequestClose
    <2>6. QED
      BY <2>1, <2>2, <2>3, <2>4, <2>5 DEF KilnTypeOK, KilnEntry, Runner, Process
  <1>2. ProcessOfTheHubTyped'
    BY DEF Close, ProcessOfTheHubTyped
  <1>3. RunnerKnowsItsProcess'
    <2>1. runner'.active = runner.active /\ runner'.last = runner.last /\ call' = call
      BY CloseTold
    <2>2. \A r \in Run : /\ child'[r].state = child[r].state /\ child'[r].result = child[r].result
                         /\ child'[r].cancelled \in {child[r].cancelled, "close"}
      BY CloseTold
    <2>3. QED
      BY <2>1, <2>2 DEF KilnTypeOK, RunnerKnowsItsProcess
  <1>4. CallKnowsItsRun'
    <2>1. call.at # "launched"
      BY DEF Close, Free, Between
    <2>2. call.at = "provisioning" => kilnRuns'[call.run] = kilnRuns[call.run]
      BY DEF Close, RequestClose, CallKnowsItsRun, StartUnderWay, KilnTypeOK
    <2>3. QED
      BY <2>1, <2>2, CloseTold DEF CallKnowsItsRun, StartUnderWay
  <1>5. OverlayKnowsItsRun'
    BY DEF Close, RequestClose, CloseRunner, Ending, KilnTypeOK, OverlayKnowsItsRun, Terminal
  <1>6. RunningIsFollowed'
    <2>1. /\ up /\ up' /\ closer.at = "open" /\ closer'.at = "waiting" /\ call' = call
          /\ overlay'.run = overlay.run /\ overlay'.status # "running" /\ Active' = Active
          /\ runner'.active = runner.active /\ runner'.last = runner.last
      BY CloseTold DEF Close, Free, Between
    <2>2. SUFFICES ASSUME Active'
                   PROVE  /\ StartUnderWay => Excused'
                          /\ runner.last \in {NoRun, overlay.run} \/ Excused'
      BY <2>1 DEF RunningIsFollowed, StartUnderWay
    <2>3. overlay.run \in Run /\ Active /\ overlay.status = "running"
      BY <2>1, <2>2 DEF RunningIsFollowed, Active, OverlayKnowsItsRun
    <2>4. child[overlay.run].state = "live" => ~StartUnderWay /\ runner.last = NoRun
      BY <2>1, <2>3 DEF RunnerKnowsItsProcess, CallKnowsItsRun, StartUnderWay
    <2>5. child[overlay.run].state # "live" => Excused' = Excused
      BY <2>1, <2>3, CloseTold DEF Excused
    <2>6. QED
      BY <2>1, <2>3, <2>4, <2>5 DEF RunningIsFollowed
  <1>7. NoCompletionIsInvented'
    BY DEF Close, RequestClose, approvalVars, CloseRunner, Ending, OverlayKnowsItsRun, NoCompletionIsInvented, Terminal
  <1>8. ResetsAwaitTheProcess'
    <2>1. /\ runner.closed => runner'.closed
          /\ \A r \in Run : child'[r].state = child[r].state
          /\ call' = call /\ promoting' = promoting /\ awaited' = awaited
      BY CloseTold DEF Close, approvalVars
    <2>2. QED
      BY <2>1 DEF ResetsAwaitTheProcess, ProcessOfTheHubTyped
  <1>9. CloserAwaitsTheProcess'
    <2>1. /\ call' = call /\ live' = live /\ overlay'.run = overlay.run /\ overlay'.status # "running"
          /\ Active' = Active /\ closer'.active = Active /\ runner'.last = runner.last
          /\ \A r \in Run : child'[r].state = child[r].state
          /\ live => runner'.closed /\ closer'.run = Executing
          /\ closer'.run \in {Executing, NoRun}
      BY CloseTold
    <2>2. up /\ call.at # "launched" /\ closer.at = "open"
      BY DEF Close, RequestClose, Free, Between
    <2>3. /\ Executing \in Run => child[Executing].state = "live"
          /\ \A r \in Run : child[r].state = "live" => Executing = r
      BY ExecutingIsTheProcess
    <2>4. ASSUME live, Active', runner.last = NoRun
          PROVE  Excused' \/ child[overlay.run].state = "live"
      <3>1. overlay.run \in Run /\ overlay.status = "running"
        BY <2>1, <2>2, <2>4 DEF RunningIsFollowed, Active, OverlayKnowsItsRun
      <3>2. CASE child[overlay.run].state = "live"
        BY <3>2
      <3>3. CASE child[overlay.run].state # "live"
        <4>1. child[overlay.run].state = "gone"
          BY <3>1, <3>3 DEF OverlayKnowsItsRun
        <4>2. call # [at |-> "cancelling", run |-> overlay.run]
          BY <4>1 DEF Close, Free, SomethingDue, ContinuationDue, Over
        <4>3. Excused
          BY <2>2, <3>1, <3>3, <4>2 DEF RunningIsFollowed
        <4>4. QED
          BY <2>1, <3>1, <3>3, <4>3, CloseTold DEF Excused
      <3>4. QED
        BY <3>2, <3>3
    <2>5. closer'.run \in Run => child'[closer'.run].state \in {"live", "gone"}
      BY <2>1, <2>3, KilnAssumption
    <2>6. live' => \A r \in Run : child'[r].state = "live" => closer'.run = r /\ runner'.closed
      BY <2>1, <2>3
    <2>7. live' /\ Active' /\ runner'.last = NoRun => Excused' \/ child'[overlay'.run].state = "live"
      BY <2>1, <2>4 DEF OverlayKnowsItsRun, Active
    <2>8. QED
      BY <2>1, <2>2, <2>5, <2>6, <2>7 DEF CloserAwaitsTheProcess
  <1>10. QED
    BY <1>1, <1>2, <1>3, <1>4, <1>5, <1>6, <1>7, <1>8, <1>9

\* A close finds the process gone and installs what it told.
LEMMA CloseDone ==
  ASSUME KilnInv, FinishClose, CloseSettles
  PROVE  KilnInv'
  <1> USE KilnAssumption DEF KilnInv
  <1>1. KilnTypeOK'
    BY DEF CloseSettles, Note, Installed, From, Untracked, KilnTypeOK, RunnerKnowsItsProcess, OverlayKnowsItsRun,
           ResetsAwaitTheProcess, CloserAwaitsTheProcess, Excused
  <1>2. ProcessOfTheHubTyped'
    BY DEF FinishClose, ProcessOfTheHubTyped
  <1>3. RunnerKnowsItsProcess'
    BY DEF CloseSettles, RunnerKnowsItsProcess
  <1>4. CallKnowsItsRun'
    BY DEF FinishClose, CloseSettles, Between, Note, CallKnowsItsRun, StartUnderWay
  <1>5. OverlayKnowsItsRun'
    BY DEF CloseSettles, Note, Installed, From, Untracked, RunnerKnowsItsProcess, OverlayKnowsItsRun, Terminal
  <1>6. RunningIsFollowed'
    BY SMTT(30) DEF FinishClose, CloseSettles, Between, Note, KilnTypeOK, RunningIsFollowed, Excused, Terminal
  <1>7. NoCompletionIsInvented'
    BY DEF FinishClose, CloseSettles, approvalVars, Note, Installed, From, RunnerKnowsItsProcess, OverlayKnowsItsRun,
           RunningIsFollowed, NoCompletionIsInvented, Active, Excused
  <1>8. ResetsAwaitTheProcess'
    BY DEF FinishClose, CloseSettles, approvalVars, ResetsAwaitTheProcess
  <1>9. CloserAwaitsTheProcess'
    BY DEF CloseSettles, CloserAwaitsTheProcess
  <1>10. QED
    BY <1>1, <1>2, <1>3, <1>4, <1>5, <1>6, <1>7, <1>8, <1>9

\* A close gives up; the runner goes on being told to end.
LEMMA CloseFailed ==
  ASSUME KilnInv, FinishClose, CloseFails
  PROVE  KilnInv'
  <1> USE KilnAssumption DEF KilnInv
  <1>1. KilnTypeOK'
    BY DEF CloseFails, KilnTypeOK
  <1>2. ProcessOfTheHubTyped'
    BY DEF FinishClose, ProcessOfTheHubTyped
  <1>3. RunnerKnowsItsProcess'
    BY DEF CloseFails, RunnerKnowsItsProcess
  <1>4. CallKnowsItsRun'
    BY DEF FinishClose, CloseFails, Between, CallKnowsItsRun, StartUnderWay
  <1>5. OverlayKnowsItsRun'
    BY DEF CloseFails, OverlayKnowsItsRun
  <1>6. RunningIsFollowed'
    BY DEF FinishClose, CloseFails, RunningIsFollowed, Excused
  <1>7. NoCompletionIsInvented'
    BY DEF FinishClose, CloseFails, approvalVars, NoCompletionIsInvented
  <1>8. ResetsAwaitTheProcess'
    BY DEF FinishClose, CloseFails, approvalVars, ResetsAwaitTheProcess
  <1>9. CloserAwaitsTheProcess'
    BY DEF CloseFails, CloserAwaitsTheProcess
  <1>10. QED
    BY <1>1, <1>2, <1>3, <1>4, <1>5, <1>6, <1>7, <1>8, <1>9

\* A reset that had to wait for its process returns.
LEMMA Resets ==
  ASSUME KilnInv, ApprovalsInv, NEW a \in Approval, FinishReset(a)
  PROVE  KilnInv'
  <1> USE KilnAssumption DEF KilnInv
  <1>1. KilnTypeOK'
    <2>1. runner' \in Runner
      BY ZenonT(60) DEF FinishReset, ResetRunner, kilnVars, KilnTypeOK, Runner
    <2>2. QED
      BY <2>1 DEF FinishReset, ResetRunner, kilnVars, KilnTypeOK, Runner
  <1>2. ProcessOfTheHubTyped'
    BY DEF FinishReset, ProcessOfTheHubTyped
  <1>3. RunnerKnowsItsProcess'
    <2>1. call' = call /\ child' = child
      BY DEF FinishReset, ResetRunner, kilnVars
    <2>2. CASE runner' = runner
      BY <2>1, <2>2 DEF RunnerKnowsItsProcess
    <2>3. CASE runner' = [runner EXCEPT !.closed = FALSE, !.active = NoRun, !.job = "none"]
      <3>1. runner'.active = NoRun /\ runner'.last = runner.last
        BY <2>3 DEF KilnTypeOK
      <3>2. QED
        BY <2>1, <3>1, ResetFindsNoProcess DEF RunnerKnowsItsProcess
    <2>4. QED
      BY <2>2, <2>3 DEF FinishReset, ResetRunner, kilnVars
  <1>4. CallKnowsItsRun'
    <2>1. UNCHANGED <<live, overlay, kilnRuns, child, call>> /\ runner'.active \in {runner.active, NoRun}
      BY DEF FinishReset, ResetRunner, kilnVars, KilnTypeOK
    <2>2. call.at # "launched"
      BY DEF FinishReset, Between
    <2>3. QED
      BY <2>1, <2>2 DEF CallKnowsItsRun, StartUnderWay
  <1>5. OverlayKnowsItsRun'
    BY DEF FinishReset, ResetRunner, kilnVars, OverlayKnowsItsRun
  <1>6. RunningIsFollowed'
    <2>1. /\ call' = call /\ child' = child /\ overlay' = overlay /\ closer' = closer /\ live' = live
          /\ kilnRuns' = kilnRuns /\ up' = up /\ up
          /\ runner'.last = runner.last /\ (runner'.closed => runner.closed)
      BY DEF FinishReset, Between, ResetRunner, kilnVars, KilnTypeOK
    <2>2. QED
      BY <2>1 DEF RunningIsFollowed, Active, Excused, StartUnderWay
  <1>7. NoCompletionIsInvented'
    BY DEF FinishReset, ResetReturns, ResetRunner, kilnVars, NoCompletionIsInvented
  <1>8. ResetsAwaitTheProcess'
    BY DEF FinishReset, ResetReturns, ResetRunner, kilnVars, ResetDue, Over, ResetsAwaitTheProcess
  <1>9. CloserAwaitsTheProcess'
    <2>1. /\ call' = call /\ child' = child /\ overlay' = overlay /\ closer' = closer /\ live' = live
          /\ runner'.last = runner.last
      BY DEF FinishReset, ResetRunner, kilnVars, KilnTypeOK
    <2>2. call.at # "provisioning" /\ \A r \in Run : child[r].state # "live"
      BY ResetFindsNoProcess
    <2>3. QED
      BY <2>1, <2>2 DEF CloserAwaitsTheProcess, Active, Excused
  <1>10. QED
    BY <1>1, <1>2, <1>3, <1>4, <1>5, <1>6, <1>7, <1>8, <1>9

\* The effect of a consented proposal, which may end the process of a run.
LEMMA EffectTaken ==
  ASSUME KilnInv, ApprovalsInv, NEW a \in Approval, TakeEffect(a)
  PROVE  KilnInv'
  <1> USE KilnAssumption DEF KilnInv
  <1>1. KilnTypeOK'
    <2>1. runner' \in Runner /\ child' \in [Run -> Process] /\ UNCHANGED <<live, overlay, kilnRuns, call, closer>>
      BY EffectOnTheKiln
    <2>2. QED
      BY <2>1 DEF KilnTypeOK, Runner, Process
  <1>2. ProcessOfTheHubTyped'
    BY ExecutingIsTheProcess DEF TakeEffect, ProcessOfTheHubTyped
  <1>3. RunnerKnowsItsProcess'
    BY EffectOnTheKiln DEF KilnTypeOK, RunnerKnowsItsProcess
  <1>4. CallKnowsItsRun'
    <2>1. call.at # "launched"
      BY EffectFindsNoLaunch
    <2>2. QED
      BY <2>1, EffectOnTheKiln DEF CallKnowsItsRun, StartUnderWay
  <1>5. OverlayKnowsItsRun'
    BY EffectOnTheKiln DEF OverlayKnowsItsRun
  <1>6. RunningIsFollowed'
    <2>1. /\ UNCHANGED <<live, overlay, kilnRuns, call, closer>> /\ up' = up
          /\ runner'.last = runner.last
          /\ overlay.run \in Run => (Excused => Excused')
      BY EffectOnTheKiln DEF TakeEffect, Excused
    <2>2. up
      BY DEF TakeEffect, Apply, AtRest, RunningIsFollowed
    <2>3. ASSUME overlay.status = "running"
          PROVE  \/ call = [at |-> "cancelling", run |-> overlay.run]
                 \/ Excused'
                 \/ /\ child'[overlay.run].state = "live"
                    /\ kilnRuns[overlay.run].phase = "running" /\ kilnRuns[overlay.run].owner = "nobody"
                    /\ ~(live /\ runner'.closed)
      <3>1. overlay.run \in Run
        BY <2>3 DEF OverlayKnowsItsRun
      <3>2. CASE runner' = runner /\ child' = child
        BY <2>1, <2>2, <2>3, <3>2 DEF RunningIsFollowed, Excused
      <3>3. CASE CloseRunner("reset")
        <4>1. child[overlay.run].state = "live" /\ ~runner.closed => Excused'
          BY <2>1, <3>1, <3>3, RunnerClosed DEF Excused, RunnerKnowsItsProcess
        <4>2. QED
          BY <2>1, <2>2, <2>3, <3>1, <4>1, EffectOnTheKiln DEF RunningIsFollowed
      <3>4. QED
        BY <3>2, <3>3 DEF TakeEffect, kilnVars
    <2>4. QED
      BY <2>1, <2>2, <2>3 DEF RunningIsFollowed, Active, StartUnderWay, OverlayKnowsItsRun
  <1>7. NoCompletionIsInvented'
    <2>1. life' = life /\ overlay' = overlay
      BY EffectOnTheKiln DEF TakeEffect, Apply
    <2>2. overlay.status \in Terminal => overlay.run \in Run /\ Terminal = {"settled", "failed", "cancelled"}
      BY DEF OverlayKnowsItsRun, Terminal
    <2>3. QED
      BY <2>1, <2>2, EffectOnTheKiln DEF NoCompletionIsInvented, Terminal
  <1>8. ResetsAwaitTheProcess'
    <2> SUFFICES ASSUME NEW b \in Approval, promoting'[b] = "resetting"
                 PROVE  /\ awaited'[b] \in Run => child'[awaited'[b]].state \in {"live", "gone"}
                        /\ \A r \in Run : child'[r].state = "live" => awaited'[b] = r /\ runner'.closed
                        /\ ~runner'.closed => call'.at # "provisioning"
      BY DEF ResetsAwaitTheProcess
    <2>1. /\ call' = call /\ (runner.closed => runner'.closed)
          /\ \A r \in Run : child'[r].state = child[r].state
      BY EffectOnTheKiln
    <2>2. CASE promoting[b] = "resetting" /\ awaited'[b] = awaited[b]
      BY <2>1, <2>2 DEF ResetsAwaitTheProcess
    <2>3. CASE runner'.closed /\ awaited'[b] = Executing
      BY <2>1, <2>3, ExecutingIsTheProcess
    <2>4. CASE b # a
      <3>1. promoting'[b] = promoting[b] /\ awaited'[b] = awaited[b]
        BY <2>4 DEF TakeEffect, Apply, ApprovalsInv, ApprovalsTypeOK, ProcessOfTheHubTyped
      <3>2. QED
        BY <2>2, <3>1
    <2>5. CASE b = a /\ approval[a].kind = "promotion"
      <3>1. awaited'[b] = Executing /\ CloseRunner("reset")
        BY <2>5 DEF TakeEffect, ProcessOfTheHubTyped
      <3>2. QED
        BY <2>3, <3>1, RunnerClosed
    <2>6. CASE b = a /\ approval[a].kind # "promotion"
      <3>1. promoting[b] = "resetting" /\ awaited'[b] = awaited[b]
        BY <2>6 DEF TakeEffect, Apply
      <3>2. QED
        BY <2>2, <3>1
    <2>7. QED
      BY <2>4, <2>5, <2>6
  <1>9. CloserAwaitsTheProcess'
    <2>1. /\ UNCHANGED <<live, overlay, kilnRuns, call, closer>>
          /\ runner'.last = runner.last /\ (runner.closed => runner'.closed)
          /\ \A r \in Run : child'[r].state = child[r].state
          /\ overlay.run \in Run => (Excused => Excused')
      BY EffectOnTheKiln DEF Excused
    <2>2. Active => overlay.run \in Run
      BY DEF Active, OverlayKnowsItsRun
    <2>3. QED
      BY <2>1, <2>2 DEF CloserAwaitsTheProcess, Active
  <1>10. QED
    BY <1>1, <1>2, <1>3, <1>4, <1>5, <1>6, <1>7, <1>8, <1>9

\* The Hub stops or dies, and with it every process and everything it remembers.
LEMMA Forgotten ==
  ASSUME KilnInv, Stop \/ Crash
  PROVE  KilnInv'
  <1> USE KilnAssumption DEF KilnInv
  <1>1. KilnTypeOK'
    <2>1. /\ kilnRuns' = [r \in Run |-> Untracked] /\ runner' = NewRunner /\ call' = Idle
          /\ closer' = [at |-> "open", run |-> NoRun, active |-> FALSE] /\ UNCHANGED <<live, overlay>>
          /\ \A r \in Run : child'[r] \in {child[r], [state |-> "gone", cancelled |-> "restart", result |-> "cancelled"]}
          /\ child' = [r \in Run |-> child'[r]]
      BY DEF Stop, Crash, Forget, KilnCrash
    <2>2. child' \in [Run -> Process]
      BY <2>1 DEF KilnTypeOK, Process, Terminal
    <2>3. QED
      BY <2>1, <2>2 DEF KilnTypeOK, NewRunner, Untracked, Idle, Process
  <1>2. ProcessOfTheHubTyped'
    <2>1. up' \in BOOLEAN
      BY DEF Stop, Crash, Forget
    <2>2. crashes' \in Nat
      <3>1. crashes \in Nat /\ crashes' \in {crashes, crashes + 1}
        BY DEF Stop, Crash, Forget, ProcessOfTheHubTyped
      <3>2. QED
        BY <3>1
    <2>3. awaited' \in [Approval -> Run \cup {NoRun}]
      BY DEF Stop, Crash, Forget
    <2>4. QED
      BY <2>1, <2>2, <2>3 DEF ProcessOfTheHubTyped
  <1>3. RunnerKnowsItsProcess'
    BY DEF Stop, Crash, Forget, KilnCrash, NewRunner, RunnerKnowsItsProcess
  <1>4. CallKnowsItsRun'
    BY DEF Stop, Crash, Forget, KilnCrash, Idle, CallKnowsItsRun, StartUnderWay
  <1>5. OverlayKnowsItsRun'
    BY DEF Stop, Crash, Forget, KilnCrash, Untracked, OverlayKnowsItsRun
  <1>6. RunningIsFollowed'
    BY DEF Stop, Crash, Forget, ForgetConfirmations, KilnCrash, NewRunner, RunningIsFollowed
  <1>7. NoCompletionIsInvented'
    BY DEF Stop, Crash, Forget, ForgetConfirmations, KilnCrash, OverlayKnowsItsRun, NoCompletionIsInvented, Terminal
  <1>8. ResetsAwaitTheProcess'
    BY DEF Stop, Crash, Forget, ForgetConfirmations, ResetsAwaitTheProcess
  <1>9. CloserAwaitsTheProcess'
    BY DEF Stop, Crash, Forget, KilnCrash, CloserAwaitsTheProcess
  <1>10. QED
    BY <1>1, <1>2, <1>3, <1>4, <1>5, <1>6, <1>7, <1>8, <1>9

\* A restart installs what it can no longer follow as interrupted.
LEMMA Restarted ==
  ASSUME KilnInv, ApprovalsInv, Restart
  PROVE  KilnInv'
  <1> USE KilnAssumption DEF KilnInv
  <1>1. KilnTypeOK'
    <2>1. overlay' \in [status : {"absent"} \cup Terminal, run : Run \cup {NoRun}]
      BY DEF Restart, ReconcileKiln, KilnTypeOK, Terminal
    <2>2. QED
      BY <2>1 DEF Restart, ReconcileKiln, KilnTypeOK
  <1>2. ProcessOfTheHubTyped'
    BY DEF Restart, ProcessOfTheHubTyped
  <1>3. RunnerKnowsItsProcess'
    BY DEF Restart, ReconcileKiln, RunnerKnowsItsProcess
  <1>4. CallKnowsItsRun'
    BY DEF Restart, ReconcileApprovals, ReconcileKiln, CallKnowsItsRun, StartUnderWay
  <1>5. OverlayKnowsItsRun'
    <2>1. /\ UNCHANGED <<kilnRuns, child, call>> /\ overlay'.run = overlay.run
          /\ (overlay'.status = "absent") <=> (overlay.status = "absent")
      BY DEF Restart, ReconcileKiln, KilnTypeOK
    <2>2. call = Idle /\ \A r \in Run : child[r].state = "live" => overlay.run = r
      BY DEF Restart, RunningIsFollowed, OverlayKnowsItsRun, Idle
    <2>3. ~Active => overlay' = overlay
      BY DEF Restart, ReconcileKiln, Active
    <2>4. Active => overlay.run \in Run /\ child[overlay.run].state = "gone"
      BY DEF Restart, Active, RunningIsFollowed, OverlayKnowsItsRun, RunnerKnowsItsProcess
    <2>5. QED
      BY <2>1, <2>2, <2>3, <2>4 DEF OverlayKnowsItsRun
  <1>6. RunningIsFollowed'
    BY DEF Restart, ReconcileKiln, RunningIsFollowed, Active
  <1>7. NoCompletionIsInvented'
    BY DEF Restart, ReconcileApprovals, ReconcileKiln, ApprovalsInv, ApprovalsTypeOK, Lives, NoCompletionIsInvented
  <1>8. ResetsAwaitTheProcess'
    BY DEF Restart, ReconcileApprovals, ReconcileKiln, ResetsAwaitTheProcess
  <1>9. CloserAwaitsTheProcess'
    BY DEF Restart, ReconcileKiln, CloserAwaitsTheProcess, Active
  <1>10. QED
    BY <1>1, <1>2, <1>3, <1>4, <1>5, <1>6, <1>7, <1>8, <1>9

LEMMA KilnInvInit == Init => KilnInv
  <1> SUFFICES ASSUME Init PROVE KilnInv
    OBVIOUS
  <1> USE KilnAssumption DEF Init, ApprovalsInit, KilnInit
  <1>1. KilnTypeOK /\ ProcessOfTheHubTyped
    BY DEF KilnTypeOK, ProcessOfTheHubTyped, Untracked, NewRunner, Idle
  <1>2. RunnerKnowsItsProcess /\ CallKnowsItsRun /\ OverlayKnowsItsRun
    BY DEF RunnerKnowsItsProcess, CallKnowsItsRun, OverlayKnowsItsRun, StartUnderWay, NewRunner, Idle
  <1>3. RunningIsFollowed /\ NoCompletionIsInvented
    BY DEF RunningIsFollowed, NoCompletionIsInvented, Active
  <1>4. ResetsAwaitTheProcess /\ CloserAwaitsTheProcess
    BY DEF ResetsAwaitTheProcess, CloserAwaitsTheProcess
  <1>5. QED
    BY <1>1, <1>2, <1>3, <1>4 DEF KilnInv

\* A step of the approvals leaves the kiln alone, and comes while no launched
\* recipe awaits its commit.
LEMMA ApprovalsLeaveTheKiln ==
  ASSUME KilnInv, UNCHANGED <<kilnVars, up, crashes, awaited>>, life' >= life, life \in Nat, life' \in Nat,
         stretch' # AtRest => up /\ call.at # "launched",
         \A a \in Approval : /\ promoting'[a] # "no" => up
                             /\ promoting'[a] = "resetting" => promoting[a] = "resetting"
  PROVE  KilnInv'
  <1> USE DEF KilnInv, kilnVars
  <1>1. KilnTypeOK' /\ ProcessOfTheHubTyped'
    BY DEF KilnTypeOK, ProcessOfTheHubTyped
  <1>2. RunnerKnowsItsProcess' /\ OverlayKnowsItsRun'
    BY DEF RunnerKnowsItsProcess, OverlayKnowsItsRun
  <1>3. CallKnowsItsRun'
    BY DEF CallKnowsItsRun, StartUnderWay
  <1>4. RunningIsFollowed'
    BY DEF RunningIsFollowed, Active, Excused, StartUnderWay, ProcessOfTheHubTyped
  <1>5. NoCompletionIsInvented'
    BY DEF NoCompletionIsInvented
  <1>6. ResetsAwaitTheProcess'
    BY DEF ResetsAwaitTheProcess
  <1>7. CloserAwaitsTheProcess'
    BY DEF CloserAwaitsTheProcess, Active, Excused
  <1>8. QED
    BY <1>1, <1>2, <1>3, <1>4, <1>5, <1>6, <1>7

LEMMA ApprovalActionKeepsKilnInv ==
  ASSUME KilnInv, ApprovalsInv, NEW a \in Approval,
         Ask(a) \/ AskAuto(a) \/ Confirm(a) \/ ConfirmFails(a) \/ Conclude(a) \/ Reject(a)
  PROVE  KilnInv'
  <1> USE DEF ApprovalsInv, ApprovalsTypeOK, Lives
  <1>0. UNCHANGED <<kilnVars, up, crashes, awaited>> /\ life' = life
    BY DEF Ask, AskAuto, Confirm, ConfirmFails, Conclude, Reject, AskApproval, AskAutomatic, BeginApplying,
           BeginFails, ApplyFails, ResolveFails, Resolve, RejectApproval
  <1>1. \A b \in Approval : promoting[b] # "no" \/ stretch # AtRest => up
    BY DEF KilnInv, RunningIsFollowed
  <1>2. stretch # AtRest => call.at # "launched"
    BY DEF KilnInv, CallKnowsItsRun
  <1>3. CASE Ask(a) \/ AskAuto(a) \/ Reject(a)
    <2>1. up /\ call.at # "launched" /\ promoting' = promoting
      BY <1>3 DEF Ask, AskAuto, Reject, Free, Between, AskApproval, AskAutomatic, RejectApproval
    <2>2. QED
      BY <1>0, <1>1, <2>1, ApprovalsLeaveTheKiln
  <1>4. CASE Confirm(a)
    <2>1. up /\ call.at # "launched"
      BY <1>1, <1>2, <1>4 DEF Confirm, Free, Between, AtRest
    <2>2. \A b \in Approval : promoting'[b] = "resetting" => promoting[b] = "resetting"
      BY <1>4 DEF Confirm, BeginApplying
    <2>3. QED
      BY <1>0, <2>1, <2>2, ApprovalsLeaveTheKiln
  <1>5. CASE ConfirmFails(a) \/ Conclude(a)
    <2>1. stretch' = AtRest
      BY <1>5 DEF ConfirmFails, Conclude, BeginFails, ApplyFails, ResolveFails, Resolve
    <2>2. \A b \in Approval : promoting'[b] \in {"no", promoting[b]}
      BY <1>5 DEF ConfirmFails, Conclude, BeginFails, ApplyFails, ResolveFails, Resolve
    <2>3. QED
      BY <1>0, <1>1, <2>1, <2>2, ApprovalsLeaveTheKiln
  <1>6. QED
    BY <1>3, <1>4, <1>5

LEMMA NextLifeKeepsKilnInv ==
  ASSUME KilnInv, ApprovalsInv, NextLife
  PROVE  KilnInv'
  <1>1. life \in Nat /\ life' = life + 1
    BY DEF ApprovalsInv, ApprovalsTypeOK, Lives, NextLife, OpenLife
  <1>2. /\ UNCHANGED <<kilnVars, up, crashes, awaited>> /\ stretch' = stretch /\ promoting' = promoting
        /\ up /\ call.at # "launched"
    BY DEF NextLife, OpenLife, Free, Between
  <1>3. life' >= life /\ life' \in Nat
    BY <1>1
  <1>4. QED
    BY <1>1, <1>2, <1>3, ApprovalsLeaveTheKiln

LEMMA KilnActionKeepsKilnInv ==
  ASSUME KilnInv, NEW r \in Run,
         Start(r) \/ FinishStart(r) \/ FinishCompensation(r) \/ Expire(r) \/ RecipeEnds(r)
  PROVE  KilnInv'
  <1>1. CASE Start(r)
    BY <1>1, RunStarts, Launches, LaunchFailing DEF Start
  <1>2. CASE FinishStart(r)
    BY <1>2, StartCommitted, StartRefused DEF FinishStart
  <1>3. CASE FinishCompensation(r)
    BY <1>3, CompensationDone DEF FinishCompensation
  <1>4. CASE Expire(r)
    BY <1>4, TimesOut DEF Expire
  <1>5. CASE RecipeEnds(r)
    BY <1>5, ProcessEnds
  <1>6. QED
    BY <1>1, <1>2, <1>3, <1>4, <1>5

LEMMA KilnInvStep ==
  ASSUME KilnInv, ApprovalsInv, [Next]_vars
  PROVE  KilnInv'
  <1>1. CASE UNCHANGED vars
    <2>1. UNCHANGED <<kilnVars, up, crashes, awaited, life, stretch, promoting>>
      BY <1>1 DEF vars, approvalVars
    <2>2. life \in Nat
      BY DEF ApprovalsInv, ApprovalsTypeOK, Lives
    <2>3. stretch # AtRest => up /\ call.at # "launched"
      BY DEF KilnInv, RunningIsFollowed, CallKnowsItsRun
    <2>4. \A a \in Approval : promoting[a] # "no" => up
      BY DEF KilnInv, RunningIsFollowed
    <2>5. QED
      BY <2>1, <2>2, <2>3, <2>4, ApprovalsLeaveTheKiln
  <1>2. ASSUME NEW a \in Approval,
               Ask(a) \/ AskAuto(a) \/ Confirm(a) \/ ConfirmFails(a) \/ Conclude(a) \/ Reject(a)
        PROVE  KilnInv'
    BY <1>2, ApprovalActionKeepsKilnInv
  <1>3. ASSUME NEW a \in Approval, TakeEffect(a) \/ FinishReset(a)
        PROVE  KilnInv'
    BY <1>3, EffectTaken, Resets
  <1>4. ASSUME NEW r \in Run,
               Start(r) \/ FinishStart(r) \/ FinishCompensation(r) \/ Expire(r) \/ RecipeEnds(r)
        PROVE  KilnInv'
    BY <1>4, KilnActionKeepsKilnInv
  <1>5. CASE CancelRecipe \/ FinishCancel
    BY <1>5, CancelRequested, CancelDone DEF CancelRecipe, FinishCancel
  <1>6. CASE NextLife
    BY <1>6, NextLifeKeepsKilnInv
  <1>7. CASE Close \/ FinishClose
    BY <1>7, CloseRequested, CloseDone, CloseFailed DEF FinishClose
  <1>8. CASE Stop \/ Crash \/ Restart
    BY <1>8, Forgotten, Restarted
  <1>9. QED
    BY <1>1, <1>2, <1>3, <1>4, <1>5, <1>6, <1>7, <1>8 DEF Next

\* The overlay, the gateway's map of runs, the runner and its processes know each other
\* as KilnInv says, through every await, compensation, promotion, close and death.
THEOREM KilnInvariant == Spec => []KilnInv
  <1>1. Init => KilnInv
    BY KilnInvInit
  <1>2. KilnInv /\ ApprovalsInv /\ [Next]_vars => KilnInv'
    BY KilnInvStep
  <1>3. QED
    BY <1>1, <1>2, ApprovalsInvariant, PTL DEF Spec

-----------------------------------------------------------------------------
(* What the Gateway tells *)

LEMMA Told ==
  ASSUME ApprovalsInv, NEW a \in Approval, NEW s \in ApprovalStatus, Became(a, s), Receipt(a, s)
  PROVE  /\ \A b \in Approval : approval'[b].kind = approval[b].kind
         /\ \A b \in Approval \ {a} : approval'[b].status = approval[b].status /\ receipts'[b] = receipts[b]
         /\ approval'[a].status = s /\ receipts'[a] = Append(receipts[a], s)
  BY BecameTold DEF ApprovalsInv, ApprovalsTypeOK, ApprovalRows, Receipt

\* The first receipt of an approval, which an automatic one lacks.
Asked(a) == IF approval[a].kind = "auto" THEN <<>> ELSE <<"pending">>

LEMMA LongerStories ==
  ASSUME NEW a \in Approval, NEW s \in ApprovalStatus
  PROVE  /\ Append(Asked(a), s) = Asked(a) \o <<s>>
         /\ Append(Asked(a) \o <<"applying">>, "confirmed") = Asked(a) \o <<"applying", "confirmed">>
         /\ Append(<<>>, "pending") = <<"pending">>
  BY DEF Asked

LEMMA ReceiptsInit == Init => ReceiptsTellTheDecision
  <1> SUFFICES ASSUME Init PROVE ReceiptsTellTheDecision
    OBVIOUS
  <1>1. \A a \in Approval : approval[a].status = "unborn" /\ receipts[a] = <<>>
    BY DEF Init, ApprovalsInit
  <1>2. QED
    BY <1>1 DEF ReceiptsTellTheDecision

LEMMA ReceiptsStep ==
  ASSUME ApprovalsInv, ReceiptsTellTheDecision, [ApprovalsNext]_approvalVars
  PROVE  ReceiptsTellTheDecision'
  <1> DEFINE Story(b) ==
        CASE approval[b].status = "unborn" -> receipts[b] = <<>>
          [] approval[b].status = "pending" -> receipts[b] = Asked(b)
          [] approval[b].status = "confirmed" -> receipts[b] = Asked(b) \o <<"applying", "confirmed">>
          [] OTHER -> receipts[b] = Asked(b) \o <<approval[b].status>>
  <1>0. ReceiptsTellTheDecision <=> \A b \in Approval : Story(b)
    BY DEF ReceiptsTellTheDecision, Asked
  <1>1. ReceiptsTellTheDecision' <=> \A b \in Approval : Story(b)'
    BY DEF ReceiptsTellTheDecision, Asked
  <1>2. ASSUME NEW b \in Approval, approval'[b].kind = approval[b].kind,
               approval'[b].status = approval[b].status, receipts'[b] = receipts[b]
        PROVE  Story(b)'
    BY <1>0, <1>2 DEF Asked
  <1>3. CASE approval' = approval /\ receipts' = receipts
    BY <1>1, <1>2, <1>3
  <1>4. ASSUME NEW a \in Approval, NEW kind \in {"asked", "promotion"}, AskApproval(a, kind)
        PROVE  ReceiptsTellTheDecision'
    <2>1. /\ approval'[a].status = "pending" /\ approval'[a].kind = kind /\ receipts'[a] = Append(receipts[a], "pending")
          /\ \A b \in Approval \ {a} : approval'[b] = approval[b] /\ receipts'[b] = receipts[b]
      BY <1>4 DEF AskApproval, Receipt, ApprovalsInv, ApprovalsTypeOK
    <2>2. receipts[a] = <<>>
      BY <1>0, <1>4 DEF AskApproval
    <2>3. Story(a)'
      BY <2>1, <2>2, LongerStories DEF Asked, ApprovalStatus
    <2>4. QED
      BY <1>1, <1>2, <2>1, <2>3
  <1>5. ASSUME NEW a \in Approval, AskAutomatic(a)
        PROVE  ReceiptsTellTheDecision'
    <2>1. /\ approval'[a].status = "pending" /\ approval'[a].kind = "auto" /\ receipts' = receipts
          /\ \A b \in Approval \ {a} : approval'[b] = approval[b]
      BY <1>5 DEF AskAutomatic, ApprovalsInv, ApprovalsTypeOK
    <2>2. receipts[a] = <<>>
      BY <1>0, <1>5 DEF AskAutomatic
    <2>3. Story(a)'
      BY <2>1, <2>2 DEF Asked
    <2>4. QED
      BY <1>1, <1>2, <2>1, <2>3
  <1>6. ASSUME NEW a \in Approval, NEW s \in {"applying", "rejected"}, Became(a, s), Receipt(a, s),
               approval[a].status = "pending"
        PROVE  ReceiptsTellTheDecision'
    <2>1. s \in ApprovalStatus
      BY DEF ApprovalStatus
    <2>2. receipts[a] = Asked(a)
      BY <1>0, <1>6
    <2>3. approval'[a].kind = approval[a].kind /\ approval'[a].status = s /\ receipts'[a] = Append(receipts[a], s)
      BY <1>6, <2>1, Told
    <2>4. Asked(a)' = Asked(a)
      BY <2>3 DEF Asked
    <2>5. Story(a)'
      BY <2>1, <2>2, <2>3, <2>4, LongerStories
    <2>6. \A b \in Approval \ {a} : /\ approval'[b].kind = approval[b].kind
                                     /\ approval'[b].status = approval[b].status /\ receipts'[b] = receipts[b]
      BY <1>6, <2>1, Told
    <2>7. \A b \in Approval \ {a} : Story(b)'
      BY <1>2, <2>6
    <2> HIDE DEF Story
    <2>8. QED
      BY <1>1, <2>5, <2>7
  <1>7. ASSUME NEW a \in Approval, Resolve(a)
        PROVE  ReceiptsTellTheDecision'
    <2>1. "confirmed" \in ApprovalStatus /\ approval[a].status = "applying" /\ Became(a, "confirmed") /\ Receipt(a, "confirmed")
      BY <1>7 DEF Resolve, ApprovalStatus
    <2>2. receipts[a] = Asked(a) \o <<"applying">>
      BY <1>0, <2>1
    <2>3. /\ approval'[a].kind = approval[a].kind /\ approval'[a].status = "confirmed"
          /\ receipts'[a] = Append(receipts[a], "confirmed")
      BY <2>1, Told
    <2>4. Asked(a)' = Asked(a)
      BY <2>3 DEF Asked
    <2>5. Story(a)'
      BY <2>1, <2>2, <2>3, <2>4, LongerStories
    <2>6. \A b \in Approval \ {a} : /\ approval'[b].kind = approval[b].kind
                                     /\ approval'[b].status = approval[b].status /\ receipts'[b] = receipts[b]
      BY <2>1, Told
    <2>7. \A b \in Approval \ {a} : Story(b)'
      BY <1>2, <2>6
    <2> HIDE DEF Story
    <2>8. QED
      BY <1>1, <2>5, <2>7
  <1>8. CASE ReconcileApprovals
    <2> SUFFICES ASSUME NEW b \in Approval PROVE Story(b)'
      BY <1>1
    <2> DEFINE left == {a \in Approval : approval[a].status = "pending" /\ approval[a].life # life'}
    <2>1. /\ approval' = [a \in Approval |-> IF a \in left THEN [approval[a] EXCEPT !.status = "cancelled"] ELSE approval[a]]
          /\ receipts' = [a \in Approval |-> IF a \in left THEN Append(receipts[a], "cancelled") ELSE receipts[a]]
      BY <1>8 DEF ReconcileApprovals
    <2>2. CASE b \notin left
      <3>1. approval'[b] = approval[b] /\ receipts'[b] = receipts[b]
        BY <2>1, <2>2
      <3>2. QED
        BY <1>2, <3>1
    <2>3. CASE b \in left
      <3>1. /\ approval'[b].status = "cancelled" /\ approval'[b].kind = approval[b].kind
            /\ receipts'[b] = Append(receipts[b], "cancelled")
        BY <2>1, <2>3 DEF ApprovalsInv, ApprovalsTypeOK
      <3>2. receipts[b] = Asked(b) /\ Asked(b)' = Asked(b)
        BY <1>0, <2>3, <3>1 DEF Asked
      <3>3. QED
        BY <3>1, <3>2, LongerStories DEF ApprovalStatus
    <2>4. QED
      BY <2>2, <2>3
  <1>9. ASSUME NEW a \in Approval, ApprovalStep(a)
        PROVE  ReceiptsTellTheDecision'
    <2>1. CASE BeginApplying(a)
      BY <1>6, <2>1 DEF BeginApplying, MayBeDecided
    <2>2. CASE RejectApproval(a)
      BY <1>6, <2>2 DEF RejectApproval, MayBeDecided
    <2>3. CASE BeginFails(a) \/ Apply(a) \/ ApplyFails(a) \/ ResetReturns(a) \/ ResolveFails(a)
      BY <1>3, <2>3 DEF BeginFails, Apply, ApplyFails, ResetReturns, ResolveFails
    <2>4. QED
      BY <1>4, <1>5, <1>7, <1>9, <2>1, <2>2, <2>3 DEF ApprovalStep
  <1>10. CASE OpenLife \/ ForgetConfirmations \/ UNCHANGED approvalVars
    BY <1>3, <1>10 DEF OpenLife, ForgetConfirmations, approvalVars
  <1>11. QED
    BY <1>8, <1>9, <1>10 DEF ApprovalsNext

\* The Gateway's rows, its map of runs, the runner and the processes stay well
\* typed through every await, failure and death of the process.
THEOREM GatewayTyped == Spec => []GatewayTypeOK
  <1>1. ApprovalsInv /\ KilnInv => GatewayTypeOK
    BY DEF ApprovalsInv, KilnInv, ProcessOfTheHubTyped, GatewayTypeOK
  <1>2. QED
    BY <1>1, ApprovalsInvariant, KilnInvariant, PTL

\* What the builder and the Resident are told is what happened: the receipts of
\* an approval are its story; at most one recipe has a process; a running overlay
\* is followed until it ends; nothing is called settled, failed or cancelled
\* that was not.
THEOREM GatewayTellsTheTruth == Spec => []GatewayTellsWhatHappened
  <1>1. Init => ReceiptsTellTheDecision
    BY ReceiptsInit
  <1>2. ApprovalsInv /\ ReceiptsTellTheDecision /\ [Next]_vars => ReceiptsTellTheDecision'
    BY StepsOfApprovals, ReceiptsStep
  <1>3. KilnInv => OneProcessAtATime
    BY KilnAssumption DEF KilnInv, RunnerKnowsItsProcess, KilnTypeOK, OneProcessAtATime
  <1>4. KilnInv => KilnFollowsItsRun
    BY DEF KilnInv, RunningIsFollowed, Excused, KilnFollowsItsRun, Attended
  <1>5. KilnInv => NoCompletionIsInvented
    BY DEF KilnInv
  <1>6. ReceiptsTellTheDecision /\ KilnInv => GatewayTellsWhatHappened
    BY <1>3, <1>4, <1>5 DEF GatewayTellsWhatHappened
  <1>7. QED
    BY <1>1, <1>2, <1>6, ApprovalsInvariant, KilnInvariant, PTL DEF Spec

\* A shutdown of a sandbox gateway that ends without an error leaves no recipe
\* that the World still calls running, unless a promotion has reset it.
THEOREM GatewayClosesCold == Spec => CloseCoolsTheKiln
  <1> DEFINE Cold == live /\ closer.at = "waiting" /\ closer'.at = "closed" =>
                       overlay'.status \notin {"running", "stopping"} \/ child'[overlay'.run].cancelled = "reset"
  <1>1. KilnInv /\ [Next]_vars => [Cold]_vars
    <2> SUFFICES ASSUME KilnInv, Next, live, closer.at = "waiting", closer'.at = "closed",
                        overlay'.status \in {"running", "stopping"}
                 PROVE  child'[overlay'.run].cancelled = "reset"
      OBVIOUS
    <2> USE KilnAssumption DEF KilnInv
    <2>1. CloseSettles
      <3>1. ASSUME closer' = closer \/ closer'.at \in {"open", "waiting", "failed"}
            PROVE  FALSE
        BY <3>1
      <3>2. ASSUME NEW a \in Approval,
                   Ask(a) \/ AskAuto(a) \/ Confirm(a) \/ ConfirmFails(a) \/ TakeEffect(a)
                     \/ FinishReset(a) \/ Conclude(a) \/ Reject(a)
            PROVE  closer' = closer
        BY <3>2 DEF Ask, AskAuto, Confirm, ConfirmFails, TakeEffect, FinishReset, ResetRunner, Conclude, Reject, kilnVars
      <3>3. ASSUME NEW r \in Run,
                   Start(r) \/ FinishStart(r) \/ FinishCompensation(r) \/ Expire(r) \/ RecipeEnds(r)
            PROVE  closer' = closer
        BY <3>3 DEF Start, RunRecipe, Launch, LaunchFails, FinishStart, CommitStart, CommitStartFails,
                    FinishCompensation, Compensated, Expire, TimeOut, RecipeEnds, ChildEnds
      <3>4. CancelRecipe \/ FinishCancel \/ NextLife \/ Restart => closer' = closer
        BY DEF CancelRecipe, RequestCancel, FinishCancel, CancelSettles, NextLife, Restart, ReconcileKiln, kilnVars
      <3>5. Stop \/ Crash => closer'.at = "open"
        BY DEF Stop, Crash, Forget, KilnCrash
      <3>6. Close => closer'.at = "waiting"
        BY CloseTold
      <3>7. FinishClose => CloseSettles \/ closer'.at = "failed"
        BY DEF FinishClose, CloseFails, KilnTypeOK
      <3>8. QED
        BY <3>1, <3>2, <3>3, <3>4, <3>5, <3>6, <3>7 DEF Next
    <2> DEFINE known == closer.active /\ runner.last # NoRun
    <2>2. Over(closer.run) /\ child' = child
      BY <2>1 DEF CloseSettles
    <2>3. CASE known
      <3>1. Installed("hub_closed", overlay.run)
        BY <2>1, <2>3 DEF CloseSettles, KilnTypeOK
      <3>2. overlay'.status = child[runner.last].result
        BY <2>1, <2>3, <3>1 DEF CloseSettles, Note
      <3>3. QED
        BY <2>3, <3>2 DEF RunnerKnowsItsProcess, Terminal
    <2>4. CASE ~known
      <3>1. overlay' = overlay
        BY <2>1, <2>4 DEF CloseSettles
      <3>2. Active /\ overlay.run \in Run
        BY <3>1 DEF Active, OverlayKnowsItsRun
      <3>3. runner.last = NoRun
        BY <2>4, <3>2 DEF CloserAwaitsTheProcess
      <3>4. child[overlay.run].state # "live"
        BY <2>2, <3>2 DEF CloserAwaitsTheProcess, Over
      <3>5. QED
        BY <2>2, <3>1, <3>2, <3>3, <3>4 DEF CloserAwaitsTheProcess, Excused
    <2>5. QED
      BY <2>3, <2>4
  <1> HIDE DEF Cold
  <1>2. Spec => [][Cold]_vars
    BY <1>1, KilnInvariant, PTL DEF Spec
  <1>3. QED
    BY <1>2 DEF CloseCoolsTheKiln, Cold
=============================================================================
