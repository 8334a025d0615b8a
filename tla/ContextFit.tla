----------------------------- MODULE ContextFit -----------------------------
(***************************************************************************)
(* What the Resident is shown of its Scroll at one provider crossing:      *)
(*   src/src/context/tool-pairs.js       old tool exchanges leave,         *)
(*   src/src/context/rolling-fold.js     old dialogue is folded,           *)
(*   src/src/context/glass-cast.js       the bands are put in order,       *)
(*   src/src/scrub/provider-presentation.js   omissions are carried out,   *)
(*   src/src/context/attention-meter.js  the rest is weighed.              *)
(*                                                                         *)
(* All of it is a function of the Scroll, so this module has no state.     *)
(* Messages are named by the Scroll rows they stand for; a message weighs  *)
(* its row's size, and texts, hashes and receipts are left out.            *)
(***************************************************************************)
EXTENDS Naturals, Sequences, FiniteSets

CONSTANTS
  RetainedToolPairs,   \* config.retainedToolPairs
  FoldTailUnits,       \* config.rollingFoldTailUnits
  TrailSignLimit,      \* RESULT_TRAIL_SIGN_LIMIT
  HighWater,           \* config.rollingFoldHighWaterBytes
  LowWater,            \* config.rollingFoldLowWaterBytes
  RefuseBytes,         \* config.attentionRefuseBytes
  FoldBytes,           \* weight of a folded exchange
  SignBytes            \* weight of a trail sign, a marker or a Hearth trace

\* readConfig() refuses other watermarks
ASSUME WatermarksAssumption ==
  /\ {RetainedToolPairs, FoldTailUnits, TrailSignLimit, LowWater,
      HighWater, RefuseBytes, FoldBytes, SignBytes} \subseteq Nat
  /\ LowWater < HighWater /\ HighWater <= RefuseBytes

-----------------------------------------------------------------------------
(* Tool exchanges.  A row is [kind, wake, calls, call, body, pointer, size]: a call *)
(* row lists the tools it calls, a result row tells which of them it answers,      *)
(* whether its content is a Hearth packet, and whether its Rack pointer verifies.  *)

\* The results that follow row i without a gap
Results(rows, i) ==
  {k \in i + 1 .. Len(rows) : \A m \in i + 1 .. k : rows[m].kind = "tool_result"}
Exchange(rows, i) == {i} \cup Results(rows, i)

IsCall(row) == row.kind = "assistant_tool_call"

\* Exactly the results of its calls follow.
Answered(rows, i) ==
  /\ IsCall(rows[i])
  /\ Cardinality(Results(rows, i)) = Len(rows[i].calls)
  /\ {rows[k].call : k \in Results(rows, i)} = DOMAIN rows[i].calls

Reopens(row) == \E c \in DOMAIN row.calls : row.calls[c] = "reopen_result"
Pointed(rows, i) == \A k \in Results(rows, i) : rows[k].pointer

\* hearthExchange(): one call, tend_hearth, and one result, the packet
IsHearth(rows, i) ==
  /\ rows[i].calls = <<"tend_hearth">>
  /\ \A k \in Results(rows, i) : rows[k].body = "hearth"

\* Variant: exchanges leave attention only within their own wake.
MayLeave_OfThisWake(rows, i, wake) ==
  /\ Answered(rows, i) /\ ~Reopens(rows[i])
  /\ rows[i].wake = wake /\ Pointed(rows, i)

\* An answered exchange may leave attention when all of it can be found again,
\* and the Hearth's only in a later wake.
MayLeave(rows, i, wake) ==
  /\ Answered(rows, i) /\ ~Reopens(rows[i])
  /\ Pointed(rows, i) \/ IsHearth(rows, i)
  /\ rows[i].wake # wake \/ (Pointed(rows, i) /\ ~IsHearth(rows, i))

\* Variant: an exchange counts itself among those retained.
Leaving_CountsItself(rows, wake) ==
  LET may == {i \in DOMAIN rows : MayLeave(rows, i, wake)}
  IN  {i \in may : Cardinality({j \in may : j >= i}) >= RetainedToolPairs}

\* planOldToolExchangeOmissions(): all of them but the newest RetainedToolPairs
Leaving(rows, wake) ==
  LET may == {i \in DOMAIN rows : MayLeave(rows, i, wake)}
  IN  {i \in may : Cardinality({j \in may : j > i}) >= RetainedToolPairs}

\* Variant: the call leaves and its results stay.
Omitted_CallsOnly(rows, wake) == Leaving(rows, wake)

Omitted(rows, wake) == UNION {Exchange(rows, i) : i \in Leaving(rows, wake)}

\* The pointers of what leaves, oldest first, no more than the limit
TrailPointers(rows, wake) ==
  LET pointed == {k \in Omitted(rows, wake) : rows[k].pointer}
  IN  {k \in pointed : Cardinality({j \in pointed : j < k}) < TrailSignLimit}

\* hasNonHearthToolContinuation()
Continues(rows, wake) ==
  \E i \in DOMAIN rows : /\ rows[i].wake = wake /\ IsCall(rows[i])
                         /\ \E c \in DOMAIN rows[i].calls : rows[i].calls[c] # "tend_hearth"

-----------------------------------------------------------------------------
(* Messages of a crossing: what they are and which Scroll rows they stand for *)

\* historyIndexMapFor(): where i stands among the ordinals kept
Place(kept, i) == Cardinality({k \in kept : k <= i})

\* A set of ordinals as a sequence: the n-th is the one that stands in place n.
InOrder(ordinals) ==
  [n \in 1 .. Cardinality(ordinals) |-> CHOOSE i \in ordinals : Place(ordinals, i) = n]

Ref(src, of) == [src |-> src, of |-> of]
RefsOf(src, some) ==
  LET inOrder == InOrder(some)
  IN  [n \in DOMAIN inOrder |-> Ref(src, {inOrder[n]})]

\* One full sign for every pointer, or one marker for all of them in a
\* continuation; then the Hearth traces.
Signs(rows, wake) ==
  LET trail == TrailPointers(rows, wake)
      hearths == {i \in Leaving(rows, wake) : IsHearth(rows, i)}
  IN  (IF ~Continues(rows, wake) THEN RefsOf("trail_sign", trail)
       ELSE IF trail = {} THEN <<>> ELSE <<Ref("trail_marker", trail)>>)
      \o RefsOf("hearth_trace", hearths)

\* currentGround: the crossing's own ground first, the signs last
Ground(rows, wake) == <<Ref("ground", {})>> \o Signs(rows, wake)

\* The stable Glass, and beneath it the holster when continuity is "none"
Prefix(phase) == <<Ref("glass", {})>> \o
                 (IF phase = "ordinary" THEN <<Ref("holster", {})>> ELSE <<>>)

Weight(rows, ref, ground) ==
  CASE ref.src = "history" -> rows[CHOOSE i \in ref.of : TRUE].size
    [] ref.src = "fold" -> FoldBytes
    [] ref.src = "ground" -> ground
    [] ref.src \in {"glass", "holster"} -> 0      \* counted with the ground
    [] OTHER -> SignBytes

-----------------------------------------------------------------------------
(* assemble(): the bands in order, and what the Scrub leaves of them *)

\* composeGlassCast() shifts the living edge's omissions past the bands before it.
Shift(phase, folded) == Len(Prefix(phase)) + Cardinality(folded)

\* scrubProviderHistory() with whole-message omissions
Scrubbed(refs, omissions) ==
  LET left == InOrder(DOMAIN refs \ omissions)
  IN  [n \in DOMAIN left |-> refs[left[n]]]

FoldRefs(folded) ==
  LET inOrder == InOrder(folded)
  IN  [n \in DOMAIN inOrder |-> Ref("fold", {inOrder[n], inOrder[n] + 1})]

\* folded holds the first row of every folded pair; omitted is the omission plan.
Assembled(rows, wake, phase, omitted, folded) ==
  LET kept == DOMAIN rows \ UNION {{i, i + 1} : i \in folded}
      ground == IF phase = "orientation" THEN <<Ref("ground", {})>> ELSE Ground(rows, wake)
      refs == Prefix(phase) \o FoldRefs(folded) \o ground \o RefsOf("history", kept)
      omissions == {Place(kept, i) + Len(ground) + Shift(phase, folded) : i \in omitted \cap kept}
  IN  Scrubbed(refs, omissions)

\* AttentionMeter.measure()
TotalBytes(rows, messages, ground) ==
  LET upTo[n \in 0 .. Len(messages)] ==
        IF n = 0 THEN 0 ELSE upTo[n - 1] + Weight(rows, messages[n], ground)
  IN  upTo[Len(messages)]

-----------------------------------------------------------------------------
(* planRollingConversationFold() *)

\* Adjacent human and Resident rows
Dialogue(rows) == {i \in 1 .. Len(rows) - 1 : rows[i].kind = "user" /\ rows[i + 1].kind = "resident"}

\* All but the newest FoldTailUnits of them
Eligible(rows) ==
  LET dialogue == Dialogue(rows)
  IN  {i \in dialogue : Cardinality({j \in dialogue : j > i}) >= FoldTailUnits}

\* A fold that saves nothing is not made.
Worthwhile(rows) == {i \in Eligible(rows) : FoldBytes < rows[i].size + rows[i + 1].size}

\* Variant: the ground of the crossing is forgotten when the folds are planned.
Folded_WithoutGround(rows, wake, phase, omitted, ground) ==
  LET after(folds) == TotalBytes(rows, Assembled(rows, wake, phase, omitted, folds), 0)
      worthwhile == Worthwhile(rows)
      before(i) == {j \in worthwhile : j < i}
  IN  IF phase = "orientation" \/ after({}) < HighWater THEN {}
      ELSE {i \in worthwhile : before(i) = {} \/ after(before(i)) > LowWater}

\* Nothing below the high water; from there the oldest first, until what is
\* left is at the low water.  Every fold saves something, so pair i is reached
\* when folding the pairs before it was not enough.
Folded(rows, wake, phase, omitted, ground) ==
  LET after(folds) == TotalBytes(rows, Assembled(rows, wake, phase, omitted, folds), ground)
      worthwhile == Worthwhile(rows)
      before(i) == {j \in worthwhile : j < i}
  IN  IF phase = "orientation" \/ after({}) < HighWater THEN {}
      ELSE {i \in worthwhile : before(i) = {} \/ after(before(i)) > LowWater}

=============================================================================
