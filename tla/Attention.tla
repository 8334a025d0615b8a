------------------------------ MODULE Attention ------------------------------
(***************************************************************************)
(* What one lifespan's Resident attends to, crossing after crossing.       *)
(*                                                                         *)
(* The Scroll of the lifespan grows as src/src/runtime/wake-service.js     *)
(* runs its wakes (performAdmittedWake, runResidentRounds); before every   *)
(* crossing src/src/runtime/provider-phase.js run() fits what is shown of  *)
(* it (ContextFit), and the results of tool calls are kept in the Result   *)
(* Rack (ResultRack), which is what lets them leave attention.             *)
(*                                                                         *)
(* Waking, publication and the Spine are the business of WakeService and   *)
(* Spine; a wake here is what it appends.  Recovery ends a wake that a     *)
(* crash interrupted as a failure does, so a crash is WakeFails, and       *)
(* CrashInCapture when it strikes between two transactions of the Rack.    *)
(***************************************************************************)
EXTENDS ContextFit, ResultRack

CONSTANTS
  MaxWakes, MaxRows, MaxFaults,   \* bounds
  RoundLimit,                     \* config.maxToolRounds
  Size,                           \* what a human's words or a reopened body may weigh
  Usual,                          \* what every other message weighs
  GroundSize,                     \* what the ground of a crossing may weigh
  CallList                        \* the calls a provider may return at once

ASSUME AttentionAssumption ==
  /\ {MaxWakes, MaxRows, MaxFaults, RoundLimit} \subseteq Nat
  /\ Size \subseteq Nat /\ Usual \in Nat /\ GroundSize \subseteq Nat
  /\ \A calls \in CallList :
       calls \in Seq({"plain", "tend_hearth", "reopen_result"}) /\ calls # <<>>

VARIABLES
  scroll,    \* session_history of the lifespan, by ordinal
  wake,      \* the wakes begun so far; the last one is the current one
  step,      \* where its performAdmittedWake() stands
  phase,     \* of its next or current crossing
  round,     \* of runResidentRounds()
  cast,      \* the last crossing that was fitted
  faults     \* bound on refused writes and crashes

fitVars == <<scroll, wake, step, phase, round, cast, faults>>
vars == <<rack, fitVars>>

Row(w, kind, calls, call, body, pointer, size) ==
  [kind |-> kind, wake |-> w, calls |-> calls, call |-> call, body |-> body,
   pointer |-> pointer, size |-> size]

NoCast == [phase |-> "none", wake |-> 0, rows |-> 0, messages |-> <<>>,
           folded |-> {}]

\* sessionHasOrientation(): a Hearth packet was returned in this lifespan.
Tended == \E i \in DOMAIN scroll : scroll[i].body = "hearth"
FirstPhase == IF Tended THEN "ordinary" ELSE "orientation"

\* The rows with what getHostReturnScrubReceipt() and validateProjectionReceipt()
\* say of their pointers
Rows == [i \in DOMAIN scroll |-> [scroll[i] EXCEPT !.pointer = Verified(@)]]

Init ==
  /\ RackInit
  /\ scroll = <<>> /\ wake = 0 /\ step = "rest" /\ phase = "ordinary"
  /\ round = 0 /\ cast = NoCast /\ faults = 0

-----------------------------------------------------------------------------
(* A wake begins *)

Begin == /\ step = "rest" /\ wake < MaxWakes /\ Len(scroll) + 3 <= MaxRows
         /\ wake' = wake + 1 /\ step' = "fitting" /\ phase' = FirstPhase
         /\ round' = 0

\* createSessionWake(): the human's row
HumanWake(size) ==
  /\ Begin
  /\ scroll' = Append(scroll, Row(wake', "user", <<>>, 0, "plain", 0, size))
  /\ UNCHANGED <<rack, cast, faults>>

\* createAutonomousSessionWake() of a tended lifespan, createHearthOriginWake()
\* of one that never woke: no row
AutonomousWake ==
  /\ Begin
  /\ Tended \/ wake = 0
  /\ UNCHANGED <<rack, scroll, cast, faults>>

-----------------------------------------------------------------------------
(* One crossing *)

\* ProviderPhase.run() up to the ceiling: what leaves, what is folded, what is
\* presented, and whether it weighs too much.
Crossing(ground) ==
  LET rows == Rows
      omitted == IF phase = "orientation" THEN {} ELSE Omitted(rows, wake)
      folded == Folded(rows, wake, phase, omitted, ground)
      messages == Assembled(rows, wake, phase, omitted, folded)
  IN  /\ step = "fitting"
      /\ cast' = [phase |-> phase, wake |-> wake, rows |-> Len(scroll),
                  messages |-> messages, folded |-> folded]
      /\ step' = IF TotalBytes(rows, messages, ground) < RefuseBytes
                 THEN "calling" ELSE "refused"
      /\ UNCHANGED <<rack, scroll, wake, phase, round, faults>>

\* attention_ceiling_exceeded, a refused write, a provider that failed, a crash:
\* failSessionWake(), and the rows stay as they are.
WakeFails ==
  /\ step \notin {"rest"}
  /\ IF step = "refused" THEN UNCHANGED faults
     ELSE faults < MaxFaults /\ faults' = faults + 1
  /\ step' = "rest"
  /\ UNCHANGED <<rack, scroll, wake, phase, round, cast>>

\* recordHearthAction() and, from the settled packet, recordHearthReturn()
HearthAction ==
  /\ step = "calling" /\ phase = "orientation"
  /\ scroll' = Append(scroll, Row(wake, "assistant_tool_call", <<"tend_hearth">>, 0, "plain", 0, Usual))
  /\ step' = "tending"
  /\ UNCHANGED <<rack, wake, phase, round, cast, faults>>

HearthReturn ==
  /\ step = "tending"
  /\ scroll' = Append(scroll, Row(wake, "tool_result", <<>>, 1, "hearth", 0, Usual))
  /\ step' = "fitting" /\ phase' = "response"
  /\ UNCHANGED <<rack, wake, round, cast, faults>>

\* commitSessionWake(): the Resident's words end the wake.
Speak ==
  /\ step = "calling" /\ phase # "orientation"
  /\ scroll' = Append(scroll, Row(wake, "resident", <<>>, 0, "plain", 0, Usual))
  /\ step' = "rest"
  /\ UNCHANGED <<rack, wake, phase, round, cast, faults>>

\* recordToolCall()
CallTools(calls) ==
  /\ step = "calling" /\ phase # "orientation"
  /\ Len(scroll) + 1 + Len(calls) <= MaxRows      \* bound
  /\ scroll' = Append(scroll, Row(wake, "assistant_tool_call", calls, 0, "plain", 0, 0))
  /\ step' = "settling"
  /\ UNCHANGED <<rack, wake, phase, round, cast, faults>>

-----------------------------------------------------------------------------
(* The calls of the last call row are settled one after the other. *)

CallRow == CHOOSE i \in DOMAIN scroll :
             /\ IsCall(scroll[i])
             /\ \A j \in DOMAIN scroll : j > i => scroll[j].kind = "tool_result"
NextCall == Len(scroll) - CallRow + 1
Tool == scroll[CallRow].calls[NextCall]

\* recordToolResult(), and after the last call the next round; calls in the
\* last round were refused, and the wake fails.
Settle(body, pointer, size) ==
  /\ scroll' = Append(scroll, Row(wake, "tool_result", <<>>, NextCall, body, pointer, size))
  /\ IF NextCall < Len(scroll[CallRow].calls) THEN UNCHANGED <<step, round>>
     ELSE IF round = RoundLimit THEN step' = "rest" /\ UNCHANGED round
     ELSE step' = "fitting" /\ round' = round + 1
  /\ UNCHANGED <<wake, phase, cast>>

\* What goes through the gateway: every action, and every refusal, of the last
\* round's calls too.
Captured == Tool # "reopen_result" \/ round = RoundLimit

\* An action or its refusal: the Rack captures what it returned.  The receipt of
\* a reopening is never a pointer.
ResultKept ==
  /\ step = "settling" /\ Captured
  /\ Capture
  /\ Settle("plain", IF Tool = "reopen_result" THEN 0 ELSE NextPointer, Usual)
  /\ UNCHANGED faults

\* ... or fails to, and the result is shown without a pointer.
ResultUnkept ==
  /\ step = "settling" /\ Captured /\ faults < MaxFaults
  /\ CaptureFails
  /\ Settle("plain", 0, Usual)
  /\ faults' = faults + 1

\* tend_hearth within a round rereads the packet; it is shown by the Hearth's
\* own policy, whatever the Rack captured.
HearthReread ==
  /\ step = "settling" /\ Tool = "tend_hearth" /\ Tended /\ round < RoundLimit
  /\ Capture
  /\ Settle("hearth", 0, Usual)
  /\ UNCHANGED faults

\* reopenResult(): the body of a verified pointer, or a refusal; neither is captured.
ResultReopened(pointer, size) ==
  /\ step = "settling" /\ ~Captured
  /\ Settle("plain", 0, IF Verified(pointer) THEN size ELSE 0)
  /\ UNCHANGED <<rack, faults>>

\* The process dies between two transactions of the Rack.
CrashInCapture ==
  /\ step = "settling" /\ Captured /\ faults < MaxFaults
  /\ CaptureFails
  /\ step' = "rest" /\ faults' = faults + 1
  /\ UNCHANGED <<scroll, wake, phase, round, cast>>

Next ==
  \/ \E size \in Size : HumanWake(size)
  \/ HearthAction \/ HearthReturn \/ Speak
  \/ ResultKept \/ ResultUnkept \/ HearthReread
  \/ AutonomousWake
  \/ \E ground \in GroundSize : Crossing(ground)
  \/ \E calls \in CallList : CallTools(calls)
  \/ \E pointer \in 0 .. Len(rack), size \in Size : ResultReopened(pointer, size)
  \/ CrashInCapture
  \/ WakeFails

Spec == Init /\ [][Next]_vars

-----------------------------------------------------------------------------
AttentionTypeOK ==
  /\ rack \in Seq(Job)
  /\ \A i \in DOMAIN scroll : /\ scroll[i].wake \in 1 .. wake
                              /\ scroll[i].pointer \in 0 .. Len(rack)
  /\ wake \in 0 .. MaxWakes /\ round \in 0 .. RoundLimit /\ faults \in 0 .. MaxFaults
  /\ step \in {"rest", "fitting", "calling", "refused", "tending", "settling"}
  /\ phase \in {"orientation", "response", "ordinary"}

\* The rows that the messages of one source stand for
Told(c, src) == UNION {c.messages[n].of : n \in {m \in DOMAIN c.messages : c.messages[m].src = src}}
Shown(c) == Told(c, "history")
Absent(c) == 1 .. c.rows \ Shown(c)

\* Whatever the crossing leaves out of the Scroll can be found again from what is
\* sealed: a folded pair stands in a fold that names both its rows, and a tool
\* exchange is gone whole, call and results together, only if the Rack still
\* verifies every result or a Hearth trace tells of it.  What is shown is shown
\* once, in the order of the Scroll, beneath the Glass.  One wrong index of the
\* omission plan, the fold map and the bands' shift breaks this (tool-pairs.js,
\* rolling-fold.js, glass-cast.js).
AbsentIsRecoverable ==
  /\ AttentionTypeOK
  /\ step \in {"calling", "refused"} =>
      LET absent == Absent(cast)
          history == {n \in DOMAIN cast.messages : cast.messages[n].src = "history"}
          sources == {cast.messages[n].src : n \in DOMAIN cast.messages}
          folds == Told(cast, "fold")
          traces == Told(cast, "hearth_trace")
      IN  /\ \A m, n \in history :
               m < n => \A i \in cast.messages[m].of, j \in cast.messages[n].of : i < j
          /\ cast.messages[1].src = "glass" /\ "ground" \in sources
          /\ \A i \in absent \ folds :
               \E c \in DOMAIN scroll :
                 /\ i \in Exchange(scroll, c) /\ Exchange(scroll, c) \subseteq absent
                 /\ \/ c \in traces
                    \/ \A k \in Results(scroll, c) : Verified(scroll[k].pointer)

\* Fitting never removes the causal tail (docs/specs/FOREST_PATHS_ROLLING_FOLD_V1.md):
\* the human turn this wake answers, the newest retained exchanges, every
\* exchange that is incomplete, the newest folding units, and in the response
\* that follows the Hearth the Hearth's own call and packet are shown exact.
CausalTailStands ==
  step \in {"calling", "refused"} =>
    LET shown == Shown(cast)
        answered == {i \in DOMAIN scroll : Answered(scroll, i)}
        dialogue == Dialogue(scroll)
        newest(S, n) == {i \in S : Cardinality({j \in S : j > i}) < n}
    IN  /\ \A i \in DOMAIN scroll \ shown :
             /\ ~(scroll[i].wake = wake /\ scroll[i].kind = "user")
             /\ \A c \in DOMAIN scroll : IsCall(scroll[c]) /\ i \in Exchange(scroll, c)
                  => c \in answered \ newest(answered, RetainedToolPairs)
             /\ i \notin newest(dialogue, FoldTailUnits)
             /\ i - 1 \notin newest(dialogue, FoldTailUnits)
        /\ phase = "response" => \E i \in shown : scroll[i].body = "hearth" /\ i - 1 \in shown

\* An exchange that has left attention does not come back by itself, in this
\* wake or a later one: only reopening shows its body again
\* (planOldToolExchangeOmissions() is computed anew for every crossing).
LeavesForGood ==
  [][\A i \in Absent(cast) : scroll[i].kind \in {"assistant_tool_call", "tool_result"}
        => i \in Absent(cast')]_cast

\* A crossing is refused only when nothing more could lawfully leave: every
\* fold that saves something was made and every exchange that may leave is gone
\* (provider-phase.js; the watermarks of config.js are what makes it so).
RefusesOnlyWhenExhausted ==
  step = "refused" /\ phase # "orientation" =>
    /\ Worthwhile(Rows) \subseteq cast.folded
    /\ Omitted(Rows, wake) \subseteq Absent(cast)
=============================================================================
