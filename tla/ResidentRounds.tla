--------------------------- MODULE ResidentRounds ---------------------------
(***************************************************************************)
(* The rounds of a wake (src/src/runtime/wake-service.js,                  *)
(* tool-continuation.js): the host fits the tools to where the Resident    *)
(* is, the provider answers with words or with tool calls, and the calls   *)
(* of one answer are executed one after another, each by the gateway in    *)
(* the World or by the Forest's traversal service.  What was fitted before *)
(* the answer (the place, the focus) is not read again between its calls.  *)
(*                                                                         *)
(* A call is chosen when it is executed, not when the answer arrives:      *)
(* nothing reads the calls in between.  One wake runs at a time and        *)
(* nothing else moves the Resident or walks, so a call is one step though  *)
(* the Forest awaits its index.  Retrieval tools without effect here are   *)
(* left out.                                                               *)
(***************************************************************************)
EXTENDS Ground, ForestWalk

CONSTANTS
  QuietLimit,   \* config.quietEmbodimentActions
  RoundLimit,   \* config.maxToolRounds, config.autonomousMaxToolRounds
  MaxCalls,     \* bound: calls in one answer
  MaxWakes,     \* bound: wakes
  MaxLives      \* bound: lifespans

ASSUME LimitsAssumption ==
  /\ {QuietLimit, RoundLimit, MaxCalls, MaxWakes, MaxLives} \subseteq Nat

VARIABLES
  life,        \* the current lifespan
  wake,        \* how many wakes there were
  origin,      \* "human" or "autonomous"
  phase,       \* "idle", "fitting", "asked", "calling"
  round,       \* of runResidentRounds
  fit,         \* what fitToolContinuationRound read
  left,        \* calls of the answer still to execute
  quietUsed,   \* quiet embodied actions attempted in this wake
  quietDone    \* those of them that reached the gateway

roundVars == <<life, wake, origin, phase, round, fit, left, quietUsed, quietDone>>
vars == <<groundVars, forestVars, roundVars>>

NoWalk == "none"
WalkNow == IF Walking(life) THEN journeys[Active(life)].register ELSE NoWalk
Fitted == [room : Place, focus : Fixture \cup {NoFixture}, walk : Register \cup {NoWalk}, spent : BOOLEAN]

Unfitted == [room |-> House, focus |-> NoFixture, walk |-> NoWalk, spent |-> FALSE]

Init ==
  /\ GroundInit /\ ForestInit
  /\ life = 1 /\ wake = 0 /\ origin = "human" /\ phase = "idle" /\ round = 0
  /\ fit = Unfitted
  /\ left = 0 /\ quietUsed = 0 /\ quietDone = 0

-----------------------------------------------------------------------------
(* The tools *)

ForestTools ==
  {"enter_forest", "turn_around", "walk_toward", "read_forest_leaf", "backtrack_forest", "leave_forest"}
WalkTools == ForestTools \ {"enter_forest"}

\* ForestTraversalService.tools(); write_journal moves nobody and is left out.
ForestToolsAt(walk, room) ==
  IF walk = "physical" THEN WalkTools
  ELSE IF walk # NoWalk THEN WalkTools \ {"leave_forest"}
  ELSE IF room = Forest THEN {"enter_forest"}
  ELSE {"enter_forest", "turn_around"}

\* residentToolProfile: the tools that read are fitted while the shelves are engaged.
Profile(room, focus) ==
  IF focus = Shelves THEN Mounted(room) ELSE Mounted(room) \ {"workshop_read"}

\* fitToolContinuationRound
Offered ==
  LET world == IF fit.walk = NoWalk THEN Profile(fit.room, fit.focus)
               ELSE IF fit.walk = "physical"
                    THEN Profile(fit.room, fit.focus) \cap {"move_through_passage"}
               ELSE {}
      kept == IF origin = "autonomous" THEN world \cap AutonomousTools ELSE world
  IN IF round = RoundLimit THEN {}
     ELSE ForestToolsAt(fit.walk, fit.room) \cup (IF fit.spent THEN kept \ QuietTools ELSE kept)

\* The provider may call any tool of the catalogue, offered or not.
Called == WorldTools \cup ForestTools

-----------------------------------------------------------------------------
(* A wake *)

StartWake(kind) ==
  /\ phase = "idle" /\ wake < MaxWakes
  /\ wake' = wake + 1
  /\ origin' = kind
  /\ phase' = "fitting"
  /\ LandFeathers(life, wake + 1)
  /\ UNCHANGED <<groundVars, life, round, fit, left, quietUsed, quietDone>>

Fit ==
  /\ phase = "fitting"
  /\ phase' = "asked"
  /\ fit' = [room |-> location, focus |-> engaged, walk |-> WalkNow,
             spent |-> origin = "human" /\ quietUsed >= QuietLimit]
  /\ UNCHANGED <<groundVars, forestVars, life, wake, origin, round, left, quietUsed, quietDone>>

\* What a wake counted and read is its own and ends with it.
EndWake ==
  /\ phase' = "idle" /\ origin' = "human" /\ round' = 0 /\ fit' = Unfitted
  /\ left' = 0 /\ quietUsed' = 0 /\ quietDone' = 0

\* Words end the wake, and so does a provider that fails.
Speak ==
  /\ phase = "asked"
  /\ EndWake
  /\ UNCHANGED <<groundVars, forestVars, life, wake>>

\* In the last round every call is refused and the wake fails.
CallTools ==
  /\ phase = "asked"
  /\ \/ round = RoundLimit /\ EndWake
     \/ /\ round # RoundLimit
        /\ \E n \in 1..MaxCalls : left' = n
        /\ phase' = "calling"
        /\ UNCHANGED <<origin, round, fit, quietUsed, quietDone>>
  /\ UNCHANGED <<groundVars, forestVars, life, wake>>

\* The call is settled; after the last one the next round begins.
NextCall ==
  /\ phase = "calling" /\ left > 0
  /\ left' = left - 1
  /\ IF left = 1
     THEN phase' = "fitting" /\ round' = round + 1 /\ fit' = Unfitted
     ELSE UNCHANGED <<phase, round, fit>>
  /\ UNCHANGED <<life, wake, origin>>

-----------------------------------------------------------------------------
(* The calls *)

\* Attempts are counted before they are made, so that a spent horizon also refuses
\* the calls that came with the one that spent it.
Quiet(tool) == origin = "human" /\ tool \in QuietTools
Counted(tool) == quietUsed' = IF Quiet(tool) THEN quietUsed + 1 ELSE quietUsed

\* Variant: the horizon is kept by the fitting alone.
Permitted_AsFitted(tool) ==
  /\ fit.spent => ~Quiet(tool)
  /\ origin = "autonomous" => tool \in AutonomousTools \cup ForestTools

Permitted(tool) ==
  /\ Quiet(tool) => quietUsed < QuietLimit
  /\ origin = "autonomous" => tool \in AutonomousTools \cup ForestTools

\* A crossing into the Garden is settled with the walk it ends.
Cross ==
  /\ \E p \in { e.name : e \in Passages } : MoveThroughPassage(p)
  /\ IF location' = Garden THEN CompletePhysicalReturn(life, wake) ELSE UNCHANGED forestVars

Do(tool) ==
  \/ tool = "move_through_passage" /\ Cross
  \/ /\ UNCHANGED forestVars
     /\ \/ tool = "move_through_door" /\ \E d \in { e.name : e \in Doors } : Move(d)
        \/ tool = "operate_passage" /\ \E op \in {"open", "close", "lock", "unlock"} : OperatePassage(op)
        \/ tool = "turn_fixture" /\ TurnFixture
        \/ tool = "engage_fixture" /\ \E f \in Fixture : EngageFixture(f)
        \/ tool = "disengage_fixture" /\ DisengageFixture
        \/ tool = "workshop_read" /\ Inspect
        \/ tool \in {"inspect_fixture", "tend_hearth"} /\ UNCHANGED groundVars

\* Through the gateway, which asks whether the tool is mounted where the Resident
\* now is, not whether it was offered.
WorldCall(tool) ==
  /\ tool \in Called \cap WorldTools
  /\ NextCall
  /\ Permitted(tool) /\ Counted(tool)
  /\ tool \in Mounted(location)
  /\ Do(tool)
  /\ quietDone' = IF Quiet(tool) THEN quietDone + 1 ELSE quietDone

EnterForest(register) ==
  Enter(life, wake, register, fit.room, IF fit.room = Forest THEN NoFixture ELSE fit.focus)

\* ForestTraversalService.execute(), with the place the round was fitted to.
Walk(tool) ==
  \/ tool = "enter_forest" /\ EnterForest(IF fit.room = Forest THEN "physical" ELSE "inquiry")
  \/ tool = "turn_around" /\ ~Walking(life) /\ fit.room # Forest /\ EnterForest("recovery")
  \/ tool = "turn_around" /\ TurnBack(life, wake)
  \/ tool = "walk_toward" /\ \E offer \in Offer : WalkToward(life, wake, offer)
  \/ tool = "read_forest_leaf" /\ ReadLeaf(life, wake)
  \/ tool = "backtrack_forest" /\ Backtrack(life, wake)
  \/ tool = "leave_forest" /\ LeaveForest(life, wake)

ForestCall(tool) ==
  /\ tool \in Called \cap ForestTools
  /\ NextCall
  /\ Walk(tool)
  /\ UNCHANGED <<groundVars, quietUsed, quietDone>>

\* Any call may be refused, if only for its arguments.
RefusedCall(tool) ==
  /\ tool \in Called
  /\ NextCall
  /\ Counted(tool)
  /\ UNCHANGED <<groundVars, forestVars, quietDone>>

Call == \E tool \in Called : WorldCall(tool) \/ ForestCall(tool) \/ RefusedCall(tool)

\* A new lifespan, between wakes.
NewLifespan ==
  /\ phase = "idle" /\ life < MaxLives
  /\ life' = life + 1
  /\ StartLifespan
  /\ UNCHANGED <<forestVars, wake, origin, phase, round, fit, left, quietUsed, quietDone>>

Next ==
  \/ \E kind \in {"human", "autonomous"} : StartWake(kind)
  \/ Fit \/ Speak \/ CallTools \/ Call \/ NewLifespan

Spec == Init /\ [][Next]_vars

\* The host goes on with a wake.  Whether a provider ever answers is not assumed.
FairSpec == Spec /\ WF_vars(Fit \/ Call)

-----------------------------------------------------------------------------
(* Properties *)

\* The types of all parts; no round beyond the last.
RoundsTypeOK ==
  /\ GroundTypeOK
  /\ life \in 1..MaxLives /\ wake \in 0..MaxWakes /\ origin \in {"human", "autonomous"}
  /\ phase \in {"idle", "fitting", "asked", "calling"}
  /\ round \in 0..RoundLimit
  /\ fit \in Fitted
  /\ left \in 0..MaxCalls
  /\ quietUsed \in Nat /\ quietDone \in Nat
  /\ Len(journeys) <= MaxJourneys
  /\ \A j \in DOMAIN journeys :
       journeys[j].register \in Register /\ journeys[j].place \in Place

\* In one human wake no more quiet embodied actions reach the World than the horizon
\* allows, however many calls an answer carries and whatever was offered
\* (runResidentRounds: "stale or parallel provider calls cannot bypass the horizon").
QuietHorizon == quietDone <= QuietLimit

\* A physical walk is walked from the treeline: the World has the Resident in
\* place.forest as long as it lasts, though the register was chosen from the place
\* the round was fitted to (execute, completePhysicalReturn).
PhysicalWalkIsAtTheTreeline == WalkNow = "physical" => location = Forest

\* A walk is lawful, its replay finds the Resident where walking put it, and it goes
\* where it was shown a way, from the place it says.
WalkIsSound ==
  WalkIsWellFormed /\ FootingFollowsThePath /\ BearingsWereShown /\ PhysicalWalkIsAtTheTreeline

\* Wherever a Resident finds itself it can leave, and what it attends to is there.
ResidentIsAtHome == NotLockedOut /\ AttentionIsInReach

=============================================================================
