----------------------------- MODULE ForestWalk -----------------------------
(***************************************************************************)
(* The walks through the Resident Forest: src/src/forest/traversal.js and  *)
(* traversal-store.js.  A journey is an append-only log of events; where   *)
(* the Resident stands in it is never stored, it is replayed from the log. *)
(* A junction is a clearing with the bearings offered there; junctions of  *)
(* a journey are numbered in the order they are made, 1 at the entrance.   *)
(*                                                                         *)
(* Left out: what the offers are about (a call may fail for want of        *)
(* terrain), the wear of edges, which the log determines, and the refusals *)
(* table.  A tool call whose identity the journey has seen is refused by   *)
(* the store's UNIQUE constraint.                                          *)
(***************************************************************************)
EXTENDS Naturals, Sequences, SequencesExt, FiniteSets

CONSTANTS
  MaxJourneys,   \* bound: journeys
  MaxEvents      \* bound: events of one journey

VARIABLES
  journeys,   \* every journey, in the order they were entered
  landings    \* feathers landed: [journey, junction, wake]

forestVars == <<journeys, landings>>

Register == {"physical", "inquiry", "recovery"}
Bearing == {"branch", "feather"}
Offer == [junction : 1..MaxEvents, bearing : Bearing]
EventKind == {"entered", "stepped", "read", "backtracked", "returned"}

\* Not every event has an offer or makes a junction.
NoOffer == [junction |-> 0, bearing |-> "none"]
Event(kind, at, wake, offer, to) ==
  [kind |-> kind, at |-> at, wake |-> wake, offer |-> offer, to |-> to]

ForestInit == journeys = <<>> /\ landings = {}

-----------------------------------------------------------------------------
(* The projection *)

Returned(j) == \E i \in DOMAIN journeys[j].log : journeys[j].log[i].kind = "returned"

\* The unreturned journeys of a lifespan; activeJourney picks the last.
Unreturned(life) == { j \in DOMAIN journeys : journeys[j].life = life /\ ~Returned(j) }
Walking(life) == Unreturned(life) # {}
Active(life) == CHOOSE j \in Unreturned(life) : \A k \in Unreturned(life) : k <= j

\* Variant: stepping back to the entrance whatever was walked.
Retrace_ToEntrance(trail, event) ==
  IF event.kind = "stepped" THEN Append(trail, event.to)
  ELSE IF event.kind = "backtracked" THEN <<>>
  ELSE trail

Retrace(trail, event) ==
  IF event.kind = "stepped" THEN Append(trail, event.to)
  ELSE IF event.kind = "backtracked" /\ trail # <<>> THEN Front(trail)
  ELSE trail

\* The replay: the trail after each event of the log
Trails(log) ==
  LET after[n \in 0..Len(log)] == IF n = 0 THEN <<>> ELSE Retrace(after[n - 1], log[n])
  IN  after
Trail(log) == Trails(log)[Len(log)]
Clearing(log) == IF Trail(log) = <<>> THEN 1 ELSE Last(Trail(log))

Footing(j) == Clearing(journeys[j].log)
StepsFromEntrance(j) == Len(Trail(journeys[j].log))

\* The bearings frozen with a clearing, semantic or of the conversation, as one.
Offers(junction) == { [junction |-> junction, bearing |-> "branch"] }

\* Variant: a feather of any clearing will do.
Shown_AnyLanding(j, wake) ==
  Offers(Footing(j))
    \cup { [junction |-> l.junction, bearing |-> "feather"] : l \in { l \in landings : l.journey = j } }

\* What walk_toward accepts: a bearing of the clearing, or a feather this wake
\* landed in it (featherLanding).
Shown(j, wake) ==
  Offers(Footing(j))
    \cup { [junction |-> l.junction, bearing |-> "feather"] :
             l \in { l \in landings : l.journey = j /\ l.junction = Footing(j) /\ l.wake = wake } }

-----------------------------------------------------------------------------
(* The operations.  Each is one transaction of the store. *)

NewJunction(j) == 1 + Cardinality({ i \in DOMAIN journeys[j].log : journeys[j].log[i].kind = "stepped" }) + 1

Log(j, event) ==
  /\ Len(journeys[j].log) < MaxEvents
  /\ journeys' = [journeys EXCEPT ![j].log = Append(@, event)]
  /\ UNCHANGED landings

\* Variant: a walk may be entered within a walk.
Enter_Nested(life, wake, register, place, focus) ==
  /\ Len(journeys) < MaxJourneys
  /\ journeys' = Append(journeys,
       [life |-> life, register |-> register, place |-> place, focus |-> focus,
        log |-> << Event("entered", 1, wake, NoOffer, 0) >>])
  /\ UNCHANGED landings

Enter(life, wake, register, place, focus) ==
  /\ ~Walking(life)
  /\ Len(journeys) < MaxJourneys
  /\ journeys' = Append(journeys,
       [life |-> life, register |-> register, place |-> place, focus |-> focus,
        log |-> << Event("entered", 1, wake, NoOffer, 0) >>])
  /\ UNCHANGED landings

WalkToward(life, wake, offer) ==
  LET j == Active(life) IN
  /\ Walking(life)
  /\ offer \in Shown(j, wake)
  /\ Log(j, Event("stepped", Footing(j), wake, offer, NewJunction(j)))

\* The entrance has no leaf.
ReadLeaf(life, wake) ==
  LET j == Active(life) IN
  /\ Walking(life)
  /\ Footing(j) # 1
  /\ Log(j, Event("read", Footing(j), wake, NoOffer, 0))

Backtrack(life, wake) ==
  LET j == Active(life) IN
  /\ Walking(life)
  /\ StepsFromEntrance(j) >= 1
  /\ Log(j, Event("backtracked", Footing(j), wake, NoOffer, 0))

Return(life, wake) ==
  LET j == Active(life) IN Log(j, Event("returned", Footing(j), wake, NoOffer, 0))

\* turn_around, in a walk that did not begin at the treeline.
TurnBack(life, wake) ==
  /\ Walking(life) /\ journeys[Active(life)].register # "physical"
  /\ Return(life, wake)

LeaveForest(life, wake) ==
  /\ Walking(life) /\ journeys[Active(life)].register = "physical"
  /\ Return(life, wake)

\* The settlement of a crossing to the Garden ends a physical walk.
CompletePhysicalReturn(life, wake) ==
  IF Walking(life) /\ journeys[Active(life)].register = "physical"
  THEN Return(life, wake)
  ELSE UNCHANGED forestVars

\* The feathers of a wake land in the clearing where it finds the Resident.
LandFeathers(life, wake) ==
  IF Walking(life)
  THEN \/ UNCHANGED forestVars
       \/ /\ landings' = landings \cup
               {[journey |-> Active(life), junction |-> Footing(Active(life)), wake |-> wake]}
          /\ UNCHANGED journeys
  ELSE UNCHANGED forestVars

-----------------------------------------------------------------------------
(* Properties *)

Steps(log) == { i \in DOMAIN log : log[i].kind = "stepped" }

\* Each walk is a lawful whole: it opens with its entrance, nothing follows its
\* return, no more is retraced than was walked, no leaf is read at the entrance, and a
\* lifespan is in one walk at a time (enter, appendSimple, read_forest_leaf, backtrack_forest).
WalkIsWellFormed ==
  /\ \A j \in DOMAIN journeys :
       LET log == journeys[j].log
           Count(kind, n) == Cardinality({ i \in 1..n : log[i].kind = kind })
       IN /\ \A i \in DOMAIN log :
               /\ log[i].kind = "entered" <=> i = 1
               /\ log[i].kind = "returned" => i = Len(log)
               /\ log[i].kind = "read" => log[i].at # 1
               /\ Count("backtracked", i) <= Count("stepped", i)
  /\ \A j \in DOMAIN journeys :
       Cardinality(Unreturned(journeys[j].life)) <= 1

\* Where the replay of the log puts the Resident is where walking puts it: a step
\* leads to the junction it made, and retracing leads to the junction from which the
\* one left was made, however steps and retracings alternate (projection).
FootingFollowsThePath ==
  \A j \in DOMAIN journeys :
    LET log == journeys[j].log
        Parent(junction) == log[CHOOSE i \in Steps(log) : log[i].to = junction].at
        after[n \in 0..Len(log)] ==
          IF n = 0 THEN 1
          ELSE IF log[n].kind = "stepped" THEN log[n].to
          ELSE IF log[n].kind = "backtracked" /\ after[n - 1] # 1 THEN Parent(after[n - 1])
          ELSE after[n - 1]
    IN /\ Footing(j) = after[Len(log)]
       /\ \A i \in 2..Len(log) : log[i].at = after[i - 1]

\* Every step was taken along a bearing of the clearing it left, and along a feather
\* only if that feather landed there in the wake that took the step (walk_toward, step).
BearingsWereShown ==
  \A j \in DOMAIN journeys : \A i \in Steps(journeys[j].log) :
    LET e == journeys[j].log[i] IN
      /\ e.offer.junction = e.at
      /\ e.offer.bearing = "feather" =>
           [journey |-> j, junction |-> e.at, wake |-> e.wake] \in landings
=============================================================================
