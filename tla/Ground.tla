------------------------------- MODULE Ground -------------------------------
(***************************************************************************)
(* Where the Resident is and what it has changed: the physical commands of *)
(* src/src/world/graph.js.  A command checks, then appends one event whose *)
(* projection is the change below, all in one synchronous transaction; a   *)
(* command that is not lawful throws and changes nothing.  The journal the *)
(* projection is kept in is not part of this module.                       *)
(***************************************************************************)
EXTENDS Places, Naturals

CONSTANTS
  NoFixture,   \* nothing is engaged
  MaxTurns     \* bound: turns of the stone

ASSUME NoFixtureAssumption == NoFixture \notin Fixture
ASSUME MaxTurnsAssumption == MaxTurns \in Nat

VARIABLES
  location,    \* the place of the current lifespan
  engaged,     \* the fixture in its working focus
  inspected,   \* a source was inspected since it came to this place
  frontDoor,   \* [locked, open]: the one front door, shared by all lifespans
  turns        \* the turn count of the Garden's stone

groundVars == <<location, engaged, inspected, frontDoor, turns>>

GroundTypeOK ==
  /\ location \in Place
  /\ engaged \in Fixture \cup {NoFixture}
  /\ inspected \in BOOLEAN
  /\ frontDoor \in [locked : BOOLEAN, open : BOOLEAN]
  /\ turns \in 0..MaxTurns

\* A lifespan starts in the House; the front door starts closed and not locked.
GroundInit ==
  /\ location = House
  /\ engaged = NoFixture
  /\ inspected = FALSE
  /\ frontDoor = [locked |-> FALSE, open |-> FALSE]
  /\ turns = 0

-----------------------------------------------------------------------------
\* Variant: the focus is kept when the Workshop is left.
Arrive_Focused(to) ==
  /\ location' = to
  /\ inspected' = FALSE
  /\ UNCHANGED engaged

Arrive(to) ==
  /\ location' = to
  /\ inspected' = FALSE
  /\ engaged' = IF location = Workshop /\ to # Workshop THEN NoFixture ELSE engaged

DoorHere(d) == { e \in Doors : e.from = location /\ e.name = d }
PassageHere(p) == { e \in Passages : e.from = location /\ e.name = p }

CanCross(p) == \E e \in PassageHere(p) : e.kind = "door" => frontDoor.open

Move(d) ==
  /\ \E e \in DoorHere(d) : Arrive(e.to)
  /\ UNCHANGED <<frontDoor, turns>>

MoveThroughPassage(p) ==
  /\ CanCross(p)
  /\ \E e \in PassageHere(p) : Arrive(e.to)
  /\ UNCHANGED <<frontDoor, turns>>

\* Variant: the door can be locked from either side.
CanOperate_EitherSide(op) ==
  /\ PassageHere(FrontDoor) # {}
  /\ \/ op = "open" /\ ~frontDoor.open /\ ~frontDoor.locked
     \/ op = "close" /\ frontDoor.open
     \/ op = "lock" /\ ~frontDoor.open /\ ~frontDoor.locked
     \/ op = "unlock" /\ location = House /\ ~frontDoor.open /\ frontDoor.locked

CanOperate(op) ==
  /\ PassageHere(FrontDoor) # {}
  /\ \/ op = "open" /\ ~frontDoor.open /\ ~frontDoor.locked
     \/ op = "close" /\ frontDoor.open
     \/ op = "lock" /\ location = House /\ ~frontDoor.open /\ ~frontDoor.locked
     \/ op = "unlock" /\ location = House /\ ~frontDoor.open /\ frontDoor.locked

OperatePassage(op) ==
  /\ CanOperate(op)
  /\ frontDoor' = [locked |-> op = "lock", open |-> op = "open"]
  /\ UNCHANGED <<location, engaged, inspected, turns>>

CanTurn == location = Garden

TurnFixture ==
  /\ CanTurn
  /\ turns < MaxTurns
  /\ turns' = turns + 1
  /\ UNCHANGED <<location, engaged, inspected, frontDoor>>

CanEngage == location = Workshop

EngageFixture(f) ==
  /\ CanEngage
  /\ engaged' = f
  /\ UNCHANGED <<location, inspected, frontDoor, turns>>

CanDisengage == location = Workshop /\ engaged # NoFixture

DisengageFixture ==
  /\ CanDisengage
  /\ engaged' = NoFixture
  /\ UNCHANGED <<location, inspected, frontDoor, turns>>

\* workshop_read and its like: what was read is recorded with the location.
Inspect ==
  /\ inspected' = TRUE
  /\ UNCHANGED <<location, engaged, frontDoor, turns>>

\* The location of a new lifespan; objects of the World stay as they are.
StartLifespan ==
  /\ location' = House
  /\ engaged' = NoFixture
  /\ inspected' = FALSE
  /\ UNCHANGED <<frontDoor, turns>>

-----------------------------------------------------------------------------
\* The door is never locked behind the Resident's back: while it is locked, the
\* Resident of the current lifespan is in the House or beyond it, where it can be
\* unlocked, whatever earlier lifespans did to it (operatePassage, ensureLifespan).
NotLockedOut == frontDoor.locked => location \in {House, Threshold} /\ ~frontDoor.open

\* The working focus and the inspected source are of the Workshop and do not outlast
\* the stay in it, whichever way the Resident leaves (move, moveThroughPassage).
AttentionIsInReach == engaged # NoFixture \/ inspected => location = Workshop
=============================================================================
