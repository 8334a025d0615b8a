------------------------------- MODULE Places -------------------------------
(***************************************************************************)
(* The standing topology of the World: its places, doors and passages, and *)
(* the tools each place mounts (src/src/world/topology-*.js, ceiling.js).  *)
(* Only the tools that move the Resident, change an object or change what  *)
(* the Resident attends to are named; workshop_read stands for the four    *)
(* Workshop tools that record an inspected source.                         *)
(***************************************************************************)
Center == "room.center"
Workshop == "room.workshop"
Spotlight == "room.spotlight"
Garden == "place.garden"
House == "place.house"
Threshold == "place.threshold"
Forest == "place.forest"

Place == {Center, Workshop, Spotlight, Garden, House, Threshold, Forest}

\* Both directions of an edge, door or passage, under one name.
Between(name, kind, a, b) ==
  { [name |-> name, kind |-> kind, from |-> a, to |-> b],
    [name |-> name, kind |-> kind, from |-> b, to |-> a] }

Doors ==
  Between("door.workshop", "door", Center, Workshop)
    \cup Between("door.spotlight", "door", Center, Spotlight)

\* The passage of kind "door" is the one the front door governs.
Passages ==
  UNION { Between("passage.center_garden", "opening", Center, Garden),
          Between("passage.garden_house", "door", Garden, House),
          Between("passage.house_threshold", "threshold", House, Threshold),
          Between("passage.garden_forest", "opening", Garden, Forest) }

FrontDoor == "passage.garden_house"

\* Fixtures of the Workshop that can be engaged; the shelves fit the tools that read.
Shelves == "fixture.workshop_shelves"
Workbench == "fixture.workshop_workbench"
Fixture == {Shelves, Workbench}

WorkshopTools ==
  {"move_through_door", "inspect_fixture", "engage_fixture", "disengage_fixture", "workshop_read"}

\* The mountedTools each place declares.
Declared(room) ==
  CASE room = Center -> {"move_through_door", "move_through_passage", "inspect_fixture"}
    [] room = Workshop -> WorkshopTools
    [] room = Spotlight -> {"move_through_door"}
    [] room = Garden -> {"move_through_passage", "operate_passage", "inspect_fixture", "turn_fixture"}
    [] room = House -> {"move_through_passage", "operate_passage", "inspect_fixture", "tend_hearth"}
    [] room \in {Threshold, Forest} -> {"move_through_passage"}

\* Variant: every place has its row.
Profiled_Everywhere == Place

\* The places with a row in ROOM_PROFILES.  place.forest has none.
Profiled == Place \ {Forest}

Mounted(room) == IF room \in Profiled THEN Declared(room) ELSE {}

WorldTools == UNION { Mounted(room) : room \in Place }

\* isQuietEmbodimentAction: the simple embodied actions but for tend_hearth.
QuietTools ==
  {"move_through_door", "move_through_passage", "operate_passage", "turn_fixture", "inspect_fixture"}

\* autonomousToolAllowed, of the tools named here; every Forest tool is allowed too.
AutonomousTools == WorldTools \ {"turn_fixture", "tend_hearth"}
=============================================================================
