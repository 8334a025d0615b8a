---------------------------- MODULE RoundsProofs ----------------------------
(***************************************************************************)
(* What the Ground and the rounds of a wake guarantee for any provider,    *)
(* any limits, any number of wakes, lifespans and calls.  The Resident is  *)
(* moved only by the commands of Ground, so what is true of the place is   *)
(* shown for those commands and carried over to the rounds.  The walks     *)
(* through the Forest are replayed from their logs: what a lawful log is   *)
(* is said of the replay after each of its events, and every operation of  *)
(* a walk is shown to append an event with which the log stays lawful.     *)
(***************************************************************************)
EXTENDS ResidentRounds, SequenceTheorems, FiniteSetTheorems, TLAPS

-----------------------------------------------------------------------------
(* Induction on the naturals, with a set in place of a predicate *)

\* A set of naturals that is not empty has a least element.
LEMMA LeastOfNats ==
  ASSUME NEW T, T \subseteq Nat, T # {}
  PROVE  \E n \in T : \A m \in T : n <= m
  <1> DEFINE R == OpToRel(<, Nat)
  <1>1. IsWellFoundedOn(R, Nat)
    BY NatLessThanWellFounded
  <1>2. \A x, y \in Nat : <<y, x>> \in R <=> y < x
    BY DEF OpToRel
  <1> HIDE DEF R
  <1>3. PICK x \in T : \A y \in T : ~(<<y, x>> \in R)
    BY <1>1, WFMin
  <1>4. ASSUME NEW y \in T PROVE x <= y
    <2>1. x \in Nat /\ y \in Nat
      OBVIOUS
    <2>2. ~(y < x)
      BY <1>2, <1>3, <2>1
    <2>3. QED
      BY <2>1, <2>2
  <1>5. QED
    BY <1>4

\* A set with zero in it and with the successor of each of its numbers holds them all.
LEMMA NatsByInduction ==
  ASSUME NEW S, 0 \in S, \A n \in Nat : n \in S => n + 1 \in S
  PROVE  \A n \in Nat : n \in S
  <1> SUFFICES ASSUME Nat \ S # {} PROVE FALSE
    OBVIOUS
  <1>1. PICK n \in Nat \ S : \A m \in Nat \ S : n <= m
    BY LeastOfNats
  <1>2. n # 0 /\ n - 1 \in Nat
    BY <1>1
  <1>3. n - 1 \in S
    BY <1>1, <1>2
  <1>4. QED
    BY <1>1, <1>2, <1>3

\* The same up to a bound.
LEMMA IntervalByInduction ==
  ASSUME NEW N \in Nat, NEW S, 0 \in S, \A n \in 0..N : n < N /\ n \in S => n + 1 \in S
  PROVE  \A n \in 0..N : n \in S
  <1> DEFINE T == { n \in Nat : n <= N => n \in S }
  <1>1. 0 \in T
    OBVIOUS
  <1>2. \A n \in Nat : n \in T => n + 1 \in T
    OBVIOUS
  <1> HIDE DEF T
  <1>3. \A n \in Nat : n \in T
    BY <1>1, <1>2, NatsByInduction
  <1>4. QED
    BY <1>3 DEF T

-----------------------------------------------------------------------------

GroundStep ==
  \/ \E d \in { e.name : e \in Doors } : Move(d)
  \/ \E p \in { e.name : e \in Passages } : MoveThroughPassage(p)
  \/ \E op \in {"open", "close", "lock", "unlock"} : OperatePassage(op)
  \/ TurnFixture
  \/ \E f \in Fixture : EngageFixture(f)
  \/ DisengageFixture
  \/ location = Workshop /\ Inspect
  \/ StartLifespan


-----------------------------------------------------------------------------
(* The steps of the rounds are steps of the Ground *)

\* Reading is a tool of the Workshop alone.
LEMMA ReadingIsMountedInTheWorkshop ==
  "workshop_read" \in Mounted(location) => location = Workshop
  <1>1. CASE location = Workshop
    BY <1>1
  <1>2. CASE location # Workshop
    BY <1>2 DEF Mounted, Declared, Profiled, Place, WorkshopTools, Center, Workshop, Spotlight,
                Garden, House, Threshold, Forest
  <1>3. QED
    BY <1>1, <1>2

LEMMA WorldCallsMoveTheGround ==
  ASSUME NEW tool, WorldCall(tool)
  PROVE  [GroundStep]_groundVars
  <1>1. tool \in Mounted(location) /\ Do(tool)
    BY DEF WorldCall
  <1>2. CASE tool = "move_through_passage" /\ Cross
    BY <1>2 DEF Cross, GroundStep, MoveThroughPassage
  <1>3. CASE \E d \in { e.name : e \in Doors } : Move(d)
    BY <1>3 DEF GroundStep, Move
  <1>4. CASE \E op \in {"open", "close", "lock", "unlock"} : OperatePassage(op)
    BY <1>4 DEF GroundStep, OperatePassage
  <1>5. CASE tool = "turn_fixture" /\ TurnFixture
    BY <1>5 DEF GroundStep
  <1>6. CASE \E f \in Fixture : EngageFixture(f)
    BY <1>6 DEF GroundStep, EngageFixture
  <1>7. CASE DisengageFixture
    BY <1>7 DEF GroundStep, DisengageFixture
  <1>8. CASE tool = "workshop_read" /\ Inspect
    BY <1>1, <1>8, ReadingIsMountedInTheWorkshop DEF GroundStep, Inspect
  <1>9. CASE UNCHANGED groundVars
    BY <1>9 DEF groundVars
  <1>10. QED
    BY <1>1, <1>2, <1>3, <1>4, <1>5, <1>6, <1>7, <1>8, <1>9 DEF Do

LEMMA StepsOfTheGround ==
  ASSUME [Next]_vars
  PROVE  [GroundStep]_groundVars
  <1>1. ASSUME NEW kind \in {"human", "autonomous"}, StartWake(kind)
        PROVE  UNCHANGED groundVars
    BY <1>1 DEF StartWake
  <1>2. CASE Fit \/ Speak \/ CallTools
    BY <1>2 DEF Fit, Speak, CallTools
  <1>3. ASSUME NEW tool \in Called, WorldCall(tool) \/ ForestCall(tool) \/ RefusedCall(tool)
        PROVE  [GroundStep]_groundVars
    BY <1>3, WorldCallsMoveTheGround DEF ForestCall, RefusedCall
  <1>4. CASE NewLifespan
    BY <1>4 DEF NewLifespan, GroundStep
  <1>5. CASE UNCHANGED vars
    BY <1>5 DEF vars
  <1>6. QED
    BY <1>1, <1>2, <1>3, <1>4, <1>5 DEF Next, Call

-----------------------------------------------------------------------------
(* The front door *)

\* From the House and the Threshold one leaves only by the front door.
LEMMA WaysOutOfTheHouse ==
  /\ \A e \in Doors : e.from \notin {House, Threshold}
  /\ \A e \in Passages :
       /\ e.from = House => e.kind = "door" \/ e.to = Threshold
       /\ e.from = Threshold => e.to = House
  BY DEF Doors, Passages, Between, Center, Workshop, Spotlight, Garden, House, Threshold, Forest

LEMMA GroundKeepsTheWayIn ==
  ASSUME NotLockedOut, [GroundStep]_groundVars
  PROVE  NotLockedOut'
  <1>1. ASSUME NEW d \in { e.name : e \in Doors }, Move(d)
        PROVE  NotLockedOut'
    BY <1>1, WaysOutOfTheHouse DEF Move, DoorHere, Arrive, NotLockedOut
  <1>2. ASSUME NEW p \in { e.name : e \in Passages }, MoveThroughPassage(p)
        PROVE  NotLockedOut'
    <2>1. SUFFICES ASSUME frontDoor.locked
                   PROVE  location' \in {House, Threshold}
      BY <1>2 DEF MoveThroughPassage, NotLockedOut
    <2>2. location \in {House, Threshold} /\ ~frontDoor.open
      BY <2>1 DEF NotLockedOut
    <2>3. PICK e \in Passages : e.from = location /\ e.name = p /\ location' = e.to
      BY <1>2 DEF MoveThroughPassage, PassageHere, Arrive
    <2>4. PICK way \in Passages : way.from = location /\ way.name = p /\ (way.kind = "door" => frontDoor.open)
      BY <1>2 DEF MoveThroughPassage, CanCross, PassageHere
    <2>5. \A x, y \in Passages : x.from = y.from /\ x.name = y.name => x = y
      BY DEF Passages, Between, Center, Garden, House, Threshold, Forest
    <2>6. e = way
      BY <2>3, <2>4, <2>5
    <2>7. QED
      BY <2>2, <2>3, <2>4, <2>6, WaysOutOfTheHouse
  <1>3. ASSUME NEW op \in {"open", "close", "lock", "unlock"}, OperatePassage(op)
        PROVE  NotLockedOut'
    BY <1>3 DEF OperatePassage, CanOperate, NotLockedOut
  <1>4. CASE StartLifespan
    BY <1>4 DEF StartLifespan, NotLockedOut
  <1>5. CASE TurnFixture \/ (\E f \in Fixture : EngageFixture(f)) \/ DisengageFixture \/ Inspect
    BY <1>5 DEF TurnFixture, EngageFixture, DisengageFixture, Inspect, NotLockedOut
  <1>6. CASE UNCHANGED groundVars
    BY <1>6 DEF groundVars, NotLockedOut
  <1>7. QED
    BY <1>1, <1>2, <1>3, <1>4, <1>5, <1>6 DEF GroundStep

\* The front door is never locked behind the Resident, whatever the provider calls and
\* whichever lifespan locked it (operatePassage, ensureLifespan).
THEOREM ResidentIsNotLockedOut == Spec => []NotLockedOut
  <1>1. Init => NotLockedOut
    BY DEF Init, GroundInit, NotLockedOut
  <1>2. NotLockedOut /\ [Next]_vars => NotLockedOut'
    BY StepsOfTheGround, GroundKeepsTheWayIn
  <1>3. QED
    BY <1>1, <1>2, PTL DEF Spec

-----------------------------------------------------------------------------
(* The attention *)

LEMMA GroundReleasesTheAttention ==
  ASSUME AttentionIsInReach, [GroundStep]_groundVars
  PROVE  AttentionIsInReach'
  <1>1. ASSUME NEW to, Arrive(to)
        PROVE  AttentionIsInReach'
    BY <1>1 DEF Arrive, AttentionIsInReach
  <1>2. CASE \E d \in { e.name : e \in Doors } : Move(d)
    BY <1>1, <1>2 DEF Move
  <1>3. CASE \E p \in { e.name : e \in Passages } : MoveThroughPassage(p)
    BY <1>1, <1>3 DEF MoveThroughPassage
  <1>4. CASE TurnFixture \/ \E op \in {"open", "close", "lock", "unlock"} : OperatePassage(op)
    BY <1>4 DEF TurnFixture, OperatePassage, AttentionIsInReach
  <1>5. CASE DisengageFixture \/ \E f \in Fixture : EngageFixture(f)
    BY <1>5 DEF DisengageFixture, CanDisengage, EngageFixture, CanEngage, AttentionIsInReach
  <1>6. CASE location = Workshop /\ Inspect
    BY <1>6 DEF Inspect, AttentionIsInReach
  <1>7. CASE StartLifespan
    BY <1>7 DEF StartLifespan, AttentionIsInReach
  <1>8. CASE UNCHANGED groundVars
    BY <1>8 DEF groundVars, AttentionIsInReach
  <1>9. QED
    BY <1>2, <1>3, <1>4, <1>5, <1>6, <1>7, <1>8 DEF GroundStep

\* No focus and no inspected source outlast the stay in the Workshop (move,
\* moveThroughPassage, and the events they append).
THEOREM AttentionStaysInReach == Spec => []AttentionIsInReach
  <1>1. Init => AttentionIsInReach
    BY DEF Init, GroundInit, AttentionIsInReach
  <1>2. AttentionIsInReach /\ [Next]_vars => AttentionIsInReach'
    BY StepsOfTheGround, GroundReleasesTheAttention
  <1>3. QED
    BY <1>1, <1>2, PTL DEF Spec

\* A Resident can always leave where it is, and attends to nothing it has left,
\* whatever a provider calls.
THEOREM ResidentStaysAtHome == Spec => []ResidentIsAtHome
  <1>1. NotLockedOut /\ AttentionIsInReach => ResidentIsAtHome
    BY DEF ResidentIsAtHome
  <1>2. QED
    BY <1>1, ResidentIsNotLockedOut, AttentionStaysInReach, PTL

-----------------------------------------------------------------------------
(* The quiet horizon *)

\* No more reach the gateway than were attempted: the inductive strengthening.
QuietInv ==
  /\ quietUsed \in Nat /\ quietDone \in Nat
  /\ quietDone <= quietUsed
  /\ QuietHorizon

LEMMA CallsKeepTheHorizon ==
  ASSUME QuietInv, NEW tool, WorldCall(tool) \/ ForestCall(tool) \/ RefusedCall(tool)
  PROVE  QuietInv'
  <1>1. QuietLimit \in Nat
    BY LimitsAssumption
  <1>2. CASE WorldCall(tool)
    <2>1. CASE Quiet(tool)
      <3>1. quietUsed < QuietLimit /\ quietUsed' = quietUsed + 1 /\ quietDone' = quietDone + 1
        BY <1>2, <2>1 DEF WorldCall, Permitted, Counted
      <3>2. QED
        BY <1>1, <3>1 DEF QuietInv, QuietHorizon
    <2>2. CASE ~Quiet(tool)
      BY <1>2, <2>2 DEF WorldCall, Counted, QuietInv, QuietHorizon
    <2>3. QED
      BY <2>1, <2>2
  <1>3. CASE ForestCall(tool)
    BY <1>3 DEF ForestCall, QuietInv, QuietHorizon
  <1>4. CASE RefusedCall(tool)
    BY <1>1, <1>4 DEF RefusedCall, Counted, QuietInv, QuietHorizon
  <1>5. QED
    BY <1>2, <1>3, <1>4

\* In a human wake no more quiet embodied actions reach the World than the horizon
\* allows, for any limit and any number of calls in an answer (runResidentRounds).
THEOREM HorizonHolds == Spec => []QuietHorizon
  <1>1. Init => QuietInv
    BY LimitsAssumption DEF Init, QuietInv, QuietHorizon
  <1>2. QuietInv /\ [Next]_vars => QuietInv'
    <2>1. SUFFICES ASSUME QuietInv, [Next]_vars
                   PROVE  QuietInv'
      OBVIOUS
    <2>2. QuietLimit \in Nat
      BY LimitsAssumption
    <2>3. ASSUME EndWake
          PROVE  QuietInv'
      BY <2>2, <2>3 DEF EndWake, QuietInv, QuietHorizon
    <2>4. CASE Speak \/ CallTools
      BY <2>1, <2>3, <2>4 DEF Speak, CallTools, QuietInv, QuietHorizon
    <2>5. CASE Call
      BY <2>1, <2>5, CallsKeepTheHorizon DEF Call
    <2>6. CASE Fit \/ NewLifespan \/ \E kind \in {"human", "autonomous"} : StartWake(kind)
      BY <2>1, <2>6 DEF Fit, NewLifespan, StartWake, QuietInv, QuietHorizon
    <2>7. CASE UNCHANGED vars
      BY <2>1, <2>7 DEF vars, roundVars, QuietInv, QuietHorizon
    <2>8. QED
      BY <2>1, <2>4, <2>5, <2>6, <2>7 DEF Next
  <1>3. QuietInv => QuietHorizon
    BY DEF QuietInv
  <1>4. QED
    BY <1>1, <1>2, <1>3, PTL DEF Spec

-----------------------------------------------------------------------------
(* The replay of a log *)

EventRecord == [kind : EventKind, at : Nat, wake : Nat, offer : Offer \cup {NoOffer}, to : Nat]
Follows(log, f) == f = [n \in 0..Len(log) |-> IF n = 0 THEN <<>> ELSE Retrace(f[n - 1], log[n])]

LEMMA TrailsRun ==
  ASSUME NEW log, Len(log) \in Nat
  PROVE  \E f : Follows(log, f)
  <1> DEFINE R(N, f) == f = [n \in 0..N |-> IF n = 0 THEN <<>> ELSE Retrace(f[n - 1], log[n])]
             S == {N \in Nat : \E f : R(N, f)}
  <1>1. 0 \in S
    <2> DEFINE f == [n \in 0..0 |-> <<>>]
    <2>1. R(0, f)
      OBVIOUS
    <2>2. QED
      BY <2>1
  <1>2. ASSUME NEW N \in Nat, N \in S
        PROVE  N + 1 \in S
    <2>1. PICK f : R(N, f)
      BY <1>2
    <2> DEFINE g == [n \in 0..N + 1 |-> IF n = 0 THEN <<>> ELSE Retrace(f[n - 1], log[n])]
    <2>2. \A n \in 0..N : g[n] = f[n]
      <3>1. TAKE n \in 0..N
      <3>2. n \in 0..N + 1
        OBVIOUS
      <3>3. f[n] = IF n = 0 THEN <<>> ELSE Retrace(f[n - 1], log[n])
        BY <2>1
      <3>4. QED
        BY <3>2, <3>3
    <2>3. ASSUME NEW n \in 0..N + 1
          PROVE  g[n] = IF n = 0 THEN <<>> ELSE Retrace(g[n - 1], log[n])
      <3>1. n # 0 => n - 1 \in 0..N
        OBVIOUS
      <3>2. n # 0 => g[n - 1] = f[n - 1]
        BY <2>2, <3>1
      <3>3. QED
        BY <3>2
    <2>4. R(N + 1, g)
      <3>1. g = [n \in 0..N + 1 |-> g[n]]
        OBVIOUS
      <3> HIDE DEF g
      <3>2. QED
        BY <2>3, <3>1
    <2>5. \E h : R(N + 1, h)
      BY <2>4
    <2>6. QED
      BY <2>5
  <1> HIDE DEF S
  <1>3. \A N \in Nat : N \in S
    BY <1>1, <1>2, NatsByInduction
  <1>4. Len(log) \in S
    BY <1>3
  <1>5. QED
    BY <1>4 DEF S, Follows

\* Event after event, from the entrance.
LEMMA TrailsAre ==
  ASSUME NEW log, Len(log) \in Nat
  PROVE  /\ Trails(log)[0] = <<>>
         /\ \A n \in 1..Len(log) : Trails(log)[n] = Retrace(Trails(log)[n - 1], log[n])
  <1>1. Trails(log) = CHOOSE f : Follows(log, f)
    BY DEF Trails, Follows
  <1>2. Follows(log, Trails(log))
    BY <1>1, TrailsRun
  <1>3. QED
    BY <1>2 DEF Follows

LEMMA LogsGrow ==
  ASSUME NEW log \in Seq(EventRecord), NEW e \in EventRecord
  PROVE  /\ Append(log, e) \in Seq(EventRecord) /\ Len(log) \in Nat
         /\ Len(Append(log, e)) = Len(log) + 1 /\ Append(log, e)[Len(log) + 1] = e
         /\ \A n \in 1..Len(log) : Append(log, e)[n] = log[n]
         /\ DOMAIN log = 1..Len(log) /\ DOMAIN Append(log, e) = 1..Len(log) + 1
  <1>1. /\ Append(log, e) \in Seq(EventRecord) /\ Len(Append(log, e)) = Len(log) + 1
        /\ Append(log, e)[Len(log) + 1] = e /\ \A n \in 1..Len(log) : Append(log, e)[n] = log[n]
    BY AppendProperties
  <1>2. Len(log) \in Nat /\ DOMAIN log = 1..Len(log) /\ DOMAIN Append(log, e) = 1..Len(Append(log, e))
    BY <1>1, LenProperties
  <1>3. QED
    BY <1>1, <1>2

\* What happens next does not change where the walk has been.
LEMMA TrailsGrow ==
  ASSUME NEW log \in Seq(EventRecord), NEW e \in EventRecord
  PROVE  /\ \A n \in 0..Len(log) : Trails(Append(log, e))[n] = Trails(log)[n]
         /\ Trails(Append(log, e))[Len(log) + 1] = Retrace(Trail(log), e)
  <1> DEFINE longer == Append(log, e)
             f == Trails(log)
             g == Trails(longer)
             S == {n \in Nat : g[n] = f[n]}
  <1>1. /\ Len(log) \in Nat /\ Len(longer) = Len(log) + 1 /\ longer[Len(log) + 1] = e
        /\ \A n \in 1..Len(log) : longer[n] = log[n]
    BY LogsGrow
  <1> HIDE DEF longer
  <1>2. f[0] = <<>> /\ \A n \in 1..Len(log) : f[n] = Retrace(f[n - 1], log[n])
    BY <1>1, TrailsAre
  <1>3. \A u : Len(u) \in Nat =>
          Trails(u)[0] = <<>> /\ \A n \in 1..Len(u) : Trails(u)[n] = Retrace(Trails(u)[n - 1], u[n])
    BY TrailsAre
  <1>4. g[0] = <<>> /\ \A n \in 1..Len(log) + 1 : g[n] = Retrace(g[n - 1], longer[n])
    <2>1. Len(longer) \in Nat
      BY <1>1
    <2>2. g[0] = <<>> /\ \A n \in 1..Len(longer) : g[n] = Retrace(g[n - 1], longer[n])
      BY <1>3, <2>1
    <2>3. QED
      BY <1>1, <2>2
  <1> HIDE DEF f, g
  <1>5. 0 \in S
    BY <1>2, <1>4
  <1>6. ASSUME NEW n \in 0..Len(log), n < Len(log), n \in S
        PROVE  n + 1 \in S
    <2>1. n + 1 \in 1..Len(log) /\ n + 1 \in 1..Len(log) + 1 /\ n + 1 - 1 = n
      BY <1>1, <1>6
    <2>2. f[n + 1] = Retrace(f[n], log[n + 1])
      BY <1>2, <2>1
    <2>3. g[n + 1] = Retrace(g[n], longer[n + 1])
      BY <1>4, <2>1
    <2>4. QED
      BY <1>1, <1>6, <2>1, <2>2, <2>3
  <1> HIDE DEF S
  <1>7. \A n \in 0..Len(log) : n \in S
    BY <1>1, <1>5, <1>6, IntervalByInduction
  <1>8. \A n \in 0..Len(log) : g[n] = f[n]
    BY <1>7 DEF S
  <1>9. g[Len(log) + 1] = Retrace(f[Len(log)], e)
    <2>1. Len(log) + 1 \in 1..Len(log) + 1 /\ Len(log) + 1 - 1 = Len(log) /\ Len(log) \in 0..Len(log)
      BY <1>1
    <2>2. g[Len(log) + 1] = Retrace(g[Len(log)], longer[Len(log) + 1])
      BY <1>4, <2>1
    <2>3. QED
      BY <1>1, <1>8, <2>1, <2>2
  <1>10. QED
    BY <1>8, <1>9 DEF f, g, longer, Trail

-----------------------------------------------------------------------------
(* A lawful log *)

End(trail) == IF trail = <<>> THEN 1 ELSE Last(trail)
Before(trail, k) == IF k = 1 THEN 1 ELSE trail[k - 1]
Upto(log, kind, n) == Cardinality({i \in 1..n : log[i].kind = kind})

\* It is of events, opens with its entrance and ends with its return.
OpensAndEnds(log) ==
  /\ log \in Seq(EventRecord) /\ Len(log) >= 1
  /\ \A i \in 1..Len(log) :
       /\ log[i].kind = "entered" <=> i = 1
       /\ log[i].kind = "returned" => i = Len(log)

\* Each event happened where the replay of those before it ends.
HappensThere(log) ==
  /\ \A i \in 2..Len(log) : log[i].at = End(Trails(log)[i - 1])
  /\ \A i \in 1..Len(log) :
       /\ log[i].kind = "read" => log[i].at # 1
       /\ log[i].kind = "backtracked" => Trails(log)[i - 1] # <<>>

\* Each step makes a junction of its own.
MakesItsOwn(log) ==
  /\ IsFiniteSet(Steps(log)) /\ Cardinality(Steps(log)) \in Nat
  /\ \A i \in Steps(log) : log[i].to \in 2..Cardinality(Steps(log)) + 1
  /\ \A i, k \in Steps(log) : log[i].to = log[k].to => i = k

\* A trail is a chain of steps, of as many links as steps were not retraced.
IsAChain(log) ==
  \A n \in 0..Len(log) :
    /\ Trails(log)[n] \in Seq(Nat)
    /\ Upto(log, "backtracked", n) + Len(Trails(log)[n]) = Upto(log, "stepped", n)
    /\ \A k \in 1..Len(Trails(log)[n]) :
         \E i \in Steps(log) : log[i].to = Trails(log)[n][k] /\ log[i].at = Before(Trails(log)[n], k)

LawfulWalk(log) == OpensAndEnds(log) /\ HappensThere(log) /\ MakesItsOwn(log) /\ IsAChain(log)

LEMMA UptoIs ==
  ASSUME NEW log, NEW kind, NEW n \in Nat
  PROVE  /\ Upto(log, kind, n) \in Nat
         /\ Upto(log, kind, n + 1) = IF log[n + 1].kind = kind THEN Upto(log, kind, n) + 1 ELSE Upto(log, kind, n)
  <1> DEFINE S == {i \in 1..n : log[i].kind = kind}
             T == {i \in 1..n + 1 : log[i].kind = kind}
  <1>1. IsFiniteSet(S)
    <2>1. IsFiniteSet(1..n)
      BY FS_Interval
    <2>2. QED
      BY <2>1, FS_Subset
  <1>2. n + 1 \notin S /\ T = IF log[n + 1].kind = kind THEN S \cup {n + 1} ELSE S
    OBVIOUS
  <1> HIDE DEF S, T
  <1>3. Cardinality(S) \in Nat /\ Cardinality(S \cup {n + 1}) = Cardinality(S) + 1
    BY <1>1, <1>2, FS_CardinalityType, FS_AddElement
  <1>4. QED
    BY <1>2, <1>3 DEF S, T, Upto

LEMMA UptoIsOfTheBeginning ==
  ASSUME NEW log, NEW longer, NEW n \in Nat, NEW kind, \A i \in 1..n : longer[i].kind = log[i].kind
  PROVE  Upto(longer, kind, n) = Upto(log, kind, n)
  <1>1. {i \in 1..n : longer[i].kind = kind} = {i \in 1..n : log[i].kind = kind}
    OBVIOUS
  <1>2. QED
    BY <1>1 DEF Upto

LEMMA StepsGrow ==
  ASSUME NEW log \in Seq(EventRecord), NEW e \in EventRecord
  PROVE  /\ Len(log) + 1 \notin Steps(log) /\ Steps(log) \subseteq 1..Len(log)
         /\ Steps(Append(log, e)) = IF e.kind = "stepped" THEN Steps(log) \cup {Len(log) + 1} ELSE Steps(log)
  BY LogsGrow DEF Steps

\* A walk of one event
LEMMA EntranceIsLawful ==
  ASSUME NEW w \in Nat
  PROVE  LawfulWalk(<<Event("entered", 1, w, NoOffer, 0)>>) /\ Trail(<<Event("entered", 1, w, NoOffer, 0)>>) = <<>>
  <1> DEFINE e == Event("entered", 1, w, NoOffer, 0)
             log == <<e>>
  <1>1. e \in EventRecord /\ e.kind = "entered"
    BY DEF Event, EventRecord, EventKind
  <1> HIDE DEF e
  <1>2. log \in Seq(EventRecord) /\ Len(log) = 1 /\ log[1] = e /\ 1..Len(log) = {1} /\ 0..Len(log) = {0, 1} /\ DOMAIN log = {1}
    BY <1>1
  <1> HIDE DEF log
  <1>3. Trails(log)[0] = <<>> /\ Trails(log)[1] = <<>>
    <2>1. Trails(log)[0] = <<>> /\ Trails(log)[1] = Retrace(Trails(log)[0], log[1])
      BY <1>2, TrailsAre
    <2>2. QED
      BY <1>1, <1>2, <2>1 DEF Retrace
  <1>4. Steps(log) = {}
    BY <1>1, <1>2 DEF Steps
  <1>5. OpensAndEnds(log)
    BY <1>1, <1>2 DEF OpensAndEnds
  <1>6. HappensThere(log)
    BY <1>1, <1>2 DEF HappensThere
  <1>7. MakesItsOwn(log)
    BY <1>4, FS_EmptySet DEF MakesItsOwn
  <1>8. IsAChain(log)
    <2>1. \A kind \in {"backtracked", "stepped"}, n \in {0, 1} : {i \in 1..n : log[i].kind = kind} = {}
      BY <1>1, <1>2
    <2>2. \A kind \in {"backtracked", "stepped"}, n \in {0, 1} : Upto(log, kind, n) = 0
      BY <2>1, FS_EmptySet DEF Upto
    <2>3. <<>> \in Seq(Nat) /\ Len(<<>>) = 0
      BY EmptySeq
    <2>4. ASSUME NEW n \in {0, 1}
          PROVE  /\ Trails(log)[n] = <<>> /\ Upto(log, "backtracked", n) = 0
                 /\ Upto(log, "stepped", n) = 0
      BY <1>3, <2>2
    <2>5. 1..0 = {} /\ 0 + 0 = 0
      OBVIOUS
    <2>6. ASSUME NEW n \in {0, 1}
          PROVE  /\ Trails(log)[n] \in Seq(Nat)
                 /\ Upto(log, "backtracked", n) + Len(Trails(log)[n]) = Upto(log, "stepped", n)
                 /\ 1..Len(Trails(log)[n]) = {}
      BY <2>3, <2>4, <2>5, Zenon
    <2>7. QED
      BY <1>2, <2>6 DEF IsAChain
  <1>9. QED
    BY <1>2, <1>3, <1>5, <1>6, <1>7, <1>8 DEF LawfulWalk, Trail, e, log

LEMMA FrontIs ==
  ASSUME NEW trail \in Seq(Nat), trail # <<>>
  PROVE  /\ Front(trail) \in Seq(Nat) /\ Len(trail) \in Nat \ {0} /\ Len(Front(trail)) = Len(trail) - 1
         /\ \A k \in 1..Len(trail) - 1 : Front(trail)[k] = trail[k]
         /\ End(Front(trail)) = Before(trail, Len(trail))
         /\ Last(trail) = trail[Len(trail)] /\ Last(trail) \in Nat
  <1>1. Len(trail) \in Nat \ {0}
    BY EmptySeq
  <1>2. /\ Front(trail) \in Seq(Nat) /\ Len(Front(trail)) = Len(trail) - 1
        /\ \A k \in 1..Len(trail) - 1 : Front(trail)[k] = trail[k]
    <2>1. Front(trail) = SubSeq(trail, 1, Len(trail) - 1)
      BY DEF Front
    <2>3. \A k \in 1..Len(trail) - 1 : trail[k] \in Nat
      BY <1>1, ElementOfSeq
    <2>4. \A n \in Nat : (\A i \in 1..n : trail[i] \in Nat) =>
            /\ SubSeq(trail, 1, n) \in Seq(Nat) /\ Len(SubSeq(trail, 1, n)) = IF 1 <= n THEN n - 1 + 1 ELSE 0
            /\ \A i \in 1..n - 1 + 1 : SubSeq(trail, 1, n)[i] = trail[1 + i - 1]
      BY SubSeqProperties
    <2> DEFINE n == Len(trail) - 1
    <2>5. n \in Nat
      BY <1>1
    <2>6. /\ SubSeq(trail, 1, n) \in Seq(Nat) /\ Len(SubSeq(trail, 1, n)) = IF 1 <= n THEN n - 1 + 1 ELSE 0
          /\ \A i \in 1..n - 1 + 1 : SubSeq(trail, 1, n)[i] = trail[1 + i - 1]
      BY <2>3, <2>4, <2>5
    <2> HIDE DEF n
    <2>7. /\ SubSeq(trail, 1, n) \in Seq(Nat) /\ Len(SubSeq(trail, 1, n)) = n
          /\ \A i \in 1..n : SubSeq(trail, 1, n)[i] = trail[i]
      BY <2>5, <2>6
    <2>8. QED
      BY <2>1, <2>7 DEF n
  <1>3. Last(trail) = trail[Len(trail)] /\ Last(trail) \in Nat
    BY <1>1, ElementOfSeq DEF Last
  <1>4. End(Front(trail)) = Before(trail, Len(trail))
    <2>1. CASE Len(trail) = 1
      <3>1. Front(trail) = <<>>
        BY <1>2, <2>1, EmptySeq
      <3>2. QED
        BY <2>1, <3>1 DEF End, Before
    <2>2. CASE Len(trail) # 1
      <3>1. Front(trail) # <<>> /\ Len(Front(trail)) \in 1..Len(trail) - 1
        BY <1>1, <1>2, <2>2, EmptySeq
      <3>2. End(Front(trail)) = Front(trail)[Len(Front(trail))]
        BY <3>1 DEF End, Last
      <3>3. QED
        BY <1>2, <2>2, <3>1, <3>2 DEF Before
    <2>3. QED
      BY <2>1, <2>2
  <1>5. QED
    BY <1>1, <1>2, <1>3, <1>4

LEMMA LongerIs ==
  ASSUME NEW trail \in Seq(Nat), NEW m \in Nat
  PROVE  /\ Append(trail, m) \in Seq(Nat) /\ Len(trail) \in Nat /\ Len(Append(trail, m)) = Len(trail) + 1
         /\ Append(trail, m) # <<>> /\ Last(Append(trail, m)) = m
         /\ \A k \in 1..Len(trail) : Append(trail, m)[k] = trail[k]
         /\ Append(trail, m)[Len(trail) + 1] = m
         /\ Before(Append(trail, m), Len(trail) + 1) = End(trail)
  <1>1. /\ Append(trail, m) \in Seq(Nat) /\ Len(trail) \in Nat /\ Len(Append(trail, m)) = Len(trail) + 1
        /\ Append(trail, m) # <<>> /\ Append(trail, m)[Len(trail) + 1] = m
        /\ \A k \in 1..Len(trail) : Append(trail, m)[k] = trail[k]
    BY AppendProperties, LenProperties
  <1>2. Last(Append(trail, m)) = m
    BY <1>1 DEF Last
  <1>3. Before(Append(trail, m), Len(trail) + 1) = End(trail)
    <2>1. CASE trail = <<>>
      BY <2>1, EmptySeq DEF Before, End
    <2>2. CASE trail # <<>>
      <3>1. Len(trail) \in Nat \ {0}
        BY <2>2, EmptySeq
      <3>2. Len(trail) + 1 # 1 /\ Len(trail) + 1 - 1 = Len(trail) /\ Len(trail) \in 1..Len(trail)
        BY <3>1
      <3>3. QED
        BY <1>1, <2>2, <3>2 DEF Before, End, Last
    <2>3. QED
      BY <2>1, <2>2
  <1>4. QED
    BY <1>1, <1>2, <1>3

\* What the events of a walk under way may be.
Lawfully(log, e) ==
  /\ e.kind # "entered" /\ e.at = End(Trail(log))
  /\ e.kind = "read" => e.at # 1
  /\ e.kind = "backtracked" => Trail(log) # <<>>
  /\ e.kind = "stepped" => e.to = 1 + Cardinality(Steps(log)) + 1

LEMMA WalksGoOn ==
  ASSUME NEW log, LawfulWalk(log), \A i \in 1..Len(log) : log[i].kind # "returned",
         NEW e \in EventRecord, Lawfully(log, e)
  PROVE  LawfulWalk(Append(log, e)) /\ Trail(Append(log, e)) = Retrace(Trail(log), e)
  <1> DEFINE longer == Append(log, e)
             m == Len(log)
  <1>1. log \in Seq(EventRecord) /\ m >= 1
    BY DEF LawfulWalk, OpensAndEnds
  <1>2. /\ longer \in Seq(EventRecord) /\ m \in Nat /\ Len(longer) = m + 1 /\ longer[m + 1] = e
        /\ \A n \in 1..m : longer[n] = log[n]
        /\ DOMAIN log = 1..m /\ DOMAIN longer = 1..m + 1
    BY <1>1, LogsGrow
  <1>3. /\ \A n \in 0..m : Trails(longer)[n] = Trails(log)[n]
        /\ Trails(longer)[m + 1] = Retrace(Trail(log), e)
    BY <1>1, TrailsGrow
  <1>4. /\ m + 1 \notin Steps(log) /\ Steps(log) \subseteq 1..m
        /\ Steps(longer) = IF e.kind = "stepped" THEN Steps(log) \cup {m + 1} ELSE Steps(log)
    BY <1>1, StepsGrow
  <1>5. \A kind : \A n \in 0..m : Upto(longer, kind, n) = Upto(log, kind, n)
    <2>1. TAKE kind
    <2>2. TAKE n \in 0..m
    <2>3. n \in Nat /\ \A i \in 1..n : longer[i].kind = log[i].kind
      BY <1>2, <2>2
    <2> HIDE DEF longer
    <2>4. QED
      BY <2>3, UptoIsOfTheBeginning
  <1>6. \A kind : /\ Upto(longer, kind, m) \in Nat
                  /\ Upto(longer, kind, m + 1) =
                       IF e.kind = kind THEN Upto(longer, kind, m) + 1 ELSE Upto(longer, kind, m)
    <2> HIDE DEF longer
    <2>1. TAKE kind
    <2>2. /\ Upto(longer, kind, m) \in Nat
          /\ Upto(longer, kind, m + 1) =
               IF longer[m + 1].kind = kind THEN Upto(longer, kind, m) + 1 ELSE Upto(longer, kind, m)
      <3>1. m \in Nat
        BY <1>2
      <3> HIDE DEF m
      <3>2. QED
        BY <3>1, UptoIs, ZenonT(60)
    <2>3. QED
      BY <1>2, <2>2
  <1> HIDE DEF longer, m
  <1>7. OpensAndEnds(longer)
    <2>1. ASSUME NEW i \in 1..m + 1
          PROVE  (longer[i].kind = "entered" <=> i = 1) /\ (longer[i].kind = "returned" => i = m + 1)
      <3>1. CASE i \in 1..m
        BY <1>2, <3>1 DEF LawfulWalk, OpensAndEnds, m
      <3>2. CASE i = m + 1
        BY <1>1, <1>2, <3>2 DEF Lawfully
      <3>3. QED
        BY <1>2, <2>1, <3>1, <3>2
    <2>2. QED
      BY <1>1, <1>2, <2>1 DEF OpensAndEnds
  <1>8. HappensThere(longer)
    <2>1. ASSUME NEW i \in 2..m + 1
          PROVE  longer[i].at = End(Trails(longer)[i - 1])
      <3>1. CASE i \in 2..m
        <4>1. i \in 1..m /\ i - 1 \in 0..m
          BY <1>2, <3>1
        <4>2. QED
          BY <1>2, <1>3, <3>1, <4>1 DEF LawfulWalk, HappensThere, m
      <3>2. CASE i = m + 1
        <4>1. i - 1 = m /\ m \in 0..m
          BY <1>2, <3>2
        <4>2. Trails(longer)[i - 1] = Trail(log)
          BY <1>3, <4>1 DEF Trail, m
        <4>3. QED
          BY <1>2, <3>2, <4>2 DEF Lawfully
      <3>3. QED
        BY <1>2, <2>1, <3>1, <3>2
    <2>2. ASSUME NEW i \in 1..m + 1
          PROVE  (longer[i].kind = "read" => longer[i].at # 1)
                 /\ (longer[i].kind = "backtracked" => Trails(longer)[i - 1] # <<>>)
      <3>1. CASE i \in 1..m
        <4>1. i - 1 \in 0..m
          BY <1>2, <3>1
        <4>2. QED
          BY <1>2, <1>3, <3>1, <4>1 DEF LawfulWalk, HappensThere, m
      <3>2. CASE i = m + 1
        <4>1. i - 1 = m /\ m \in 0..m
          BY <1>2, <3>2
        <4>2. Trails(longer)[i - 1] = Trail(log)
          BY <1>3, <4>1 DEF Trail, m
        <4>3. QED
          BY <1>2, <3>2, <4>2 DEF Lawfully
      <3>3. QED
        BY <1>2, <2>2, <3>1, <3>2
    <2>3. QED
      BY <1>2, <2>1, <2>2 DEF HappensThere
  <1>9. MakesItsOwn(longer)
    <2> DEFINE old == Steps(log)
               count == Cardinality(old)
    <2>1. /\ IsFiniteSet(old) /\ count \in Nat
          /\ \A i \in old : log[i].to \in 2..count + 1
          /\ \A i, k \in old : log[i].to = log[k].to => i = k
      BY DEF LawfulWalk, MakesItsOwn
    <2>2. \A i \in old : longer[i] = log[i]
      BY <1>2, <1>4
    <2>3. IsFiniteSet(old \cup {m + 1}) /\ Cardinality(old \cup {m + 1}) = count + 1
      BY <1>4, <2>1, FS_AddElement
    <2>4. CASE e.kind = "stepped"
      <3>1. Steps(longer) = old \cup {m + 1} /\ longer[m + 1].to = count + 2
        BY <1>2, <1>4, <2>1, <2>4 DEF Lawfully
      <3> HIDE DEF count, old
      <3>2. \A i \in old \cup {m + 1} : longer[i].to \in 2..count + 2
        BY <2>1, <2>2, <3>1
      <3>3. \A i \in old : longer[i].to # longer[m + 1].to
        BY <2>1, <2>2, <3>1
      <3>4. \A i, k \in old \cup {m + 1} : longer[i].to = longer[k].to => i = k
        BY <2>1, <2>2, <3>3
      <3>5. count + 1 \in Nat /\ 2..count + 1 + 1 = 2..count + 2
        BY <2>1
      <3>6. IsFiniteSet(Steps(longer)) /\ Cardinality(Steps(longer)) = count + 1
        BY <2>3, <3>1
      <3>7. QED
        BY <3>1, <3>2, <3>4, <3>5, <3>6 DEF MakesItsOwn
    <2>5. CASE e.kind # "stepped"
      BY <1>4, <2>1, <2>2, <2>5 DEF MakesItsOwn
    <2>6. QED
      BY <2>4, <2>5
  <1>10. IsAChain(longer)
    <2> DEFINE trail == Trail(log)
               next == Retrace(trail, e)
    <2>1. Trails(log)[m] = trail /\ m \in 0..m
      BY <1>2 DEF Trail, m
    <2>2. /\ trail \in Seq(Nat) /\ Len(trail) \in Nat
          /\ Upto(log, "backtracked", m) + Len(trail) = Upto(log, "stepped", m)
          /\ \A k \in 1..Len(trail) : \E i \in Steps(log) : log[i].to = trail[k] /\ log[i].at = Before(trail, k)
      <3>1. IsAChain(log) /\ m = Len(log)
        BY DEF LawfulWalk, m
      <3>2. /\ Trails(log)[m] \in Seq(Nat)
            /\ Upto(log, "backtracked", m) + Len(Trails(log)[m]) = Upto(log, "stepped", m)
            /\ \A k \in 1..Len(Trails(log)[m]) :
                 \E i \in Steps(log) : log[i].to = Trails(log)[m][k] /\ log[i].at = Before(Trails(log)[m], k)
        <4> HIDE DEF m, trail
        <4>1. QED
          BY <2>1, <3>1 DEF IsAChain
      <3> HIDE DEF trail, m
      <3>3. Len(trail) \in Nat
        BY <2>1, <3>2, LenProperties
      <3>4. QED
        BY <2>1, <3>2, <3>3
    <2>3. \A i \in Steps(log) : i \in Steps(longer) /\ longer[i] = log[i]
      BY <1>2, <1>4
    <2>4. Upto(longer, "backtracked", m) = Upto(log, "backtracked", m) /\ Upto(longer, "stepped", m) = Upto(log, "stepped", m)
      BY <1>5, <2>1
    <2> HIDE DEF trail
    <2>5. /\ next \in Seq(Nat)
          /\ Upto(longer, "backtracked", m + 1) + Len(next) = Upto(longer, "stepped", m + 1)
          /\ \A k \in 1..Len(next) :
               \E i \in Steps(longer) : longer[i].to = next[k] /\ longer[i].at = Before(next, k)
      <3>1. CASE e.kind = "stepped"
        <4>1. next = Append(trail, e.to) /\ e.to \in Nat
          BY <3>1 DEF Retrace, EventRecord
        <4>2. /\ next \in Seq(Nat) /\ Len(next) = Len(trail) + 1
              /\ \A k \in 1..Len(trail) : next[k] = trail[k]
              /\ next[Len(trail) + 1] = e.to /\ Before(next, Len(trail) + 1) = End(trail)
          BY <2>2, <4>1, LongerIs
        <4> HIDE DEF next
        <4>3. Upto(longer, "backtracked", m + 1) + Len(next) = Upto(longer, "stepped", m + 1)
          <5>1. Upto(longer, "backtracked", m + 1) = Upto(longer, "backtracked", m) /\ Upto(longer, "stepped", m + 1) = Upto(longer, "stepped", m) + 1
            BY <1>6, <3>1
          <5>2. Upto(longer, "backtracked", m) \in Nat /\ Upto(longer, "stepped", m) \in Nat
            BY <1>6
          <5>3. QED
            BY <2>2, <2>4, <4>2, <5>1, <5>2
        <4>4. ASSUME NEW k \in 1..Len(next)
              PROVE  \E i \in Steps(longer) : longer[i].to = next[k] /\ longer[i].at = Before(next, k)
          <5>1. CASE k \in 1..Len(trail)
            <6>1. PICK i \in Steps(log) : log[i].to = trail[k] /\ log[i].at = Before(trail, k)
              BY <2>2, <5>1
            <6>2. next[k] = trail[k]
              BY <4>2, <5>1
            <6>3. k # 1 => k - 1 \in 1..Len(trail)
              BY <2>2, <5>1
            <6>4. Before(next, k) = Before(trail, k)
              BY <4>2, <6>3 DEF Before
            <6>5. QED
              BY <2>3, <6>1, <6>2, <6>4
          <5>2. CASE k = Len(trail) + 1
            <6>1. m + 1 \in Steps(longer) /\ longer[m + 1] = e
              BY <1>2, <1>4, <3>1
            <6>2. e.at = End(trail)
              BY DEF Lawfully, trail
            <6>3. QED
              BY <4>2, <5>2, <6>1, <6>2
          <5>3. QED
            BY <2>2, <4>2, <4>4, <5>1, <5>2
        <4>5. QED
          BY <4>2, <4>3, <4>4
      <3>2. CASE e.kind = "backtracked"
        <4>1. trail # <<>> /\ next = Front(trail)
          BY <3>2 DEF Lawfully, Retrace, trail
        <4>2. /\ next \in Seq(Nat) /\ Len(trail) \in Nat \ {0} /\ Len(next) = Len(trail) - 1
              /\ \A k \in 1..Len(trail) - 1 : next[k] = trail[k]
          BY <2>2, <4>1, FrontIs
        <4> HIDE DEF next
        <4>3. Upto(longer, "backtracked", m + 1) + Len(next) = Upto(longer, "stepped", m + 1)
          <5>1. Upto(longer, "backtracked", m + 1) = Upto(longer, "backtracked", m) + 1 /\ Upto(longer, "stepped", m + 1) = Upto(longer, "stepped", m)
            BY <1>6, <3>2
          <5>2. Upto(longer, "backtracked", m) \in Nat /\ Upto(longer, "stepped", m) \in Nat
            BY <1>6
          <5>3. QED
            BY <2>2, <2>4, <4>2, <5>1, <5>2
        <4>4. ASSUME NEW k \in 1..Len(next)
              PROVE  \E i \in Steps(longer) : longer[i].to = next[k] /\ longer[i].at = Before(next, k)
          <5>1. k \in 1..Len(trail) /\ next[k] = trail[k]
            BY <4>2, <4>4
          <5>2. PICK i \in Steps(log) : log[i].to = trail[k] /\ log[i].at = Before(trail, k)
            BY <2>2, <5>1
          <5>3. k # 1 => k - 1 \in 1..Len(trail) - 1
            BY <4>2, <4>4
          <5>4. Before(next, k) = Before(trail, k)
            BY <4>2, <5>3 DEF Before
          <5>5. QED
            BY <2>3, <5>1, <5>2, <5>4
        <4>5. QED
          BY <4>2, <4>3, <4>4
      <3>3. CASE e.kind \notin {"stepped", "backtracked"}
        <4>1. next = trail
          BY <3>3 DEF Retrace
        <4>2. Upto(longer, "backtracked", m + 1) = Upto(longer, "backtracked", m) /\ Upto(longer, "stepped", m + 1) = Upto(longer, "stepped", m)
          BY <1>6, <3>3
        <4> HIDE DEF next
        <4>3. QED
          BY <2>2, <2>3, <2>4, <4>1, <4>2
      <3>4. QED
        BY <3>1, <3>2, <3>3
    <2> HIDE DEF next
    <2>6. ASSUME NEW n \in 0..m + 1
          PROVE  /\ Trails(longer)[n] \in Seq(Nat)
                 /\ Upto(longer, "backtracked", n) + Len(Trails(longer)[n]) = Upto(longer, "stepped", n)
                 /\ \A k \in 1..Len(Trails(longer)[n]) : \E i \in Steps(longer) :
                      longer[i].to = Trails(longer)[n][k] /\ longer[i].at = Before(Trails(longer)[n], k)
      <3>1. CASE n \in 0..m
        <4>1. Trails(longer)[n] = Trails(log)[n] /\ Upto(longer, "backtracked", n) = Upto(log, "backtracked", n)
              /\ Upto(longer, "stepped", n) = Upto(log, "stepped", n)
          BY <1>3, <1>5, <3>1
        <4>2. /\ Trails(log)[n] \in Seq(Nat)
              /\ Upto(log, "backtracked", n) + Len(Trails(log)[n]) = Upto(log, "stepped", n)
              /\ \A k \in 1..Len(Trails(log)[n]) : \E i \in Steps(log) :
                   log[i].to = Trails(log)[n][k] /\ log[i].at = Before(Trails(log)[n], k)
          BY <3>1 DEF LawfulWalk, IsAChain, m
        <4>3. QED
          BY <2>3, <4>1, <4>2
      <3>2. CASE n = m + 1
        <4>1. Trails(longer)[n] = next
          BY <1>3, <3>2 DEF next, trail
        <4>2. QED
          BY <2>5, <3>2, <4>1
      <3>3. QED
        BY <1>2, <2>6, <3>1, <3>2
    <2>7. QED
      BY <1>2, <2>6 DEF IsAChain
  <1>11. Trail(longer) = Retrace(Trail(log), e)
    BY <1>2, <1>3 DEF Trail
  <1>12. QED
    BY <1>7, <1>8, <1>9, <1>10, <1>11 DEF LawfulWalk, longer

-----------------------------------------------------------------------------
(* The replay finds what walking leads to *)

Parent(log, junction) == log[CHOOSE i \in Steps(log) : log[i].to = junction].at
NextFooting(log, from, n) ==
  IF log[n].kind = "stepped" THEN log[n].to
  ELSE IF log[n].kind = "backtracked" /\ from # 1 THEN Parent(log, from)
  ELSE from
Walks(log, f) == f = [n \in 0..Len(log) |-> IF n = 0 THEN 1 ELSE NextFooting(log, f[n - 1], n)]

LEMMA JunctionsHaveOneParent ==
  ASSUME NEW log, LawfulWalk(log), NEW i \in Steps(log)
  PROVE  Parent(log, log[i].to) = log[i].at
  <1> DEFINE k == CHOOSE k \in Steps(log) : log[k].to = log[i].to
  <1>1. k \in Steps(log) /\ log[k].to = log[i].to
    OBVIOUS
  <1>2. k = i
    BY <1>1 DEF LawfulWalk, MakesItsOwn
  <1>3. QED
    BY <1>2 DEF Parent

LEMMA FootingSteps ==
  ASSUME NEW log, LawfulWalk(log), NEW n \in 1..Len(log)
  PROVE  End(Trails(log)[n]) = NextFooting(log, End(Trails(log)[n - 1]), n)
  <1> DEFINE before == Trails(log)[n - 1]
             now == Trails(log)[n]
  <1>1. log \in Seq(EventRecord) /\ Len(log) \in Nat /\ log[n] \in EventRecord
    BY LenProperties, ElementOfSeq DEF LawfulWalk, OpensAndEnds
  <1>2. now = Retrace(before, log[n])
    BY <1>1, TrailsAre
  <1>3. n - 1 \in 0..Len(log)
    BY <1>1
  <1>4. /\ before \in Seq(Nat)
        /\ \A k \in 1..Len(before) :
             \E i \in Steps(log) : log[i].to = before[k] /\ log[i].at = Before(before, k)
    BY <1>3 DEF LawfulWalk, IsAChain
  <1>5. log[n].kind = "backtracked" => before # <<>>
    BY DEF LawfulWalk, HappensThere
  <1> HIDE DEF before, now
  <1>6. CASE log[n].kind = "stepped"
    <2>1. now = Append(before, log[n].to) /\ log[n].to \in Nat
      BY <1>1, <1>2, <1>6 DEF Retrace, EventRecord
    <2>2. now # <<>> /\ Last(now) = log[n].to
      BY <1>4, <2>1, LongerIs
    <2>3. QED
      BY <1>6, <2>2 DEF NextFooting, End, now
  <1>7. CASE log[n].kind = "backtracked"
    <2>1. now = Front(before) /\ before # <<>>
      BY <1>2, <1>5, <1>7 DEF Retrace
    <2>2. /\ Len(before) \in Nat \ {0} /\ End(now) = Before(before, Len(before))
          /\ Last(before) = before[Len(before)]
      BY <1>4, <2>1, FrontIs
    <2>3. PICK i \in Steps(log) : log[i].to = before[Len(before)] /\ log[i].at = Before(before, Len(before))
      BY <1>4, <2>2
    <2>4. End(before) = log[i].to /\ End(now) = log[i].at
      BY <2>1, <2>2, <2>3 DEF End
    <2>5. End(before) # 1
      <3>1. Cardinality(Steps(log)) \in Nat /\ log[i].to \in 2..Cardinality(Steps(log)) + 1
        BY DEF LawfulWalk, MakesItsOwn
      <3>2. QED
        BY <2>4, <3>1
    <2>6. Parent(log, End(before)) = End(now)
      BY <2>4, JunctionsHaveOneParent
    <2>7. QED
      BY <1>7, <2>5, <2>6 DEF NextFooting, before, now
  <1>8. CASE log[n].kind \notin {"stepped", "backtracked"}
    BY <1>2, <1>8 DEF Retrace, NextFooting, before, now
  <1>9. QED
    BY <1>6, <1>7, <1>8

LEMMA WalkingLeadsThere ==
  ASSUME NEW log, LawfulWalk(log)
  PROVE  LET after == CHOOSE f : Walks(log, f)
         IN  /\ Clearing(log) = after[Len(log)]
             /\ \A i \in 2..Len(log) : log[i].at = after[i - 1]
  <1> DEFINE after == CHOOSE f : Walks(log, f)
             there == [n \in 0..Len(log) |-> End(Trails(log)[n])]
             S == {n \in Nat : after[n] = End(Trails(log)[n])}
  <1>1. Len(log) \in Nat /\ Len(log) >= 1
    BY LenProperties DEF LawfulWalk, OpensAndEnds
  <1>2. Trails(log)[0] = <<>>
    BY <1>1, TrailsAre
  <1>3. Walks(log, there)
    <2>1. ASSUME NEW n \in 0..Len(log)
          PROVE  there[n] = IF n = 0 THEN 1 ELSE NextFooting(log, there[n - 1], n)
      <3>1. CASE n = 0
        BY <1>1, <1>2, <3>1 DEF End
      <3>2. CASE n # 0
        <4>1. n \in 1..Len(log) /\ n - 1 \in 0..Len(log)
          BY <1>1, <3>2
        <4>2. End(Trails(log)[n]) = NextFooting(log, End(Trails(log)[n - 1]), n)
          BY <4>1, FootingSteps
        <4>3. QED
          BY <3>2, <4>1, <4>2
      <3>3. QED
        BY <3>1, <3>2
    <2>2. there = [n \in 0..Len(log) |-> there[n]]
      OBVIOUS
    <2> HIDE DEF there
    <2>3. QED
      BY <2>1, <2>2 DEF Walks
  <1> HIDE DEF there
  <1>4. Walks(log, after)
    BY <1>3
  <1> HIDE DEF after
  <1>5. after[0] = 1 /\ \A n \in 1..Len(log) : after[n] = NextFooting(log, after[n - 1], n)
    BY <1>1, <1>4 DEF Walks
  <1>6. 0 \in S
    BY <1>2, <1>5 DEF End
  <1>7. ASSUME NEW n \in 0..Len(log), n < Len(log), n \in S
        PROVE  n + 1 \in S
    <2>1. n + 1 \in 1..Len(log) /\ n + 1 - 1 = n /\ n + 1 \in Nat
      BY <1>1, <1>7
    <2>2. after[n + 1] = NextFooting(log, after[n], n + 1)
      BY <1>5, <2>1
    <2>3. End(Trails(log)[n + 1]) = NextFooting(log, End(Trails(log)[n]), n + 1)
      BY <2>1, FootingSteps
    <2>4. after[n] = End(Trails(log)[n])
      BY <1>7
    <2>5. QED
      BY <2>1, <2>2, <2>3, <2>4
  <1> HIDE DEF S
  <1>8. \A n \in 0..Len(log) : n \in S
    BY <1>1, <1>6, <1>7, IntervalByInduction
  <1>9. \A n \in 0..Len(log) : after[n] = End(Trails(log)[n])
    BY <1>8 DEF S
  <1>10. Clearing(log) = after[Len(log)]
    BY <1>1, <1>9 DEF Clearing, Trail, End
  <1>11. ASSUME NEW i \in 2..Len(log)
         PROVE  log[i].at = after[i - 1]
    <2>1. i - 1 \in 0..Len(log)
      BY <1>1
    <2>2. log[i].at = End(Trails(log)[i - 1])
      BY DEF LawfulWalk, HappensThere
    <2>3. QED
      BY <1>9, <2>1, <2>2
  <1>12. QED
    BY <1>10, <1>11 DEF after

\* Of the walks of the state, what the run asks of each.
LEMMA LawfulWalksAreFollowed ==
  ASSUME \A j \in DOMAIN journeys : LawfulWalk(journeys[j].log)
  PROVE  FootingFollowsThePath
  <1>1. ASSUME NEW j \in DOMAIN journeys
        PROVE  LET log == journeys[j].log
                   after == CHOOSE f : Walks(log, f)
               IN  /\ Footing(j) = after[Len(log)]
                   /\ \A i \in 2..Len(log) : log[i].at = after[i - 1]
    BY WalkingLeadsThere DEF Footing
  <1>2. QED
    BY <1>1 DEF FootingFollowsThePath, Walks, NextFooting, Parent

LEMMA LawfulWalksAreWellFormed ==
  ASSUME \A j \in DOMAIN journeys : LawfulWalk(journeys[j].log),
         \A j \in DOMAIN journeys : Cardinality(Unreturned(journeys[j].life)) <= 1
  PROVE  WalkIsWellFormed
  <1>1. ASSUME NEW log, LawfulWalk(log), NEW i \in DOMAIN log
        PROVE  /\ log[i].kind = "entered" <=> i = 1
               /\ log[i].kind = "returned" => i = Len(log)
               /\ log[i].kind = "read" => log[i].at # 1
               /\ Upto(log, "backtracked", i) <= Upto(log, "stepped", i)
    <2>1. log \in Seq(EventRecord) /\ Len(log) \in Nat /\ i \in 1..Len(log) /\ i \in 0..Len(log)
      BY <1>1, LenProperties DEF LawfulWalk, OpensAndEnds
    <2>2. i \in Nat /\ Trails(log)[i] \in Seq(Nat) /\ Upto(log, "backtracked", i) + Len(Trails(log)[i]) = Upto(log, "stepped", i)
      BY <1>1, <2>1 DEF LawfulWalk, IsAChain
    <2>3. Len(Trails(log)[i]) \in Nat /\ Upto(log, "backtracked", i) \in Nat
      BY <2>2, LenProperties, UptoIs
    <2>4. Upto(log, "backtracked", i) <= Upto(log, "stepped", i)
      BY <2>2, <2>3
    <2>5. QED
      BY <1>1, <2>1, <2>4 DEF LawfulWalk, OpensAndEnds, HappensThere
  <1>2. QED
    BY <1>1 DEF WalkIsWellFormed, Upto

-----------------------------------------------------------------------------
(* The walks of the state *)

Journey ==
  [life : Nat, register : Register, place : Place, focus : Fixture \cup {NoFixture},
   log : Seq(EventRecord)]
Landing == [journey : Nat, junction : Nat, wake : Nat]

OneAtATime ==
  \A j, k \in DOMAIN journeys :
    ~Returned(j) /\ ~Returned(k) /\ journeys[j].life = journeys[k].life => j = k

\* A lifespan has at most one walk under way, every walk is lawful, and its steps were shown.
WalksInv ==
  /\ journeys \in Seq(Journey) /\ landings \subseteq Landing
  /\ life \in Nat /\ wake \in Nat
  /\ \A j \in DOMAIN journeys : LawfulWalk(journeys[j].log) /\ journeys[j].life <= life
  /\ OneAtATime /\ BearingsWereShown

LEMMA WalkUnderWay ==
  ASSUME WalksInv, NEW l, Walking(l)
  PROVE  LET j == Active(l)
             log == journeys[j].log
         IN  /\ j \in DOMAIN journeys /\ j \in Nat /\ ~Returned(j) /\ journeys[j].life = l
             /\ Unreturned(l) = {j}
             /\ log \in Seq(EventRecord) /\ LawfulWalk(log)
             /\ \A i \in 1..Len(log) : log[i].kind # "returned"
             /\ Footing(j) = End(Trail(log)) /\ Footing(j) \in Nat /\ Trail(log) \in Seq(Nat)
  <1>1. PICK j \in DOMAIN journeys : ~Returned(j) /\ journeys[j].life = l
    BY DEF Walking, Unreturned
  <1>2. Unreturned(l) = {j}
    BY <1>1 DEF Unreturned, WalksInv, OneAtATime
  <1>3. j \in Nat /\ journeys[j] \in Journey
    BY <1>1, LenProperties, ElementOfSeq DEF WalksInv
  <1>4. Active(l) = j
    BY <1>2, <1>3 DEF Active
  <1> DEFINE log == journeys[j].log
  <1>5. log \in Seq(EventRecord) /\ LawfulWalk(log)
    BY <1>1, <1>3 DEF WalksInv, Journey
  <1>6. Len(log) \in Nat /\ DOMAIN log = 1..Len(log)
    BY <1>5, LenProperties
  <1>7. \A i \in 1..Len(log) : log[i].kind # "returned"
    BY <1>1, <1>6 DEF Returned
  <1>8. Trail(log) \in Seq(Nat)
    BY <1>5, <1>6 DEF LawfulWalk, IsAChain, Trail
  <1>9. Footing(j) = End(Trail(log))
    BY DEF Footing, Clearing, End
  <1>10. End(Trail(log)) \in Nat
    BY <1>8, FrontIs DEF End
  <1>11. QED
    BY <1>1, <1>2, <1>3, <1>4, <1>5, <1>7, <1>8, <1>9, <1>10

\* An event in the walk under way.
LEMMA EventsAreLogged ==
  ASSUME WalksInv, Walking(life), NEW e \in EventRecord,
         Lawfully(journeys[Active(life)].log, e), Log(Active(life), e),
         e.kind = "stepped" =>
           /\ e.offer.junction = e.at
           /\ e.offer.bearing = "feather" =>
                [journey |-> Active(life), junction |-> e.at, wake |-> e.wake] \in landings
  PROVE  /\ journeys' \in Seq(Journey) /\ landings' = landings
         /\ \A k \in DOMAIN journeys' : LawfulWalk(journeys'[k].log) /\ journeys'[k].life <= life
         /\ OneAtATime' /\ BearingsWereShown'
         /\ DOMAIN journeys' = DOMAIN journeys
         /\ \A k \in DOMAIN journeys : journeys'[k].register = journeys[k].register
         /\ \A l : Unreturned(l)' =
              IF e.kind = "returned" THEN Unreturned(l) \ {Active(life)} ELSE Unreturned(l)
  <1> DEFINE j == Active(life)
             log == journeys[j].log
             longer == Append(log, e)
  <1>1. /\ j \in DOMAIN journeys /\ ~Returned(j) /\ journeys[j].life = life
        /\ log \in Seq(EventRecord) /\ LawfulWalk(log) /\ \A i \in 1..Len(log) : log[i].kind # "returned"
    BY WalkUnderWay
  <1>2. journeys' = [journeys EXCEPT ![j].log = longer] /\ landings' = landings
    BY DEF Log
  <1>3. LawfulWalk(longer) /\ longer \in Seq(EventRecord)
    BY <1>1, WalksGoOn, LogsGrow
  <1>4. journeys \in Seq(Journey) /\ \A k \in DOMAIN journeys : journeys[k] \in Journey
    BY ElementOfSeq, LenProperties DEF WalksInv
  <1>5. /\ DOMAIN log = 1..Len(log) /\ DOMAIN longer = 1..Len(log) + 1 /\ Len(log) \in Nat
        /\ \A i \in 1..Len(log) : longer[i] = log[i]
        /\ longer[Len(log) + 1] = e
        /\ Steps(longer) = IF e.kind = "stepped" THEN Steps(log) \cup {Len(log) + 1} ELSE Steps(log)
        /\ Steps(log) \subseteq 1..Len(log)
    BY <1>1, LogsGrow, StepsGrow
  <1>6. e.kind = "returned" <=> \E i \in DOMAIN longer : longer[i].kind = "returned"
    <2> HIDE DEF longer, log, j
    <2>1. \A i \in 1..Len(log) : longer[i].kind # "returned"
      BY <1>1, <1>5
    <2>2. Len(log) + 1 \in DOMAIN longer /\ \A i \in DOMAIN longer : i \in 1..Len(log) \/ i = Len(log) + 1
      BY <1>5
    <2>3. QED
      BY <1>5, <2>1, <2>2
  <1> HIDE DEF longer
  <1>7. [journeys[j] EXCEPT !.log = longer] \in Journey
    BY <1>1, <1>3, <1>4 DEF Journey
  <1>8. /\ DOMAIN journeys' = DOMAIN journeys
        /\ \A k \in DOMAIN journeys :
             /\ k # j => journeys'[k] = journeys[k]
             /\ k = j => journeys'[k] = [journeys[j] EXCEPT !.log = longer]
    BY <1>1, <1>2
  <1>9. \A k \in DOMAIN journeys :
             /\ journeys'[k].log = IF k = j THEN longer ELSE journeys[k].log
             /\ journeys'[k].register = journeys[k].register /\ journeys'[k].life = journeys[k].life
    <2> HIDE DEF j, log
    <2>1. journeys[j] \in Journey
      BY <1>1, <1>4
    <2>2. /\ [journeys[j] EXCEPT !.log = longer].log = longer
          /\ [journeys[j] EXCEPT !.log = longer].register = journeys[j].register
          /\ [journeys[j] EXCEPT !.log = longer].life = journeys[j].life
      BY <2>1 DEF Journey
    <2>3. QED
      BY <1>8, <2>2
  <1>10. journeys' \in Seq(Journey)
    <2>1. journeys' = [journeys EXCEPT ![j] = [journeys[j] EXCEPT !.log = longer]]
      BY <1>2
    <2>2. DOMAIN journeys = 1..Len(journeys)
      BY <1>4, LenProperties
    <2>3. QED
      BY <1>1, <1>4, <1>7, <2>1, <2>2, ExceptSeq
  <1>11. \A k \in DOMAIN journeys : LawfulWalk(journeys'[k].log) /\ journeys'[k].life <= life
    BY <1>3, <1>9 DEF WalksInv
  <1>12. \A k \in DOMAIN journeys : Returned(k)' <=> IF k = j THEN e.kind = "returned" ELSE Returned(k)
    BY <1>6, <1>9 DEF Returned
  <1>13. \A k \in DOMAIN journeys : ~Returned(k)' => ~Returned(k)
    BY <1>1, <1>12
  <1>14. OneAtATime'
    BY <1>8, <1>9, <1>13 DEF OneAtATime, WalksInv
  <1>15. BearingsWereShown'
    <2>1. ASSUME NEW k \in DOMAIN journeys, NEW i \in Steps(journeys'[k].log)
          PROVE  LET s == journeys'[k].log[i] IN
                   /\ s.offer.junction = s.at
                   /\ s.offer.bearing = "feather" =>
                        [journey |-> k, junction |-> s.at, wake |-> s.wake] \in landings
      <3>1. CASE k # j
        BY <1>9, <2>1, <3>1 DEF WalksInv, BearingsWereShown
      <3>2. CASE k = j /\ i \in Steps(log)
        <4>1. journeys'[k].log[i] = log[i]
          BY <1>5, <1>9, <3>2
        <4>2. QED
          BY <1>1, <3>2, <4>1 DEF WalksInv, BearingsWereShown
      <3>3. CASE k = j /\ i \notin Steps(log)
        <4>1. journeys'[k].log[i] = e /\ e.kind = "stepped"
          BY <1>5, <1>9, <2>1, <3>3
        <4>2. QED
          BY <3>3, <4>1
      <3>4. QED
        BY <3>1, <3>2, <3>3
    <2>2. QED
      BY <1>2, <1>8, <2>1 DEF BearingsWereShown
  <1>16. \A l : Unreturned(l)' = IF e.kind = "returned" THEN Unreturned(l) \ {j} ELSE Unreturned(l)
    BY <1>1, <1>8, <1>9, <1>12 DEF Unreturned
  <1>17. QED
    BY <1>2, <1>8, <1>9, <1>10, <1>11, <1>14, <1>15, <1>16

-----------------------------------------------------------------------------
(* The operations of a walk *)

\* What a footstep of the walk under way does, seen from the rounds.
LEMMA EventsKeepTheWalks ==
  ASSUME WalksInv, Walking(life), NEW kind \in EventKind, NEW to \in Nat, NEW offer \in Offer \cup {NoOffer},
         Lawfully(journeys[Active(life)].log, Event(kind, Footing(Active(life)), wake, offer, to)),
         Log(Active(life), Event(kind, Footing(Active(life)), wake, offer, to)),
         kind = "stepped" => offer \in Shown(Active(life), wake),
         life' = life, wake' = wake
  PROVE  WalksInv' /\ WalkNow' \in {WalkNow, NoWalk}
  <1> DEFINE j == Active(life)
             e == Event(kind, Footing(j), wake, offer, to)
  <1>1. j \in DOMAIN journeys /\ Footing(j) \in Nat /\ Unreturned(life) = {j} /\ wake \in Nat
    BY WalkUnderWay DEF WalksInv
  <1>2. e \in EventRecord /\ e.kind = kind /\ e.offer = offer /\ e.at = Footing(j) /\ e.wake = wake
    BY <1>1 DEF Event, EventRecord
  <1>3. kind = "stepped" =>
          /\ offer.junction = Footing(j)
          /\ offer.bearing = "feather" => [journey |-> j, junction |-> Footing(j), wake |-> wake] \in landings
    <2>1. ASSUME offer \in Shown(j, wake)
          PROVE  /\ offer.junction = Footing(j)
                 /\ offer.bearing = "feather" => [journey |-> j, junction |-> Footing(j), wake |-> wake] \in landings
      <3>1. CASE offer \in Offers(Footing(j))
        BY <3>1 DEF Offers
      <3>2. CASE offer \notin Offers(Footing(j))
        <4>1. PICK l \in landings : /\ offer = [junction |-> l.junction, bearing |-> "feather"]
                                    /\ l.journey = j /\ l.junction = Footing(j) /\ l.wake = wake
          BY <2>1, <3>2 DEF Shown
        <4>2. l = [journey |-> j, junction |-> Footing(j), wake |-> wake]
          BY <4>1 DEF WalksInv, Landing
        <4>3. QED
          BY <4>1, <4>2
      <3>3. QED
        BY <3>1, <3>2
    <2>2. QED
      BY <2>1
  <1> HIDE DEF e
  <1>4. /\ journeys' \in Seq(Journey) /\ landings' = landings
        /\ \A k \in DOMAIN journeys' : LawfulWalk(journeys'[k].log) /\ journeys'[k].life <= life
        /\ OneAtATime' /\ BearingsWereShown'
        /\ \A k \in DOMAIN journeys : journeys'[k].register = journeys[k].register
        /\ \A l : Unreturned(l)' = IF e.kind = "returned" THEN Unreturned(l) \ {j} ELSE Unreturned(l)
    BY <1>2, <1>3, EventsAreLogged DEF e
  <1>5. WalksInv'
    BY <1>4 DEF WalksInv
  <1>6. CASE e.kind = "returned"
    <2>1. Unreturned(life)' = Unreturned(life) \ {j}
      BY <1>4, <1>6
    <2>2. ~Walking(life)'
      BY <1>1, <2>1 DEF Walking
    <2>3. QED
      BY <1>5, <2>2 DEF WalkNow
  <1>7. CASE e.kind # "returned"
    <2>1. \A l : Unreturned(l)' = Unreturned(l)
      BY <1>4, <1>7
    <2>2. Unreturned(life)' = Unreturned(life) /\ Walking(life)' /\ Active(life)' = j
      BY <2>1 DEF Walking, Active
    <2>3. QED
      BY <1>1, <1>4, <1>5, <2>2 DEF WalkNow
  <1>8. QED
    BY <1>5, <1>6, <1>7

LEMMA WalkTowardKeepsTheWalks ==
  ASSUME WalksInv, NEW offer \in Offer, WalkToward(life, wake, offer), life' = life, wake' = wake
  PROVE  WalksInv' /\ WalkNow' \in {WalkNow, NoWalk}
  <1> DEFINE j == Active(life)
  <1>1. Walking(life) /\ offer \in Shown(j, wake)
        /\ Log(j, Event("stepped", Footing(j), wake, offer, NewJunction(j)))
    BY DEF WalkToward
  <1>2. LawfulWalk(journeys[j].log) /\ Footing(j) = End(Trail(journeys[j].log))
    BY <1>1, WalkUnderWay
  <1>3. NewJunction(j) = 1 + Cardinality(Steps(journeys[j].log)) + 1 /\ NewJunction(j) \in Nat
    <2>1. NewJunction(j) = 1 + Cardinality(Steps(journeys[j].log)) + 1
      BY DEF NewJunction, Steps
    <2>2. Cardinality(Steps(journeys[j].log)) \in Nat
      BY <1>2 DEF LawfulWalk, MakesItsOwn
    <2> HIDE DEF j
    <2>3. QED
      BY <2>1, <2>2
  <1>4. Lawfully(journeys[j].log, Event("stepped", Footing(j), wake, offer, NewJunction(j)))
    BY <1>2, <1>3 DEF Lawfully, Event
  <1>5. QED
    BY <1>1, <1>3, <1>4, EventsKeepTheWalks DEF EventKind

LEMMA OtherEventsKeepTheWalks ==
  ASSUME WalksInv, life' = life, wake' = wake,
         ReadLeaf(life, wake) \/ Backtrack(life, wake) \/ (Walking(life) /\ Return(life, wake))
  PROVE  WalksInv' /\ WalkNow' \in {WalkNow, NoWalk}
  <1> DEFINE j == Active(life)
             log == journeys[j].log
  <1>1. Walking(life)
    BY DEF ReadLeaf, Backtrack
  <1>2. Footing(j) = End(Trail(log)) /\ Trail(log) \in Seq(Nat)
    BY <1>1, WalkUnderWay
  <1>3. PICK kind \in {"read", "backtracked", "returned"} :
          /\ Log(j, Event(kind, Footing(j), wake, NoOffer, 0))
          /\ kind = "read" => Footing(j) # 1
          /\ kind = "backtracked" => Len(Trail(log)) >= 1
    BY DEF ReadLeaf, Backtrack, Return, StepsFromEntrance
  <1>4. kind = "backtracked" => Trail(log) # <<>>
    BY <1>3, EmptySeq
  <1>5. Lawfully(log, Event(kind, Footing(j), wake, NoOffer, 0))
    BY <1>2, <1>3, <1>4 DEF Lawfully, Event
  <1>6. kind \in EventKind /\ kind # "stepped"
    BY DEF EventKind
  <1>7. QED
    BY <1>1, <1>3, <1>5, <1>6, EventsKeepTheWalks

LEMMA EnteringKeepsTheWalks ==
  ASSUME WalksInv, NEW register \in Register, NEW place \in Place, NEW focus \in Fixture \cup {NoFixture},
         Enter(life, wake, register, place, focus), life' = life, wake' = wake
  PROVE  WalksInv' /\ WalkNow' = register
  <1> DEFINE log == << Event("entered", 1, wake, NoOffer, 0) >>
             new == [life |-> life, register |-> register, place |-> place, focus |-> focus, log |-> log]
  <1>1. LawfulWalk(log) /\ Len(log) = 1 /\ log[1].kind = "entered" /\ DOMAIN log = {1}
    BY EntranceIsLawful DEF WalksInv, Event
  <1>2. log \in Seq(EventRecord) /\ Steps(log) = {}
    BY <1>1 DEF LawfulWalk, OpensAndEnds, Steps
  <1> HIDE DEF log
  <1>3. new \in Journey
    BY <1>2 DEF WalksInv, Journey
  <1>4. journeys' = Append(journeys, new) /\ landings' = landings /\ Unreturned(life) = {}
    BY DEF Enter, Walking, log
  <1> HIDE DEF new
  <1>0. PICK n : n = Len(journeys) + 1
    OBVIOUS
  <1>5. journeys \in Seq(Journey) /\ Len(journeys) \in Nat /\ DOMAIN journeys = 1..Len(journeys)
    BY LenProperties DEF WalksInv
  <1>6. /\ journeys' \in Seq(Journey) /\ DOMAIN journeys' = DOMAIN journeys \cup {n}
        /\ n \notin DOMAIN journeys /\ n \in Nat /\ journeys'[n] = new
        /\ \A k \in DOMAIN journeys : journeys'[k] = journeys[k]
    <2>1. /\ journeys' \in Seq(Journey) /\ Len(journeys') = n /\ journeys'[n] = new
          /\ \A k \in 1..Len(journeys) : journeys'[k] = journeys[k]
      BY <1>0, <1>3, <1>4, <1>5, AppendProperties
    <2>2. DOMAIN journeys' = 1..Len(journeys')
      BY <2>1, LenProperties
    <2>3. QED
      BY <1>0, <1>5, <2>1, <2>2
  <1>7. new.life = life /\ new.register = register /\ new.log = log
    BY DEF new
  <1>8. ~Returned(n)' /\ \A k \in DOMAIN journeys : Returned(k)' <=> Returned(k)
    <2>1. journeys'[n].log = log
      BY <1>6, <1>7
    <2>2. ~\E i \in DOMAIN log : log[i].kind = "returned"
      BY <1>1
    <2>3. ~Returned(n)'
      BY <2>1, <2>2 DEF Returned
    <2>4. \A k \in DOMAIN journeys : Returned(k)' <=> Returned(k)
      BY <1>6 DEF Returned
    <2>5. QED
      BY <2>3, <2>4
  <1>9. Unreturned(life)' = {n}
    <2>1. \A k \in DOMAIN journeys : journeys[k].life = life => Returned(k)
      BY <1>4 DEF Unreturned
    <2>2. \A k \in DOMAIN journeys : journeys'[k].life = life => Returned(k)'
      BY <1>6, <1>8, <2>1
    <2>3. journeys'[n].life = life /\ ~Returned(n)'
      BY <1>6, <1>7, <1>8
    <2>4. Unreturned(life)' = {k \in DOMAIN journeys' : journeys'[k].life = life /\ ~Returned(k)'}
      BY DEF Unreturned
    <2>5. QED
      BY <1>6, <2>2, <2>3, <2>4
  <1>10. OneAtATime'
    <2>1. \A k \in DOMAIN journeys : journeys[k].life = life => Returned(k)
      BY <1>4 DEF Unreturned
    <2>2. QED
      BY <1>6, <1>7, <1>8, <2>1 DEF OneAtATime, WalksInv
  <1>11. BearingsWereShown'
    <2>1. Steps(journeys'[n].log) = {}
      BY <1>2, <1>6, <1>7
    <2>2. ASSUME NEW k \in DOMAIN journeys, NEW i \in Steps(journeys'[k].log)
          PROVE  LET e == journeys'[k].log[i] IN
                   /\ e.offer.junction = e.at
                   /\ e.offer.bearing = "feather" =>
                        [journey |-> k, junction |-> e.at, wake |-> e.wake] \in landings
      BY <1>6, <2>2 DEF BearingsWereShown, WalksInv
    <2>3. QED
      BY ZenonT(60), <1>4, <1>6, <2>1, <2>2 DEF BearingsWereShown
  <1>12. \A k \in DOMAIN journeys' : LawfulWalk(journeys'[k].log) /\ journeys'[k].life <= life
    BY <1>1, <1>6, <1>7 DEF WalksInv
  <1>13. WalksInv'
    BY <1>4, <1>6, <1>10, <1>11, <1>12 DEF WalksInv
  <1>14. Walking(life)' /\ Active(life)' = n
    BY <1>6, <1>9 DEF Walking, Active
  <1>15. QED
    BY <1>6, <1>7, <1>13, <1>14 DEF WalkNow

LEMMA FeathersKeepTheWalks ==
  ASSUME WalksInv, NEW w \in Nat, LandFeathers(life, w), life' = life, wake' \in Nat
  PROVE  WalksInv' /\ WalkNow' = WalkNow
  <1>1. journeys' = journeys
    BY DEF LandFeathers, forestVars
  <1>2. landings \subseteq landings' /\ landings' \subseteq Landing
    <2>1. CASE UNCHANGED landings
      BY <2>1 DEF WalksInv
    <2>2. CASE Walking(life) /\ landings' = landings \cup
                 {[journey |-> Active(life), junction |-> Footing(Active(life)), wake |-> w]}
      BY <2>2, WalkUnderWay DEF WalksInv, Landing
    <2>3. QED
      BY <2>1, <2>2 DEF LandFeathers, forestVars
  <1>3. BearingsWereShown'
    BY <1>1, <1>2 DEF BearingsWereShown, WalksInv
  <1>4. OneAtATime' /\ WalkNow' = WalkNow
    BY <1>1 DEF OneAtATime, WalksInv, Returned, WalkNow, Walking, Active, Unreturned
  <1>5. QED
    BY <1>1, <1>2, <1>3, <1>4 DEF WalksInv

-----------------------------------------------------------------------------
(* The walks of the rounds *)

\* Nothing fitted outlasts its answer, and who was fitted to the treeline is still there.
Whereabouts ==
  /\ location \in Place /\ engaged \in Fixture \cup {NoFixture}
  /\ fit.room \in Place /\ fit.focus \in Fixture \cup {NoFixture}
  /\ phase \in {"idle", "fitting"} => fit = Unfitted
  /\ fit.room = Forest => location = Forest

RoundsInv == WalksInv /\ Whereabouts /\ PhysicalWalkIsAtTheTreeline

LEMMA GroundStaysInTheWorld ==
  ASSUME location \in Place, engaged \in Fixture \cup {NoFixture}, [GroundStep]_groundVars
  PROVE  location' \in Place /\ engaged' \in Fixture \cup {NoFixture}
  <1>1. \A e \in Doors \cup Passages : e.to \in Place
    BY DEF Doors, Passages, Between, Place, Center, Workshop, Spotlight, Garden, House, Threshold, Forest
  <1>2. ASSUME NEW to \in Place, Arrive(to)
        PROVE  location' \in Place /\ engaged' \in Fixture \cup {NoFixture}
    BY <1>2 DEF Arrive
  <1>3. CASE \E d \in { e.name : e \in Doors } : Move(d)
    BY <1>1, <1>2, <1>3 DEF Move, DoorHere
  <1>4. CASE \E p \in { e.name : e \in Passages } : MoveThroughPassage(p)
    BY <1>1, <1>2, <1>4 DEF MoveThroughPassage, PassageHere
  <1>5. CASE TurnFixture \/ \E op \in {"open", "close", "lock", "unlock"} : OperatePassage(op)
    BY <1>5 DEF TurnFixture, OperatePassage
  <1>6. CASE DisengageFixture \/ Inspect \/ \E f \in Fixture : EngageFixture(f)
    BY <1>6 DEF DisengageFixture, EngageFixture, Inspect
  <1>7. CASE StartLifespan
    BY <1>7 DEF StartLifespan, Place
  <1>8. CASE UNCHANGED groundVars
    BY <1>8 DEF groundVars
  <1>9. QED
    BY <1>3, <1>4, <1>5, <1>6, <1>7, <1>8 DEF GroundStep

\* At the treeline the gateway knows no tool.
LEMMA NothingIsMountedInTheForest == Mounted(Forest) = {}
  BY DEF Mounted, Profiled

LEMMA UnfittedIsTheHouse ==
  /\ Unfitted.room = House /\ Unfitted.focus = NoFixture /\ House \in Place /\ House # Forest
  /\ NoWalk # "physical" /\ Register = {"physical", "inquiry", "recovery"}
  BY DEF Unfitted, Place, House, Forest, NoWalk, Register

LEMMA CallsFitOnlyForTheirAnswer ==
  ASSUME Whereabouts, NextCall
  PROVE  /\ fit' = fit \/ fit' = Unfitted
         /\ phase' \in {"idle", "fitting"} => fit' = Unfitted
         /\ life' = life /\ wake' = wake
  BY DEF NextCall, Whereabouts

LEMMA WhereaboutsAfter ==
  ASSUME Whereabouts, fit' = fit \/ fit' = Unfitted, phase' \in {"idle", "fitting"} => fit' = Unfitted,
         location' \in Place, engaged' \in Fixture \cup {NoFixture}, location' = location \/ location # Forest
  PROVE  Whereabouts'
  <1>1. fit.room = Forest => location' = Forest
    BY DEF Whereabouts
  <1>2. CASE fit' = fit
    BY <1>1, <1>2 DEF Whereabouts
  <1>3. CASE fit' = Unfitted
    BY <1>3, UnfittedIsTheHouse DEF Whereabouts
  <1>4. QED
    BY <1>2, <1>3

LEMMA WorldCallsKeepTheRounds ==
  ASSUME RoundsInv, NEW tool, WorldCall(tool)
  PROVE  RoundsInv'
  <1>1. [GroundStep]_groundVars
    BY WorldCallsMoveTheGround
  <1>2. location' \in Place /\ engaged' \in Fixture \cup {NoFixture}
    BY <1>1, GroundStaysInTheWorld DEF RoundsInv, Whereabouts
  <1>3. location # Forest
    BY NothingIsMountedInTheForest DEF WorldCall
  <1>4. NextCall /\ life' = life /\ wake' = wake
    BY CallsFitOnlyForTheirAnswer DEF WorldCall, RoundsInv
  <1>5. Whereabouts'
    BY <1>2, <1>3, <1>4, CallsFitOnlyForTheirAnswer, WhereaboutsAfter DEF RoundsInv
  <1>6. WalkNow # "physical"
    BY <1>3 DEF RoundsInv, PhysicalWalkIsAtTheTreeline
  <1>7. UNCHANGED forestVars
    BY <1>6 DEF WorldCall, Do, Cross, CompletePhysicalReturn, WalkNow
  <1>8. WalksInv' /\ WalkNow' = WalkNow
    <2>1. journeys' = journeys /\ landings' = landings
      BY <1>7 DEF forestVars
    <2>2. QED
      BY <1>4, <2>1 DEF RoundsInv, WalksInv, OneAtATime, BearingsWereShown, Returned, WalkNow, Walking, Active, Unreturned
  <1>9. QED
    BY <1>5, <1>6, <1>8 DEF RoundsInv, PhysicalWalkIsAtTheTreeline

LEMMA ForestCallsKeepTheRounds ==
  ASSUME RoundsInv, NEW tool, ForestCall(tool)
  PROVE  RoundsInv'
  <1>1. NextCall /\ Walk(tool) /\ life' = life /\ wake' = wake /\ location' = location /\ engaged' = engaged
    BY CallsFitOnlyForTheirAnswer DEF ForestCall, RoundsInv, groundVars
  <1>2. Whereabouts'
    <2>1. location \in Place /\ engaged \in Fixture \cup {NoFixture} /\ Whereabouts
      BY DEF RoundsInv, Whereabouts
    <2>2. QED
      BY <1>1, <2>1, CallsFitOnlyForTheirAnswer, WhereaboutsAfter
  <1>3. ASSUME NEW register \in Register, EnterForest(register), register = "physical" => fit.room = Forest
        PROVE  RoundsInv'
    <2>1. fit.room \in Place /\ (IF fit.room = Forest THEN NoFixture ELSE fit.focus) \in Fixture \cup {NoFixture}
      BY DEF RoundsInv, Whereabouts
    <2>2. WalksInv' /\ WalkNow' = register
      BY <1>1, <1>3, <2>1, EnteringKeepsTheWalks DEF EnterForest, RoundsInv
    <2>3. PhysicalWalkIsAtTheTreeline'
      BY <1>1, <1>3, <2>2 DEF PhysicalWalkIsAtTheTreeline, RoundsInv, Whereabouts
    <2>4. QED
      BY <1>2, <2>2, <2>3 DEF RoundsInv
  <1>4. ASSUME WalksInv' /\ WalkNow' \in {WalkNow, NoWalk}
        PROVE  RoundsInv'
    BY <1>1, <1>2, <1>4, UnfittedIsTheHouse DEF PhysicalWalkIsAtTheTreeline, RoundsInv
  <1>5. CASE EnterForest(IF fit.room = Forest THEN "physical" ELSE "inquiry")
    BY <1>3, <1>5, UnfittedIsTheHouse
  <1>6. CASE EnterForest("recovery")
    BY <1>3, <1>6, UnfittedIsTheHouse
  <1>7. CASE \E offer \in Offer : WalkToward(life, wake, offer)
    BY <1>1, <1>4, <1>7, WalkTowardKeepsTheWalks DEF RoundsInv
  <1>8. CASE TurnBack(life, wake) \/ LeaveForest(life, wake) \/ ReadLeaf(life, wake) \/ Backtrack(life, wake)
    <2>1. ReadLeaf(life, wake) \/ Backtrack(life, wake) \/ (Walking(life) /\ Return(life, wake))
      BY <1>8 DEF TurnBack, LeaveForest
    <2>2. QED
      BY <1>1, <1>4, <2>1, OtherEventsKeepTheWalks DEF RoundsInv
  <1>9. QED
    BY <1>1, <1>5, <1>6, <1>7, <1>8 DEF Walk

LEMMA RoundsWithoutAStepKeepTheRounds ==
  ASSUME RoundsInv, UNCHANGED <<journeys, landings, life, wake, location>>, Whereabouts'
  PROVE  RoundsInv'
  <1>1. WalkNow' = WalkNow
    BY DEF WalkNow, Walking, Active, Unreturned, Returned
  <1>2. WalksInv'
    BY DEF RoundsInv, WalksInv, OneAtATime, BearingsWereShown, Returned
  <1>3. QED
    BY <1>1, <1>2 DEF RoundsInv, PhysicalWalkIsAtTheTreeline

LEMMA RoundsGoOn ==
  ASSUME RoundsInv, [Next]_vars
  PROVE  RoundsInv'
  <1>1. [GroundStep]_groundVars /\ location \in Place /\ engaged \in Fixture \cup {NoFixture} /\ Whereabouts
    BY StepsOfTheGround DEF RoundsInv, Whereabouts
  <1>2. location' \in Place /\ engaged' \in Fixture \cup {NoFixture}
    BY <1>1, GroundStaysInTheWorld
  <1>3. ASSUME NEW kind \in {"human", "autonomous"}, StartWake(kind)
        PROVE  RoundsInv'
    <2>1. /\ life' = life /\ wake' = wake + 1 /\ location' = location /\ fit' = fit
          /\ phase = "idle" /\ LandFeathers(life, wake + 1)
      BY <1>3 DEF StartWake, groundVars
    <2>2. wake + 1 \in Nat /\ wake' \in Nat
      BY <2>1 DEF RoundsInv, WalksInv
    <2>3. WalksInv' /\ WalkNow' = WalkNow
      BY <2>1, <2>2, FeathersKeepTheWalks DEF RoundsInv
    <2>4. fit' = Unfitted
      BY <1>1, <2>1 DEF Whereabouts
    <2>5. Whereabouts'
      BY <1>1, <1>2, <2>1, <2>4, WhereaboutsAfter
    <2>6. QED
      BY <2>1, <2>3, <2>5 DEF RoundsInv, PhysicalWalkIsAtTheTreeline
  <1>4. CASE Fit
    <2>1. /\ UNCHANGED <<journeys, landings, life, wake, location>> /\ phase' = "asked"
          /\ fit'.room = location /\ fit'.focus = engaged
      BY <1>4 DEF Fit, groundVars, forestVars
    <2>2. Whereabouts'
      BY <1>1, <1>2, <2>1 DEF Whereabouts
    <2>3. QED
      BY <2>1, <2>2, RoundsWithoutAStepKeepTheRounds
  <1>5. CASE Speak \/ CallTools
    <2>1. /\ UNCHANGED <<journeys, landings, life, wake, location>>
          /\ \/ phase' = "idle" /\ fit' = Unfitted
             \/ phase' = "calling" /\ fit' = fit
      BY <1>5 DEF Speak, CallTools, EndWake, groundVars, forestVars
    <2>2. Whereabouts'
      BY <1>1, <1>2, <2>1, WhereaboutsAfter
    <2>3. QED
      BY <2>1, <2>2, RoundsWithoutAStepKeepTheRounds
  <1>6. ASSUME NEW tool \in Called, RefusedCall(tool)
        PROVE  RoundsInv'
    <2>1. NextCall /\ UNCHANGED <<journeys, landings, location>>
      BY <1>6 DEF RefusedCall, groundVars, forestVars
    <2>2. Whereabouts' /\ UNCHANGED <<life, wake>>
      BY <1>1, <1>2, <2>1, CallsFitOnlyForTheirAnswer, WhereaboutsAfter
    <2>3. QED
      BY <2>1, <2>2, RoundsWithoutAStepKeepTheRounds
  <1>7. CASE Call
    BY <1>6, <1>7, WorldCallsKeepTheRounds, ForestCallsKeepTheRounds DEF Call
  <1>8. CASE NewLifespan
    <2>1. /\ phase = "idle" /\ phase' = phase /\ fit' = fit /\ life' = life + 1 /\ wake' = wake
          /\ journeys' = journeys /\ landings' = landings
      BY <1>8 DEF NewLifespan, forestVars
    <2>2. fit = Unfitted
      BY <1>1, <2>1 DEF Whereabouts
    <2>3. Whereabouts'
      BY <1>1, <1>2, <2>1, <2>2, UnfittedIsTheHouse DEF Whereabouts
    <2>4. journeys \in Seq(Journey) /\ life \in Nat
      BY DEF RoundsInv, WalksInv
    <2>5. \A j \in DOMAIN journeys : journeys[j].life \in Nat /\ journeys[j].life <= life
      <3>1. \A j \in DOMAIN journeys : journeys[j] \in Journey
        BY <2>4, ElementOfSeq, LenProperties
      <3>2. QED
        BY <3>1 DEF RoundsInv, WalksInv, Journey
    <2>6. WalksInv'
      BY <2>1, <2>4, <2>5 DEF RoundsInv, WalksInv, OneAtATime, BearingsWereShown, Returned
    <2>7. \A j \in DOMAIN journeys : journeys[j].life # life + 1
      BY <2>4, <2>5
    <2>8. ~Walking(life)'
      BY <2>1, <2>7 DEF Walking, Unreturned
    <2>9. WalkNow' # "physical"
      BY <2>8, UnfittedIsTheHouse DEF WalkNow
    <2>10. QED
      BY <2>3, <2>6, <2>9 DEF RoundsInv, PhysicalWalkIsAtTheTreeline
  <1>9. CASE UNCHANGED vars
    <2>1. UNCHANGED <<journeys, landings, life, wake, location, engaged, fit, phase>>
      BY <1>9 DEF vars, groundVars, forestVars, roundVars
    <2>2. Whereabouts'
      BY <1>1, <2>1 DEF Whereabouts
    <2>3. QED
      BY <2>1, <2>2, RoundsWithoutAStepKeepTheRounds
  <1>10. QED
    BY <1>3, <1>4, <1>5, <1>7, <1>8, <1>9 DEF Next

\* A walk opens with its entrance and ends with its return; the replay of its log finds
\* the Resident where walking put it; each step went where a way was shown; and one that
\* is walked physically is walked at the treeline: for any bounds on walks and events,
\* any number of lifespans, and whatever the provider calls (projection, execute).
THEOREM WalksAreAlwaysSound == Spec => []WalkIsSound
  <1>1. Init => RoundsInv
    <2>1. SUFFICES ASSUME Init
                   PROVE  RoundsInv
      OBVIOUS
    <2>2. /\ journeys = <<>> /\ landings = {} /\ life = 1 /\ wake = 0 /\ fit = Unfitted
          /\ location = House /\ engaged = NoFixture
      BY <2>1 DEF Init, ForestInit, GroundInit
    <2>3. journeys \in Seq(Journey) /\ DOMAIN journeys = {}
      BY <2>2, EmptySeq
    <2>4. WalksInv
      BY <2>2, <2>3 DEF WalksInv, OneAtATime, BearingsWereShown
    <2>5. WalkNow = NoWalk
      BY <2>3 DEF WalkNow, Walking, Unreturned
    <2>6. Whereabouts
      BY <2>2, UnfittedIsTheHouse DEF Whereabouts
    <2>7. QED
      BY <2>4, <2>5, <2>6, UnfittedIsTheHouse DEF RoundsInv, PhysicalWalkIsAtTheTreeline
  <1>2. RoundsInv /\ [Next]_vars => RoundsInv'
    BY RoundsGoOn
  <1>3. RoundsInv => WalkIsSound
    <2>1. SUFFICES ASSUME RoundsInv
                   PROVE  WalkIsSound
      OBVIOUS
    <2>2. \A j \in DOMAIN journeys : LawfulWalk(journeys[j].log)
      BY <2>1 DEF RoundsInv, WalksInv
    <2>3. ASSUME NEW j \in DOMAIN journeys
          PROVE  Cardinality(Unreturned(journeys[j].life)) <= 1
      <3>1. CASE Walking(journeys[j].life)
        <4>1. Unreturned(journeys[j].life) = {Active(journeys[j].life)}
          BY <2>1, <3>1, WalkUnderWay DEF RoundsInv
        <4>2. Cardinality(Unreturned(journeys[j].life)) = 1
          BY <4>1, FS_Singleton
        <4>3. QED
          BY <4>2
      <3>2. CASE ~Walking(journeys[j].life)
        BY <3>2, FS_EmptySet DEF Walking
      <3>3. QED
        BY <3>1, <3>2
    <2>4. QED
      BY <2>1, <2>2, <2>3, LawfulWalksAreFollowed, LawfulWalksAreWellFormed
         DEF WalkIsSound, RoundsInv, WalksInv
  <1>4. QED
    BY <1>1, <1>2, <1>3, PTL DEF Spec

=============================================================================
