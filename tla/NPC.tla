-------------------------------- MODULE NPC --------------------------------
(***************************************************************************)
(* The behaviours of NPCs, one Step per tick: a patrol over its waypoints  *)
(* and a wanderer around its origin.  Coordinates are integers, and delta, *)
(* speed times the tick's duration, is any distance up to MaxDelta: ticks  *)
(* are late or early, and the first one lasts no time.  An idle NPC moves  *)
(* in Y only, which nothing here depends on.                               *)
(***************************************************************************)
EXTENDS Integers, Sequences

CONSTANTS
  Routes,       \* lists of waypoints
  Origin,       \* WanderBehavior.Origin
  WanderRadius, \* WanderBehavior.Radius
  MaxDelta      \* Speed * maxTickDelta

ASSUME NPCAssumption ==
  /\ \A r \in Routes : r \in Seq([x : Int, z : Int])
  /\ Origin \in [x : Int, z : Int]
  /\ WanderRadius \in Nat /\ MaxDelta \in Nat \ {0}

VARIABLES
  route,        \* PatrolBehavior.Waypoints
  leg,          \* PatrolBehavior.target
  patrol,       \* where the patrol is
  wander,       \* where the wanderer is
  goal,         \* WanderBehavior.target; Zero when it has none
  pause         \* whether WanderBehavior.pause is positive

npcVars == <<route, leg, patrol, wander, goal, pause>>

Zero == [x |-> 0, z |-> 0]

Off(p, q) == (p.x - q.x) * (p.x - q.x) + (p.z - q.z) * (p.z - q.z)

\* Where r * (cos, sin) of a random angle and radius may take the wanderer.
Goals ==
  {p \in [x : Origin.x - WanderRadius .. Origin.x + WanderRadius,
          z : Origin.z - WanderRadius .. Origin.z + WanderRadius] :
     Off(p, Origin) <= WanderRadius * WanderRadius}

NPCInit ==
  /\ route \in Routes
  /\ leg = 0
  /\ patrol = Zero
  /\ wander = Origin
  /\ goal = Zero
  /\ pause = FALSE

\* moveAxis: the new coordinate.  The code returns whether it was not there yet.
moveAxis(pos, target, delta) ==
  IF target - pos \in -delta .. delta THEN target
  ELSE IF target > pos THEN pos + delta ELSE pos - delta

\* Mutant: the next leg begins before the waypoint is reached on both axes.
NextLeg_OneAxis(p, wp) == IF p.x = wp.x THEN (leg + 1) % Len(route) ELSE leg

NextLeg(p, wp) == IF p = wp THEN (leg + 1) % Len(route) ELSE leg

\* PatrolBehavior.Step.
PatrolStep(delta) ==
  LET wp == route[leg + 1]
  IN /\ route # <<>>
     /\ patrol' = [x |-> moveAxis(patrol.x, wp.x, delta), z |-> moveAxis(patrol.z, wp.z, delta)]
     /\ leg' = NextLeg(patrol', wp)
     /\ UNCHANGED <<route, wander, goal, pause>>

\* WanderBehavior.Step: || moves along Z only once X is reached.
WanderStep(target, delta) ==
  /\ ~ pause
  /\ target \in IF goal = Zero THEN Goals ELSE {goal}
  /\ wander' = IF wander.x # target.x
               THEN [wander EXCEPT !.x = moveAxis(@, target.x, delta)]
               ELSE [wander EXCEPT !.z = moveAxis(@, target.z, delta)]
  /\ goal' = IF wander = target THEN Zero ELSE target
  /\ pause' = (wander = target)
  /\ UNCHANGED <<route, leg, patrol>>

\* The pause is over.
PauseEnds ==
  /\ pause
  /\ pause' = FALSE
  /\ UNCHANGED <<route, leg, patrol, wander, goal>>

NPCNext ==
  \/ \E delta \in 0 .. MaxDelta : PatrolStep(delta)
  \/ \E delta \in 0 .. MaxDelta, target \in Goals \cup {Zero} : WanderStep(target, delta)
  \/ PauseEnds

NPCSpec == NPCInit /\ [][NPCNext]_npcVars

\* A wanderer keeps to the square around its circle, the distance its test
\* allows for: it walks one axis at a time, each between two points of the circle.
NPCTypeOK ==
  /\ route \in Routes
  /\ leg \in 0 .. Len(route)
  /\ patrol \in [x : Int, z : Int]
  /\ wander \in [x : Origin.x - WanderRadius .. Origin.x + WanderRadius,
                 z : Origin.z - WanderRadius .. Origin.z + WanderRadius]
  /\ goal \in Goals \cup {Zero}
  /\ pause \in BOOLEAN

\* What a patrol has left of its leg.
Gap(a, b) == IF a < b THEN b - a ELSE a - b
Left == Gap(patrol.x, route[leg + 1].x) + Gap(patrol.z, route[leg + 1].z)

\* A tick that takes time brings a patrol to the end of its leg, and the next leg
\* begins, or brings it nearer: it never overshoots, turns back or skips a point.
PatrolNears ==
  [][\A delta \in 1 .. MaxDelta : PatrolStep(delta) =>
       \/ patrol' = route[leg + 1] /\ leg' = (leg + 1) % Len(route)
       \/ leg' = leg /\ Left' < Left]_npcVars

\* Ticks take time.
NPCFairness == WF_npcVars(\E delta \in 1 .. MaxDelta : PatrolStep(delta))

\* A patrol comes to each of its waypoints again and again, whatever the lengths
\* of the ticks and the order and repetition of the points.
PatrolVisitsAll ==
  \A i \in 1 .. 3 : []<>(i \in DOMAIN route => patrol = route[i])
============================================================================
