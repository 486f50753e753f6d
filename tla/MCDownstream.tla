---------------------------- MODULE MCDownstream ----------------------------
(***************************************************************************)
(* The nodes that live on what FAST-LIO publishes, for TLC: the state for  *)
(* the flight controller, the detection of rings, the pose graph with the  *)
(* descriptor by which it recognises places, and the localisation in a     *)
(* saved map.  They share no state, so every behaviour runs one of them;   *)
(* the others stay as they began.                                          *)
(***************************************************************************)
EXTENDS OdomToFcu, Sequences

CONSTANTS
  World, RingPoses, Window, FastWindow, RoiMin, RoiMax, WorldMin, WorldMax,
  TemporalTol, ConfirmFrames, StaleFrames, MaxTime, MaxRings,
  MaxKeyframes, MaxLoops, MinKeyframes, LoopMinIndexDiff, NumExcludeRecent, TreeMakingPeriod, Starts,
  Depth, MaxScans,
  ContextRings, Sectors, SearchRadius, Candidates, Scans, Elsewhere

VARIABLES
  node,                                                      \* the node that runs
  now, truth, pose, hasPose, fast, buffer, tracked, merged, published,
  odom, lastKf, keyframes, contexts, tree, looks, nodes, values, factors, callback, loop, graph, early,
  mapReady, odoms, clouds, odomQueue, cloudQueue, round, running, latest, localized,
  scan, descriptors, home, found

Tracker == INSTANCE RingTracker WITH Poses <- RingPoses, NoRing <- Nothing, ring <- published
Graph   == INSTANCE PoseGraph WITH NoPose <- Nothing
Map     == INSTANCE MapLocalizer WITH Never <- Nothing
Context == INSTANCE ScanContext WITH Rings <- ContextRings, contexts <- descriptors

ASSUME PointsOffAxes == Context!PlaceAssumption

ringVars  == <<now, truth, pose, hasPose, fast, buffer, tracked, merged, published>>
graphVars == <<odom, lastKf, keyframes, contexts, tree, looks, nodes, values, factors, callback, loop, graph, early>>
mapVars   == <<mapReady, odoms, clouds, odomQueue, cloudQueue, round, running, latest, localized>>
placeVars == <<scan, descriptors, home, found>>
allVars   == <<node, vars, ringVars, graphVars, mapVars, placeVars>>

\* Scans of one point or two in eight directions, and places with a single point.  Points may
\* lie below the sensor, and on the ground, where they count for none.
Directions  == {d \in {-2, -1, 1, 2} \X {-2, -1, 1, 2} : d[1] # d[2] /\ d[1] # -d[2]}
ScanPoints  == {p \in [x : {-2, -1, 1, 2}, y : {-2, -1, 1, 2}, ring : 0..ContextRings - 1, height : {-3, 0, 3, 4}] :
                  <<p.x, p.y>> \in Directions /\ p.height \in (IF p.ring = 0 THEN {3, -3} ELSE {0, 4})}
SmallScans  == {{p, q} : p, q \in ScanPoints}
SinglePoint == {{[x |-> 1, y |-> 2, ring |-> r, height |-> IF r = 0 THEN 3 ELSE 4]} :
                  r \in 0..ContextRings - 1}

\* The descriptors for the behaviours of the other nodes.
NoPlaces == scan = {} /\ descriptors = <<>> /\ home = 1 /\ found = Context!Pending

AllInit ==
  /\ node \in {"fcu", "rings", "graph", "map", "place"}
  /\ Init /\ Tracker!Init /\ Graph!Init /\ Map!Init
  /\ node # "rings" => truth = 0
  /\ node # "map" => ~mapReady
  /\ IF node = "place" THEN Context!Init ELSE NoPlaces

AllNext ==
  /\ UNCHANGED node
  /\ \/ node = "fcu" /\ Next /\ UNCHANGED <<ringVars, graphVars, mapVars, placeVars>>
     \/ node = "rings" /\ Tracker!Next /\ UNCHANGED <<vars, graphVars, mapVars, placeVars>>
     \/ node = "graph" /\ Graph!Next /\ UNCHANGED <<vars, ringVars, mapVars, placeVars>>
     \/ node = "map" /\ Map!Next /\ UNCHANGED <<vars, ringVars, graphVars, placeVars>>
     \/ node = "place" /\ Context!Next /\ UNCHANGED <<vars, ringVars, graphVars, mapVars>>

AllSpec == AllInit /\ [][AllNext]_allVars

-----------------------------------------------------------------------------
\* Accumulation of clouds makes no ghosts.
NoGhosts == Tracker!NoGhosts

\* A published ring was seen often and lately.
ConfirmedIsSeen == Tracker!ConfirmedIsSeen

\* Before a loop is closed, odometry factors are what the odometry measured.
MeasuredBeforeLoops == Graph!MeasuredBeforeLoops

\* The pose graph has one solution, and a value for every node.
GraphIsDetermined == Graph!GraphIsDetermined

\* The keyframes are not extended under the loop thread.
KeyframesStay == Graph!KeyframesStay

\* A localised pose is that of its scan or of the next, never an older one.
PairedScan == Map!PairedScan

\* A place is recognised from another heading.
PlaceIsRecognised == Context!PlaceIsRecognised
=============================================================================
