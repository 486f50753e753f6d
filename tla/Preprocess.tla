----------------------------- MODULE Preprocess -----------------------------
(***************************************************************************)
(* Preprocess of FAST-LIO: what of a lidar message becomes the points of a *)
(* scan.  Without feature extraction a handler thins the points and drops  *)
(* the near ones; with it, give_feature types the points of a line, one    *)
(* loop after the other, and gives out edges and thinned planes.           *)
(*                                                                         *)
(* A point is where it is (a number: those up to Blind are nearer than     *)
(* blind, 0 is the origin), its line, whether line and tag pass, and the   *)
(* angle the lidar has turned.  What depends on coordinates is open: how   *)
(* far a group of plane_judge reaches and whether it is a plane, jumps,    *)
(* ratios.  Indices start at 0, as in the code.                            *)
(***************************************************************************)
EXTENDS Integers, Sequences, FiniteSets, SequencesExt

CONSTANTS
  PointFilterNum,   \* point_filter_num
  GroupSize,        \* group_size: the points of the smallest plane
  Blind,            \* the places nearer than blind
  Turn,             \* the ticks of an angle in one turn
  LinePoints,       \* the length of the line whose features are extracted
  ScanPoints        \* the length of a message without feature extraction

VARIABLES
  handler,          \* lidar_type
  stage,            \* "message", a loop of give_feature, or "done"
  cloud,            \* the message, later the line: pl
  ftype,            \* types[j].ftype
  i,                \* the index of the loop
  lastPlane,        \* last_state = 1
  lastSurface,      \* last_surface
  surf,             \* pl_surf: <<first, last>> of the points an entry stands for
  corn,             \* pl_corn
  times             \* the curvature of the points

PreAssumption ==
  /\ PointFilterNum \in Nat \ {0} /\ GroupSize \in Nat
  /\ ScanPoints \in Nat /\ LinePoints \in Nat

vars == <<handler, stage, cloud, ftype, i, lastPlane, lastSurface, surf, corn, times>>

Size(c)   == Cardinality(DOMAIN c)
Nth(ks, n) == CHOOSE k \in ks : Cardinality({j \in ks : j <= k}) = n
Far(p)    == p.at > Blind
Planes    == {"Poss_Plane", "Real_Plane"}
Point(at, ok, line, angle) == [at |-> at, ok |-> ok, line |-> line, angle |-> angle]

-----------------------------------------------------------------------------
(* The handlers without feature extraction: the indices that get through.  *)

\* avia_handler looks at the points but the first that pass.  Of those it copies to
\* pl_full the ones that differ from their predecessor there go on; a predecessor that
\* was not copied is the origin.
AviaValid(c) == {k \in DOMAIN c \ {0} : c[k].ok}
AviaNew(c, full) == {k \in full : c[k].at # IF k - 1 \in full THEN c[k - 1].at ELSE 0}
AviaTaken(c) ==
  LET full == {k \in AviaValid(c) : Cardinality(0..k \cap AviaValid(c)) % PointFilterNum = 0}
  IN {k \in AviaNew(c, full) : Far(c[k])}

OustTaken(c) == {k \in DOMAIN c : k % PointFilterNum = 0 /\ Far(c[k])}

\* The points but the first of each line, which only sets the angle to count from; with
\* stamps, velodyne_handler takes what oust64_handler does.
LineOf(c, k)   == {j \in DOMAIN c : c[j].line = c[k].line}
First(c, k)    == CHOOSE j \in LineOf(c, k) : \A o \in LineOf(c, k) : j <= o
VelodyneTaken(c) == {k \in OustTaken(c) : k # First(c, k)}
Mid360Taken(c)   == {k \in DOMAIN c : k # First(c, k) /\ Far(c[k])}
DefaultTaken(c)  == {k \in DOMAIN c : Far(c[k])}

\* The curvature of a point without a stamp: the angle since the first point of its
\* line, less a turn if the yaw has passed it, and never below that of the point before.
Turned(c) == [k \in DOMAIN c |-> (c[k].angle - c[First(c, k)].angle) % Turn]
Times(c) ==
  LET time[k \in DOMAIN c] ==
        IF k = First(c, k) THEN 0
        ELSE LET past == {j \in LineOf(c, k) : j < k}
                 last == CHOOSE j \in past : \A o \in past : o <= j
                 turned == Turned(c)[k]
             IN IF turned < time[last] THEN turned + Turn ELSE turned
  IN time

Taken(c) == CASE handler = "avia"     -> AviaTaken(c)
              [] handler = "oust64"   -> OustTaken(c)
              [] handler = "velodyne" -> VelodyneTaken(c)
              [] handler = "mid360"   -> Mid360Taken(c)
              [] handler = "default"  -> DefaultTaken(c)

Thin ==
  /\ stage = "message"
  /\ stage' = "done"
  /\ surf' = [n \in 1..Cardinality(Taken(cloud)) |->
               LET k == Nth(Taken(cloud), n) IN <<k, k>>]
  /\ times' = IF handler \in {"velodyne", "mid360"} THEN Times(cloud) ELSE times
  /\ UNCHANGED <<handler, cloud, ftype, i, lastPlane, lastSurface, corn>>

-----------------------------------------------------------------------------
(* give_feature, on one line.                                              *)

\* The points of the message that reach the line: avia_handler leaves repeated ones out,
\* oust64_handler near ones, velodyne_handler the first if it has no stamps.
Kept(c, ks)     == [n \in 1..Cardinality(ks) |-> c[Nth(ks, n)]]
AviaLine(c)     == Kept(c, AviaNew(c, AviaValid(c)))
OustLine(c)     == Kept(c, {k \in DOMAIN c : Far(c[k])})
VelodyneLine(c) == Kept(c, DOMAIN c \ {0})
Line(c) == CASE handler = "avia" -> AviaLine(c) [] handler = "oust64" -> OustLine(c) [] OTHER -> VelodyneLine(c)
Shortest == CASE handler = "avia" -> 6 [] handler = "oust64" -> 1 [] OTHER -> 2

Length  == Size(cloud)
near(k) == ~Far(cloud[k])
FirstFar == IF \E k \in DOMAIN cloud : ~near(k)
           THEN CHOOSE k \in DOMAIN cloud : ~near(k) /\ \A j \in 0..k - 1 : near(j)
           ELSE Length

Enter(s, from) == stage' = s /\ i' = from

GiveFeature ==
  /\ stage = "features"
  /\ \E line \in {Line(cloud)} :
       /\ Len(line) >= Shortest
       /\ cloud' = [k \in 0..Len(line) - 1 |-> line[k + 1]]
  /\ ftype' = [k \in DOMAIN cloud' |-> "Nor"]
  /\ Enter("planes", FirstFar')
  /\ UNCHANGED <<handler, lastPlane, lastSurface, surf, corn, times>>

\* plane_judge: whether the group from i is a plane and where it ends.  It is none (2) at
\* the first near point it meets; if it meets none it may reach past the end of the line.
\* PlaneJudgeBlind does not look.
PlaneJudgeBlind == [plane : BOOLEAN, nex : i + GroupSize..Length]
PlaneJudge ==
  LET ahead == {k \in i..Length - 1 : near(k)}
      first == IF ahead = {} THEN Length ELSE CHOOSE k \in ahead : \A j \in ahead : k <= j
  IN [plane : BOOLEAN, nex : i + GroupSize..first - 1]
     \union IF ahead = {} THEN [plane : BOOLEAN, nex : {Length}] ELSE {[plane |-> FALSE, nex |-> first]}

\* What the loop over the planes makes of a plane from i to nex; the first point was the
\* last of the plane before, and is an edge if the two meet at an angle.
Marked(nex, first) ==
  [k \in DOMAIN ftype |-> IF k = i THEN first
                          ELSE IF k = nex THEN "Poss_Plane"
                          ELSE IF i < k /\ k < nex THEN "Real_Plane" ELSE ftype[k]]

FindPlanes ==
  /\ stage = "planes"
  /\ UNCHANGED <<handler, cloud, lastSurface, surf, corn, times>>
  /\ IF i >= Length - GroupSize
     THEN Enter("edges", FirstFar + 3) /\ UNCHANGED <<ftype, lastPlane>>
     ELSE IF near(i)
     THEN i' = i + 1 /\ UNCHANGED <<stage, ftype, lastPlane>>
     ELSE \E j \in PlaneJudge :
            /\ stage' = stage
            /\ lastPlane' = j.plane
            /\ i' = IF j.plane THEN j.nex ELSE j.nex + 1
            /\ IF j.plane
               THEN \E first \in IF lastPlane THEN {"Edge_Plane", "Real_Plane"} ELSE {"Poss_Plane"} :
                      ftype' = Marked(j.nex, first)
               ELSE ftype' = ftype

\* A jump needs two points in sight on the side that is smooth (edge_jump_judge).
EdgeJumpJudge(k) == {k - 1, k - 2} \cap {j \in DOMAIN cloud : near(j)} = {}
                    \/ {k + 1, k + 2} \cap {j \in DOMAIN cloud : near(j)} = {}

FindEdges ==
  /\ stage = "edges"
  /\ UNCHANGED <<handler, cloud, lastPlane, lastSurface, surf, corn, times>>
  /\ IF i >= Length - 3
     THEN Enter("small", FirstFar + 1) /\ UNCHANGED ftype
     ELSE /\ i' = i + 1 /\ UNCHANGED stage
          /\ \/ UNCHANGED ftype
             \/ /\ ~near(i) /\ ftype[i] \in {"Nor", "Poss_Plane"}
                /\ \/ EdgeJumpJudge(i) /\ ftype' = [ftype EXCEPT ![i] = "Edge_Jump"]
                   \/ ftype[i] = "Nor" /\ ftype' = [ftype EXCEPT ![i] = "Wire"]

\* Three points on a line, evenly spaced, are a plane.
FindSmallPlanes ==
  /\ stage = "small"
  /\ UNCHANGED <<handler, cloud, lastPlane, lastSurface, surf, corn, times>>
  /\ IF i >= Length - 1
     THEN Enter("surf", FirstFar) /\ UNCHANGED ftype
     ELSE /\ i' = i + 1 /\ UNCHANGED stage
          /\ \/ UNCHANGED ftype
             \/ /\ ftype[i] = "Nor" /\ \A k \in i - 1..i + 1 : ~near(k)
                /\ ftype' = [k \in DOMAIN ftype |-> IF k \in i - 1..i + 1 /\ ftype[k] = "Nor"
                                                    THEN "Real_Plane" ELSE ftype[k]]

\* The last loop: one point for each PointFilterNum points of a plane, the mean of the
\* points that are left when the plane ends.
Push(e)    == surf' = Append(surf, e)
TakeFeatures ==
  /\ stage = "surf"
  /\ i' = i + 1
  /\ UNCHANGED <<handler, cloud, ftype, lastPlane, times>>
  /\ LET first == IF lastSurface = -1 THEN i ELSE lastSurface
     IN IF i >= Length THEN stage' = "done" /\ UNCHANGED <<lastSurface, surf, corn>>
        ELSE /\ UNCHANGED stage
             /\ IF ftype[i] \in Planes
                THEN /\ UNCHANGED corn
                     /\ IF i = first + PointFilterNum - 1
                        THEN lastSurface' = -1 /\ Push(<<first, i>>)
                        ELSE lastSurface' = first /\ UNCHANGED surf
                ELSE /\ lastSurface' = -1
                     /\ corn' = IF ftype[i] \in {"Edge_Jump", "Edge_Plane"} THEN Append(corn, i) ELSE corn
                     /\ IF lastSurface # -1 THEN Push(<<lastSurface, i - 1>>) ELSE UNCHANGED surf

-----------------------------------------------------------------------------
\* The messages: all places and gaps for the handlers, one line for give_feature.
Angles(gaps) == [k \in 0..ScanPoints - 1 |-> FoldFunctionOnSet(+, 0, gaps, 1..k)]
ScanClouds ==
  {[k \in 0..ScanPoints - 1 |-> Point(at[k], ok[k], 0, 0)] :
     at \in [0..ScanPoints - 1 -> {0, Blind + 1, Blind + 2}], ok \in [0..ScanPoints - 1 -> BOOLEAN]}
TurnClouds ==
  {[k \in 0..ScanPoints - 1 |-> Point(Blind + 1, TRUE, line[k], Angles(gaps)[k])] :
     line \in [0..ScanPoints - 1 -> {0, 1}], gaps \in [0..ScanPoints - 1 -> {1, Turn - 1}]}
LineClouds ==
  {[k \in 0..LinePoints - 1 |-> Point(IF k \in far THEN Blind + 1 + k ELSE k, TRUE, 0, k)] :
     far \in SUBSET (0..LinePoints - 1)}

Init ==
  /\ handler \in {"avia", "oust64", "velodyne", "mid360", "default"}
  /\ \/ stage = "message" /\ cloud \in IF handler \in {"velodyne", "mid360"} THEN TurnClouds ELSE ScanClouds
     \/ stage = "features" /\ handler \in {"avia", "oust64", "velodyne"} /\ cloud \in LineClouds
  /\ ftype = <<>> /\ i = 0 /\ lastPlane = FALSE /\ lastSurface = -1
  /\ surf = <<>> /\ corn = <<>>
  /\ times = [k \in DOMAIN cloud |-> 0]

Next == Thin \/ GiveFeature \/ FindPlanes \/ FindEdges \/ FindSmallPlanes \/ TakeFeatures

Spec == Init /\ [][Next]_vars

-----------------------------------------------------------------------------
\* Every point of a plane goes into exactly one point of the scan, with none but its
\* neighbours of the same plane, PointFilterNum at most; near points and corners go into
\* none.  Only the points the line ends with may be left out, fewer than PointFilterNum.
\* The types a point gets in three overlapping loops must leave that to the last one.
EveryPlaneCounts ==
  stage = "done" /\ ftype # <<>> =>
    LET range(n) == surf[n][1]..surf[n][2]
        left     == IF lastSurface = -1 THEN {} ELSE lastSurface..Length - 1
    IN /\ \A n \in DOMAIN surf :
            /\ Cardinality(range(n)) \in 1..PointFilterNum
            /\ \A k \in range(n) : ~near(k) /\ ftype[k] \in Planes
            /\ n > 1 => surf[n - 1][2] < surf[n][1]
       /\ {k \in DOMAIN ftype : ftype[k] \in Planes} = left \union UNION {range(n) : n \in DOMAIN surf}
       /\ Cardinality(left) < PointFilterNum
       /\ \A n \in DOMAIN corn : ~near(corn[n])

=============================================================================
