----------------------------- MODULE MapWindow -----------------------------
(***************************************************************************)
(* The local map of FAST-LIO: a window that moves along when the lidar     *)
(* comes near one of its sides, and the points of the tree, which are      *)
(* deleted where the window has left.  A scan moves the window             *)
(* (lasermap_fov_segment), corrects the pose and adds points               *)
(* (map_incremental).                                                      *)
(*                                                                         *)
(* Lengths are whole numbers; Det is even.                                 *)
(***************************************************************************)
EXTENDS Integers

CONSTANTS
  Axes,         \* the three axes
  Det,          \* DET_RANGE: no point of a scan is farther away
  Cube,         \* cube_len
  Step,         \* bound: the way in one scan, and of one correction
  World,        \* bound: where the lidar may be
  Landmarks     \* the points there are to see

VARIABLES
  pos,          \* pos_lid
  ready,        \* Localmap_Initialized
  low,          \* LocalMap_Points.vertex_min; vertex_max is Cube above
  tree,         \* the points of the ikd-Tree
  segmented     \* the window has been moved for this scan

windowVars == <<pos, ready, low, tree, segmented>>

Place     == [Axes -> Int]
Threshold == (3 * Det) \div 2                                     \* MOV_THRESHOLD * DET_RANGE
Mov == LET far == ((Cube - 2 * Threshold) * 9) \div 20 IN IF far > Det \div 2 THEN far ELSE Det \div 2

\* The window is wide enough to be moved off one side without coming near the other, and
\* the lidar slow enough for the margin it keeps.
ASSUME WindowAssumption ==
  /\ Det \in Nat /\ Det % 2 = 0 /\ Cube \in Nat /\ Cube % 2 = 0 /\ Step \in Nat
  /\ 2 * Step <= Det /\ 2 * Step <= Mov
  /\ 2 * Threshold + Mov < Cube
  /\ World \subseteq Place /\ Landmarks \subseteq Place

Abs(n)        == IF n < 0 THEN -n ELSE n
Within(p, l)      == \A a \in Axes : l[a] <= p[a] /\ p[a] < l[a] + Cube
Way           == [Axes -> -Step..Step]
Along(d)       == [a \in Axes |-> pos[a] + d[a]]

WindowInit ==
  /\ pos = [a \in Axes |-> 0]
  /\ ready = FALSE
  /\ low = [a \in Axes |-> 0]
  /\ tree = {}
  /\ segmented = FALSE

-----------------------------------------------------------------------------
\* Which side of the window is near, if any; the lower one is looked at first.
NearLow(p, a)  == Abs(p[a] - low[a]) <= Threshold
NearHigh(p, a) == Abs(p[a] - (low[a] + Cube)) <= Threshold
Moved(p) == [a \in Axes |-> IF NearLow(p, a) THEN low[a] - Mov
                            ELSE IF NearHigh(p, a) THEN low[a] + Mov ELSE low[a]]

\* The points in the box the window leaves on an axis; the box is as wide as the old
\* window on the others.  As wide as the new one, it would not reach into the corners.
LeftBox(p, a, other) ==
  {q \in tree : /\ Within(q, [other EXCEPT ![a] = low[a]])
                /\ \/ NearLow(p, a) /\ q[a] >= low[a] + Cube - Mov
                   \/ ~NearLow(p, a) /\ NearHigh(p, a) /\ q[a] < low[a] + Mov}
LeftOfNew(p, a) == LeftBox(p, a, Moved(p))
Left(p, a)      == LeftBox(p, a, low)

\* The pose is propagated, then lasermap_fov_segment; the first time it only sets the window.
Segment ==
  /\ ~segmented /\ segmented' = TRUE
  /\ ready' = TRUE
  /\ \E d \in Way :
       LET p == Along(d) IN
       /\ pos' = p /\ p \in World
       /\ IF ready
          THEN low' = Moved(p) /\ tree' = tree \ UNION {Left(p, a) : a \in Axes}
          ELSE low' = [a \in Axes |-> p[a] - Cube \div 2] /\ tree' = tree

\* The update of the filter, then map_incremental: any points in range are added.
MapIncremental ==
  /\ segmented /\ segmented' = FALSE
  /\ \E d \in Way, seen \in SUBSET Landmarks :
       LET p == Along(d) IN
       /\ pos' = p /\ p \in World
       /\ \A q \in seen, a \in Axes : p[a] - Det <= q[a] /\ q[a] <= p[a] + Det
       /\ tree' = tree \union seen
  /\ UNCHANGED <<ready, low>>

\* Scans without points or features return early: the points are not added.
SkipScan ==
  /\ segmented /\ segmented' = FALSE
  /\ UNCHANGED <<pos, ready, low, tree>>

WindowNext == Segment \/ MapIncremental \/ SkipScan

WindowSpec == WindowInit /\ [][WindowNext]_windowVars

-----------------------------------------------------------------------------
TypeOK == pos \in Place /\ ready \in BOOLEAN /\ low \in Place /\ tree \subseteq Landmarks /\ segmented \in BOOLEAN

\* The map is the window: the boxes deleted on the single axes add up to what the window
\* has left, so no point stays behind outside, where no later box would take it; and once
\* the window is set it reaches Det beyond the lidar, on all sides and over any way.
MapIsWindow ==
  /\ \A q \in tree : Within(q, low)
  /\ segmented => \A a \in Axes : low[a] + Det < pos[a] /\ pos[a] < low[a] + Cube - Det

\* Moving the window deletes only what it leaves behind.
OnlyLeftPointsGo == [][\A q \in tree : q \in tree' \/ ~Within(q, low')]_windowVars
=============================================================================
