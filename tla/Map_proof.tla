------------------------------ MODULE Map_proof ------------------------------
(***************************************************************************)
(* The local map of FAST-LIO, for any number of axes, any places and any   *)
(* window wide enough for its detection range: what the tree holds is what *)
(* the window covers, and the window covers what the lidar can see.  The   *)
(* searches that are kept out of a subtree of the map under rebuild.  And, *)
(* from the laws of the tree's operations, that no point is lost or comes  *)
(* back while subtrees are rebuilt in the other thread.                    *)
(***************************************************************************)
EXTENDS MapWindow, TreeRebuild, FiniteSetTheorems, WellFoundedInduction, TLAPS

\* How far the lidar is from both sides of the window on an axis.
Margin(p, l, m) == \A a \in Axes : p[a] - l[a] > m /\ l[a] + Cube - p[a] > m

\* The margin is the threshold after the window was moved, a correction less when the
\* scan is over; that is what the next way may use up.
WindowInv ==
  /\ TypeOK
  /\ \A q \in tree : Within(q, low)
  /\ segmented => ready /\ Margin(pos, low, Threshold)
  /\ ~segmented /\ ready => Margin(pos, low, Threshold - Step)
  /\ ~ready => tree = {}

\* The constants, as the steps use them.
LEMMA Constants ==
  /\ Det \in Nat /\ Cube \in Nat /\ Step \in Nat /\ Threshold \in Nat /\ Mov \in Nat
  /\ Cube \div 2 \in Int /\ 2 * (Cube \div 2) = Cube
  /\ Threshold - Step >= Det /\ 2 * Step <= Threshold /\ 2 * Step <= Mov /\ 2 * Threshold + Mov < Cube
BY WindowAssumption DEF Threshold, Mov

\* A step of bounded length.
LEMMA GoneIsPlace ==
  ASSUME TypeOK, NEW d \in Way
  PROVE  Along(d) \in Place /\ \A a \in Axes : Along(d)[a] - pos[a] \in -Step..Step
BY Constants DEF TypeOK, Place, Way, Along

\* What one move does on one axis: the margin is the threshold again, and the points that
\* were in the window and not in the box are those in the new window.
LEMMA MoveOnAxis ==
  ASSUME NEW l \in Int, NEW p \in Int, NEW x \in Int, NEW new \in Int,
         p - l > Threshold - 2 * Step, l + Cube - p > Threshold - 2 * Step,
         new = IF Abs(p - l) <= Threshold THEN l - Mov
               ELSE IF Abs(p - (l + Cube)) <= Threshold THEN l + Mov ELSE l,
         l <= x, x < l + Cube
  PROVE  /\ p - new > Threshold /\ new + Cube - p > Threshold
         /\ new <= x /\ x < new + Cube <=>
              ~ \/ Abs(p - l) <= Threshold /\ x >= l + Cube - Mov
                \/ ~(Abs(p - l) <= Threshold) /\ Abs(p - (l + Cube)) <= Threshold /\ x < l + Mov
<1>1. p - l > 0 /\ l + Cube - p > 0
  BY Constants
<1>2. Abs(p - l) = p - l /\ Abs(p - (l + Cube)) = l + Cube - p
  BY <1>1, Constants DEF Abs
<1>3. CASE p - l <= Threshold
  BY <1>2, <1>3, Constants
<1>4. CASE p - l > Threshold /\ l + Cube - p <= Threshold
  BY <1>2, <1>4, Constants
<1>5. CASE p - l > Threshold /\ l + Cube - p > Threshold
  BY <1>2, <1>5, Constants
<1> QED
  BY <1>3, <1>4, <1>5, Constants

\* Moving the window: the new window has its margin, and the boxes hold just the points
\* of the tree that are outside it.
LEMMA MoveWindow ==
  ASSUME WindowInv, ready, ~segmented, NEW d \in Way
  PROVE  /\ Moved(Along(d)) \in Place
         /\ Margin(Along(d), Moved(Along(d)), Threshold)
         /\ \A q \in tree : Within(q, Moved(Along(d))) <=> ~\E a \in Axes : q \in Left(Along(d), a)
<1> DEFINE p == Along(d)
<1> DEFINE new == Moved(p)
<1>1. p \in Place /\ low \in Place /\ pos \in Place /\ \A a \in Axes : p[a] - pos[a] \in -Step..Step
  BY GoneIsPlace DEF WindowInv, TypeOK
<1>2. new \in Place
  BY <1>1, Constants DEF Moved, Place
<1>4. \A a \in Axes : new[a] = IF Abs(p[a] - low[a]) <= Threshold THEN low[a] - Mov
                               ELSE IF Abs(p[a] - (low[a] + Cube)) <= Threshold THEN low[a] + Mov ELSE low[a]
  BY DEF Moved, NearLow, NearHigh
<1> HIDE DEF p, new
<1>3. ASSUME NEW a \in Axes
      PROVE  p[a] - low[a] > Threshold - 2 * Step /\ low[a] + Cube - p[a] > Threshold - 2 * Step
  <2>1. pos[a] \in Int /\ low[a] \in Int /\ p[a] \in Int /\ p[a] - pos[a] \in -Step..Step
    BY <1>1 DEF Place
  <2>2. pos[a] - low[a] > Threshold - Step /\ low[a] + Cube - pos[a] > Threshold - Step
    BY DEF WindowInv, Margin
  <2> QED
    BY <2>1, <2>2, Constants
<1>5. ASSUME NEW a \in Axes, NEW x \in Int, low[a] <= x, x < low[a] + Cube
      PROVE  /\ p[a] - new[a] > Threshold /\ new[a] + Cube - p[a] > Threshold
             /\ new[a] <= x /\ x < new[a] + Cube <=>
                  ~ \/ NearLow(p, a) /\ x >= low[a] + Cube - Mov
                    \/ ~NearLow(p, a) /\ NearHigh(p, a) /\ x < low[a] + Mov
  <2>1. low[a] \in Int /\ p[a] \in Int /\ new[a] \in Int
    BY <1>1, <1>2 DEF Place
  <2> QED
    BY <1>3, <1>4, <1>5, <2>1, MoveOnAxis DEF NearLow, NearHigh
<1>6. Margin(p, new, Threshold)
  <2> SUFFICES ASSUME NEW a \in Axes PROVE p[a] - new[a] > Threshold /\ new[a] + Cube - p[a] > Threshold
    BY DEF Margin
  <2>1. low[a] \in Int /\ low[a] <= low[a] /\ low[a] < low[a] + Cube
    BY <1>1, Constants DEF Place
  <2> QED
    BY <1>5, <2>1
<1>7. ASSUME NEW q \in tree PROVE Within(q, new) <=> ~\E a \in Axes : q \in Left(p, a)
  <2>1. q \in Place /\ Within(q, low)
    BY WindowAssumption DEF WindowInv, TypeOK
  <2>2. \A a \in Axes : q[a] \in Int /\ low[a] <= q[a] /\ q[a] < low[a] + Cube
    BY <2>1 DEF Within, Place
  <2>3. \A a \in Axes : [low EXCEPT ![a] = low[a]] = low
    BY <1>1 DEF Place
  <2>4. \A a \in Axes : q \in Left(p, a) <=> \/ NearLow(p, a) /\ q[a] >= low[a] + Cube - Mov
                                             \/ ~NearLow(p, a) /\ NearHigh(p, a) /\ q[a] < low[a] + Mov
    BY <2>1, <2>3 DEF Left, LeftBox
  <2>5. \A a \in Axes : (new[a] <= q[a] /\ q[a] < new[a] + Cube) <=> q \notin Left(p, a)
    BY <1>5, <2>2, <2>4
  <2> QED
    BY <2>5 DEF Within
<1> QED
  BY <1>2, <1>6, <1>7 DEF p, new

\* The strengthened invariant of the window holds at the start.
LEMMA WindowStarts == ASSUME WindowInit PROVE WindowInv
<1>1. TypeOK
  <2>1. pos \in Place /\ low \in Place
    BY DEF WindowInit, Place
  <2>2. ready \in BOOLEAN /\ segmented \in BOOLEAN /\ tree \subseteq Landmarks
    BY DEF WindowInit
  <2> QED
    BY <2>1, <2>2 DEF TypeOK
<1>2. ready = FALSE /\ segmented = FALSE /\ tree = {}
  BY DEF WindowInit
<1> QED
  BY <1>1, <1>2 DEF WindowInv

\* Each step of the mapping keeps it, and takes from the tree only points outside the new window.
LEMMA WindowStep ==
  ASSUME WindowInv, WindowNext
  PROVE  WindowInv' /\ \A q \in tree : q \in tree' \/ ~Within(q, low')
<1>1. CASE Segment
  <2> PICK d \in Way : /\ pos' = Along(d)
                       /\ IF ready THEN low' = Moved(Along(d)) /\ tree' = tree \ UNION {Left(Along(d), a) : a \in Axes}
                          ELSE low' = [a \in Axes |-> Along(d)[a] - Cube \div 2] /\ tree' = tree
    BY <1>1 DEF Segment
  <2>1. segmented' = TRUE /\ ready' = TRUE /\ ~segmented
    BY <1>1 DEF Segment
  <2>2. pos' \in Place
    BY GoneIsPlace DEF WindowInv
  <2>3. CASE ready
    <3>1. /\ low' \in Place /\ Margin(pos', low', Threshold)
          /\ \A q \in tree : Within(q, low') <=> ~\E a \in Axes : q \in Left(Along(d), a)
      BY <2>1, <2>3, MoveWindow
    <3>2. \A q \in tree : q \in tree' <=> Within(q, low')
      BY <2>3, <3>1
    <3>3. tree' \subseteq tree
      BY <2>3
    <3>4. Margin(pos, low, Threshold)' /\ (\A q \in tree : Within(q, low))'
      BY <3>1, <3>2, <3>3 DEF Margin, Within
    <3> QED
      BY <2>1, <2>2, <3>1, <3>2, <3>3, <3>4 DEF WindowInv, TypeOK
  <2>4. CASE ~ready
    <3>1. tree = {} /\ tree' = {}
      BY <2>4 DEF WindowInv
    <3>2. low' \in Place
      BY <2>2, <2>4, Constants DEF Place
    <3>3. \A a \in Axes : pos'[a] \in Int /\ low'[a] = pos'[a] - Cube \div 2
      BY <2>2, <2>4 DEF Place
    <3>4. Margin(pos, low, Threshold)'
      BY <3>3, Constants DEF Margin
    <3> QED
      BY <2>1, <2>2, <3>1, <3>2, <3>4 DEF WindowInv, TypeOK
  <2> QED
    BY <2>3, <2>4
<1>2. CASE MapIncremental
  <2> PICK d \in Way, seen \in SUBSET Landmarks :
             /\ pos' = Along(d) /\ tree' = tree \union seen
             /\ \A q \in seen, a \in Axes : Along(d)[a] - Det <= q[a] /\ q[a] <= Along(d)[a] + Det
    BY <1>2 DEF MapIncremental
  <2>1. segmented /\ segmented' = FALSE /\ ready' = ready /\ low' = low /\ ready
    BY <1>2 DEF MapIncremental, WindowInv
  <2>2. pos' \in Place /\ pos \in Place /\ low \in Place /\ \A a \in Axes : pos'[a] - pos[a] \in -Step..Step
    BY GoneIsPlace DEF WindowInv, TypeOK
  <2>3. \A a \in Axes : pos'[a] - low[a] > Threshold - Step /\ low[a] + Cube - pos'[a] > Threshold - Step
    BY <2>1, <2>2, Constants DEF WindowInv, Margin, Place
  <2>4. \A q \in seen : Within(q, low)
    <3> SUFFICES ASSUME NEW q \in seen, NEW a \in Axes PROVE low[a] <= q[a] /\ q[a] < low[a] + Cube
      BY DEF Within
    <3>1. q[a] \in Int /\ low[a] \in Int /\ pos'[a] \in Int
      BY <2>2, WindowAssumption DEF Place
    <3>2. pos'[a] - Det <= q[a] /\ q[a] <= pos'[a] + Det
      OBVIOUS
    <3> QED
      BY <2>3, <3>1, <3>2, Constants
  <2>5. Margin(pos, low, Threshold - Step)' /\ (\A q \in tree : Within(q, low))'
    BY <2>1, <2>3, <2>4 DEF Margin, WindowInv, Within
  <2> QED
    BY <2>1, <2>2, <2>5 DEF WindowInv, TypeOK
<1>3. CASE SkipScan
  <2>1. segmented /\ segmented' = FALSE /\ pos' = pos /\ ready' = ready /\ low' = low /\ tree' = tree
    BY <1>3 DEF SkipScan
  <2>2. Margin(pos, low, Threshold - Step)
    BY <2>1, Constants DEF WindowInv, Margin, TypeOK, Place
  <2>3. Margin(pos, low, Threshold - Step)' /\ (\A q \in tree : Within(q, low))'
    BY <2>1, <2>2 DEF Margin, WindowInv, Within
  <2> QED
    BY <2>1, <2>3 DEF WindowInv, TypeOK
<1> QED
  BY <1>1, <1>2, <1>3 DEF WindowNext

\* So does a step that leaves the window alone.
LEMMA WindowStutters ==
  ASSUME WindowInv, UNCHANGED windowVars
  PROVE  WindowInv' /\ \A q \in tree : q \in tree' \/ ~Within(q, low')
BY DEF WindowInv, TypeOK, Margin, Within, windowVars

\* The strengthened invariant holds of every behaviour.
THEOREM WindowInvariant == WindowSpec => []WindowInv
<1>1. WindowInit => WindowInv
  BY WindowStarts
<1>2. WindowInv /\ [WindowNext]_windowVars => WindowInv'
  BY WindowStep, WindowStutters
<1> QED
  BY <1>1, <1>2, PTL DEF WindowSpec

\* The map is the window, and the window reaches beyond what the lidar sees.
THEOREM MapFollowsLidar == WindowSpec => []MapIsWindow
<1>1. WindowInv => MapIsWindow
  <2> SUFFICES ASSUME WindowInv, segmented, NEW a \in Axes
               PROVE  low[a] + Det < pos[a] /\ pos[a] < low[a] + Cube - Det
    BY DEF MapIsWindow, WindowInv
  <2>1. low[a] \in Int /\ pos[a] \in Int /\ pos[a] - low[a] > Threshold /\ low[a] + Cube - pos[a] > Threshold
    BY DEF WindowInv, TypeOK, Margin, Place
  <2> QED
    BY <2>1, Constants
<1> QED
  BY <1>1, WindowInvariant, PTL

\* Points leave the map only when the window has left them.
THEOREM PointsStayInWindow == WindowSpec => OnlyLeftPointsGo
<1>1. WindowInv /\ [WindowNext]_windowVars => [\A q \in tree : q \in tree' \/ ~Within(q, low')]_windowVars
  BY WindowStep
<1> QED
  BY <1>1, WindowInvariant, PTL DEF WindowSpec, OnlyLeftPointsGo

-----------------------------------------------------------------------------
(* The lock of the tree.  What the operations do to the tree is left open: *)
(* they are the constants of TreeRebuild.                                  *)

\* While the mapping thread does not search no search is under way, whoever else moves; the
\* counter is -1 just while the rebuild thread keeps the searches out.
LockInv ==
  /\ search \in [Searchers -> {"off", "look", "wait", "in"}]
  /\ tPc \in {"poll", "lockSearch", "lockAgain", "flatten", "repeat", "replace", "finish", "crashed"}
  /\ mPc # "search" => \A s \in Searchers : search[s] = "off"
  /\ tPc = "crashed" => mPc = "crashed"
  /\ tPc \in {"flatten", "replace"} => counter = -1 /\ Inside = {}
  /\ tPc \notin {"flatten", "replace", "crashed"} => counter = Cardinality(Inside)

\* Neither the counter nor a place changes.
LEMMA LockStays ==
  ASSUME LockInv, UNCHANGED <<counter, search>>,
         tPc' = tPc \/ (tPc \notin {"flatten", "replace", "crashed"} /\ tPc' \in {"poll", "lockSearch", "lockAgain", "repeat", "finish"}),
         mPc' = mPc \/ (mPc # "search" /\ mPc # "crashed")
  PROVE  LockInv'
<1>1. Inside' = Inside
  BY DEF Inside
<1> QED BY <1>1 DEF LockInv

\* A search enters: nobody keeps it out.
LEMMA JoinKeeps ==
  ASSUME LockInv, NEW s \in Searchers, Join(s), UNCHANGED <<tPc, mPc>>
  PROVE  LockInv'
<1>1. search[s] = "wait" /\ counter # -1 /\ counter' = counter + 1 /\ search' = [search EXCEPT ![s] = "in"]
  BY DEF Join
<1>2. mPc = "search" /\ tPc \notin {"flatten", "replace", "crashed"}
  BY <1>1 DEF LockInv
<1>3. s \notin Inside /\ Inside' = Inside \cup {s}
  BY <1>1 DEF LockInv, Inside
<1>4. IsFiniteSet(Inside)
  BY SearchersAssumption, FS_Subset DEF Inside
<1>5. Cardinality(Inside') = Cardinality(Inside) + 1
  BY <1>3, <1>4, FS_AddElement
<1> QED BY <1>1, <1>2, <1>5 DEF LockInv

\* A search leaves.
LEMMA QuitKeeps ==
  ASSUME LockInv, NEW s \in Searchers, Quit(s), UNCHANGED <<tPc, mPc>>
  PROVE  LockInv'
<1>1. search[s] = "in" /\ counter' = counter - 1 /\ search' = [search EXCEPT ![s] = "off"]
  BY DEF Quit
<1>2. s \in Inside /\ Inside' = Inside \ {s}
  BY <1>1 DEF LockInv, Inside
<1>3. mPc = "search" /\ tPc \notin {"flatten", "replace", "crashed"}
  BY <1>1, <1>2 DEF LockInv
<1>4. IsFiniteSet(Inside)
  BY SearchersAssumption, FS_Subset DEF Inside
<1>5. Cardinality(Inside') = Cardinality(Inside) - 1
  BY <1>2, <1>4, FS_RemoveElement
<1> QED BY <1>1, <1>3, <1>5 DEF LockInv

\* The rebuild thread gets hold of the subtree when the counter is zero.
LEMMA ExcludeKeeps ==
  ASSUME LockInv, tPc \notin {"flatten", "replace", "crashed"},
         Exclude, UNCHANGED <<search, mPc>>, tPc' \in {"flatten", "replace"}
  PROVE  LockInv'
<1>1. counter = 0 /\ counter' = -1 /\ Inside' = Inside
  BY DEF Exclude, Inside
<1>2. Cardinality(Inside) = 0
  BY <1>1 DEF LockInv
<1>3. IsFiniteSet(Inside)
  BY SearchersAssumption, FS_Subset DEF Inside
<1>4. Inside = {}
  BY <1>2, <1>3, FS_EmptySet
<1> QED BY <1>1, <1>4 DEF LockInv

\* It lets them in again; none has come in meanwhile, so zero is right.
LEMMA ReadmitKeeps ==
  ASSUME LockInv, tPc \in {"flatten", "replace"}, Readmit, UNCHANGED search,
         mPc' = mPc \/ (mPc # "search" /\ mPc # "crashed"),
         tPc' \in {"repeat", "lockAgain", "finish"}
  PROVE  LockInv'
<1>1. Inside' = {} /\ counter' = 0 /\ Cardinality({}) = 0
  BY FS_EmptySet DEF LockInv, Readmit, Inside
<1> QED BY <1>1 DEF LockInv

\* The process ends.
LEMMA CrashEnds == Crash => LockInv'
BY DEF Crash, LockInv

\* The mapping thread begins a search when none is under way, and does nothing else until all
\* have ended.
LEMMA MappingKeeps == LockInv /\ (Mapping \/ Operating) => LockInv'
<1> SUFFICES ASSUME LockInv, Mapping \/ Operating PROVE LockInv'
  OBVIOUS
<1>1. CASE StartSearch
  <2>1. mPc = "idle" /\ mPc' = "search" /\ search' = [s \in Searchers |-> "look"] /\ UNCHANGED <<counter, tPc>>
    BY <1>1 DEF StartSearch, searchKeeps, threadVars
  <2>2. Inside = {} /\ Inside' = {}
    BY <2>1 DEF LockInv, Inside
  <2> QED BY <2>1, <2>2 DEF LockInv
<1>2. CASE EndSearch
  <2>1. mPc' = "idle" /\ (\A s \in Searchers : search[s] = "off") /\ UNCHANGED <<counter, search, tPc>> /\ mPc = "search"
    BY <1>2 DEF EndSearch, searchKeeps, threadVars
  <2>2. Inside' = Inside
    BY <2>1 DEF Inside
  <2> QED BY <2>1, <2>2 DEF LockInv
<1>3. ASSUME NEW todos, Call(todos) PROVE LockInv'
  <2>1. UNCHANGED <<counter, search, tPc>> /\ mPc = "idle"
    BY <1>3 DEF Call, Begin, Settle, callKeeps, threadVars, searchVars
  <2> QED BY <2>1, LockStays
<1>5. CASE (\E p \in Sampled : AddSample(p)) \/ EnterRange \/ EndRange
  <2>1. UNCHANGED <<counter, search, tPc>> /\ mPc \notin {"search", "crashed"}
    BY <1>5 DEF AddSample, Begin, EnterRange, EndRange, Settle, Ranging, callKeeps, threadVars, searchVars
  <2> QED BY <2>1, LockStays
<1>6. CASE ReadFreed
  BY <1>6, CrashEnds DEF ReadFreed
<1>4. CASE BuildFirst \/ ApplyFree \/ Descend \/ ApplyAtEdge \/ Ascend \/ ApplyAtRoot
  <2>1. UNCHANGED <<counter, search, tPc>> /\ mPc \notin {"search", "crashed"}
    BY <1>4 DEF BuildFirst, ApplyFree, Descend, ApplyAtEdge, Ascend, ApplyAtRoot,
                callKeeps, threadVars, searchVars
  <2> QED BY <2>1, LockStays
<1> QED
  BY <1>1, <1>2, <1>3, <1>4, <1>5, <1>6 DEF Mapping, Operating, AddPoint, DeleteBox

\* The threads of a search.
LEMMA SearchingKeeps ==
  ASSUME LockInv, NEW s \in Searchers, Searching(s)
  PROVE  LockInv'
<1>1. UNCHANGED <<tPc, mPc>>
  BY DEF Searching, Look, Enter, Leave, searchKeeps, threadVars
<1>2. CASE Look(s)
  <2>1. /\ search[s] = "look" /\ counter' = counter
        /\ search' = [search EXCEPT ![s] = "off"] \/ search' = [search EXCEPT ![s] = "wait"]
    BY <1>2 DEF Look, searchKeeps
  <2>2. Inside' = Inside
    BY <2>1 DEF LockInv, Inside
  <2> QED BY <1>1, <2>1, <2>2 DEF LockInv
<1>3. CASE Enter(s)
  BY <1>1, <1>3, JoinKeeps DEF Enter, Join
<1>4. CASE Leave(s)
  BY <1>1, <1>4, QuitKeeps DEF Leave, Quit
<1> QED BY <1>2, <1>3, <1>4 DEF Searching

\* The rebuild thread.
LEMMA RebuildKeeps == LockInv /\ MultiThreadRebuild => LockInv'
<1> SUFFICES ASSUME LockInv, MultiThreadRebuild PROVE LockInv'
  OBVIOUS
<1>1. CASE StartRebuild \/ Repeat \/ FinishRebuild
  <2>1. /\ UNCHANGED <<counter, search>> /\ tPc \notin {"flatten", "replace", "crashed"}
        /\ tPc' = tPc \/ tPc' \in {"poll", "lockSearch", "lockAgain", "repeat", "finish"}
        /\ mPc' = mPc \/ mPc = "rangeOld"
    BY <1>1 DEF StartRebuild, Repeat, FinishRebuild, rebuildKeeps
  <2> QED BY <2>1, LockStays
<1>2. CASE LockSearch
  <2>1. /\ Exclude /\ tPc \in {"lockSearch", "lockAgain"} /\ tPc' \in {"flatten", "replace"}
        /\ UNCHANGED <<search, mPc>>
    BY <1>2 DEF LockSearch, Exclude, rebuildKeeps
  <2> QED BY <2>1, ExcludeKeeps
<1>3. CASE FlattenSubtree \/ Replace
  <2>1. /\ Readmit /\ tPc \in {"flatten", "replace"} /\ tPc' \in {"repeat", "lockAgain", "finish"}
        /\ search' = search /\ (mPc' = mPc \/ mPc = "range")
    BY <1>3 DEF FlattenSubtree, Replace, Readmit, rebuildKeeps
  <2> QED BY <2>1, ReadmitKeeps
<1>4. CASE ReadNull
  BY <1>4, CrashEnds DEF ReadNull
<1> QED BY <1>1, <1>2, <1>3, <1>4 DEF MultiThreadRebuild

\* Nobody is inside at first.
LEMMA LockStarts == Init => LockInv
<1> SUFFICES ASSUME Init PROVE LockInv
  OBVIOUS
<1>1. counter = 0 /\ tPc = "poll" /\ mPc = "idle" /\ search = [s \in Searchers |-> "off"]
  BY DEF Init
<1>2. Inside = {} /\ Cardinality({}) = 0
  BY <1>1, FS_EmptySet DEF Inside
<1> QED BY <1>1, <1>2 DEF LockInv

\* Every step of both threads.
LEMMA LockStep == LockInv /\ [Next]_vars => LockInv'
<1> SUFFICES ASSUME LockInv, [Next]_vars PROVE LockInv'
  OBVIOUS
<1>1. CASE UNCHANGED vars
  BY <1>1, LockStays DEF vars, searchVars, threadVars, callVars
<1> QED BY <1>1, MappingKeeps, SearchingKeeps, RebuildKeeps DEF Next

\* A search by range that holds search_flag_mutex is at a subtree that Rebuild_Ptr points at;
\* from its replacement on there is none until the old one was freed.
RangeInv ==
  /\ tPc \notin {"poll", "crashed"} => ptrLocked
  /\ tPc = "finish" => rebuildPtr = NoPtr
  /\ mPc = "rangeIn" => rebuildPtr # NoPtr

\* The mapping thread points at nothing else while the rebuild thread has the lock.
LEMMA RangeStays ==
  ASSUME RangeInv, UNCHANGED <<tPc, ptrLocked>>,
         \/ mPc' # "rangeIn" /\ (ptrLocked => rebuildPtr' \in {rebuildPtr, NoPtr})
         \/ rebuildPtr' = rebuildPtr /\ (mPc' = mPc \/ rebuildPtr # NoPtr)
  PROVE  RangeInv'
BY DEF RangeInv

\* What is asked for while the lock is held is nothing new.
LEMMA RequestKeeps ==
  ASSUME NEW t, NEW requests, Request(t, requests), ptrLocked
  PROVE  rebuildPtr' \in {rebuildPtr, NoPtr}
BY DEF Request

\* Every step.
LEMMA RangeStep == ASSUME RangeInv, [Next]_vars PROVE RangeInv'
<1>1. CASE Mapping
  BY <1>1, RangeStays DEF Mapping, AddPoint, AddSample, DeleteBox, Call, Begin, Settle, BuildFirst, StartSearch,
                          callKeeps, searchKeeps, treeVars, threadVars
<1>2. CASE EnterRange \/ EndRange \/ EndSearch
  BY <1>2, RangeStays DEF EnterRange, EndRange, Settle, EndSearch, callKeeps, searchKeeps, treeVars, threadVars
<1>3. CASE ApplyFree \/ Ascend
  <2>1. UNCHANGED <<tPc, ptrLocked>> /\ mPc' \in {"idle", "op"} /\ \E t, requests : Request(t, requests)
    BY <1>3 DEF ApplyFree, Ascend, NextOp, callKeeps, threadVars
  <2> QED BY <2>1, RangeStays, RequestKeeps
<1>4. CASE Descend \/ ApplyAtEdge \/ ApplyAtRoot
  <2>1. UNCHANGED <<tPc, ptrLocked>> /\ mPc' \in {"edge", "up", "idle"} /\ rebuildPtr' \in {rebuildPtr, NoPtr}
    BY <1>4 DEF Descend, ApplyAtEdge, ApplyAtRoot, callKeeps, threadVars
  <2> QED BY <2>1, RangeStays
<1>5. CASE ReadFreed \/ ReadNull
  BY <1>5 DEF ReadFreed, ReadNull, Crash, RangeInv
<1>6. CASE \E s \in Searchers : Searching(s)
  BY <1>6, RangeStays DEF Searching, Look, Enter, Leave, searchKeeps, treeVars, threadVars
<1>7. CASE StartRebuild \/ LockSearch \/ FlattenSubtree \/ Repeat
  BY <1>7 DEF StartRebuild, LockSearch, FlattenSubtree, Repeat, RangeInv, rebuildKeeps, treeVars
<1>8. CASE Replace
  BY <1>8 DEF Replace, MutexIsFree, RangeInv
<1>9. CASE FinishRebuild
  BY <1>9 DEF FinishRebuild, RangeInv, treeVars
<1>10. CASE UNCHANGED vars
  BY <1>10, RangeStays DEF vars, treeVars, threadVars, callVars
<1> QED BY <1>1, <1>2, <1>3, <1>4, <1>5, <1>6, <1>7, <1>8, <1>9, <1>10 DEF Next, Operating, MultiThreadRebuild

\* Whatever the tree operations do, for any number of searching threads: no search that is
\* counted is in a subtree that is flattened or replaced, and no search by range of Add_Points
\* that took search_flag_mutex is in it when it is freed.
THEOREM SearchesAreExcluded == Spec => []SearchesExcluded
<1>1. Init => RangeInv
  BY DEF Init, RangeInv
<1>2. LockInv => CountedExcluded
  BY DEF LockInv, CountedExcluded
<1>3. RangeInv => ~(mPc = "rangeIn" /\ tPc = "finish")
  BY DEF RangeInv
<1>4. Spec => []LockInv
  BY LockStarts, LockStep, PTL DEF Spec
<1>5. Spec => []RangeInv
  BY <1>1, RangeStep, PTL DEF Spec
<1>6. LockInv /\ RangeInv => SearchesExcluded
  BY <1>2, <1>3 DEF SearchesExcluded
<1> QED BY <1>4, <1>5, <1>6, PTL

-----------------------------------------------------------------------------
(* The points of the tree.  The operations of the tree obey the laws of    *)
(* TreeLaws; what is proved is that the two threads, with their locks and  *)
(* their log, do not spoil what the operations do one by one.              *)

\* Sequences, entry by entry.
LEMMA AppendIs ==
  ASSUME NEW S, NEW log \in Seq(S), NEW e
  PROVE  /\ Len(log) \in Nat /\ Len(Append(log, e)) = Len(log) + 1 /\ Append(log, e)[Len(log) + 1] = e
         /\ \A n \in 1 .. Len(log) : Append(log, e)[n] = log[n]
OBVIOUS

\* The log after its first entry was taken.
LEMMA TailIs ==
  ASSUME NEW S, NEW log \in Seq(S), log # <<>>
  PROVE  /\ Len(log) \in Nat \ {0} /\ Len(Tail(log)) = Len(log) - 1 /\ Head(log) = log[1]
         /\ \A n \in 1 .. Len(Tail(log)) : Tail(log)[n] = log[n + 1]
OBVIOUS

\* Two logs, one behind the other.
LEMMA ConcatIs ==
  ASSUME NEW S, NEW log \in Seq(S), NEW T, NEW more \in Seq(T)
  PROVE  /\ Len(log) \in Nat /\ Len(more) \in Nat /\ Len(log \o more) = Len(log) + Len(more)
         /\ \A n \in 1 .. Len(log \o more) : (log \o more)[n] = IF n <= Len(log) THEN log[n] ELSE more[n - Len(log)]
OBVIOUS

\* What an entry of the log does to the points of the new subtree.
Outcome(e, ps) == IF e.kind = "push" THEN Occurs(<<>>) ELSE Effect(e, ps)

\* The entries of a log, one after the other, make the points "to" of the points "from".
Leads(from, log, to) ==
  \E h : /\ h[0] = from /\ h[Len(log)] = to
         /\ \A n \in 1 .. Len(log) : h[n] = Outcome(log[n], h[n - 1])

\* An entry is an operation, or a pushed deletion of everything.
Entry(e) ==
  \/ e \in Operation
  \/ /\ e.kind = "push"
     /\ \A s : Sound(s) /\ s # Nil => /\ Sound(Pushed(e, s)) /\ Pushed(e, s) # Nil
                                      /\ Contents(Pushed(e, s)) = Occurs(<<>>)
Log(log) == \E S : log \in Seq(S) /\ \A e \in S : Entry(e)

\* The operations of the node are entries of a log, and none is a pushed deletion.
LEMMA OperationIsNoPush == ASSUME NEW op \in Operation PROVE op.kind # "push" /\ Entry(op)
BY DEF Operation, Entry

\* The empty log.
LEMMA LeadsNowhere == ASSUME NEW a, NEW b PROVE Leads(a, <<>>, b) <=> a = b
<1>1. ASSUME a = b PROVE Leads(a, <<>>, b)
  <2> DEFINE h == [n \in {0} |-> a]
  <2>1. h[0] = a /\ h[Len(<<>>)] = b /\ 1 .. Len(<<>>) = {}
    BY <1>1
  <2> HIDE DEF h
  <2> QED BY <2>1 DEF Leads
<1>2. ASSUME Leads(a, <<>>, b) PROVE a = b
  <2>1. PICK h : h[0] = a /\ h[Len(<<>>)] = b
    BY <1>2 DEF Leads
  <2> QED BY <2>1
<1> QED BY <1>1, <1>2

\* One more entry at the end.
LEMMA LeadsOn ==
  ASSUME NEW S, NEW log \in Seq(S), NEW e, NEW a, NEW b, Leads(a, log, b)
  PROVE  Leads(a, Append(log, e), Outcome(e, b))
<1>1. PICK h : /\ h[0] = a /\ h[Len(log)] = b
               /\ \A n \in 1 .. Len(log) : h[n] = Outcome(log[n], h[n - 1])
  BY DEF Leads
<1> DEFINE new == Append(log, e)
           g == [n \in 0 .. Len(log) + 1 |-> IF n = Len(log) + 1 THEN Outcome(e, b) ELSE h[n]]
<1>2. /\ Len(log) \in Nat /\ Len(new) = Len(log) + 1 /\ new[Len(log) + 1] = e
      /\ \A n \in 1 .. Len(log) : new[n] = log[n]
  BY AppendIs
<1>3. g[0] = a /\ g[Len(new)] = Outcome(e, b) /\ \A n \in 0 .. Len(log) : g[n] = h[n]
  BY <1>1, <1>2
<1>4. ASSUME NEW n \in 1 .. Len(new) PROVE g[n] = Outcome(new[n], g[n - 1])
  <2>1. CASE n = Len(log) + 1
    <3>1. g[n] = Outcome(e, b) /\ n - 1 = Len(log) /\ Len(log) \in 0 .. Len(log)
      BY <1>2, <2>1
    <3>2. g[n - 1] = b /\ new[n] = e
      BY <1>1, <1>2, <1>3, <2>1, <3>1
    <3> QED BY <3>1, <3>2
  <2>2. CASE n # Len(log) + 1
    <3>1. n \in 1 .. Len(log) /\ n \in 0 .. Len(log) /\ n - 1 \in 0 .. Len(log)
      BY <1>2, <2>2
    <3>2. g[n] = h[n] /\ g[n - 1] = h[n - 1] /\ new[n] = log[n]
      BY <1>2, <1>3, <3>1
    <3> QED BY <1>1, <3>1, <3>2
  <2> QED BY <2>1, <2>2
<1> HIDE DEF g
<1> QED BY <1>3, <1>4 DEF Leads

\* The first entry is done.
LEMMA LeadsFrom ==
  ASSUME NEW S, NEW log \in Seq(S), log # <<>>, NEW a, NEW b, Leads(a, log, b)
  PROVE  Leads(Outcome(Head(log), a), Tail(log), b)
<1>1. PICK h : /\ h[0] = a /\ h[Len(log)] = b
               /\ \A n \in 1 .. Len(log) : h[n] = Outcome(log[n], h[n - 1])
  BY DEF Leads
<1> DEFINE rest == Tail(log)
           g == [n \in 0 .. Len(log) - 1 |-> h[n + 1]]
<1>2. /\ Len(log) \in Nat \ {0} /\ Len(rest) = Len(log) - 1 /\ Head(log) = log[1]
      /\ \A n \in 1 .. Len(rest) : rest[n] = log[n + 1]
  BY TailIs
<1>3. g[0] = Outcome(Head(log), a) /\ g[Len(rest)] = b
  <2>1. 1 \in 1 .. Len(log) /\ h[1] = Outcome(log[1], h[0])
    BY <1>1, <1>2
  <2>2. g[0] = h[1] /\ g[Len(rest)] = h[Len(log)]
    BY <1>2
  <2> QED BY <1>1, <1>2, <2>1, <2>2
<1>4. ASSUME NEW n \in 1 .. Len(rest) PROVE g[n] = Outcome(rest[n], g[n - 1])
  <2>1. n + 1 \in 1 .. Len(log) /\ n \in 0 .. Len(log) - 1 /\ n - 1 \in 0 .. Len(log) - 1 /\ (n + 1) - 1 = n /\ (n - 1) + 1 = n
    BY <1>2
  <2>2. g[n] = h[n + 1] /\ g[n - 1] = h[n]
    BY <2>1
  <2>3. h[n + 1] = Outcome(log[n + 1], h[n])
    BY <1>1, <2>1
  <2> QED BY <1>2, <2>2, <2>3
<1> HIDE DEF g
<1> QED BY <1>3, <1>4 DEF Leads

\* A second log after the first.
LEMMA LeadsThrough ==
  ASSUME NEW S, NEW log \in Seq(S), NEW T, NEW more \in Seq(T), NEW a, NEW b, NEW g, Leads(a, log, b),
         g[0] = b, \A n \in 1 .. Len(more) : g[n] = Outcome(more[n], g[n - 1])
  PROVE  Leads(a, log \o more, g[Len(more)])
<1>1. PICK h : /\ h[0] = a /\ h[Len(log)] = b
               /\ \A n \in 1 .. Len(log) : h[n] = Outcome(log[n], h[n - 1])
  BY DEF Leads
<1> DEFINE all == log \o more
           f == [n \in 0 .. Len(log) + Len(more) |-> IF n <= Len(log) THEN h[n] ELSE g[n - Len(log)]]
<1>2. /\ Len(log) \in Nat /\ Len(more) \in Nat /\ Len(all) = Len(log) + Len(more)
      /\ \A n \in 1 .. Len(all) : all[n] = IF n <= Len(log) THEN log[n] ELSE more[n - Len(log)]
  BY ConcatIs
<1> HIDE DEF all
<1>3. \A n \in 0 .. Len(log) : f[n] = h[n]
  BY <1>2
<1>4. \A n \in 0 .. Len(more) : f[Len(log) + n] = g[n]
  <2> SUFFICES ASSUME NEW n \in 0 .. Len(more) PROVE f[Len(log) + n] = g[n]
    OBVIOUS
  <2>1. CASE n = 0
    BY <1>1, <1>2, <2>1
  <2>2. CASE n # 0
    BY <1>2, <2>2
  <2> QED BY <2>1, <2>2
<1> HIDE DEF f
<1>5. f[0] = a /\ f[Len(all)] = g[Len(more)]
  BY <1>1, <1>2, <1>3, <1>4
<1>6. ASSUME NEW n \in 1 .. Len(all) PROVE f[n] = Outcome(all[n], f[n - 1])
  <2>1. CASE n <= Len(log)
    <3>1. n \in 1 .. Len(log) /\ n \in 0 .. Len(log) /\ n - 1 \in 0 .. Len(log)
      BY <1>2, <2>1
    <3>2. f[n] = h[n] /\ f[n - 1] = h[n - 1] /\ all[n] = log[n]
      BY <1>2, <1>3, <2>1, <3>1
    <3> QED BY <1>1, <3>1, <3>2
  <2>2. CASE ~(n <= Len(log))
    <3>1. PICK k \in 1 .. Len(more) : n = Len(log) + k
      <4>1. n - Len(log) \in 1 .. Len(more) /\ n = Len(log) + (n - Len(log))
        BY <1>2, <2>2
      <4> QED BY <4>1
    <3>2. k \in 0 .. Len(more) /\ k - 1 \in 0 .. Len(more) /\ n - 1 = Len(log) + (k - 1) /\ n - Len(log) = k
      BY <1>2, <3>1
    <3>3. f[n] = g[k] /\ f[n - 1] = g[k - 1] /\ all[n] = more[k]
      BY <1>2, <1>4, <2>2, <3>1, <3>2
    <3> QED BY <3>1, <3>3
  <2> QED BY <2>1, <2>2
<1> QED BY <1>5, <1>6 DEF Leads, all

\* Logs of entries.
LEMMA LogOn == ASSUME NEW log, NEW e, Log(log), Entry(e) PROVE Log(Append(log, e))
<1>1. PICK S : log \in Seq(S) /\ \A x \in S : Entry(x)
  BY DEF Log
<1>2. Append(log, e) \in Seq(S \cup {e})
  BY <1>1
<1> QED BY <1>1, <1>2 DEF Log

\* A log that operations were added to is a log.
LEMMA LogThrough ==
  ASSUME NEW log, NEW more \in Seq(Operation), Log(log)
  PROVE  Log(log \o more)
<1>1. PICK S : log \in Seq(S) /\ \A x \in S : Entry(x)
  BY DEF Log
<1>2. log \o more \in Seq(S \cup Operation)
  BY <1>1
<1> QED BY <1>1, <1>2, OperationIsNoPush DEF Log

\* The first entry of a log, and what is left of it.
LEMMA LogFrom ==
  ASSUME NEW log, Log(log), log # <<>>
  PROVE  Entry(Head(log)) /\ Log(Tail(log))
<1>1. PICK S : log \in Seq(S) /\ \A x \in S : Entry(x)
  BY DEF Log
<1>2. Head(log) \in S /\ Tail(log) \in Seq(S)
  BY <1>1
<1> QED BY <1>1, <1>2 DEF Log

\* The log the rebuild starts with.
LEMMA EmptyLog == Log(<<>>)
<1>1. <<>> \in Seq(Operation)
  OBVIOUS
<1> QED BY <1>1, OperationIsNoPush DEF Log

\* The new subtree after an entry.
LEMMA EntryRuns ==
  ASSUME Laws, NEW s, Sound(s), s # Nil, NEW e, Entry(e)
  PROVE  /\ Sound(RunOperation(s, e)) /\ RunOperation(s, e) # Nil
         /\ Contents(RunOperation(s, e)) = Outcome(e, Contents(s))
<1>1. CASE e \in Operation
  <2>1. ApplyLaw(s, e, FALSE) /\ e.kind # "push"
    BY <1>1, OperationIsNoPush DEF Laws
  <2> QED BY <2>1 DEF ApplyLaw, RunOperation, Outcome
<1>2. CASE e \notin Operation
  BY <1>2 DEF Entry, RunOperation, Outcome
<1> QED BY <1>1, <1>2

-----------------------------------------------------------------------------
(* The inductive invariant.                                                *)

\* How the places of the threads, the flags and Rebuild_Ptr go together.
PlacesInv ==
  /\ todo \in Seq(Operation) /\ (mPc \in {"op", "edge", "up"} => todo # <<>>)
  /\ mPc \in Ranging => Head(todo).point \in Point
  /\ mPc \in {"idle", "search", "op", "edge", "up", "crashed"} \cup Ranging /\ (mPc = "crashed" <=> tPc = "crashed")
  /\ rebuildPtr \in Seq(Side) \cup {NoPtr}
  /\ mPc \in {"edge", "up"} => edge # <<>> /\ edge \in Seq(Side) /\ rebuildPtr \in {edge, NoPtr} /\ ~atRoot
  /\ mPc = "op" /\ atRoot => rebuildPtr \in {<<>>, NoPtr}
  /\ tPc \in {"lockSearch", "flatten", "repeat", "lockAgain", "replace"} => ptrLocked /\ rebuildFlag
  /\ tPc \in {"lockSearch", "flatten"} => working
  /\ tPc \in {"lockAgain", "replace"} /\ fresh # Nil => working /\ logger = <<>>

\* What the tree holds: at once, or when the operation that waits at an edge is done.
HeldInv ==
  /\ mPc \notin {"edge", "up", "crashed"} =>
       /\ Sound(root) /\ Contents(root) = points
       /\ rebuildPtr # NoPtr => Firm(root, rebuildPtr)
  /\ mPc \in {"edge", "up"} => Open(root, edge) /\ (rebuildPtr # NoPtr => Firm(root, edge))
  /\ mPc = "edge" => Contents(Completed(root, Head(todo), edge)) = Effect(Head(todo), points)
  /\ mPc = "up" => Contents(Ascended(root, Head(todo), edge).tree) = Effect(Head(todo), points)

\* Once the points are copied, the log makes of the new subtree what the old one is.
Copied == tPc \in {"repeat", "lockAgain", "replace"} /\ fresh # Nil /\ rebuildPtr # NoPtr
CopyInv ==
  /\ tPc \in {"lockSearch", "flatten"} => logger = <<>>
  /\ tPc = "repeat" /\ rebuildPtr # NoPtr => fresh # Nil
  /\ Copied => /\ Sound(fresh) /\ Log(logger)
               /\ Leads(Contents(fresh), logger, Contents(At(root, rebuildPtr)))

ThreadsInv == PlacesInv /\ HeldInv /\ CopyInv
RebuildInv == TreeAssumption /\ Laws /\ (logged => ThreadsInv)

\* The root is not NoPtr.
LEMMA Pointers == ASSUME TreeAssumption PROVE NoPtr # <<>> /\ NoPtr \notin Seq(Side) /\ <<>> \in Seq(Side)
<1>1. <<>> \in Seq(Side)
  OBVIOUS
<1> QED BY <1>1 DEF TreeAssumption

\* Steps of a search, for the nearest or by range.
LEMMA ThreadsStay ==
  ASSUME ThreadsInv, UNCHANGED <<root, rebuildPtr, ptrLocked, working, rebuildFlag, tPc, fresh, logger, todo, atRoot, edge, points>>,
         mPc' = mPc \/ {mPc, mPc'} \subseteq {"idle", "search"} \/ {mPc, mPc'} \subseteq Ranging
  PROVE  ThreadsInv'
<1>1. PlacesInv'
  BY DEF ThreadsInv, PlacesInv, Ranging
<1>2. HeldInv'
  BY DEF ThreadsInv, HeldInv, Ranging
<1>3. CopyInv'
  BY DEF ThreadsInv, CopyInv, Copied
<1> QED BY <1>1, <1>2, <1>3 DEF ThreadsInv

\* What a call is to do is settled.
LEMMA SettleKeeps ==
  ASSUME ThreadsInv, mPc \in {"idle"} \cup Ranging, NEW operations \in Seq(Operation), Settle(operations)
  PROVE  ThreadsInv'
<1>1. /\ todo' = operations /\ mPc' = (IF operations = <<>> THEN "idle" ELSE "op")
      /\ atRoot' = (rebuildPtr = <<>>) /\ mPc \notin {"edge", "up", "crashed"}
      /\ UNCHANGED <<root, rebuildPtr, ptrLocked, working, rebuildFlag, tPc, fresh, logger, edge, points>>
  BY DEF Settle, callKeeps, threadVars, treeVars, Ranging
<1>2. PlacesInv'
  BY <1>1 DEF ThreadsInv, PlacesInv, Ranging
<1>3. HeldInv'
  BY <1>1 DEF ThreadsInv, HeldInv
<1>4. CopyInv'
  BY <1>1 DEF ThreadsInv, CopyInv, Copied
<1> QED BY <1>2, <1>3, <1>4 DEF ThreadsInv

\* The calls there are.
LEMMA Calls ==
  ASSUME TreeAssumption, ThreadsInv, (\E p \in Added : AddPoint(p)) \/ (\E p \in Sampled : AddSample(p)) \/ (\E b \in Removed : DeleteBox(b))
  PROVE  ThreadsInv'
<1>1. ASSUME NEW p \in Added, AddPoint(p) PROVE ThreadsInv'
  <2>1. <<Add(p)>> \in Seq(Operation)
    BY DEF TreeAssumption, Operation, Add
  <2> QED BY <1>1, <2>1, SettleKeeps DEF AddPoint, Call, Begin
<1>2. ASSUME NEW p \in Sampled, AddSample(p) PROVE ThreadsInv'
  <2>1. /\ mPc = "idle" /\ todo' = <<Add(p)>> /\ mPc' = "range"
        /\ UNCHANGED <<root, rebuildPtr, ptrLocked, working, rebuildFlag, tPc, fresh, logger, atRoot, edge, points>>
    BY <1>2 DEF AddSample, Begin, callKeeps, threadVars, treeVars
  <2>2. todo' \in Seq(Operation) /\ Head(todo').point \in Point
    BY <2>1 DEF TreeAssumption, Operation, Add
  <2>3. PlacesInv'
    BY <2>1, <2>2 DEF ThreadsInv, PlacesInv, Ranging
  <2>4. HeldInv'
    BY <2>1 DEF ThreadsInv, HeldInv
  <2>5. CopyInv'
    BY <2>1 DEF ThreadsInv, CopyInv, Copied
  <2> QED BY <2>3, <2>4, <2>5 DEF ThreadsInv
<1>3. ASSUME NEW b \in Removed, DeleteBox(b) PROVE ThreadsInv'
  <2>1. <<Delete(b)>> \in Seq(Operation)
    BY DEF TreeAssumption, Operation, Delete
  <2> QED BY <1>3, <2>1, SettleKeeps DEF DeleteBox, Call, Begin
<1> QED BY <1>1, <1>2, <1>3

\* The search before an insertion with downsampling is over.
LEMMA EndRangeKeeps ==
  ASSUME Laws, ThreadsInv, EndRange
  PROVE  ThreadsInv'
<1>1. mPc \in Ranging /\ Settle(Downsampled(root, Head(todo).point))
  BY DEF EndRange
<1>2. Head(todo).point \in Point /\ Sound(root)
  BY <1>1 DEF ThreadsInv, PlacesInv, HeldInv, Ranging
<1>3. SampleLaw(root, Head(todo).point)
  BY <1>2 DEF Laws
<1>4. Downsampled(root, Head(todo).point) \in Seq(Operation)
  BY <1>2, <1>3 DEF SampleLaw
<1> QED BY <1>1, <1>4, SettleKeeps

\* Without a tree nothing is pointed at, so nothing is being rebuilt when one is built.
LEMMA BuildFirstKeeps ==
  ASSUME TreeAssumption, Laws, ThreadsInv, BuildFirst
  PROVE  ThreadsInv'
<1>1. PICK c \in Clouds : root' = Build(c) /\ points' = Occurs(c)
  BY DEF BuildFirst
<1>2. /\ mPc = "idle" /\ root = Nil
      /\ UNCHANGED <<rebuildPtr, ptrLocked, working, rebuildFlag, tPc, fresh, logger, mPc, todo, atRoot, edge>>
  BY DEF BuildFirst, callKeeps, threadVars
<1>3. rebuildPtr = NoPtr
  <2> SUFFICES ASSUME rebuildPtr # NoPtr PROVE FALSE
    OBVIOUS
  <2>1. rebuildPtr \in Seq(Side) /\ Firm(root, rebuildPtr)
    BY <1>2 DEF ThreadsInv, HeldInv, PlacesInv
  <2>2. TreeLaw(root, rebuildPtr)
    BY <2>1 DEF Laws
  <2> QED BY <1>2, <2>1, <2>2 DEF TreeLaw
<1>4. Sound(root') /\ Contents(root') = points'
  <2>1. BuildLaw(c)
    BY DEF Laws, TreeAssumption
  <2> QED BY <1>1, <2>1 DEF BuildLaw
<1>5. PlacesInv'
  BY <1>2 DEF ThreadsInv, PlacesInv
<1>6. HeldInv'
  BY <1>2, <1>3, <1>4 DEF ThreadsInv, HeldInv
<1>7. CopyInv'
  BY <1>2, <1>3 DEF ThreadsInv, CopyInv, Copied
<1> QED BY <1>5, <1>6, <1>7 DEF ThreadsInv

\* What is pointed at afterwards: while a rebuild goes on it is at most reset.
LEMMA RequestPoints ==
  ASSUME Laws, NEW t, NEW requests, Request(t, requests)
  PROVE  \/ rebuildPtr' = NoPtr
         \/ ~ptrLocked /\ rebuildPtr' \in requests
         \/ rebuildPtr' = rebuildPtr /\ (rebuildPtr = <<>> => Firm(t, <<>>))
<1> DEFINE larger == {x \in requests : rebuildPtr = NoPtr \/ At(t, x).size > At(t, rebuildPtr).size}
           small  == rebuildPtr = <<>> /\ Small(t)
<1>1. rebuildPtr' \in IF small THEN {NoPtr} ELSE {rebuildPtr} \cup (IF ptrLocked THEN {} ELSE larger)
  BY DEF Request
<1>2. larger \subseteq requests
  OBVIOUS
<1> HIDE DEF larger
<1>3. CASE small
  BY <1>1, <1>3
<1>4. CASE ~small
  <2>1. rebuildPtr' = rebuildPtr \/ (~ptrLocked /\ rebuildPtr' \in requests)
    BY <1>1, <1>2, <1>4
  <2>2. rebuildPtr = <<>> => t # Nil
    BY <1>4 DEF Small
  <2>3. TreeLaw(t, <<>>)
    <3>1. <<>> \in Seq(Side)
      OBVIOUS
    <3> QED BY <3>1 DEF Laws
  <2> QED BY <2>1, <2>2, <2>3 DEF TreeLaw
<1> QED BY <1>3, <1>4

\* What is pushed, and logged, while a subtree is rebuilt.
LEMMA PushIsLogged ==
  ASSUME Laws, NEW t, NEW x \in Seq(Side), NEW op \in Operation, Sound(t), Firm(t, x), x # <<>>
  PROVE  \/ PushTo(t, op, x) = <<>> /\ Told(t, op, x) = At(t, x)
         \/ \E e : /\ PushTo(t, op, x) = <<e>> /\ Entry(e)
                   /\ Contents(Told(t, op, x)) = Outcome(e, Contents(At(t, x)))
<1>1. CASE PushTo(t, op, x) = <<>>
  BY <1>1 DEF Told
<1>2. CASE PushTo(t, op, x) # <<>>
  <2>1. PICK e : PushTo(t, op, x) = <<e>> /\ e.kind = "push"
    BY <1>2 DEF PushTo
  <2>2. PushTo(t, op, x)[1] = e /\ Told(t, op, x) = Pushed(e, At(t, x))
    BY <2>1 DEF Told
  <2>3. ASSUME NEW s, Sound(s), s # Nil
        PROVE  Sound(Pushed(e, s)) /\ Pushed(e, s) # Nil /\ Contents(Pushed(e, s)) = Occurs(<<>>)
    <3>1. PushLaw(t, op, x, s)
      BY DEF Laws
    <3> QED BY <1>2, <2>2, <2>3, <3>1 DEF PushLaw
  <2>4. Sound(At(t, x)) /\ At(t, x) # Nil
    <3>1. TreeLaw(t, x) /\ TreeLaw(At(t, x), <<>>)
      <4>1. <<>> \in Seq(Side)
        OBVIOUS
      <4> QED BY <4>1 DEF Laws
    <3> QED BY <3>1 DEF TreeLaw
  <2>5. Entry(e)
    BY <2>1, <2>3 DEF Entry
  <2>6. Contents(Told(t, op, x)) = Outcome(e, Contents(At(t, x)))
    BY <2>1, <2>2, <2>3, <2>4 DEF Outcome
  <2> QED BY <2>1, <2>5, <2>6
<1> QED BY <1>1, <1>2

\* An operation that visits the father of the subtree pushes to it, and the log follows.
LEMMA LogFollowsPush ==
  ASSUME TreeAssumption, Laws, ThreadsInv, mPc = "op", PushUnderLock, Copied, rebuildPtr # <<>>,
         NEW new, new = Told(root, Head(todo), rebuildPtr)
  PROVE  /\ tPc \in {"lockAgain", "replace"} => logger' = <<>>
         /\ Log(logger') /\ Leads(Contents(fresh), logger', Contents(new))
<1> DEFINE op == Head(todo)
<1>1. op \in Operation /\ rebuildPtr \in Seq(Side) /\ rebuildFlag
  BY DEF ThreadsInv, PlacesInv, Copied
<1>2. Sound(root) /\ Firm(root, rebuildPtr)
  BY DEF ThreadsInv, HeldInv, Copied
<1>3. Log(logger) /\ Leads(Contents(fresh), logger, Contents(At(root, rebuildPtr)))
  BY DEF ThreadsInv, CopyInv
<1>4. /\ Pushes(op) = PushTo(root, op, rebuildPtr) /\ (Pushes(op) # <<>> => ~working)
      /\ logger' = logger \o PushTo(root, op, rebuildPtr)
  BY <1>1 DEF PushUnderLock, Pushes, Copied
<1> HIDE DEF op
<1>5. CASE PushTo(root, op, rebuildPtr) = <<>> /\ new = At(root, rebuildPtr)
  <2>1. PICK S : logger \in Seq(S)
    BY <1>3 DEF Log
  <2>2. logger' = logger
    BY <1>4, <1>5, <2>1
  <2> QED BY <1>3, <1>5, <2>2 DEF ThreadsInv, PlacesInv, Copied
<1>6. ASSUME NEW e, PushTo(root, op, rebuildPtr) = <<e>>, Entry(e), Contents(new) = Outcome(e, Contents(At(root, rebuildPtr)))
      PROVE  /\ tPc \notin {"lockAgain", "replace"}
             /\ Log(logger') /\ Leads(Contents(fresh), logger', Contents(new))
  <2>1. ~working
    BY <1>4, <1>6
  <2>2. PICK S : logger \in Seq(S)
    BY <1>3 DEF Log
  <2>3. logger' = Append(logger, e)
    BY <1>4, <1>6, <2>2
  <2>4. tPc \notin {"lockAgain", "replace"}
    BY <2>1 DEF ThreadsInv, PlacesInv, Copied
  <2>5. Leads(Contents(fresh), Append(logger, e), Outcome(e, Contents(At(root, rebuildPtr))))
    BY <1>3, <2>2, LeadsOn
  <2> QED BY <1>3, <1>6, <2>3, <2>4, <2>5, LogOn
<1> QED BY <1>1, <1>2, <1>5, <1>6, PushIsLogged DEF op
\* Nothing is logged, nor pushed, while the rebuild thread works.
LEMMA NoPushWhileWorking ==
  ASSUME PushUnderLock, working, logger = <<>>
  PROVE  logger' = <<>>
<1>1. Pushes(Head(todo)) = <<>>
  BY DEF PushUnderLock
<1> QED BY <1>1 DEF PushUnderLock

\* An operation that does not come to the subtree under rebuild.
LEMMA ApplyFreeKeeps ==
  ASSUME TreeAssumption, Laws, ThreadsInv, ApplyFree, logged'
  PROVE  ThreadsInv'
<1> DEFINE op == Head(todo)
           result == Apply(root, op, TRUE)
<1>1. /\ mPc = "op" /\ ~atRoot /\ ~AtEdge /\ PushUnderLock
      /\ root' = result.tree /\ Request(result.tree, result.requests)
      /\ todo' = Tail(todo) /\ mPc' = (IF Tail(todo) = <<>> THEN "idle" ELSE "op")
      /\ points' = Effect(op, points)
      /\ UNCHANGED <<ptrLocked, working, rebuildFlag, tPc, fresh, atRoot, edge>>
      /\ ~(rebuildPtr = <<>> /\ rebuildFlag)
  BY DEF ApplyFree, NextOp, threadVars
<1>2. /\ op \in Operation /\ Tail(todo) \in Seq(Operation)
      /\ Sound(root) /\ Contents(root) = points /\ (rebuildPtr # NoPtr => Firm(root, rebuildPtr))
  BY <1>1 DEF ThreadsInv, PlacesInv, HeldInv
<1>3. /\ Sound(root') /\ Contents(root') = points'
      /\ \A x \in result.requests : x \in Seq(Side) /\ Firm(root', x)
  <2>1. ApplyLaw(root, op, TRUE)
    BY <1>2 DEF Laws
  <2> QED BY <1>1, <1>2, <2>1 DEF ApplyLaw
<1>4. ASSUME rebuildPtr \notin {NoPtr, <<>>}
      PROVE  Firm(root', rebuildPtr) /\ At(root', rebuildPtr) = Told(root, op, rebuildPtr)
  <2>1. ~Reaches(root, op, rebuildPtr) /\ rebuildPtr \in Seq(Side)
    BY <1>1, <1>4 DEF AtEdge, ThreadsInv, PlacesInv
  <2>2. PassLaw(root, op, rebuildPtr)
    BY <1>2, <2>1 DEF Laws
  <2> QED BY <1>1, <1>2, <1>4, <2>1, <2>2 DEF PassLaw
<1>5. /\ rebuildPtr' \in Seq(Side) \cup {NoPtr} /\ (rebuildPtr' # NoPtr => Firm(root', rebuildPtr'))
      /\ ptrLocked => rebuildPtr' \in {rebuildPtr, NoPtr}
  <2>1. \/ rebuildPtr' = NoPtr
        \/ ~ptrLocked /\ rebuildPtr' \in result.requests
        \/ rebuildPtr' = rebuildPtr /\ (rebuildPtr = <<>> => Firm(result.tree, <<>>))
    BY <1>1, RequestPoints
  <2>2. CASE rebuildPtr' = NoPtr
    BY <2>2
  <2>3. CASE ~ptrLocked /\ rebuildPtr' \in result.requests
    BY <1>3, <2>3
  <2>4. CASE rebuildPtr' = rebuildPtr /\ (rebuildPtr = <<>> => Firm(result.tree, <<>>))
    BY <1>1, <1>4, <2>4 DEF ThreadsInv, PlacesInv
  <2> QED BY <2>1, <2>2, <2>3, <2>4
<1> HIDE DEF op, result
<1>6. working /\ logger = <<>> => logger' = <<>>
  BY <1>1, NoPushWhileWorking
<1>7. PlacesInv'
  BY <1>1, <1>2, <1>5, <1>6 DEF ThreadsInv, PlacesInv, Ranging
<1>8. HeldInv'
  BY <1>1, <1>3, <1>5 DEF HeldInv
<1>9. CopyInv'
  <2>1. tPc' \in {"lockSearch", "flatten"} => logger' = <<>>
    BY <1>1, <1>6 DEF ThreadsInv, CopyInv, PlacesInv
  <2>2. ASSUME Copied' PROVE Sound(fresh') /\ Log(logger') /\ Leads(Contents(fresh'), logger', Contents(At(root', rebuildPtr')))
    <3>1. Copied /\ rebuildPtr' = rebuildPtr /\ rebuildPtr \notin {NoPtr, <<>>}
      BY <1>1, <1>5, <2>2 DEF Copied, ThreadsInv, PlacesInv
    <3>2. At(root', rebuildPtr') = Told(root, op, rebuildPtr)
      BY <1>4, <3>1
    <3>3. Log(logger') /\ Leads(Contents(fresh), logger', Contents(At(root', rebuildPtr')))
      BY <1>1, <3>1, <3>2, LogFollowsPush DEF op
    <3> QED BY <1>1, <3>1, <3>3 DEF ThreadsInv, CopyInv
  <2>3. tPc' = "repeat" /\ rebuildPtr' # NoPtr => fresh' # Nil
    BY <1>1, <1>5 DEF ThreadsInv, CopyInv, PlacesInv
  <2> QED BY <2>1, <2>2, <2>3 DEF CopyInv
<1> QED BY <1>7, <1>8, <1>9 DEF ThreadsInv

\* An operation comes to the subtree under rebuild and waits.
LEMMA DescendKeeps ==
  ASSUME TreeAssumption, Laws, ThreadsInv, Descend
  PROVE  ThreadsInv'
<1> DEFINE op == Head(todo)
<1>1. /\ mPc = "op" /\ ~atRoot /\ rebuildPtr \notin {NoPtr, <<>>} /\ Reaches(root, op, rebuildPtr) /\ PushUnderLock
      /\ root' = Descended(root, op, rebuildPtr) /\ edge' = rebuildPtr /\ mPc' = "edge"
      /\ UNCHANGED <<ptrLocked, working, rebuildFlag, tPc, fresh, rebuildPtr, todo, atRoot, points>>
  BY DEF Descend, AtEdge, callKeeps, threadVars
<1>2. /\ op \in Operation /\ rebuildPtr \in Seq(Side)
      /\ Sound(root) /\ Contents(root) = points /\ Firm(root, rebuildPtr)
  BY <1>1 DEF ThreadsInv, PlacesInv, HeldInv
<1>3. /\ Open(root', rebuildPtr) /\ Firm(root', rebuildPtr) /\ At(root', rebuildPtr) = Told(root, op, rebuildPtr)
      /\ Contents(Completed(root', op, rebuildPtr)) = Effect(op, points)
  <2>1. DescendLaw(root, op, rebuildPtr)
    BY <1>2 DEF Laws
  <2> QED BY <1>1, <1>2, <2>1 DEF DescendLaw
<1>4. working /\ logger = <<>> => logger' = <<>>
  BY <1>1, NoPushWhileWorking
<1>5. HeldInv'
  BY <1>1, <1>3 DEF HeldInv
<1> HIDE DEF op
<1>6. PlacesInv'
  BY <1>1, <1>2, <1>4 DEF ThreadsInv, PlacesInv, Ranging
<1>7. CopyInv'
  <2>1. tPc' \in {"lockSearch", "flatten"} => logger' = <<>>
    BY <1>1, <1>4 DEF ThreadsInv, CopyInv, PlacesInv
  <2>2. ASSUME Copied' PROVE Sound(fresh') /\ Log(logger') /\ Leads(Contents(fresh'), logger', Contents(At(root', rebuildPtr')))
    <3>1. Copied
      BY <1>1, <2>2 DEF Copied
    <3>2. Log(logger') /\ Leads(Contents(fresh), logger', Contents(At(root', rebuildPtr')))
      BY <1>1, <1>3, <3>1, LogFollowsPush DEF op
    <3> QED BY <1>1, <3>1, <3>2 DEF ThreadsInv, CopyInv
  <2>3. tPc' = "repeat" /\ rebuildPtr' # NoPtr => fresh' # Nil
    BY <1>1 DEF ThreadsInv, CopyInv
  <2> QED BY <2>1, <2>2, <2>3 DEF CopyInv
<1> QED BY <1>5, <1>6, <1>7 DEF ThreadsInv

\* An open tree, as it is.
LEMMA OpenIs ==
  ASSUME Laws, NEW t, NEW x \in Seq(Side), Open(t, x)
  PROVE  Sound(At(t, x)) /\ Put(t, x, At(t, x)) = t /\ Climbed(t, x, FALSE).tree = t
<1>1. Sound(Build(<<>>))
  <2>1. <<>> \in Seq(Point)
    OBVIOUS
  <2>2. BuildLaw(<<>>)
    BY <2>1 DEF Laws
  <2> QED BY <2>2 DEF BuildLaw
<1>2. OpenLaw(t, x, Build(<<>>), Build(<<>>))
  BY DEF Laws
<1> QED BY <1>1, <1>2 DEF OpenLaw

\* What is at a position that stays.
LEMMA FirmIs ==
  ASSUME Laws, NEW t, NEW x \in Seq(Side), Firm(t, x)
  PROVE  /\ t # Nil /\ At(t, x) # Nil
         /\ Sound(t) => Sound(At(t, x))
<1>1. TreeLaw(t, x)
  BY DEF Laws
<1> QED BY <1>1 DEF TreeLaw

\* An open tree with another subtree.
LEMMA OpenWith ==
  ASSUME Laws, NEW t, NEW x \in Seq(Side), Open(t, x), NEW s, Sound(s)
  PROVE  /\ Open(Put(t, x, s), x) /\ At(Put(t, x, s), x) = s
         /\ Firm(t, x) /\ s # Nil /\ s.size = At(t, x).size => Firm(Put(t, x, s), x)
         /\ Firm(t, x) /\ ~Small(s) => Firm(Put(t, x, s), x)
         /\ \A s2 : Sound(s2) => Put(Put(t, x, s), x, s2) = Put(t, x, s2)
<1>1. \A s2 : OpenLaw(t, x, s, s2)
  BY DEF Laws
<1> QED BY <1>1 DEF OpenLaw

\* The operation is done at the edge, under the lock; a subtree that has become small is no
\* longer pointed at.
LEMMA ApplyAtEdgeKeeps ==
  ASSUME TreeAssumption, Laws, ThreadsInv, ApplyAtEdge
  PROVE  ThreadsInv'
<1> DEFINE op == Head(todo)
           old == At(root, edge)
           new == Apply(old, op, FALSE).tree
<1>1. /\ mPc = "edge" /\ ~working /\ root' = Put(root, edge, new)
      /\ logger' = (IF rebuildFlag THEN Append(logger, op) ELSE logger) /\ mPc' = "up"
      /\ rebuildPtr' = (IF Small(new) THEN NoPtr ELSE rebuildPtr)
      /\ UNCHANGED <<ptrLocked, working, rebuildFlag, tPc, fresh, todo, atRoot, edge, points>>
  BY DEF ApplyAtEdge, callKeeps, threadVars
<1>2. op \in Operation /\ edge \in Seq(Side) /\ rebuildPtr \in {edge, NoPtr} /\ tPc \notin {"lockSearch", "flatten"}
  BY <1>1 DEF ThreadsInv, PlacesInv
<1>3. /\ Open(root, edge) /\ (rebuildPtr # NoPtr => Firm(root, edge))
      /\ Contents(Completed(root, op, edge)) = Effect(op, points)
  BY <1>1 DEF ThreadsInv, HeldInv
<1>4. Sound(old)
  BY <1>2, <1>3, OpenIs
<1>5. Sound(new) /\ Contents(new) = Effect(op, Contents(old))
  <2>1. ApplyLaw(old, op, FALSE)
    BY <1>2 DEF Laws
  <2> QED BY <1>4, <2>1 DEF ApplyLaw
<1>6. Open(root', edge) /\ At(root', edge) = new /\ (rebuildPtr' # NoPtr => Firm(root', edge))
  <2> HIDE DEF new
  <2> QED BY <1>1, <1>2, <1>3, <1>5, OpenWith
<1>7. Contents(Ascended(root', op, edge).tree) = Effect(op, points)
  BY <1>1, <1>3 DEF Completed
<1>8. HeldInv'
  BY <1>1, <1>6, <1>7 DEF HeldInv
<1> HIDE DEF op, old, new
<1>9. PlacesInv'
  BY <1>1, <1>2 DEF ThreadsInv, PlacesInv, Ranging
<1>10. CopyInv'
  <2>1. ASSUME Copied' PROVE Sound(fresh') /\ Log(logger') /\ Leads(Contents(fresh'), logger', Contents(At(root', rebuildPtr')))
    <3>1. Copied /\ rebuildPtr' = edge /\ rebuildPtr = edge /\ rebuildFlag
      BY <1>1, <1>2, <2>1 DEF Copied, ThreadsInv, PlacesInv
    <3>2. Sound(fresh) /\ Log(logger) /\ Leads(Contents(fresh), logger, Contents(old))
      BY <3>1 DEF ThreadsInv, CopyInv, old
    <3>3. PICK S : logger \in Seq(S)
      BY <3>2 DEF Log
    <3>4. Leads(Contents(fresh), Append(logger, op), Outcome(op, Contents(old)))
      BY <3>2, <3>3, LeadsOn
    <3>5. Outcome(op, Contents(old)) = Contents(new) /\ Entry(op)
      BY <1>2, <1>5, OperationIsNoPush DEF Outcome
    <3> QED BY <1>1, <1>6, <3>1, <3>2, <3>4, <3>5, LogOn
  <2>2. tPc' = "repeat" /\ rebuildPtr' # NoPtr => fresh' # Nil
    BY <1>1 DEF ThreadsInv, CopyInv
  <2> QED BY <1>1, <1>2, <2>1, <2>2 DEF CopyInv
<1> QED BY <1>8, <1>9, <1>10 DEF ThreadsInv

\* The operation comes back up: the points are what they should be.
LEMMA AscendKeeps ==
  ASSUME TreeAssumption, Laws, ThreadsInv, Ascend
  PROVE  ThreadsInv'
<1> DEFINE op == Head(todo)
           result == Ascended(root, op, edge)
<1>1. /\ mPc = "up" /\ root' = result.tree /\ Request(result.tree, result.requests)
      /\ todo' = Tail(todo) /\ mPc' = (IF Tail(todo) = <<>> THEN "idle" ELSE "op")
      /\ points' = Effect(op, points)
      /\ UNCHANGED <<ptrLocked, working, rebuildFlag, tPc, fresh, logger, atRoot>>
  BY DEF Ascend, NextOp, callKeeps, threadVars
<1>2. /\ op \in Operation /\ Tail(todo) \in Seq(Operation) /\ edge \in Seq(Side) /\ edge # <<>>
      /\ rebuildPtr \in {edge, NoPtr} /\ ~atRoot
  BY <1>1 DEF ThreadsInv, PlacesInv
<1>3. /\ Open(root, edge) /\ (rebuildPtr # NoPtr => Firm(root, edge))
      /\ Contents(result.tree) = Effect(op, points)
  BY <1>1 DEF ThreadsInv, HeldInv
<1>4. /\ Sound(root') /\ (rebuildPtr # NoPtr => Firm(root', edge) /\ At(root', edge) = At(root, edge))
      /\ \A y \in result.requests : y \in Seq(Side) /\ Firm(root', y)
  <2>1. AscendLaw(root, op, edge)
    BY <1>2 DEF Laws
  <2> QED BY <1>1, <1>3, <2>1 DEF AscendLaw
<1>5. /\ rebuildPtr' \in Seq(Side) \cup {NoPtr} /\ (rebuildPtr' # NoPtr => Firm(root', rebuildPtr'))
      /\ ptrLocked => rebuildPtr' \in {rebuildPtr, NoPtr}
  <2>1. \/ rebuildPtr' = NoPtr
        \/ ~ptrLocked /\ rebuildPtr' \in result.requests
        \/ rebuildPtr' = rebuildPtr
    BY <1>1, RequestPoints
  <2>2. CASE ~ptrLocked /\ rebuildPtr' \in result.requests
    BY <1>4, <2>2
  <2>3. CASE rebuildPtr' = rebuildPtr
    BY <1>2, <1>4, <2>3
  <2> QED BY <2>1, <2>2, <2>3
<1>6. Contents(root') = points'
  BY <1>1, <1>3
<1> HIDE DEF op, result
<1>7. PlacesInv'
  BY <1>1, <1>2, <1>5 DEF ThreadsInv, PlacesInv, Ranging
<1>8. HeldInv'
  BY <1>1, <1>4, <1>5, <1>6 DEF HeldInv
<1>9. CopyInv'
  <2>1. ASSUME Copied' PROVE Sound(fresh') /\ Log(logger') /\ Leads(Contents(fresh'), logger', Contents(At(root', rebuildPtr')))
    <3>1. Copied /\ rebuildPtr' = rebuildPtr /\ rebuildPtr = edge
      BY <1>1, <1>2, <1>5, <2>1 DEF Copied, ThreadsInv, PlacesInv
    <3>2. At(root', rebuildPtr') = At(root, rebuildPtr)
      BY <1>4, <3>1 DEF Copied
    <3> QED BY <1>1, <3>1, <3>2 DEF ThreadsInv, CopyInv
  <2>2. tPc' = "repeat" /\ rebuildPtr' # NoPtr => fresh' # Nil
    BY <1>1, <1>5 DEF ThreadsInv, CopyInv, PlacesInv
  <2> QED BY <1>1, <2>1, <2>2 DEF ThreadsInv, CopyInv
<1> QED BY <1>7, <1>8, <1>9 DEF ThreadsInv

-----------------------------------------------------------------------------
(* All operations of a call in one step: what a recursive function gives   *)
(* is shown by induction, from the least index at which it would fail.     *)

Less == {p \in Nat \X Nat : p[1] < p[2]}

\* The naturals are well-founded, so every set of them has a least element.
LEMMA LessIsWellFounded == IsWellFoundedOn(Less, Nat)
<1>1. Less = OpToRel(<, Nat)
  BY DEF Less, OpToRel
<1> QED BY <1>1, NatLessThanWellFounded

\* The least element of a set of naturals.
LEMMA Least ==
  ASSUME NEW T \in SUBSET Nat, T # {}
  PROVE  \E x \in T : \A y \in T : x <= y
<1>1. PICK x \in T : \A y \in T : ~(<<y, x>> \in Less)
  BY LessIsWellFounded, WFMin
<1>2. ASSUME NEW y \in T PROVE x <= y
  <2>1. ~(<<y, x>> \in Less) /\ y \in Nat /\ x \in Nat
    BY <1>1
  <2> QED BY <2>1 DEF Less
<1> QED BY <1>2

\* What holds of the first index and passes from each to the next holds of all.
LEMMA Induction ==
  ASSUME NEW N \in Nat, NEW B, 0 \in B, \A k \in 1 .. N : k - 1 \in B => k \in B
  PROVE  \A k \in 0 .. N : k \in B
<1> DEFINE Bad == {k \in 0 .. N : k \notin B}
<1> SUFFICES ASSUME Bad # {} PROVE FALSE
  OBVIOUS
<1>1. PICK k \in Bad : \A m \in Bad : k <= m
  <2>1. Bad \in SUBSET Nat
    OBVIOUS
  <2> QED BY <2>1, Least
<1>2. k \in 1 .. N /\ k - 1 \in 0 .. N /\ ~(k <= k - 1)
  BY <1>1
<1>3. k - 1 \notin Bad
  <2> HIDE DEF Bad
  <2> QED BY <1>1, <1>2
<1> QED BY <1>1, <1>2, <1>3

\* The trees after each of the operations.
Runs(h, k, operations, t) ==
  h[0] = t /\ \A n \in 1 .. k : h[n] = Apply(h[n - 1], operations[n], FALSE).tree

\* There are such trees for every sequence of operations.
LEMMA RunsExist ==
  ASSUME NEW N \in Nat, NEW operations, NEW t
  PROVE  \E h : Runs(h, N, operations, t)
<1> DEFINE Upto(k) == \E h : Runs(h, k, operations, t)
           B == {k \in 0 .. N : Upto(k)}
<1>1. 0 \in B
  <2> DEFINE h == [n \in 0 .. 0 |-> t]
  <2>1. h[0] = t /\ 1 .. 0 = {}
    OBVIOUS
  <2> HIDE DEF h
  <2>2. Upto(0)
    BY <2>1 DEF Runs
  <2> QED BY <2>2
<1>2. ASSUME NEW k \in 1 .. N, k - 1 \in B PROVE k \in B
  <2>1. PICK h : Runs(h, k - 1, operations, t)
    BY <1>2
  <2> DEFINE new == Apply(h[k - 1], operations[k], FALSE).tree
             g == [n \in 0 .. k |-> IF n = k THEN new ELSE h[n]]
  <2> HIDE DEF new
  <2>2. g[k] = new /\ g[0] = t /\ \A n \in 0 .. k - 1 : g[n] = h[n]
    BY <2>1 DEF Runs
  <2>3. ASSUME NEW n \in 1 .. k PROVE g[n] = Apply(g[n - 1], operations[n], FALSE).tree
    <3>1. n - 1 \in 0 .. k - 1
      OBVIOUS
    <3>2. g[n - 1] = h[n - 1]
      BY <2>2, <3>1
    <3> HIDE DEF g
    <3>3. CASE n = k
      BY <2>2, <3>2, <3>3 DEF new
    <3>4. CASE n # k
      <4>1. n \in 1 .. k - 1 /\ n \in 0 .. k - 1
        BY <3>4
      <4>2. g[n] = h[n] /\ h[n] = Apply(h[n - 1], operations[n], FALSE).tree
        BY <2>1, <2>2, <4>1 DEF Runs
      <4> QED BY <3>2, <4>2
    <3> QED BY <3>3, <3>4
  <2> HIDE DEF g
  <2>4. Upto(k)
    BY <2>2, <2>3 DEF Runs
  <2> QED BY <2>4
<1> HIDE DEF B
<1>3. \A k \in 0 .. N : k \in B
  BY <1>1, <1>2, Induction
<1>4. N \in 0 .. N
  OBVIOUS
<1> QED BY <1>3, <1>4 DEF B

\* What the recursive function Applied of the replay yields is the last of them.
LEMMA AppliedIs ==
  ASSUME NEW operations, Len(operations) \in Nat, NEW t
  PROVE  \E h : Runs(h, Len(operations), operations, t) /\ Applied(operations, t) = h[Len(operations)]
<1> DEFINE N == Len(operations)
           Law(h) == h = [n \in 0 .. N |-> IF n = 0 THEN t ELSE Apply(h[n - 1], operations[n], FALSE).tree]
           after == CHOOSE h : Law(h)
<1>1. Applied(operations, t) = after[N]
  BY DEF Applied
<1>2. \E h : Law(h)
  <2>1. PICK g : Runs(g, N, operations, t)
    BY RunsExist
  <2> DEFINE f == [n \in 0 .. N |-> g[n]]
  <2>2. \A n \in 0 .. N : f[n] = g[n]
    OBVIOUS
  <2>3. ASSUME NEW n \in 0 .. N PROVE g[n] = IF n = 0 THEN t ELSE Apply(f[n - 1], operations[n], FALSE).tree
    <3>1. CASE n = 0
      BY <2>1, <3>1 DEF Runs
    <3>2. CASE n # 0
      <4>1. n \in 1 .. N /\ n - 1 \in 0 .. N
        BY <3>2
      <4>2. f[n - 1] = g[n - 1] /\ g[n] = Apply(g[n - 1], operations[n], FALSE).tree
        BY <2>1, <2>2, <4>1 DEF Runs
      <4> HIDE DEF f
      <4> QED BY <3>2, <4>2
    <3> QED BY <3>1, <3>2
  <2>4. f = [n \in 0 .. N |-> IF n = 0 THEN t ELSE Apply(f[n - 1], operations[n], FALSE).tree]
    BY <2>3
  <2> HIDE DEF f
  <2>5. Law(f)
    BY <2>4
  <2> QED BY <2>5
<1>3. Law(after)
  <2> HIDE DEF Law
  <2> QED BY <1>2
<1> HIDE DEF after
<1>4. after[0] = t
  <2>1. 0 \in 0 .. N
    OBVIOUS
  <2> QED BY <1>3, <2>1
<1>5. ASSUME NEW n \in 1 .. N PROVE after[n] = Apply(after[n - 1], operations[n], FALSE).tree
  <2>1. n \in 0 .. N /\ n # 0
    OBVIOUS
  <2> QED BY <1>3, <2>1
<1> QED BY <1>1, <1>4, <1>5 DEF Runs

\* A function with the first value and the step of Gained is the one Gained takes.
LEMMA GainedIs ==
  ASSUME NEW operations, Len(operations) \in Nat, NEW g,
         \A n \in 1 .. Len(operations) : g[n] = Effect(operations[n], g[n - 1])
  PROVE  Gained(operations, g[0]) = g[Len(operations)]
<1> DEFINE N == Len(operations)
           ps == g[0]
           Law(h) == h = [n \in 0 .. N |-> IF n = 0 THEN ps ELSE Effect(operations[n], h[n - 1])]
           after == CHOOSE h : Law(h)
<1>1. Gained(operations, ps) = after[N]
  BY DEF Gained
<1>2. \E h : Law(h)
  <2> DEFINE f == [n \in 0 .. N |-> g[n]]
  <2>1. \A n \in 0 .. N : f[n] = g[n]
    OBVIOUS
  <2>2. ASSUME NEW n \in 0 .. N PROVE g[n] = IF n = 0 THEN ps ELSE Effect(operations[n], f[n - 1])
    <3>1. CASE n = 0
      BY <3>1
    <3>2. CASE n # 0
      <4>1. n \in 1 .. N /\ n - 1 \in 0 .. N
        BY <3>2
      <4>2. f[n - 1] = g[n - 1] /\ g[n] = Effect(operations[n], g[n - 1])
        BY <2>1, <4>1
      <4> HIDE DEF f
      <4> QED BY <3>2, <4>2
    <3> QED BY <3>1, <3>2
  <2>3. f = [n \in 0 .. N |-> IF n = 0 THEN ps ELSE Effect(operations[n], f[n - 1])]
    BY <2>2
  <2> HIDE DEF f
  <2>4. Law(f)
    BY <2>3
  <2> QED BY <2>4
<1>3. Law(after)
  <2> HIDE DEF Law
  <2> QED BY <1>2
<1> HIDE DEF after
<1> DEFINE B == {n \in 0 .. N : after[n] = g[n]}
<1>4. 0 \in B
  <2>1. 0 \in 0 .. N
    OBVIOUS
  <2> QED BY <1>3, <2>1
<1>5. ASSUME NEW n \in 1 .. N, n - 1 \in B PROVE n \in B
  <2>1. n \in 0 .. N /\ n # 0
    OBVIOUS
  <2>2. after[n] = Effect(operations[n], after[n - 1])
    BY <1>3, <2>1
  <2>3. after[n - 1] = g[n - 1] /\ g[n] = Effect(operations[n], g[n - 1])
    BY <1>5
  <2> QED BY <2>1, <2>2, <2>3
<1>6. \A n \in 0 .. N : n \in B
  <2> HIDE DEF B
  <2> QED BY <1>4, <1>5, Induction
<1>7. N \in 0 .. N
  OBVIOUS
<1> QED BY <1>1, <1>6, <1>7

\* The operations of a call on the whole tree, one after the other.
LEMMA CallRuns ==
  ASSUME Laws, NEW t, Sound(t), NEW operations \in Seq(Operation)
  PROVE  \E h : /\ Runs(h, Len(operations), operations, t) /\ Applied(operations, t) = h[Len(operations)]
                /\ \A n \in 0 .. Len(operations) : Sound(h[n]) /\ (t # Nil => h[n] # Nil)
                /\ \A n \in 1 .. Len(operations) : Contents(h[n]) = Effect(operations[n], Contents(h[n - 1]))
<1> DEFINE N == Len(operations)
<1>1. N \in Nat /\ \A n \in 1 .. N : operations[n] \in Operation
  OBVIOUS
<1>2. PICK h : Runs(h, N, operations, t) /\ Applied(operations, t) = h[N]
  BY <1>1, AppliedIs
<1> HIDE DEF N
<1>3. ASSUME NEW n \in 1 .. N, Sound(h[n - 1])
      PROVE  /\ Sound(h[n]) /\ Contents(h[n]) = Effect(operations[n], Contents(h[n - 1]))
             /\ h[n - 1] # Nil => h[n] # Nil
  <2>1. h[n] = Apply(h[n - 1], operations[n], FALSE).tree
    BY <1>2 DEF Runs
  <2>2. ApplyLaw(h[n - 1], operations[n], FALSE)
    BY <1>1 DEF Laws
  <2> QED BY <1>3, <2>1, <2>2 DEF ApplyLaw
<1> DEFINE B == {n \in 0 .. N : Sound(h[n]) /\ (t # Nil => h[n] # Nil)}
<1>4. 0 \in B
  <2>1. 0 \in 0 .. N
    BY <1>1
  <2> QED BY <1>2, <2>1 DEF Runs
<1>5. ASSUME NEW n \in 1 .. N, n - 1 \in B PROVE n \in B
  <2>1. n \in 0 .. N
    BY <1>1
  <2> QED BY <1>3, <1>5, <2>1
<1>6. \A n \in 0 .. N : n \in B
  <2> HIDE DEF B
  <2> QED BY <1>1, <1>4, <1>5, Induction
<1>7. ASSUME NEW n \in 1 .. N PROVE Contents(h[n]) = Effect(operations[n], Contents(h[n - 1]))
  <2>1. n - 1 \in 0 .. N
    BY <1>1
  <2> QED BY <1>3, <1>6, <2>1
<1> QED BY <1>2, <1>6, <1>7 DEF N

\* All operations of a call under one lock, when the whole tree is being rebuilt.
LEMMA ApplyAtRootKeeps ==
  ASSUME TreeAssumption, Laws, ThreadsInv, ApplyAtRoot
  PROVE  ThreadsInv'
<1>1. /\ mPc = "op" /\ atRoot /\ ~working
      /\ root' = Applied(todo, root) /\ points' = Gained(todo, points)
      /\ logger' = (IF rebuildFlag THEN logger \o todo ELSE logger)
      /\ mPc' = "idle" /\ todo' = <<>> /\ rebuildPtr' \in {rebuildPtr, NoPtr}
      /\ UNCHANGED <<ptrLocked, working, rebuildFlag, tPc, fresh, atRoot, edge>>
  BY DEF ApplyAtRoot, callKeeps, threadVars
<1>2. /\ todo \in Seq(Operation) /\ rebuildPtr \in {<<>>, NoPtr} /\ tPc \notin {"lockSearch", "flatten"}
      /\ Sound(root) /\ Contents(root) = points /\ (rebuildPtr # NoPtr => Firm(root, <<>>))
  BY <1>1, Pointers DEF ThreadsInv, PlacesInv, HeldInv
<1> DEFINE N == Len(todo)
<1>3. PICK h : /\ Runs(h, N, todo, root) /\ Applied(todo, root) = h[N]
               /\ \A n \in 0 .. N : Sound(h[n]) /\ (root # Nil => h[n] # Nil)
               /\ \A n \in 1 .. N : Contents(h[n]) = Effect(todo[n], Contents(h[n - 1]))
  BY <1>2, CallRuns
<1>4. N \in Nat /\ N \in 0 .. N /\ 0 \in 0 .. N /\ \A n \in 1 .. N : todo[n] \in Operation /\ n \in 0 .. N /\ n - 1 \in 0 .. N
  BY <1>2
<1> HIDE DEF N
<1> DEFINE g == [n \in 0 .. N |-> Contents(h[n])]
<1>5. g[0] = points /\ g[N] = Contents(root') /\ \A n \in 1 .. N : g[n] = Effect(todo[n], g[n - 1])
  BY <1>1, <1>2, <1>3, <1>4 DEF Runs
<1> HIDE DEF g
<1>6. Contents(root') = points'
  <2>1. Gained(todo, g[0]) = g[N]
    BY <1>4, <1>5, GainedIs DEF N
  <2> QED BY <1>1, <1>5, <2>1
<1>7. Sound(root') /\ (rebuildPtr' # NoPtr => Firm(root', rebuildPtr'))
  <2>1. TreeLaw(root, <<>>) /\ TreeLaw(root', <<>>)
    <3>1. <<>> \in Seq(Side)
      OBVIOUS
    <3> QED BY <3>1 DEF Laws
  <2>2. Sound(root') /\ (root # Nil => root' # Nil)
    BY <1>1, <1>3, <1>4
  <2> QED BY <1>1, <1>2, <2>1, <2>2 DEF TreeLaw
<1>8. PlacesInv'
  <2>1. todo' \in Seq(Operation)
    BY <1>1
  <2> QED BY <1>1, <1>2, <2>1 DEF ThreadsInv, PlacesInv, Ranging
<1>9. HeldInv'
  BY <1>1, <1>6, <1>7 DEF HeldInv
<1>10. CopyInv'
  <2>1. ASSUME Copied' PROVE Sound(fresh') /\ Log(logger') /\ Leads(Contents(fresh'), logger', Contents(At(root', rebuildPtr')))
    <3>1. Copied /\ rebuildPtr = <<>> /\ rebuildPtr' = <<>> /\ rebuildFlag
      BY <1>1, <1>2, <2>1 DEF Copied, ThreadsInv, PlacesInv
    <3>2. At(root, <<>>) = root /\ At(root', <<>>) = root'
      <4>1. <<>> \in Seq(Side)
        OBVIOUS
      <4>2. TreeLaw(root, <<>>) /\ TreeLaw(root', <<>>)
        BY <4>1 DEF Laws
      <4> QED BY <4>2 DEF TreeLaw
    <3>3. Sound(fresh) /\ Log(logger) /\ Leads(Contents(fresh), logger, points)
      BY <1>2, <3>1, <3>2 DEF ThreadsInv, CopyInv
    <3>4. PICK S : logger \in Seq(S)
      BY <3>3 DEF Log
    <3>5. \A n \in 1 .. N : g[n] = Outcome(todo[n], g[n - 1])
      BY <1>4, <1>5, OperationIsNoPush DEF Outcome
    <3>6. Leads(Contents(fresh), logger \o todo, g[N])
      BY <1>2, <1>5, <3>3, <3>4, <3>5, LeadsThrough DEF N
    <3> QED BY <1>1, <1>2, <1>5, <3>1, <3>2, <3>3, <3>6, LogThrough
  <2>2. tPc' = "repeat" /\ rebuildPtr' # NoPtr => fresh' # Nil
    BY <1>1 DEF ThreadsInv, CopyInv
  <2> QED BY <1>1, <1>2, <2>1, <2>2 DEF CopyInv
<1> QED BY <1>8, <1>9, <1>10 DEF ThreadsInv

-----------------------------------------------------------------------------
(* The rebuild thread.                                                     *)

\* A subtree is replaced under an operation that waits there, by one with the same
\* points: the operation, or the way back up, will do what it would have done.
LEMMA OpenKeeps ==
  ASSUME Laws, ThreadsInv, mPc \in {"edge", "up"}, NEW s, Sound(s), Contents(s) = Contents(At(root, edge)),
         root' = Put(root, edge, s), UNCHANGED <<mPc, todo, edge, points>>
  PROVE  /\ Open(root', edge) /\ At(root', edge) = s
         /\ mPc = "edge" => Contents(Completed(root', Head(todo), edge)) = Effect(Head(todo), points)
         /\ mPc = "up" => Contents(Ascended(root', Head(todo), edge).tree) = Effect(Head(todo), points)
<1> DEFINE op == Head(todo)
           old == At(root, edge)
<1>1. op \in Operation /\ edge \in Seq(Side) /\ Open(root, edge)
  BY DEF ThreadsInv, PlacesInv, HeldInv
<1>2. /\ mPc = "edge" => Contents(Completed(root, op, edge)) = Effect(op, points)
      /\ mPc = "up" => Contents(Ascended(root, op, edge).tree) = Effect(op, points)
  BY DEF ThreadsInv, HeldInv
<1>3. Sound(old) /\ Put(root, edge, old) = root
  BY <1>1, OpenIs
<1>4. /\ Open(root', edge) /\ At(root', edge) = s
      /\ \A s2 : Sound(s2) => Put(root', edge, s2) = Put(root, edge, s2)
  BY <1>1, OpenWith
<1>5. \A s1, s2 : SameLaw(root, op, edge, s1, s2)
  BY <1>1 DEF Laws
<1> HIDE DEF op, old
<1>6. ASSUME mPc = "edge"
      PROVE  Contents(Completed(root', op, edge)) = Effect(op, points)
  <2> DEFINE before == Apply(old, op, FALSE).tree
             after  == Apply(s, op, FALSE).tree
  <2>1. ApplyLaw(old, op, FALSE) /\ ApplyLaw(s, op, FALSE)
    BY <1>1 DEF Laws
  <2>2. Sound(before) /\ Sound(after) /\ Contents(before) = Contents(after)
    BY <1>3, <2>1 DEF ApplyLaw, old
  <2>3. Completed(root, op, edge) = Ascended(Put(root, edge, before), op, edge).tree
    BY DEF Completed, old
  <2>4. Completed(root', op, edge) = Ascended(Put(root, edge, after), op, edge).tree
    BY <1>4, <2>2 DEF Completed
  <2> HIDE DEF before, after
  <2>5. Contents(Completed(root, op, edge)) = Contents(Completed(root', op, edge))
    BY <1>1, <1>5, <2>2, <2>3, <2>4 DEF SameLaw
  <2> QED BY <1>2, <1>6, <2>5
<1>7. ASSUME mPc = "up"
      PROVE  Contents(Ascended(root', op, edge).tree) = Effect(op, points)
  <2>1. Contents(Ascended(Put(root, edge, old), op, edge).tree) = Contents(Ascended(Put(root, edge, s), op, edge).tree)
    BY <1>1, <1>3, <1>5 DEF SameLaw, old
  <2> QED BY <1>2, <1>3, <1>7, <2>1
<1> QED BY <1>4, <1>6, <1>7 DEF op

\* A rebuild begins.
LEMMA StartRebuildKeeps ==
  ASSUME ThreadsInv, StartRebuild, logged'
  PROVE  ThreadsInv'
<1>1. /\ tPc = "poll" /\ rebuildPtr # NoPtr /\ ptrLocked' /\ working' /\ rebuildFlag' /\ tPc' = "lockSearch" /\ logger = <<>>
      /\ UNCHANGED <<mPc, todo, atRoot, edge, points, root, rebuildPtr, logger, fresh>>
  BY DEF StartRebuild, rebuildKeeps, treeVars
<1>2. PlacesInv'
  BY <1>1 DEF ThreadsInv, PlacesInv
<1>3. HeldInv'
  BY <1>1 DEF ThreadsInv, HeldInv
<1>4. CopyInv'
  BY <1>1 DEF ThreadsInv, CopyInv, Copied
<1> QED BY <1>2, <1>3, <1>4 DEF ThreadsInv

\* The searches are kept out.
LEMMA LockSearchKeeps ==
  ASSUME ThreadsInv, LockSearch
  PROVE  ThreadsInv'
<1>1. /\ \/ tPc = "lockSearch" /\ tPc' = "flatten"
         \/ tPc = "lockAgain" /\ tPc' = "replace"
      /\ UNCHANGED <<mPc, todo, atRoot, edge, points, root, rebuildPtr, ptrLocked, working, rebuildFlag, logger, fresh>>
  BY DEF LockSearch, rebuildKeeps, treeVars
<1>2. PlacesInv'
  BY <1>1 DEF ThreadsInv, PlacesInv
<1>3. HeldInv'
  BY <1>1 DEF ThreadsInv, HeldInv
<1>4. CopyInv'
  BY <1>1 DEF ThreadsInv, CopyInv, Copied
<1> QED BY <1>2, <1>3, <1>4 DEF ThreadsInv

\* The subtree that is pointed at.
LEMMA SubtreeIs ==
  ASSUME Laws, ThreadsInv, rebuildPtr # NoPtr, mPc # "crashed"
  PROVE  /\ rebuildPtr \in Seq(Side) /\ Firm(root, rebuildPtr)
         /\ Sound(At(root, rebuildPtr)) /\ At(root, rebuildPtr) # Nil
<1>1. rebuildPtr \in Seq(Side)
  BY DEF ThreadsInv, PlacesInv
<1>2. CASE mPc \notin {"edge", "up", "crashed"}
  BY <1>1, <1>2, FirmIs DEF ThreadsInv, HeldInv
<1>3. CASE mPc \in {"edge", "up"}
  <2>1. rebuildPtr = edge /\ Open(root, edge) /\ Firm(root, edge)
    BY <1>3 DEF ThreadsInv, PlacesInv, HeldInv
  <2> QED BY <1>1, <2>1, FirmIs, OpenIs
<1> QED BY <1>2, <1>3 DEF ThreadsInv, PlacesInv

\* The points are copied: the new subtree has those of the old one.
LEMMA FlattenSubtreeKeeps ==
  ASSUME TreeAssumption, Laws, ThreadsInv, FlattenSubtree
  PROVE  ThreadsInv'
<1> DEFINE old == At(root, rebuildPtr)
           s == Collected(old)
           new == Flattened(old)
<1>1. /\ tPc = "flatten" /\ rebuildPtr # NoPtr /\ root' = Put(root, rebuildPtr, new) /\ fresh' = Build(s)
      /\ tPc' = (IF s = <<>> THEN "lockAgain" ELSE "repeat")
      /\ UNCHANGED <<mPc, todo, atRoot, edge, points, rebuildPtr, ptrLocked, rebuildFlag, logger>>
  BY DEF FlattenSubtree, rebuildKeeps
<1>2. logger = <<>> /\ mPc # "crashed"
  BY <1>1 DEF ThreadsInv, PlacesInv, CopyInv
<1>3. rebuildPtr \in Seq(Side) /\ Firm(root, rebuildPtr) /\ Sound(old) /\ old # Nil
  BY <1>1, <1>2, SubtreeIs
<1>4. /\ s \in Seq(Point) /\ Sound(new) /\ new # Nil /\ new.size = old.size /\ Contents(new) = Contents(old)
  <2>1. FlattenLaw(old)
    BY DEF Laws
  <2> QED BY <1>3, <2>1 DEF FlattenLaw
<1>5. Sound(fresh') /\ Contents(fresh') = Contents(old) /\ (fresh' = Nil <=> s = <<>>)
  <2>1. BuildLaw(s)
    BY <1>4 DEF Laws
  <2> QED BY <1>1, <2>1 DEF BuildLaw, Contents
<1> HIDE DEF old, s, new
<1>6. At(root', rebuildPtr) = new /\ HeldInv'
  <2>1. CASE mPc \notin {"edge", "up", "crashed"}
    <3>1. Sound(root) /\ Contents(root) = points
      BY <2>1 DEF ThreadsInv, HeldInv
    <3>2. PutLaw(root, rebuildPtr, new)
      BY <1>3 DEF Laws
    <3>3. Sound(root') /\ Contents(root') = points /\ At(root', rebuildPtr) = new /\ Firm(root', rebuildPtr)
      BY <1>1, <1>3, <1>4, <3>1, <3>2 DEF PutLaw, old
    <3> QED BY <1>1, <2>1, <3>3 DEF HeldInv
  <2>2. CASE mPc \in {"edge", "up"}
    <3>1. rebuildPtr = edge /\ Open(root, edge)
      BY <1>1, <2>2 DEF ThreadsInv, PlacesInv, HeldInv
    <3>2. /\ Open(root', edge) /\ At(root', edge) = new
          /\ mPc = "edge" => Contents(Completed(root', Head(todo), edge)) = Effect(Head(todo), points)
          /\ mPc = "up" => Contents(Ascended(root', Head(todo), edge).tree) = Effect(Head(todo), points)
      BY <1>1, <1>4, <2>2, <3>1, OpenKeeps DEF old
    <3>3. Firm(root', edge)
      <4>1. new.size = At(root, edge).size /\ new # Nil /\ Firm(root, edge)
        BY <1>3, <1>4, <3>1 DEF old
      <4> QED BY <1>1, <1>3, <1>4, <3>1, <4>1, OpenWith
    <3> QED BY <1>1, <2>2, <3>1, <3>2, <3>3 DEF HeldInv
  <2> QED BY <1>2, <2>1, <2>2 DEF ThreadsInv, PlacesInv
<1>7. PlacesInv'
  BY <1>1, <1>5 DEF ThreadsInv, PlacesInv
<1>8. CopyInv'
  <2>1. ASSUME Copied' PROVE Sound(fresh') /\ Log(logger') /\ Leads(Contents(fresh'), logger', Contents(At(root', rebuildPtr')))
    BY <1>1, <1>2, <1>4, <1>5, <1>6, EmptyLog, LeadsNowhere
  <2> QED BY <1>1, <1>5, <2>1 DEF CopyInv
<1> QED BY <1>6, <1>7, <1>8 DEF ThreadsInv

\* An entry of the log is repeated on the new subtree.
LEMMA RepeatKeeps ==
  ASSUME Laws, ThreadsInv, Repeat
  PROVE  ThreadsInv'
<1>1. /\ tPc = "repeat" /\ ~working
      /\ UNCHANGED <<mPc, todo, atRoot, edge, points, root, rebuildPtr, ptrLocked, rebuildFlag>>
  BY DEF Repeat, rebuildKeeps, treeVars
<1>2. HeldInv'
  BY <1>1 DEF ThreadsInv, HeldInv
<1>3. CASE logger = <<>>
  <2>1. working' /\ tPc' = "lockAgain" /\ UNCHANGED <<logger, fresh>>
    BY <1>3 DEF Repeat
  <2>2. PlacesInv'
    BY <1>1, <1>3, <2>1 DEF ThreadsInv, PlacesInv
  <2>3. CopyInv'
    BY <1>1, <1>3, <2>1 DEF ThreadsInv, CopyInv, Copied
  <2> QED BY <1>2, <2>2, <2>3 DEF ThreadsInv
<1>4. CASE logger # <<>>
  <2>1. fresh' = RunOperation(fresh, Head(logger)) /\ logger' = Tail(logger) /\ UNCHANGED <<working, tPc>>
    BY <1>4 DEF Repeat
  <2>2. PlacesInv'
    BY <1>1, <2>1 DEF ThreadsInv, PlacesInv
  <2>3. ASSUME rebuildPtr # NoPtr
        PROVE  fresh' # Nil /\ Sound(fresh') /\ Log(logger') /\ Leads(Contents(fresh'), logger', Contents(At(root, rebuildPtr)))
    <3>1. fresh # Nil /\ Sound(fresh) /\ Log(logger) /\ Leads(Contents(fresh), logger, Contents(At(root, rebuildPtr)))
      BY <1>1, <2>3 DEF ThreadsInv, CopyInv, Copied
    <3>2. Entry(Head(logger)) /\ Log(Tail(logger))
      BY <1>4, <3>1, LogFrom
    <3>3. Sound(fresh') /\ fresh' # Nil /\ Contents(fresh') = Outcome(Head(logger), Contents(fresh))
      BY <2>1, <3>1, <3>2, EntryRuns
    <3>4. PICK S : logger \in Seq(S)
      BY <3>1 DEF Log
    <3>5. Leads(Outcome(Head(logger), Contents(fresh)), Tail(logger), Contents(At(root, rebuildPtr)))
      BY <1>4, <3>1, <3>4, LeadsFrom
    <3> QED BY <2>1, <3>2, <3>3, <3>5
  <2>4. CopyInv'
    BY <1>1, <2>1, <2>3 DEF CopyInv, Copied
  <2> QED BY <1>2, <2>2, <2>4 DEF ThreadsInv
<1> QED BY <1>3, <1>4

\* The new subtree is put in the old one's place: the log is empty, so it has the same points.
LEMMA ReplaceKeeps ==
  ASSUME TreeAssumption, Laws, ThreadsInv, Replace, logged'
  PROVE  ThreadsInv'
<1>1. /\ tPc = "replace" /\ fresh # Nil /\ rebuildPtr # NoPtr
      /\ root' = Climbed(Put(root, rebuildPtr, fresh), rebuildPtr, FALSE).tree
      /\ tPc' = "finish" /\ rebuildPtr' = NoPtr /\ ~Untold(root, rebuildPtr)
      /\ mPc' = mPc \/ (mPc = "range" /\ mPc' = "rangeOld")
      /\ UNCHANGED <<todo, atRoot, edge, points, ptrLocked, rebuildFlag, logger>>
  BY DEF Replace, rebuildKeeps
<1>2. Copied /\ mPc # "crashed" /\ logger = <<>>
  BY <1>1 DEF ThreadsInv, PlacesInv, Copied
<1>3. rebuildPtr \in Seq(Side) /\ Firm(root, rebuildPtr)
  BY <1>1, <1>2, SubtreeIs
<1>4. Sound(fresh) /\ Contents(fresh) = Contents(At(root, rebuildPtr))
  <2>1. Sound(fresh) /\ Leads(Contents(fresh), <<>>, Contents(At(root, rebuildPtr)))
    BY <1>2 DEF ThreadsInv, CopyInv
  <2> QED BY <2>1, LeadsNowhere
<1>5. HeldInv'
  <2>1. CASE mPc \notin {"edge", "up", "crashed"}
    <3>1. Sound(root) /\ Contents(root) = points
      BY <2>1 DEF ThreadsInv, HeldInv
    <3>2. SwapLaw(root, rebuildPtr, fresh)
      BY <1>3 DEF Laws
    <3>3. Sound(root') /\ Contents(root') = points
      BY <1>1, <1>3, <1>4, <3>1, <3>2 DEF SwapLaw
    <3> QED BY <1>1, <2>1, <3>3 DEF HeldInv
  <2>2. CASE mPc \in {"edge", "up"}
    <3>1. rebuildPtr = edge /\ Open(root, edge)
      BY <1>1, <2>2 DEF ThreadsInv, PlacesInv, HeldInv
    <3>2. root' = Put(root, edge, fresh)
      <4>1. Open(Put(root, edge, fresh), edge)
        BY <1>3, <1>4, <3>1, OpenWith
      <4> QED BY <1>1, <1>3, <3>1, <4>1, OpenIs
    <3>3. /\ Open(root', edge)
          /\ mPc = "edge" => Contents(Completed(root', Head(todo), edge)) = Effect(Head(todo), points)
          /\ mPc = "up" => Contents(Ascended(root', Head(todo), edge).tree) = Effect(Head(todo), points)
      BY <1>1, <1>4, <2>2, <3>1, <3>2, OpenKeeps
    <3> QED BY <1>1, <2>2, <3>3 DEF HeldInv
  <2> QED BY <1>2, <2>1, <2>2 DEF ThreadsInv, PlacesInv
<1>6. PlacesInv'
  BY <1>1 DEF ThreadsInv, PlacesInv, Ranging
<1>7. CopyInv'
  BY <1>1 DEF CopyInv, Copied
<1> QED BY <1>5, <1>6, <1>7 DEF ThreadsInv

\* The process ends.
LEMMA CrashKeeps ==
  ASSUME ThreadsInv, Crash
  PROVE  ThreadsInv'
<1>1. /\ tPc' = "crashed" /\ mPc' = "crashed"
      /\ UNCHANGED <<root, rebuildPtr, todo>>
  BY DEF Crash, treeVars
<1>2. PlacesInv'
  BY <1>1 DEF ThreadsInv, PlacesInv, Ranging
<1>3. HeldInv'
  BY <1>1 DEF HeldInv
<1>4. CopyInv'
  BY <1>1 DEF CopyInv, Copied
<1> QED BY <1>2, <1>3, <1>4 DEF ThreadsInv

\* The rebuild thread waits for the next.
LEMMA FinishRebuildKeeps ==
  ASSUME ThreadsInv, FinishRebuild
  PROVE  ThreadsInv'
<1>1. /\ tPc = "finish" /\ tPc' = "poll"
      /\ mPc' = mPc \/ (mPc = "rangeOld" /\ mPc' = "rangeFreed")
      /\ UNCHANGED <<todo, atRoot, edge, points, root, rebuildPtr, working, logger, fresh>>
  BY DEF FinishRebuild, rebuildKeeps, treeVars
<1>2. PlacesInv'
  BY <1>1 DEF ThreadsInv, PlacesInv, Ranging
<1>3. HeldInv'
  BY <1>1 DEF ThreadsInv, HeldInv
<1>4. CopyInv'
  BY <1>1 DEF CopyInv, Copied
<1> QED BY <1>2, <1>3, <1>4 DEF ThreadsInv

-----------------------------------------------------------------------------
(* The invariant of the specification.                                     *)

\* Once something has passed by the log, it has.
LEMMA LoggedStays == ASSUME [Next]_vars, logged' PROVE logged
<1> USE DEF callKeeps, searchKeeps, vars
<1>1. CASE Mapping
  BY <1>1 DEF Mapping, AddPoint, AddSample, DeleteBox, Call, Settle, BuildFirst, StartSearch
<1>2. CASE Operating
  BY <1>2 DEF Operating, EnterRange, EndRange, Settle, ReadFreed, Crash, ApplyFree, Descend, ApplyAtEdge, Ascend, ApplyAtRoot, EndSearch
<1>3. CASE \E s \in Searchers : Searching(s)
  BY <1>3 DEF Searching, Look, Enter, Leave
<1>4. CASE MultiThreadRebuild
  BY <1>4 DEF MultiThreadRebuild, StartRebuild, LockSearch, FlattenSubtree, Repeat, Replace, ReadNull, Crash, FinishRebuild
<1> QED BY <1>1, <1>2, <1>3, <1>4 DEF Next

\* Nothing has been done: no points, no tree.
LEMMA RebuildStarts == ASSUME TreeAssumption, Laws, Init PROVE RebuildInv
<1>1. /\ root = Nil /\ points = Occurs(<<>>) /\ rebuildPtr = NoPtr /\ logger = <<>> /\ tPc = "poll" /\ mPc = "idle" /\ todo = <<>>
  BY DEF Init
<1>2. Sound(root) /\ Contents(root) = points
  <2>1. <<>> \in Seq(Point)
    OBVIOUS
  <2>2. BuildLaw(<<>>)
    BY <2>1 DEF Laws
  <2> QED BY <1>1, <2>2 DEF BuildLaw
<1>3. PlacesInv
  BY <1>1 DEF PlacesInv, Ranging
<1>4. HeldInv
  BY <1>1, <1>2 DEF HeldInv
<1>5. CopyInv
  BY <1>1 DEF CopyInv, Copied
<1> QED BY <1>3, <1>4, <1>5 DEF RebuildInv, ThreadsInv

\* The mapping thread, starting a call or a search, keeps the invariant of the threads.
LEMMA MappingHolds ==
  ASSUME TreeAssumption, Laws, ThreadsInv, Mapping
  PROVE  ThreadsInv'
<1>1. CASE StartSearch
  <2>1. /\ mPc = "idle" /\ mPc' = "search"
        /\ UNCHANGED <<root, rebuildPtr, ptrLocked, working, rebuildFlag, tPc, fresh, logger, todo, atRoot, edge, points>>
    BY <1>1 DEF StartSearch, searchKeeps, treeVars, threadVars
  <2> QED BY <2>1, ThreadsStay
<1> QED BY <1>1, Calls, BuildFirstKeeps DEF Mapping

\* The mapping thread, inside a call, keeps the invariant of the threads.
LEMMA OperatingHolds ==
  ASSUME TreeAssumption, Laws, ThreadsInv, Operating, logged'
  PROVE  ThreadsInv'
<1>1. CASE EndSearch
  <2>1. /\ mPc = "search" /\ mPc' = "idle"
        /\ UNCHANGED <<root, rebuildPtr, ptrLocked, working, rebuildFlag, tPc, fresh, logger, todo, atRoot, edge, points>>
    BY <1>1 DEF EndSearch, searchKeeps, treeVars, threadVars
  <2> QED BY <2>1, ThreadsStay
<1>2. CASE EnterRange
  <2>1. /\ mPc = "range" /\ mPc' = "rangeIn"
        /\ UNCHANGED <<root, rebuildPtr, ptrLocked, working, rebuildFlag, tPc, fresh, logger, todo, atRoot, edge, points>>
    BY <1>2 DEF EnterRange, callKeeps, treeVars, threadVars
  <2>2. {mPc, mPc'} \subseteq Ranging
    BY <2>1 DEF Ranging
  <2> QED BY <2>1, <2>2, ThreadsStay
<1>3. CASE ReadFreed
  BY <1>3, CrashKeeps DEF ReadFreed
<1> QED BY <1>1, <1>2, <1>3, EndRangeKeeps, ApplyFreeKeeps, DescendKeeps, ApplyAtEdgeKeeps, AscendKeeps, ApplyAtRootKeeps DEF Operating

\* The threads of a search keep the invariant of the threads: they change no subtree.
LEMMA SearchingHolds ==
  ASSUME ThreadsInv, NEW s \in Searchers, Searching(s)
  PROVE  ThreadsInv'
<1>1. /\ mPc' = mPc
      /\ UNCHANGED <<root, rebuildPtr, ptrLocked, working, rebuildFlag, tPc, fresh, logger, todo, atRoot, edge, points>>
  BY DEF Searching, Look, Enter, Leave, searchKeeps, treeVars, threadVars
<1> QED BY <1>1, ThreadsStay

\* The rebuild thread keeps the invariant of the threads.
LEMMA RebuildingHolds ==
  ASSUME TreeAssumption, Laws, ThreadsInv, MultiThreadRebuild, logged'
  PROVE  ThreadsInv'
BY StartRebuildKeeps, LockSearchKeeps, FlattenSubtreeKeeps, RepeatKeeps, ReplaceKeeps, CrashKeeps, FinishRebuildKeeps
   DEF MultiThreadRebuild, ReadNull

\* Every step keeps the strengthened invariant, as long as every change under rebuild was logged.
LEMMA RebuildStep == ASSUME RebuildInv, [Next]_vars PROVE RebuildInv'
<1>1. TreeAssumption /\ Laws /\ TreeAssumption' /\ Laws'
  <2>1. TreeAssumption'
    BY DEF RebuildInv, TreeAssumption
  <2>2. Laws => Laws'
    OBVIOUS
  <2> QED BY <2>1, <2>2 DEF RebuildInv
<1>2. ASSUME logged' PROVE ThreadsInv'
  <2>1. ThreadsInv
    BY <1>2, LoggedStays DEF RebuildInv
  <2>2. CASE Mapping
    BY <1>1, <2>1, <2>2, MappingHolds
  <2>3. CASE Operating
    BY <1>1, <1>2, <2>1, <2>3, OperatingHolds
  <2>4. CASE \E s \in Searchers : Searching(s)
    BY <2>1, <2>4, SearchingHolds
  <2>5. CASE MultiThreadRebuild
    BY <1>1, <1>2, <2>1, <2>5, RebuildingHolds
  <2>6. CASE UNCHANGED vars
    <3>1. /\ mPc' = mPc
          /\ UNCHANGED <<root, rebuildPtr, ptrLocked, working, rebuildFlag, tPc, fresh, logger, todo, atRoot, edge, points>>
      BY <2>6 DEF vars, treeVars, threadVars, callVars
    <3> QED BY <2>1, <3>1, ThreadsStay
  <2> QED BY <2>2, <2>3, <2>4, <2>5, <2>6 DEF Next
<1> QED BY <1>1, <1>2 DEF RebuildInv

\* If the operations of the tree obey the laws, the threads keep to the invariant: between
\* two calls the tree holds the points, while an operation waits at a subtree it will,
\* and the log leads from the new subtree to the old one.
THEOREM RebuildInvariant == TreeAssumption /\ Laws /\ Spec => []RebuildInv
<1>1. TreeAssumption /\ Laws /\ Init => RebuildInv
  BY RebuildStarts
<1>2. RebuildInv /\ [Next]_vars => RebuildInv'
  BY RebuildStep
<1> QED BY <1>1, <1>2, PTL DEF Spec

\* Between two calls the tree holds exactly the points that were added and not deleted.
THEOREM ContentsSurviveRebuild == TreeAssumption /\ Laws /\ Spec => []ContentsKept
<1>1. RebuildInv => ContentsKept
  BY DEF RebuildInv, ThreadsInv, HeldInv, ContentsKept
<1> QED BY <1>1, RebuildInvariant, PTL
=============================================================================
