------------------------------ MODULE PoseGraph ------------------------------
(***************************************************************************)
(* sc_pgo_node.cpp: keyframes, their pose graph and the closing of loops.  *)
(* The executor's thread runs the callbacks one at a time; a second thread *)
(* looks for loops.  kf_mutex_ guards the keyframes (the callback takes it *)
(* for the push only), graph_mutex_ one addFactor or one                   *)
(* optimizeAndPublish; the poses of the keyframes are read without either. *)
(*                                                                         *)
(* A pose is a coordinate, a relative pose a difference.  Clouds are left  *)
(* out: which old keyframe a scan resembles, and how ICP aligns two clouds *)
(* (both in the frame of the raw odometry), is any choice.                 *)
(***************************************************************************)
EXTENDS Integers, Sequences, FiniteSets

CONSTANTS
  MaxKeyframes,      \* bound: keyframes inserted, raw poses
  MaxLoops,          \* bound: loops closed
  MinKeyframes,      \* keyframes before the first look for a loop (10)
  LoopMinIndexDiff,  \* loop_min_index_diff_ (30)
  NumExcludeRecent,  \* NUM_EXCLUDE_RECENT of SCManager (30)
  TreeMakingPeriod,  \* TREE_MAKING_PERIOD_ of SCManager (30)
  Starts,            \* raw poses the node may be started at
  NoPose             \* nothing received, or read, yet

VARIABLES
  odom,        \* current_odom_
  lastKf,      \* last_kf_odom of isKeyframe
  keyframes,   \* keyframes_: gtsam_pose, and the raw pose it was made from
  contexts,    \* number of scan contexts saved in sc_manager_
  tree,        \* keyframes in polarcontext_tree_
  looks,       \* tree_making_period_conter, modulo the period
  nodes,       \* domain of node_ids_
  values,      \* the nodes isam_ has a value for
  factors,     \* the between factors of isam_
  callback,    \* the executor's thread in cloudCallback
  loop,        \* the thread in loopClosureThread, which holds kf_mutex_ while awake
  graph,       \* who holds graph_mutex_ in optimizeAndPublish, and how far it got
  early        \* history: a pose went out on /Odometry_scpgo, and none is optimised yet

inputs  == <<odom, lastKf>>
scans   == <<contexts, tree, looks>>
isam    == <<nodes, values, factors>>
vars    == <<inputs, keyframes, scans, isam, callback, loop, graph, early>>

Idle  == [pc |-> "idle", prev |-> NoPose, rel |-> NoPose]
Sleep == [pc |-> "sleep", curr |-> 0, cand |-> 0, rel |-> NoPose]
Free  == [by |-> "none", estimate |-> <<>>, next |-> 1]

Count       == Len(keyframes)
Loops       == {f \in factors : f.kind = "loop"}
Odometry    == factors \ Loops
AsleepLoop  == loop.pc = "sleep"        \* kf_mutex_ is free
GraphFree   == graph.by = "none"        \* graph_mutex_ is free

Init ==
  /\ odom = NoPose /\ lastKf = NoPose
  /\ keyframes = <<>>
  /\ contexts = 0 /\ tree = 0 /\ looks = 0
  /\ nodes = {} /\ values = {} /\ factors = {}
  /\ callback = Idle /\ loop = Sleep /\ graph = Free
  /\ early = FALSE

-----------------------------------------------------------------------------
(* The executor's thread.                                                  *)

\* poseCallback: the drone stays or moves on.
PoseCallback ==
  /\ callback.pc = "idle"
  /\ odom' \in IF odom = NoPose THEN Starts ELSE {odom, odom + 1} \cap 0 .. MaxKeyframes
  /\ UNCHANGED <<lastKf, keyframes, scans, isam, callback, loop, graph, early>>

\* isKeyframe: far enough from the last one, or late enough after it.
IsKeyframe(late) == keyframes = <<>> \/ odom # lastKf \/ late

\* cloudCallback up to the decision.
CloudCallback ==
  /\ callback.pc = "idle" /\ odom # NoPose /\ Count < MaxKeyframes
  /\ \E late \in BOOLEAN : IsKeyframe(late)
  /\ lastKf' = odom
  /\ callback' = [callback EXCEPT !.pc = "save"]
  /\ UNCHANGED <<odom, keyframes, scans, isam, loop, graph, early>>

\* Variant: keyframes_ is extended without kf_mutex_.
SaveKeyframeUnlocked ==
  /\ callback.pc = "save"
  /\ keyframes' = Append(keyframes, [raw |-> odom, pose |-> odom])
  /\ callback' = [callback EXCEPT !.pc = "context"]
  /\ UNCHANGED <<inputs, scans, isam, loop, graph, early>>

\* keyframes_.push_back(kf) under kf_mutex_.
SaveKeyframe ==
  /\ callback.pc = "save" /\ AsleepLoop
  /\ keyframes' = Append(keyframes, [raw |-> odom, pose |-> odom])
  /\ callback' = [callback EXCEPT !.pc = "context"]
  /\ UNCHANGED <<inputs, scans, isam, loop, graph, early>>

\* makeAndSaveScancontextAndKeys, without a lock.
MakeContext ==
  /\ callback.pc = "context"
  /\ contexts' = contexts + 1
  /\ callback' = [callback EXCEPT !.pc = IF Count = 1 THEN "first" ELSE "prev"]
  /\ UNCHANGED <<inputs, keyframes, tree, looks, isam, loop, graph, early>>

\* The first keyframe: a prior at the identity, whatever its pose.
AddPrior ==
  /\ callback.pc = "first"
  /\ early' = FALSE
  /\ nodes' = nodes \cup {Count} /\ values' = values \cup {Count}
  /\ callback' = [callback EXCEPT !.pc = "optimize"]
  /\ UNCHANGED <<inputs, keyframes, scans, factors, loop, graph>>

\* prev.gtsam_pose.between(curr.gtsam_pose), one read after the other while
\* the other thread may be rewriting both.
ReadPrev ==
  /\ callback.pc = "prev"
  /\ callback' = [callback EXCEPT !.pc = "curr", !.prev = keyframes[Count - 1].pose]
  /\ UNCHANGED <<inputs, keyframes, scans, isam, loop, graph, early>>

\* Variant: the relative pose is taken the wrong way round.
ReadCurrSwapped ==
  /\ callback.pc = "curr"
  /\ callback' = [pc |-> "add", prev |-> NoPose, rel |-> callback.prev - keyframes[Count].pose]
  /\ UNCHANGED <<inputs, keyframes, scans, isam, loop, graph, early>>

ReadCurr ==
  /\ callback.pc = "curr"
  /\ callback' = [pc |-> "add", prev |-> NoPose, rel |-> keyframes[Count].pose - callback.prev]
  /\ UNCHANGED <<inputs, keyframes, scans, isam, loop, graph, early>>

\* Variant: a loop gives no value to an end that has no node yet.
AddFactorNoValue(from, to, rel, kind) ==
  /\ GraphFree
  /\ nodes' = nodes \cup {from, to} /\ values' = values \cup (IF kind = "loop" THEN {} ELSE {to} \ nodes)
  /\ factors' = factors \cup {[from |-> from, to |-> to, rel |-> rel, kind |-> kind]}

\* addFactor: ends that have no node get one and their keyframe's pose as value.
AddFactor(from, to, rel, kind) ==
  /\ GraphFree
  /\ nodes' = nodes \cup {from, to} /\ values' = values \cup ({from, to} \ nodes)
  /\ factors' = factors \cup {[from |-> from, to |-> to, rel |-> rel, kind |-> kind]}

AddOdometry ==
  /\ callback.pc = "add"
  /\ AddFactor(Count - 1, Count, callback.rel, "odometry")
  /\ callback' = [Idle EXCEPT !.pc = "optimize"]
  /\ UNCHANGED <<inputs, keyframes, scans, loop, graph, early>>

-----------------------------------------------------------------------------
(* The loop thread.                                                        *)

\* It wakes up, takes kf_mutex_ and sees enough keyframes.
Wake ==
  /\ AsleepLoop /\ Count >= MinKeyframes
  /\ loop' = [Sleep EXCEPT !.pc = "detect", !.curr = Count]
  /\ UNCHANGED <<inputs, keyframes, scans, isam, callback, graph, early>>

\* detectLoopClosureID: the query is the last context; the candidates are what
\* the tree held when it was last made.  A near or no candidate ends the look.
Detect ==
  LET made  == looks = 0 /\ contexts > NumExcludeRecent
      known == IF made THEN contexts - NumExcludeRecent ELSE tree IN
  /\ loop.pc = "detect"
  /\ \/ /\ contexts <= NumExcludeRecent
        /\ loop' = Sleep
        /\ UNCHANGED <<tree, looks>>
     \/ /\ contexts > NumExcludeRecent
        /\ tree' = known
        /\ looks' = (looks + 1) % TreeMakingPeriod
        /\ \E cand \in 0 .. known :
             loop' = IF cand # 0 /\ cand < loop.curr - LoopMinIndexDiff
                     THEN [loop EXCEPT !.pc = "verify", !.cand = cand]
                     ELSE Sleep
  /\ UNCHANGED <<inputs, keyframes, contexts, isam, callback, graph, early>>

\* icpVerification: no convergence and a small transform end the look; a larger
\* one is taken for the relative pose of the two keyframes.
Verify ==
  /\ loop.pc = "verify"
  /\ \E transform \in {NoPose, 0} \cup (IF Cardinality(Loops) < MaxLoops THEN {-1, 1} ELSE {}) :
       loop' = IF transform \in {NoPose, 0} THEN Sleep
               ELSE [loop EXCEPT !.pc = "add", !.rel = transform]
  /\ UNCHANGED <<inputs, keyframes, scans, isam, callback, graph, early>>

AddLoop ==
  /\ loop.pc = "add"
  /\ AddFactor(loop.cand, loop.curr, loop.rel, "loop")
  /\ loop' = [loop EXCEPT !.pc = "optimize"]
  /\ UNCHANGED <<inputs, keyframes, scans, callback, graph, early>>

-----------------------------------------------------------------------------
(* Both threads.                                                           *)

\* The poses the factors of a chain add up to from the prior on; a node the
\* loop thread added first hangs on its loop.
Chain ==
  LET last == Cardinality(nodes)
      To(k) == CHOOSE f \in factors : f.to = k /\ (f \in Odometry \/ \A g \in Odometry : g.to # k)
      at[k \in 1 .. last] == IF k = 1 THEN 0 ELSE at[To(k).from] + To(k).rel
  IN at

\* calculateEstimate: where loops and chain disagree, a loop moves everything
\* after its candidate or nothing.
Estimates ==
  LET Rest(f) == f.rel - (Chain[f.to] - Chain[f.from])
      open    == {f \in factors : Rest(f) # 0}
  IN {Chain} \cup {[k \in nodes |-> Chain[k] + IF k > f.from THEN Rest(f) ELSE 0] : f \in open}

Optimizing(who) == \/ who = "callback" /\ callback.pc = "optimize"
                   \/ who = "loop" /\ loop.pc = "optimize"

\* optimizeAndPublish takes graph_mutex_ and the estimate.
Estimate(who) ==
  /\ Optimizing(who) /\ GraphFree
  /\ \E e \in Estimates : graph' = [by |-> who, estimate |-> e, next |-> 1]
  /\ UNCHANGED <<inputs, keyframes, scans, isam, callback, loop, early>>

\* It rewrites the keyframes that have a node one by one.
Rewrite(who) ==
  /\ graph.by = who /\ graph.next <= Count
  /\ keyframes' = IF graph.next \in nodes
                  THEN [keyframes EXCEPT ![graph.next].pose = graph.estimate[graph.next]]
                  ELSE keyframes
  /\ graph' = [graph EXCEPT !.next = @ + 1]
  /\ UNCHANGED <<inputs, scans, isam, callback, loop, early>>

\* It publishes the path and is done.
Publish(who) ==
  /\ graph.by = who /\ graph.next > Count
  /\ graph' = Free
  /\ callback' = IF who = "callback" THEN Idle ELSE callback
  /\ loop' = IF who = "loop" THEN Sleep ELSE loop
  /\ UNCHANGED <<inputs, keyframes, scans, isam, early>>

\* publishLatestOdom, every 100 ms: latest_optimized_pose_ begins as the
\* identity, so the test for a pose that is not initialised never holds.
PublishLatestOdom ==
  /\ callback.pc = "idle"
  /\ early' = (values = {})
  /\ UNCHANGED <<inputs, keyframes, scans, isam, callback, loop, graph>>

Next ==
  \/ PoseCallback \/ PublishLatestOdom \/ CloudCallback \/ SaveKeyframe \/ MakeContext
  \/ AddPrior \/ ReadPrev \/ ReadCurr \/ AddOdometry
  \/ Wake \/ Detect \/ Verify \/ AddLoop
  \/ \E who \in {"callback", "loop"} : Estimate(who) \/ Rewrite(who) \/ Publish(who)

Spec == Init /\ [][Next]_vars

-----------------------------------------------------------------------------
(* Properties.                                                             *)

Displacement(f) == keyframes[f.to].raw - keyframes[f.from].raw

\* What addFactor is given for two keyframes in a row is how far the odometry
\* moved between them.
OdometryIsMeasured == \A f \in Odometry : f.rel = Displacement(f)

\* ... which holds until a loop is closed, for a node started at the origin:
\* the optimiser rewrites the poses the measurement is taken from.
MeasuredBeforeLoops == Loops = {} /\ (Count > 0 => keyframes[1].raw = 0) => OdometryIsMeasured

\* Every node has a value (calculateEstimate().at finds it) and hangs on the
\* prior by factors from older nodes (isam_ has one solution), although the
\* loop thread may add the node of the newest keyframe before the callback does.
GraphIsDetermined ==
  /\ nodes = values
  /\ \A k \in nodes \ {1} : \E f \in factors : f.to = k /\ f.from \in nodes /\ f.from < k

\* Nothing goes out on /Odometry_scpgo before there is an optimised pose.
SentIsOptimized == ~early

\* keyframes_ is not extended while the loop thread holds references into it.
KeyframesStay == [][keyframes' # keyframes /\ Len(keyframes') > Count => AsleepLoop]_vars
=============================================================================
