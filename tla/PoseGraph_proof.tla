---------------------------- MODULE PoseGraph_proof ----------------------------
(***************************************************************************)
(* The pose graph has one solution, the keyframes stay where the loop      *)
(* thread refers to them, and until a loop is closed the odometry factors  *)
(* are what was measured, for any number of keyframes and loops, any       *)
(* settings and whatever ICP and the scan contexts answer.                 *)
(***************************************************************************)
EXTENDS PoseGraph, SequenceTheorems, FiniteSetTheorems, WellFoundedInduction, TLAPS

\* What the steps need of the shape of the data; poses may be anything.
Shape ==
  /\ \E S : keyframes \in Seq(S)
  /\ {"by", "next"} \subseteq DOMAIN graph /\ graph.next \in Nat \ {0}
  /\ "pc" \in DOMAIN callback
  /\ {"pc", "curr", "cand", "rel"} \subseteq DOMAIN loop
  /\ contexts \in Int /\ tree \in Int

\* All keyframes but the newest have a node, and it too once its callback is over.
NodesInv ==
  /\ nodes = values
  /\ \A k \in Nat : 1 <= k /\ k < Count => k \in nodes
  /\ nodes \subseteq 1 .. Count
  /\ callback.pc \in {"idle", "save", "optimize"} => nodes = 1 .. Count
  /\ callback.pc = "context" => Count >= 1
  /\ callback.pc = "first" => Count = 1
  /\ callback.pc \in {"prev", "curr", "add"} => Count > 1
  /\ graph.by = "callback" => callback.pc = "optimize"

\* The loop thread's keyframe is still the newest, and its candidate an older one.
LoopInv ==
  /\ loop.pc # "sleep" => loop.curr = Count
  /\ loop.pc \in {"verify", "add"} => loop.cand \in Nat /\ 1 <= loop.cand /\ loop.cand < loop.curr

\* Every node but the first hangs on an older one.
Hangs(k) == \E f \in factors : f.to = k /\ f.from \in nodes /\ f.from < k

GraphInv == Shape /\ NodesInv /\ LoopInv /\ \A k \in nodes \ {1} : Hangs(k)

-----------------------------------------------------------------------------
LEMMA CountIsNat == ASSUME Shape PROVE Count \in Nat
BY LenProperties DEF Shape, Count

LEMMA InitDetermined == Init => GraphInv
<1> SUFFICES ASSUME Init PROVE GraphInv
  OBVIOUS
<1>1. keyframes = <<>> /\ <<>> \in Seq({}) /\ Count = 0
  BY EmptySeq DEF Init, Count
<1>2. Shape
  BY <1>1 DEF Init, Shape, Free, Idle, Sleep
<1>3. NodesInv
  BY <1>1 DEF Init, NodesInv, Free, Idle
<1>4. LoopInv
  BY DEF Init, LoopInv, Sleep
<1>5. nodes = {}
  BY DEF Init
<1> QED
  BY <1>2, <1>3, <1>4, <1>5 DEF GraphInv

\* A new factor to a newer keyframe leaves every node hanging.
LEMMA FactorHangs ==
  ASSUME GraphInv, NEW from \in Nat, NEW to, NEW rel, NEW kind,
         1 <= from, from < to, to = Count, AddFactor(from, to, rel, kind)
  PROVE  /\ nodes' = nodes \cup {to} /\ nodes' = values'
         /\ \A k \in nodes' \ {1} : Hangs(k)'
<1>1. from \in nodes /\ nodes = values /\ Count \in Nat
  BY CountIsNat DEF GraphInv, NodesInv
<1>2. nodes' = nodes \cup {to}
  BY <1>1 DEF AddFactor
<1>3. nodes' = values'
  BY <1>1 DEF AddFactor
<1>4. factors' = factors \cup {[from |-> from, to |-> to, rel |-> rel, kind |-> kind]}
  BY DEF AddFactor
<1>5. ASSUME NEW k \in nodes' \ {1} PROVE Hangs(k)'
  <2>1. CASE k = to
    <3> DEFINE f == [from |-> from, to |-> to, rel |-> rel, kind |-> kind]
    <3>1. f \in factors' /\ f.to = k /\ f.from = from
      BY <1>4, <2>1
    <3>2. f.from \in nodes' /\ f.from < k
      BY <1>1, <1>2, <2>1, <3>1
    <3> HIDE DEF f
    <3> QED BY <3>1, <3>2 DEF Hangs
  <2>2. CASE k # to
    <3>1. Hangs(k)
      BY <1>2, <2>2 DEF GraphInv
    <3> QED BY <1>2, <1>4, <3>1 DEF Hangs
  <2> QED BY <2>1, <2>2
<1> QED BY <1>2, <1>3, <1>5

\* What leaves the graph alone leaves its nodes hanging.
LEMMA GraphStays ==
  ASSUME GraphInv, UNCHANGED <<nodes, factors>>
  PROVE  \A k \in nodes' \ {1} : Hangs(k)'
BY DEF GraphInv, Hangs

-----------------------------------------------------------------------------
LEMMA CallbackStep ==
  ASSUME GraphInv,
         \/ PoseCallback \/ PublishLatestOdom \/ CloudCallback \/ MakeContext
         \/ ReadPrev \/ ReadCurr
  PROVE  GraphInv'
<1>1. UNCHANGED <<keyframes, tree, nodes, values, factors, loop, graph>>
  BY DEF PoseCallback, PublishLatestOdom, CloudCallback, MakeContext, ReadPrev, ReadCurr, isam, scans
<1>2. Count' = Count /\ Count \in Nat
  BY <1>1, CountIsNat DEF Count, GraphInv
<1> DEFINE Turn(a, b) == callback.pc = a /\ callback'.pc = b
           Moves == \/ callback' = callback \/ Turn("idle", "save")
                    \/ Turn("context", IF Count = 1 THEN "first" ELSE "prev")
                    \/ Turn("prev", "curr") \/ Turn("curr", "add")
<1>3. contexts' \in Int /\ "pc" \in DOMAIN callback' /\ Moves
  <2>1. "pc" \in DOMAIN callback /\ contexts \in Int
    BY DEF GraphInv, Shape
  <2>2. CASE PoseCallback \/ PublishLatestOdom
    BY <2>1, <2>2 DEF PoseCallback, PublishLatestOdom, scans
  <2>3. CASE CloudCallback
    BY <2>1, <2>3 DEF CloudCallback, scans
  <2>4. CASE MakeContext
    BY <2>1, <2>4 DEF MakeContext
  <2>5. CASE ReadPrev
    <3>1. /\ callback.pc = "prev" /\ contexts' = contexts
          /\ callback' = [callback EXCEPT !.pc = "curr", !.prev = keyframes[Count - 1].pose]
      BY <2>5 DEF ReadPrev, scans
    <3> QED BY <2>1, <3>1
  <2>6. CASE ReadCurr
    BY <2>1, <2>6 DEF ReadCurr, scans
  <2> QED BY <2>2, <2>3, <2>4, <2>5, <2>6
<1>4. Shape'
  BY <1>1, <1>3 DEF GraphInv, Shape
<1>5. NodesInv'
  <2>1. NodesInv
    BY DEF GraphInv
  <2>2. nodes' = nodes /\ values' = values /\ graph' = graph
    BY <1>1
  <2> HIDE DEF Moves
  <2>3. CASE callback' = callback
    BY <1>2, <2>1, <2>2, <2>3 DEF NodesInv
  <2>4. CASE Turn("idle", "save")
    BY <1>2, <2>1, <2>2, <2>4 DEF NodesInv
  <2>5. CASE Turn("context", IF Count = 1 THEN "first" ELSE "prev")
    BY <1>2, <2>1, <2>2, <2>5 DEF NodesInv
  <2>6. CASE Turn("prev", "curr") \/ Turn("curr", "add")
    BY <1>2, <2>1, <2>2, <2>6 DEF NodesInv
  <2> QED BY <1>3, <2>3, <2>4, <2>5, <2>6 DEF Moves
<1>6. LoopInv'
  BY <1>1, <1>2 DEF GraphInv, LoopInv
<1> QED
  BY <1>1, <1>4, <1>5, <1>6, GraphStays DEF GraphInv

\* The loop thread is asleep when a keyframe is pushed, so its keyframe stays the newest.
LEMMA KeyframeStep ==
  ASSUME GraphInv, SaveKeyframe
  PROVE  GraphInv'
<1> DEFINE kf == [raw |-> odom, pose |-> odom]
<1>1. /\ UNCHANGED <<scans, nodes, values, factors, loop, graph>> /\ loop.pc = "sleep"
      /\ callback.pc = "save" /\ callback' = [callback EXCEPT !.pc = "context"]
      /\ keyframes' = Append(keyframes, kf)
  BY DEF SaveKeyframe, isam, AsleepLoop
<1>2. PICK S : keyframes \in Seq(S)
  BY DEF GraphInv, Shape
<1>3. keyframes \in Seq(S \cup {kf})
  BY <1>2, SeqMonotonic
<1>4. keyframes' \in Seq(S \cup {kf}) /\ Count' = Count + 1 /\ Count \in Nat
  <2> HIDE DEF kf
  <2> QED BY <1>1, <1>3, AppendProperties, LenProperties DEF Count
<1>5. Shape'
  <2> HIDE DEF kf
  <2> QED BY <1>1, <1>4 DEF GraphInv, Shape, scans
<1>6. NodesInv'
  <2>1. nodes = 1 .. Count /\ callback'.pc = "context" /\ graph.by # "callback"
    BY <1>1 DEF GraphInv, NodesInv, Shape
  <2> QED BY <1>1, <1>4, <2>1 DEF GraphInv, NodesInv
<1>7. LoopInv'
  BY <1>1 DEF GraphInv, LoopInv
<1> QED
  BY <1>1, <1>5, <1>6, <1>7, GraphStays DEF GraphInv

LEMMA PriorStep ==
  ASSUME GraphInv, AddPrior
  PROVE  GraphInv'
<1>1. /\ UNCHANGED <<keyframes, scans, factors, loop, graph>> /\ callback.pc = "first"
      /\ callback' = [callback EXCEPT !.pc = "optimize"]
      /\ nodes' = nodes \cup {Count} /\ values' = values \cup {Count}
  BY DEF AddPrior
<1>2. Count' = Count /\ Count = 1
  BY <1>1 DEF GraphInv, NodesInv, Count
<1>3. Shape'
  BY <1>1 DEF GraphInv, Shape, scans
<1>4. NodesInv'
  <2>1. nodes' = 1 .. Count
    BY <1>1, <1>2 DEF GraphInv, NodesInv
  <2> QED BY <1>1, <1>2, <2>1 DEF GraphInv, NodesInv, Shape
<1>5. LoopInv'
  BY <1>1, <1>2 DEF GraphInv, LoopInv
<1>6. ASSUME NEW k \in nodes' \ {1} PROVE Hangs(k)'
  BY <1>1, <1>2 DEF GraphInv, Hangs
<1> QED
  BY <1>3, <1>4, <1>5, <1>6 DEF GraphInv

LEMMA OdometryStep ==
  ASSUME GraphInv, AddOdometry
  PROVE  GraphInv'
<1>1. /\ UNCHANGED <<keyframes, scans, loop, graph>> /\ callback.pc = "add"
      /\ callback' = [Idle EXCEPT !.pc = "optimize"]
      /\ AddFactor(Count - 1, Count, callback.rel, "odometry")
  BY DEF AddOdometry
<1>2. Count' = Count /\ Count \in Nat /\ Count > 1 /\ Count - 1 \in Nat /\ 1 <= Count - 1 /\ Count - 1 < Count
  BY <1>1, CountIsNat DEF GraphInv, NodesInv, Count
<1>3. nodes' = nodes \cup {Count} /\ nodes' = values' /\ \A k \in nodes' \ {1} : Hangs(k)'
  BY <1>1, <1>2, FactorHangs
<1>4. Shape'
  BY <1>1 DEF GraphInv, Shape, scans, Idle
<1>5. NodesInv'
  <2>1. nodes' = 1 .. Count
    <3>1. nodes' \subseteq 1 .. Count
      BY <1>2, <1>3 DEF GraphInv, NodesInv
    <3>2. ASSUME NEW k \in 1 .. Count PROVE k \in nodes'
      <4>1. k \in Nat /\ 1 <= k /\ (k = Count \/ k < Count)
        BY <1>2
      <4> QED BY <1>3, <4>1 DEF GraphInv, NodesInv
    <3> QED BY <3>1, <3>2
  <2> QED BY <1>1, <1>2, <1>3, <2>1 DEF GraphInv, NodesInv, Idle
<1>6. LoopInv'
  BY <1>1, <1>2 DEF GraphInv, LoopInv
<1> QED
  BY <1>3, <1>4, <1>5, <1>6 DEF GraphInv

LEMMA LoopStep ==
  ASSUME GraphInv, LoopMinIndexDiff \in Nat, NumExcludeRecent \in Nat, Wake \/ Detect \/ Verify
  PROVE  GraphInv'
<1>1. UNCHANGED <<keyframes, contexts, nodes, values, factors, callback, graph>>
  BY DEF Wake, Detect, Verify, isam, scans
<1>2. Count' = Count /\ Count \in Nat
  BY <1>1, CountIsNat DEF Count, GraphInv
<1>3. /\ tree' \in Int /\ {"pc", "curr", "cand", "rel"} \subseteq DOMAIN loop' /\ LoopInv'
  <2>1. CASE Wake
    BY <1>2, <2>1 DEF Wake, GraphInv, Shape, LoopInv, Sleep, scans
  <2>2. CASE Detect
    <3> DEFINE known == IF looks = 0 /\ contexts > NumExcludeRecent THEN contexts - NumExcludeRecent ELSE tree
    <3>1. known \in Int /\ loop.pc = "detect" /\ loop.curr = Count
      <4>1. loop.pc = "detect"
        BY <2>2 DEF Detect
      <4>2. loop.curr = Count
        BY <4>1 DEF GraphInv, LoopInv
      <4>3. contexts \in Int /\ tree \in Int
        BY DEF GraphInv, Shape
      <4>4. known \in Int
        BY <4>3
      <4> QED BY <4>1, <4>2, <4>4
    <3>2. tree' \in {tree, known}
      BY <2>2 DEF Detect
    <3>3. \/ loop' = Sleep
          \/ \E cand \in 0 .. known :
               /\ cand # 0 /\ cand < loop.curr - LoopMinIndexDiff
               /\ loop' = [loop EXCEPT !.pc = "verify", !.cand = cand]
      BY <2>2 DEF Detect
    <3> HIDE DEF known
    <3>4. CASE loop' = Sleep
      BY <3>1, <3>2, <3>4 DEF GraphInv, Shape, LoopInv, Sleep
    <3>5. ASSUME NEW cand \in 0 .. known, cand # 0, cand < loop.curr - LoopMinIndexDiff,
                 loop' = [loop EXCEPT !.pc = "verify", !.cand = cand]
          PROVE  /\ tree' \in Int /\ {"pc", "curr", "cand", "rel"} \subseteq DOMAIN loop' /\ LoopInv'
      <4>1. /\ loop'.pc = "verify" /\ loop'.cand = cand /\ loop'.curr = loop.curr
            /\ {"pc", "curr", "cand", "rel"} \subseteq DOMAIN loop'
        BY <3>5 DEF GraphInv, Shape
      <4>2. cand \in Nat /\ 1 <= cand /\ cand < loop.curr
        BY <1>2, <3>1, <3>5
      <4> QED BY <1>2, <3>1, <3>2, <4>1, <4>2 DEF GraphInv, Shape, LoopInv
    <3> QED BY <3>3, <3>4, <3>5
  <2>3. CASE Verify
    <3>1. tree' = tree /\ loop.pc = "verify"
      BY <2>3 DEF Verify, scans
    <3>2. loop' = Sleep \/ \E transform : loop' = [loop EXCEPT !.pc = "add", !.rel = transform]
      BY <2>3 DEF Verify
    <3>3. CASE loop' = Sleep
      BY <3>1, <3>3 DEF GraphInv, Shape, LoopInv, Sleep
    <3>4. ASSUME NEW transform, loop' = [loop EXCEPT !.pc = "add", !.rel = transform]
          PROVE  /\ tree' \in Int /\ {"pc", "curr", "cand", "rel"} \subseteq DOMAIN loop' /\ LoopInv'
      <4>1. /\ {"pc", "curr", "cand", "rel"} \subseteq DOMAIN loop'
            /\ loop'.pc = "add" /\ loop'.curr = loop.curr /\ loop'.cand = loop.cand
        BY <3>4 DEF GraphInv, Shape
      <4> QED BY <1>2, <3>1, <4>1 DEF GraphInv, Shape, LoopInv
    <3> QED BY <3>2, <3>3, <3>4
  <2> QED BY <2>1, <2>2, <2>3
<1>4. Shape'
  BY <1>1, <1>3 DEF GraphInv, Shape
<1>5. NodesInv'
  BY <1>1, <1>2 DEF GraphInv, NodesInv
<1> QED
  BY <1>1, <1>3, <1>4, <1>5, GraphStays DEF GraphInv

LEMMA LoopFactorStep ==
  ASSUME GraphInv, AddLoop
  PROVE  GraphInv'
<1>1. /\ UNCHANGED <<keyframes, scans, callback, graph>> /\ loop.pc = "add"
      /\ loop' = [loop EXCEPT !.pc = "optimize"]
      /\ AddFactor(loop.cand, loop.curr, loop.rel, "loop")
  BY DEF AddLoop
<1>2. /\ Count' = Count /\ Count \in Nat /\ loop.curr = Count
      /\ loop.cand \in Nat /\ 1 <= loop.cand /\ loop.cand < loop.curr
  BY <1>1, CountIsNat DEF GraphInv, LoopInv, Count
<1>3. nodes' = nodes \cup {Count} /\ nodes' = values' /\ \A k \in nodes' \ {1} : Hangs(k)'
  BY <1>1, <1>2, FactorHangs
<1>4. Shape'
  BY <1>1 DEF GraphInv, Shape, scans
<1>5. NodesInv'
  BY <1>1, <1>2, <1>3 DEF GraphInv, NodesInv
<1>6. LoopInv'
  BY <1>1, <1>2 DEF GraphInv, LoopInv, Shape
<1> QED
  BY <1>3, <1>4, <1>5, <1>6 DEF GraphInv

LEMMA OptimizeStep ==
  ASSUME GraphInv, NEW who \in {"callback", "loop"}, Estimate(who) \/ Rewrite(who) \/ Publish(who)
  PROVE  GraphInv' /\ Count' = Count
<1>1. UNCHANGED <<scans, nodes, values, factors>>
  BY DEF Estimate, Rewrite, Publish, isam
<1>2. (\E S : keyframes' \in Seq(S)) /\ Count' = Count
  <2>1. PICK S : keyframes \in Seq(S)
    BY DEF GraphInv, Shape
  <2>2. CASE keyframes' = keyframes
    BY <2>1, <2>2 DEF Count
  <2>3. CASE Rewrite(who) /\ keyframes' # keyframes
    <3> DEFINE n == graph.next
               kf == [keyframes[n] EXCEPT !.pose = graph.estimate[n]]
    <3>1. n \in 1 .. Len(keyframes)
      BY <2>1, <2>3, LenProperties DEF Rewrite, GraphInv, Shape, Count
    <3>2. keyframes' = [keyframes EXCEPT ![n] = kf]
      BY <2>3 DEF Rewrite
    <3>3. keyframes \in Seq(S \cup {kf})
      BY <2>1, SeqMonotonic
    <3> HIDE DEF n, kf
    <3>4. keyframes' \in Seq(S \cup {kf}) /\ Len(keyframes') = Len(keyframes)
      BY <3>1, <3>2, <3>3, ExceptSeq
    <3> QED BY <3>4 DEF Count
  <2> QED BY <2>2, <2>3 DEF Estimate, Rewrite, Publish
<1>3. Count \in Nat /\ \A k \in nodes' \ {1} : Hangs(k)'
  BY <1>1, CountIsNat, GraphStays DEF GraphInv
<1>4. CASE Estimate(who)
  <2>1. /\ UNCHANGED <<callback, loop>> /\ (who = "callback" => callback.pc = "optimize")
        /\ \E e : graph' = [by |-> who, estimate |-> e, next |-> 1]
    BY <1>4 DEF Estimate, Optimizing
  <2>2. Shape'
    BY <1>1, <1>2, <2>1 DEF GraphInv, Shape, scans
  <2>3. NodesInv'
    BY <1>1, <1>2, <2>1 DEF GraphInv, NodesInv
  <2>4. LoopInv'
    BY <1>2, <2>1 DEF GraphInv, LoopInv
  <2> QED
    BY <1>2, <1>3, <2>2, <2>3, <2>4 DEF GraphInv
<1>5. CASE Rewrite(who)
  <2>1. UNCHANGED <<callback, loop>> /\ graph' = [graph EXCEPT !.next = @ + 1]
    BY <1>5 DEF Rewrite
  <2>2. {"by", "next"} \subseteq DOMAIN graph' /\ graph'.next \in Nat \ {0} /\ graph'.by = graph.by
    BY <2>1 DEF GraphInv, Shape
  <2>3. Shape'
    BY <1>1, <1>2, <2>1, <2>2 DEF GraphInv, Shape, scans
  <2>4. NodesInv' /\ LoopInv'
    BY <1>1, <1>2, <2>1, <2>2 DEF GraphInv, NodesInv, LoopInv
  <2> QED
    BY <1>2, <1>3, <2>3, <2>4 DEF GraphInv
<1>6. CASE Publish(who)
  <2>1. /\ graph.by = who /\ graph' = Free
        /\ callback' = callback \/ (graph.by = "callback" /\ callback' = Idle)
        /\ loop' = loop \/ loop' = Sleep
    BY <1>6 DEF Publish
  <2>2. Shape'
    BY <1>1, <1>2, <2>1 DEF GraphInv, Shape, Free, Idle, Sleep, scans
  <2>3. NodesInv'
    BY <1>1, <1>2, <2>1 DEF GraphInv, NodesInv, Free, Idle
  <2>4. LoopInv'
    BY <1>2, <2>1 DEF GraphInv, LoopInv, Sleep
  <2> QED
    BY <1>2, <1>3, <2>2, <2>3, <2>4 DEF GraphInv
<1> QED BY <1>2, <1>4, <1>5, <1>6

LEMMA StepDetermined ==
  ASSUME LoopMinIndexDiff \in Nat, NumExcludeRecent \in Nat
  PROVE  GraphInv /\ [Next]_vars => GraphInv'
<1> SUFFICES ASSUME GraphInv, [Next]_vars PROVE GraphInv'
  OBVIOUS
<1>1. CASE UNCHANGED vars
  <2>1. UNCHANGED <<keyframes, contexts, tree, nodes, values, factors, callback, loop, graph>>
    BY <1>1 DEF vars, scans, isam
  <2>2. Count' = Count
    BY <2>1 DEF Count
  <2> QED BY <2>1, <2>2, GraphStays DEF GraphInv, Shape, NodesInv, LoopInv
<1> QED
  BY <1>1, CallbackStep, KeyframeStep, PriorStep, OdometryStep, LoopStep, LoopFactorStep, OptimizeStep DEF Next

\* addFactor may add the node of the newest keyframe from either thread, yet every node has
\* a value and hangs on the prior: isam_ has one solution and calculateEstimate().at finds it.
THEOREM GraphHasOneSolution ==
  ASSUME LoopMinIndexDiff \in Nat, NumExcludeRecent \in Nat
  PROVE  Spec => []GraphIsDetermined
<1>1. GraphInv => GraphIsDetermined
  BY DEF GraphInv, NodesInv, GraphIsDetermined, Hangs
<1> QED
  BY <1>1, InitDetermined, StepDetermined, PTL DEF Spec

\* keyframes_ grows under kf_mutex_ only, and what rewrites it keeps its length: the loop
\* thread's references into it stay valid.
THEOREM ReferencesStay ==
  ASSUME LoopMinIndexDiff \in Nat, NumExcludeRecent \in Nat
  PROVE  Spec => KeyframesStay
<1>1. GraphInv /\ [Next]_vars
        => [keyframes' # keyframes /\ Len(keyframes') > Count => AsleepLoop]_vars
  <2> SUFFICES ASSUME GraphInv, Next, keyframes' # keyframes, Len(keyframes') > Count
               PROVE  AsleepLoop
    OBVIOUS
  <2>1. ASSUME NEW who \in {"callback", "loop"}, Estimate(who) \/ Rewrite(who) \/ Publish(who) PROVE FALSE
    BY <2>1, OptimizeStep, CountIsNat DEF Count, GraphInv
  <2>2. SaveKeyframe
    BY <2>1 DEF Next, PoseCallback, PublishLatestOdom, CloudCallback, MakeContext, AddPrior, ReadPrev,
                ReadCurr, AddOdometry, Wake, Detect, Verify, AddLoop
  <2> QED BY <2>2 DEF SaveKeyframe
<1> QED
  BY <1>1, InitDetermined, StepDetermined, PTL DEF Spec, KeyframesStay

-----------------------------------------------------------------------------
Less == {p \in Nat \X Nat : p[1] < p[2]}

LEMMA LessIsWellFounded == IsWellFoundedOn(Less, Nat)
<1>1. Less = OpToRel(<, Nat)
  BY DEF Less, OpToRel
<1> QED BY <1>1, NatLessThanWellFounded

LEMMA Least ==
  ASSUME NEW T \in SUBSET Nat, T # {}
  PROVE  \E x \in T : \A y \in T : x <= y
<1>1. PICK x \in T : \A y \in T : ~(<<y, x>> \in Less)
  BY LessIsWellFounded, WFMin
<1>2. ASSUME NEW y \in T PROVE x <= y
  <2>1. ~(<<y, x>> \in Less) /\ y \in Nat /\ x \in Nat
    BY <1>1
  <2> QED BY <2>1 DEF Less
<1> QED BY <1>2

-----------------------------------------------------------------------------
\* No loop is closed yet, and the node was started at the origin.
Clean == Loops = {} /\ (Count > 0 => keyframes[1].raw = 0)

Raw(k) == keyframes[k].raw

\* A factor between neighbours that says what the odometry measured.
Exact(f) == f.to \in 2 .. Count /\ f.from = f.to - 1 /\ f.rel = Raw(f.to) - Raw(f.from)

\* Where the threads are, as far as the poses are concerned.
RawInv ==
  /\ odom = NoPose \/ odom \in Int
  /\ callback.pc = "save" => odom \in Int
  /\ \A k \in 1 .. Count : DOMAIN keyframes[k] = {"raw", "pose"} /\ Raw(k) \in Int
  /\ DOMAIN callback = {"pc", "prev", "rel"}
  /\ DOMAIN graph = {"by", "estimate", "next"}
  /\ loop.pc = "optimize" => Loops # {}
  /\ graph.by = "loop" => loop.pc = "optimize"
  /\ graph.by \in {"none", "callback", "loop"}

\* As long as no loop is closed no pose is moved.
CleanInv ==
  Clean =>
    /\ \A k \in 1 .. Count : keyframes[k].pose = Raw(k)
    /\ \A f \in factors : Exact(f)
    /\ callback.pc = "curr" => callback.prev = Raw(Count - 1)
    /\ callback.pc = "add" => callback.rel = Raw(Count) - Raw(Count - 1)
    /\ graph.by = "callback" => \A k \in nodes : graph.estimate[k] = Raw(k)

LEMMA InitMeasured == Init => RawInv /\ CleanInv
<1> SUFFICES ASSUME Init PROVE RawInv /\ CleanInv
  OBVIOUS
<1>1. keyframes = <<>> /\ Count = 0
  BY EmptySeq DEF Init, Count
<1> QED BY <1>1 DEF Init, RawInv, CleanInv, Free, Idle, Sleep

-----------------------------------------------------------------------------
\* While there are no loops, the poses the factors add up to are those of the odometry.
LEMMA ChainIsRaw ==
  ASSUME GraphInv, RawInv, CleanInv, Clean, nodes = 1 .. Count
  PROVE  \A k \in 1 .. Count : Chain[k] = Raw(k)
<1>0. Count \in Nat
  BY CountIsNat DEF GraphInv
<1>1. Cardinality(nodes) = Count
  <2>1. Cardinality(1 .. Count) = IF 1 > Count THEN 0 ELSE Count - 1 + 1
    BY <1>0, FS_Interval
  <2> QED BY <1>0, <2>1
<1> DEFINE To(k) == CHOOSE f \in factors : f.to = k /\ (f \in Odometry \/ \A g \in Odometry : g.to # k)
           Law(h) == h = [k \in 1 .. Count |-> IF k = 1 THEN 0 ELSE h[To(k).from] + To(k).rel]
<1>2. ASSUME NEW k \in 2 .. Count
      PROVE  To(k).from = k - 1 /\ To(k).rel = Raw(k) - Raw(k - 1)
  <2>1. PICK f \in factors : f.to = k
    <3>1. k \in nodes \ {1}
      BY <1>0
    <3> QED BY <3>1 DEF GraphInv, Hangs
  <2>2. Odometry = factors
    BY DEF Clean, Odometry
  <2>3. To(k) \in factors /\ To(k).to = k
    BY <2>1, <2>2
  <2>4. Exact(To(k))
    BY <2>3 DEF CleanInv
  <2> HIDE DEF To
  <2> QED BY <2>3, <2>4 DEF Exact
<1>3. \A k \in 1 .. Count : Raw(k) \in Int
  BY DEF RawInv
<1>4. Count > 0 => Raw(1) = 0
  BY DEF Clean, Raw
<1>5. Law([k \in 1 .. Count |-> Raw(k)])
  <2> DEFINE Sum == [k \in 1 .. Count |-> Raw(k)]
  <2>1. ASSUME NEW k \in 1 .. Count
        PROVE  Sum[k] = IF k = 1 THEN 0 ELSE Sum[To(k).from] + To(k).rel
    <3>1. CASE k = 1
      BY <1>0, <1>4, <3>1
    <3>2. CASE k # 1
      <4>1. k \in 2 .. Count /\ k - 1 \in 1 .. Count
        BY <1>0, <3>2
      <4>2. To(k).from = k - 1 /\ To(k).rel = Raw(k) - Raw(k - 1)
        BY <1>2, <4>1
      <4> HIDE DEF To
      <4>3. Sum[To(k).from] = Raw(k - 1) /\ Sum[k] = Raw(k)
        BY <4>1, <4>2
      <4> QED BY <1>3, <3>2, <4>1, <4>2, <4>3
    <3> QED BY <3>1, <3>2
  <2> HIDE DEF To
  <2> QED BY <2>1
<1>6. Law(Chain)
  <2>1. Chain = CHOOSE h : Law(h)
    BY <1>1 DEF Chain
  <2> HIDE DEF Law
  <2> QED BY <1>5, <2>1
<1> HIDE DEF To
<1>7. ASSUME NEW k \in 1 .. Count PROVE Chain[k] = IF k = 1 THEN 0 ELSE Chain[To(k).from] + To(k).rel
  BY <1>6
<1> HIDE DEF Law
<1> DEFINE Bad == {k \in 1 .. Count : Chain[k] # Raw(k)}
<1> SUFFICES ASSUME Bad # {} PROVE FALSE
  OBVIOUS
<1>8. PICK k \in Bad : \A n \in Bad : k <= n
  <2>1. Bad \in SUBSET Nat
    BY <1>0
  <2> QED BY <2>1, Least
<1>9. CASE k = 1
  BY <1>0, <1>4, <1>7, <1>8, <1>9
<1>10. CASE k # 1
  <2>1. k \in 2 .. Count /\ k - 1 \in 1 .. Count /\ ~(k <= k - 1)
    BY <1>0, <1>8, <1>10
  <2>2. k - 1 \notin Bad
    <3> HIDE DEF Bad
    <3> QED BY <1>8, <2>1
  <2>3. Chain[k - 1] = Raw(k - 1)
    BY <2>1, <2>2
  <2>4. Chain[k] = Chain[k - 1] + (Raw(k) - Raw(k - 1))
    BY <1>2, <1>7, <1>10, <2>1
  <2>5. Chain[k] = Raw(k)
    BY <1>3, <2>1, <2>3, <2>4
  <2> QED BY <1>8, <2>5
<1> QED BY <1>9, <1>10

\* ... and the optimiser has nothing to move.
LEMMA EstimateIsRaw ==
  ASSUME GraphInv, RawInv, CleanInv, Clean, nodes = 1 .. Count, NEW e \in Estimates
  PROVE  \A k \in nodes : e[k] = Raw(k)
<1> DEFINE Rest(f) == f.rel - (Chain[f.to] - Chain[f.from])
<1>1. ASSUME NEW f \in factors PROVE Rest(f) = 0
  <2>1. Exact(f) /\ Count \in Nat
    BY CountIsNat DEF CleanInv, GraphInv
  <2>2. f.to \in 1 .. Count /\ f.from \in 1 .. Count
    BY <2>1 DEF Exact
  <2>3. /\ Chain[f.to] = Raw(f.to) /\ Chain[f.from] = Raw(f.from)
        /\ Raw(f.to) \in Int /\ Raw(f.from) \in Int
    BY <2>2, ChainIsRaw DEF RawInv
  <2> QED BY <2>1, <2>3 DEF Exact
<1>2. Estimates = {Chain}
  BY <1>1 DEF Estimates
<1> QED BY <1>2, ChainIsRaw

-----------------------------------------------------------------------------
LEMMA CleanStays ==
  ASSUME keyframes' = keyframes, factors' = factors
  PROVE  /\ Clean' <=> Clean
         /\ Count' = Count /\ Loops' = Loops
         /\ \A k : Raw(k)' = Raw(k)
         /\ \A f : Exact(f)' <=> Exact(f)
BY DEF Clean, Count, Loops, Raw, Exact

LEMMA CallbackMeasures ==
  ASSUME GraphInv, RawInv, CleanInv,
         \/ PoseCallback \/ PublishLatestOdom \/ CloudCallback \/ MakeContext
         \/ ReadPrev \/ ReadCurr, Starts \subseteq Int, MaxKeyframes \in Nat
  PROVE  RawInv' /\ CleanInv'
<1>1. /\ keyframes' = keyframes /\ factors' = factors /\ loop' = loop /\ graph' = graph /\ nodes' = nodes
  BY DEF PoseCallback, PublishLatestOdom, CloudCallback, MakeContext, ReadPrev, ReadCurr, isam
<1>2. /\ Clean' <=> Clean
      /\ Count' = Count /\ Loops' = Loops
      /\ \A k : Raw(k)' = Raw(k)
      /\ \A f : Exact(f)' <=> Exact(f)
  BY <1>1, CleanStays
<1>3. DOMAIN callback = {"pc", "prev", "rel"}
  BY DEF RawInv
<1>4. /\ DOMAIN callback' = {"pc", "prev", "rel"}
      /\ odom' = NoPose \/ odom' \in Int
      /\ callback'.pc = "save" => odom' \in Int
      /\ callback' = callback \/ callback'.pc \in {"save", "first", "prev", "curr", "add"}
  <2>1. CASE PoseCallback
    <3>1. odom' \in Starts \/ odom' \in 0 .. MaxKeyframes
      BY <2>1 DEF PoseCallback
    <3> QED BY <1>3, <2>1, <3>1 DEF PoseCallback
  <2>2. CASE PublishLatestOdom
    BY <1>3, <2>2 DEF PublishLatestOdom, RawInv, inputs
  <2>3. CASE CloudCallback
    BY <1>3, <2>3 DEF CloudCallback, RawInv
  <2>4. CASE MakeContext
    <3>1. callback'.pc = IF Count = 1 THEN "first" ELSE "prev"
      BY <1>3, <2>4 DEF MakeContext
    <3>2. callback'.pc \in {"first", "prev"}
      BY <3>1
    <3>3. odom' = odom /\ DOMAIN callback' = {"pc", "prev", "rel"}
      BY <1>3, <2>4 DEF MakeContext, inputs
    <3> QED BY <3>2, <3>3 DEF RawInv
  <2>5. CASE ReadPrev
    <3>1. odom' = odom /\ \E p : callback' = [callback EXCEPT !.pc = "curr", !.prev = p]
      BY <2>5 DEF ReadPrev, inputs
    <3> QED BY <1>3, <3>1 DEF RawInv
  <2>6. CASE ReadCurr
    <3>1. odom' = odom /\ \E p : callback' = [pc |-> "add", prev |-> NoPose, rel |-> p]
      BY <2>6 DEF ReadCurr, inputs
    <3> QED BY <3>1 DEF RawInv
  <2> QED BY <2>1, <2>2, <2>3, <2>4, <2>5, <2>6
<1>5. RawInv'
  BY <1>1, <1>2, <1>4 DEF RawInv
<1>6. ASSUME Clean
      PROVE  /\ callback'.pc = "curr" => callback'.prev = Raw(Count - 1)
             /\ callback'.pc = "add" => callback'.rel = Raw(Count) - Raw(Count - 1)
             /\ graph.by = "callback" => callback' = callback
  <2>0. /\ callback.pc = "curr" => callback.prev = Raw(Count - 1)
        /\ callback.pc = "add" => callback.rel = Raw(Count) - Raw(Count - 1)
        /\ graph.by = "callback" => callback.pc = "optimize"
        /\ \A k \in 1 .. Count : keyframes[k].pose = Raw(k)
        /\ Count \in Nat
    BY <1>6, CountIsNat DEF CleanInv, GraphInv, NodesInv
  <2>1. CASE callback' = callback
    BY <2>0, <2>1
  <2>2. CASE CloudCallback \/ MakeContext
    <3>1. callback'.pc \in {"save", "first", "prev"} /\ callback.pc # "optimize"
      BY <1>3, <2>2 DEF CloudCallback, MakeContext
    <3> QED BY <2>0, <3>1
  <2>3. CASE ReadPrev
    <3>1. /\ callback.pc = "prev" /\ callback'.pc = "curr" /\ callback'.prev = keyframes[Count - 1].pose
      BY <1>3, <2>3 DEF ReadPrev
    <3>2. Count - 1 \in 1 .. Count
      BY <2>0, <3>1 DEF GraphInv, NodesInv
    <3> QED BY <2>0, <3>1, <3>2
  <2>4. CASE ReadCurr
    <3>1. /\ callback.pc = "curr" /\ callback'.pc = "add"
          /\ callback'.rel = keyframes[Count].pose - callback.prev
      BY <2>4 DEF ReadCurr
    <3>2. Count \in 1 .. Count
      BY <2>0, <3>1 DEF GraphInv, NodesInv
    <3> QED BY <2>0, <3>1, <3>2
  <2> QED BY <2>1, <2>2, <2>3, <2>4 DEF PoseCallback, PublishLatestOdom
<1>7. CleanInv'
  BY <1>1, <1>2, <1>6 DEF CleanInv
<1> QED BY <1>5, <1>7

LEMMA KeyframeMeasures ==
  ASSUME GraphInv, RawInv, CleanInv, SaveKeyframe
  PROVE  RawInv' /\ CleanInv'
<1> DEFINE kf == [raw |-> odom, pose |-> odom]
<1>1. /\ keyframes' = Append(keyframes, kf) /\ odom' = odom /\ odom \in Int
      /\ factors' = factors /\ loop' = loop /\ graph' = graph /\ nodes' = nodes
      /\ callback' = [callback EXCEPT !.pc = "context"] /\ callback.pc = "save"
      /\ DOMAIN callback = {"pc", "prev", "rel"}
  BY DEF SaveKeyframe, isam, inputs, RawInv
<1>2. DOMAIN kf = {"raw", "pose"} /\ kf.raw = odom /\ kf.pose = odom
  OBVIOUS
<1> HIDE DEF kf
<1>3. PICK S : keyframes \in Seq(S)
  BY DEF GraphInv, Shape
<1>4. keyframes \in Seq(S \cup {kf})
  BY <1>3, SeqMonotonic
<1>5. /\ Count \in Nat /\ Count' = Count + 1 /\ keyframes'[Count + 1] = kf
      /\ \A k \in 1 .. Count : keyframes'[k] = keyframes[k]
  BY <1>1, <1>4, AppendProperties, LenProperties DEF Count
<1>6. /\ DOMAIN callback' = {"pc", "prev", "rel"} /\ callback'.pc = "context" /\ Loops' = Loops
  BY <1>1 DEF Loops
<1>7. \A k \in 1 .. Count' : k \in 1 .. Count \/ k = Count + 1
  BY <1>5
<1>8. \A k \in 1 .. Count' : DOMAIN keyframes'[k] = {"raw", "pose"} /\ Raw(k)' \in Int
  <2> SUFFICES ASSUME NEW k \in 1 .. Count'
               PROVE  DOMAIN keyframes'[k] = {"raw", "pose"} /\ keyframes'[k].raw \in Int
    BY DEF Raw
  <2>1. CASE k \in 1 .. Count
    BY <1>5, <2>1 DEF RawInv, Raw
  <2>2. CASE k = Count + 1
    BY <1>1, <1>2, <1>5, <2>2
  <2> QED BY <1>7, <2>1, <2>2
<1>9. RawInv'
  BY <1>1, <1>6, <1>8 DEF RawInv
<1>10. ASSUME Clean' PROVE Clean
  <2>1. ASSUME Count > 0 PROVE keyframes[1].raw = 0
    <3>1. Count' > 0 /\ 1 \in 1 .. Count
      BY <1>5, <2>1
    <3> QED BY <1>5, <1>10, <3>1 DEF Clean
  <2> QED BY <1>6, <1>10, <2>1 DEF Clean
<1>11. ASSUME Clean PROVE \A k \in 1 .. Count' : keyframes'[k].pose = Raw(k)'
  BY <1>2, <1>5, <1>7, <1>11 DEF CleanInv, Raw
<1>12. ASSUME Clean, NEW f \in factors PROVE Exact(f)'
  <2>1. Exact(f)
    BY <1>12 DEF CleanInv
  <2>2. f.to \in 1 .. Count /\ f.from \in 1 .. Count /\ f.to \in 2 .. Count'
    BY <1>5, <2>1 DEF Exact
  <2> QED BY <1>5, <2>1, <2>2 DEF Exact, Raw
<1>13. graph.by # "callback"
  BY <1>1 DEF GraphInv, NodesInv
<1>14. CleanInv'
  BY <1>1, <1>6, <1>10, <1>11, <1>12, <1>13 DEF CleanInv
<1> QED BY <1>9, <1>14

\* addFactor of the callback, and the prior.
LEMMA FactorMeasures ==
  ASSUME GraphInv, RawInv, CleanInv, AddPrior \/ AddOdometry
  PROVE  RawInv' /\ CleanInv'
<1>1. /\ keyframes' = keyframes /\ odom' = odom /\ loop' = loop /\ graph' = graph
      /\ DOMAIN callback' = {"pc", "prev", "rel"} /\ callback'.pc = "optimize"
      /\ graph.by # "callback"
  <2>1. DOMAIN callback = {"pc", "prev", "rel"}
    BY DEF RawInv
  <2>2. CASE AddPrior
    BY <2>1, <2>2 DEF AddPrior, inputs, GraphInv, NodesInv
  <2>3. CASE AddOdometry
    BY <2>3 DEF AddOdometry, inputs, GraphInv, NodesInv, Idle
  <2> QED BY <2>2, <2>3
<1>2. /\ Count' = Count /\ Count \in Nat
      /\ \A k : Raw(k)' = Raw(k)
      /\ \A f : Exact(f)' <=> Exact(f)
  BY <1>1, CountIsNat DEF Count, Raw, Exact, GraphInv
<1>3. factors \subseteq factors'
  BY DEF AddPrior, AddOdometry, AddFactor
<1>4. Loops \subseteq Loops'
  BY <1>3 DEF Loops
<1>5. RawInv'
  BY <1>1, <1>2, <1>4 DEF RawInv
<1>6. Clean' => Clean
  BY <1>1, <1>2, <1>4 DEF Clean
<1>7. ASSUME Clean, NEW f \in factors' PROVE Exact(f)
  <2>1. CASE f \in factors
    BY <1>7, <2>1 DEF CleanInv
  <2>2. CASE f \notin factors
    <3>1. AddOdometry
      BY <1>7, <2>2 DEF AddPrior
    <3>2. f = [from |-> Count - 1, to |-> Count, rel |-> callback.rel, kind |-> "odometry"] /\ callback.pc = "add"
      BY <1>7, <2>2, <3>1 DEF AddOdometry, AddFactor
    <3>3. callback.rel = Raw(Count) - Raw(Count - 1) /\ Count \in 2 .. Count
      BY <1>2, <1>7, <3>2 DEF CleanInv, GraphInv, NodesInv
    <3> QED BY <3>2, <3>3 DEF Exact
  <2> QED BY <2>1, <2>2
<1>8. CleanInv'
  BY <1>1, <1>2, <1>6, <1>7 DEF CleanInv
<1> QED BY <1>5, <1>8

LEMMA LoopMeasures ==
  ASSUME GraphInv, RawInv, CleanInv, Wake \/ Detect \/ Verify \/ AddLoop
  PROVE  RawInv' /\ CleanInv'
<1>1. /\ keyframes' = keyframes /\ odom' = odom /\ callback' = callback /\ graph' = graph
  BY DEF Wake, Detect, Verify, AddLoop, inputs
<1>2. Count' = Count /\ \A k : Raw(k)' = Raw(k)
  BY <1>1 DEF Count, Raw
<1>3. {"pc", "curr", "cand", "rel"} \subseteq DOMAIN loop
  BY DEF GraphInv, Shape
<1>4. CASE AddLoop
  <2>1. [from |-> loop.cand, to |-> loop.curr, rel |-> loop.rel, kind |-> "loop"] \in factors' /\ GraphFree
    BY <1>4 DEF AddLoop, AddFactor
  <2>2. Loops' # {}
    BY <2>1 DEF Loops
  <2>3. RawInv'
    BY <1>1, <1>2, <2>1, <2>2 DEF RawInv, GraphFree
  <2> QED BY <2>2, <2>3 DEF Clean, CleanInv
<1>5. CASE Wake \/ Detect \/ Verify
  <2>1. /\ factors' = factors /\ nodes' = nodes /\ loop.pc \in {"sleep", "detect", "verify"}
    BY <1>5 DEF Wake, Detect, Verify, isam, AsleepLoop
  <2>2. loop'.pc # "optimize"
    <3>1. CASE Wake
      BY <3>1 DEF Wake, Sleep
    <3>2. CASE Detect
      <4>1. loop' = Sleep \/ \E c : loop' = [loop EXCEPT !.pc = "verify", !.cand = c]
        BY <3>2 DEF Detect
      <4>2. Sleep.pc = "sleep"
        BY DEF Sleep
      <4>3. ASSUME NEW c, loop' = [loop EXCEPT !.pc = "verify", !.cand = c] PROVE loop'.pc = "verify"
        BY <1>3, <4>3
      <4> QED BY <4>1, <4>2, <4>3
    <3>3. CASE Verify
      <4>1. loop' = Sleep \/ \E r : loop' = [loop EXCEPT !.pc = "add", !.rel = r]
        BY <3>3 DEF Verify
      <4>2. Sleep.pc = "sleep"
        BY DEF Sleep
      <4>3. ASSUME NEW r, loop' = [loop EXCEPT !.pc = "add", !.rel = r] PROVE loop'.pc = "add"
        BY <1>3, <4>3
      <4> QED BY <4>1, <4>2, <4>3
    <3> QED BY <1>5, <3>1, <3>2, <3>3
  <2>3. RawInv'
    BY <1>1, <1>2, <2>1, <2>2 DEF RawInv
  <2>4. CleanInv'
    BY <1>1, <1>2, <2>1, CleanStays DEF CleanInv
  <2> QED BY <2>3, <2>4
<1> QED BY <1>4, <1>5

LEMMA OptimizeMeasures ==
  ASSUME GraphInv, RawInv, CleanInv, NEW who \in {"callback", "loop"},
         Estimate(who) \/ Rewrite(who) \/ Publish(who)
  PROVE  RawInv' /\ CleanInv'
<1>1. /\ factors' = factors /\ odom' = odom /\ nodes' = nodes /\ Count' = Count /\ Count \in Nat /\ Loops' = Loops
  BY OptimizeStep, CountIsNat DEF Estimate, Rewrite, Publish, isam, inputs, GraphInv, Loops
<1>2. CASE Estimate(who)
  <2>1. /\ keyframes' = keyframes /\ callback' = callback /\ loop' = loop
        /\ who = "callback" => callback.pc = "optimize"
        /\ who = "loop" => loop.pc = "optimize"
    BY <1>2 DEF Estimate, Optimizing
  <2>2. PICK e \in Estimates : graph' = [by |-> who, estimate |-> e, next |-> 1]
    BY <1>2 DEF Estimate
  <2>3. RawInv'
    BY <1>1, <2>1, <2>2, CleanStays DEF RawInv
  <2>4. ASSUME Clean, who = "callback" PROVE \A k \in nodes : e[k] = Raw(k)
    <3>1. nodes = 1 .. Count
      BY <2>1, <2>4 DEF GraphInv, NodesInv
    <3> QED BY <2>4, <3>1, EstimateIsRaw
  <2>5. CleanInv'
    BY <1>1, <2>1, <2>2, <2>4, CleanStays DEF CleanInv
  <2> QED BY <2>3, <2>5
<1>3. CASE Publish(who)
  <2>1. /\ keyframes' = keyframes /\ graph' = Free /\ graph.by = who
        /\ callback' = callback \/ callback' = Idle
        /\ loop' = loop \/ loop' = Sleep
    BY <1>3 DEF Publish
  <2>2. /\ DOMAIN graph' = {"by", "estimate", "next"} /\ graph'.by = "none"
        /\ DOMAIN callback' = {"pc", "prev", "rel"}
        /\ callback'.pc = "save" => odom \in Int
        /\ loop'.pc = "optimize" => Loops # {}
    BY <2>1 DEF Free, Idle, Sleep, RawInv
  <2>3. RawInv'
    BY <1>1, <2>1, <2>2, CleanStays DEF RawInv
  <2>4. callback' = callback \/ callback'.pc = "idle"
    BY <2>1 DEF Idle
  <2>5. CleanInv'
    BY <1>1, <2>1, <2>2, <2>4, CleanStays DEF CleanInv
  <2> QED BY <2>3, <2>5
<1>4. CASE Rewrite(who)
  <2>1. /\ callback' = callback /\ loop' = loop /\ graph.by = who
        /\ graph' = [graph EXCEPT !.next = @ + 1] /\ DOMAIN graph = {"by", "estimate", "next"}
        /\ graph.next \in 1 .. Count
    BY <1>1, <1>4 DEF Rewrite, RawInv, GraphInv, Shape
  <2>2. PICK n \in 1 .. Count : n = graph.next
    BY <2>1
  <2>3. \/ keyframes' = keyframes
        \/ n \in nodes /\ keyframes' = [keyframes EXCEPT ![n].pose = graph.estimate[n]]
    BY <1>4, <2>2 DEF Rewrite
  <2>4. /\ DOMAIN graph' = {"by", "estimate", "next"} /\ graph'.by = graph.by /\ graph'.estimate = graph.estimate
    BY <2>1
  <2>5. PICK S : keyframes \in Seq(S)
    BY DEF GraphInv, Shape
  <2>6. DOMAIN keyframes = 1 .. Count
    BY <2>5, LenProperties DEF Count
  <2>7. ASSUME NEW k \in 1 .. Count
        PROVE  /\ DOMAIN keyframes'[k] = {"raw", "pose"} /\ keyframes'[k].raw = keyframes[k].raw
               /\ \/ keyframes'[k].pose = keyframes[k].pose
                  \/ k \in nodes /\ keyframes'[k].pose = graph.estimate[k]
    <3>1. DOMAIN keyframes[k] = {"raw", "pose"}
      BY DEF RawInv
    <3>2. CASE keyframes'[k] = keyframes[k]
      BY <3>1, <3>2
    <3>3. CASE keyframes'[k] # keyframes[k]
      <4>1. k = n /\ n \in nodes /\ keyframes'[k] = [keyframes[k] EXCEPT !.pose = graph.estimate[k]]
        BY <2>3, <2>6, <3>3
      <4> QED BY <3>1, <4>1
    <3> QED BY <3>2, <3>3
  <2>8. \A k \in 1 .. Count : Raw(k)' = Raw(k)
    BY <2>7 DEF Raw
  <2>9. RawInv'
    BY <1>1, <2>1, <2>4, <2>7, <2>8 DEF RawInv
  <2>10. Clean' => Clean
    <3>1. Count > 0 => 1 \in 1 .. Count
      BY <1>1
    <3> QED BY <1>1, <2>7, <3>1 DEF Clean
  <2>11. ASSUME Clean
         PROVE  /\ graph.by = "callback"
                /\ \A k \in 1 .. Count : keyframes'[k].pose = Raw(k)
                /\ \A k \in nodes : k \in 1 .. Count
    <3>1. Loops = {} /\ graph.by = "callback"
      BY <2>1, <2>11 DEF Clean, RawInv
    <3>2. /\ \A k \in nodes : graph.estimate[k] = Raw(k)
          /\ \A k \in 1 .. Count : keyframes[k].pose = Raw(k)
      BY <2>11, <3>1 DEF CleanInv
    <3>3. nodes \subseteq 1 .. Count
      BY DEF GraphInv, NodesInv
    <3> QED BY <2>7, <3>1, <3>2, <3>3
  <2>12. ASSUME Clean, NEW f \in factors PROVE Exact(f)'
    <3>1. Exact(f)
      BY <2>12 DEF CleanInv
    <3>2. f.to \in 1 .. Count /\ f.from \in 1 .. Count
      BY <1>1, <3>1 DEF Exact
    <3> QED BY <1>1, <2>8, <3>1, <3>2 DEF Exact
  <2>13. callback.pc = "optimize" \/ graph.by # "callback"
    BY DEF GraphInv, NodesInv
  <2>14. CleanInv'
    BY <1>1, <2>1, <2>4, <2>8, <2>10, <2>11, <2>12, <2>13 DEF CleanInv
  <2> QED BY <2>9, <2>14
<1> QED BY <1>2, <1>3, <1>4

\* Until a loop is closed, what the optimiser is told is what the odometry measured.
THEOREM FactorsAreMeasured ==
  ASSUME LoopMinIndexDiff \in Nat, NumExcludeRecent \in Nat, MaxKeyframes \in Nat, Starts \subseteq Int
  PROVE  Spec => []MeasuredBeforeLoops
<1>1. GraphInv /\ CleanInv => MeasuredBeforeLoops
  <2> SUFFICES ASSUME CleanInv, Loops = {}, Count > 0 => keyframes[1].raw = 0, NEW f \in Odometry
               PROVE  f.rel = Displacement(f)
    BY DEF MeasuredBeforeLoops, OdometryIsMeasured
  <2>1. Exact(f)
    BY DEF CleanInv, Clean, Odometry
  <2> QED BY <2>1 DEF Exact, Displacement, Raw
<1>2. GraphInv /\ RawInv /\ CleanInv /\ [Next]_vars => RawInv' /\ CleanInv'
  <2> SUFFICES ASSUME GraphInv, RawInv, CleanInv, [Next]_vars PROVE RawInv' /\ CleanInv'
    OBVIOUS
  <2>1. CASE UNCHANGED vars
    <3>1. /\ keyframes' = keyframes /\ factors' = factors /\ nodes' = nodes /\ odom' = odom
          /\ callback' = callback /\ loop' = loop /\ graph' = graph
      BY <2>1 DEF vars, inputs, isam
    <3> QED BY <3>1, CleanStays DEF RawInv, CleanInv
  <2> QED BY <2>1, CallbackMeasures, KeyframeMeasures, FactorMeasures, LoopMeasures, OptimizeMeasures DEF Next
<1> QED BY <1>1, <1>2, InitMeasured, InitDetermined, StepDetermined, PTL DEF Spec
=============================================================================
