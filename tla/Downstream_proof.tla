--------------------------- MODULE Downstream_proof ---------------------------
(***************************************************************************)
(* The nodes that live on what FAST-LIO publishes, for any messages in any *)
(* order.  fastlio_to_fcu: the published pose never jumps and the averaged *)
(* ring stays in the bounds it has entered.  map_localizer: a localised    *)
(* pose belongs to its scan.  sc_pgo_node: what PoseGraph_proof shows of   *)
(* the graph holds of the graph of this composition.  cloud_filter_node    *)
(* and shape_detect_node: accumulation makes no ghosts, and a published    *)
(* ring was seen often and lately.  SCManager: a place is recognised       *)
(* though the drone has turned.                                            *)
(***************************************************************************)
EXTENDS MCDownstream, SequenceTheorems, FiniteSetTheorems, WellFoundedInduction, TLAPS

(* fastlio_to_fcu: the pose and the averaged ring.                         *)

Known(S) == S \cup {Nothing}

\* The watchdog compares with the pose published last, and every shift is a
\* number, however many corrections were averaged.
FcuInv ==
  /\ lastPose = odomPose
  /\ raw \in Known(Poses) /\ pgoShift \in Known(Int) /\ icpShift \in Known(Int)
  /\ lastPose \in Known(Int) /\ lastSpeed \in Known(Speeds)
  /\ count \in 0 .. StationaryFrames
  /\ ring \in Known(Detections) /\ ringEma \in Int

\* An average of two numbers within the bounds is within them, rounded or not.
LEMMA SmoothInBounds ==
  ASSUME NEW a \in Int, NEW b \in Int, InWorldBounds(a), InWorldBounds(b)
  PROVE  InWorldBounds(Smooth(a, b, 30))
BY DEF Smooth, InWorldBounds

\* What one odometry message does to the pose.
LEMMA OdomStep ==
  ASSUME FcuInv, NEW p \in Poses, NEW v \in Speeds, OdomCallback(p, v)
  PROVE  /\ odomPose' = lastPose' /\ odomPose' \in Int /\ count' \in 0 .. StationaryFrames
         /\ odomPose # Nothing => Abs(odomPose' - odomPose) <= MaxJump(count')
<1> USE FcuAssumption DEF FcuInv, Known, StationaryFrames
<1>1. count' \in 0 .. StationaryFrames
  BY DEF OdomCallback
<1>2. Corrected(p) \in Int
  BY DEF Corrected
<1>3. odomPose' = lastPose' /\ odomPose' = Accepted(Corrected(p), count')
  BY DEF OdomCallback
<1>4. MaxJump(count') \in Nat
  BY DEF MaxJump
<1> QED
  BY <1>1, <1>2, <1>3, <1>4 DEF Accepted, Abs

\* A message keeps what FcuInv says, and an averaged ring that is within the bounds.
LEMMA FcuStep ==
  ASSUME FcuInv, Next
  PROVE  FcuInv' /\ (InWorldBounds(ringEma) => InWorldBounds(ringEma'))
<1> USE FcuAssumption DEF FcuInv, Known
<1>1. CASE ImuCallback \/ RingTimeout \/ \E d \in Detections : RingCallback(d)
  BY <1>1 DEF ImuCallback, RingTimeout, RingCallback, filters, outputs
<1>2. ASSUME NEW p \in Poses, PgoCallback(p) PROVE FcuInv' /\ ringEma' = ringEma
  <2>1. p - raw \in Int
    BY <1>2 DEF PgoCallback
  <2>2. pgoShift' \in Known(Int)
    <3>1. CASE pgoShift \in Int
      <4>1. Smooth(pgoShift, p - raw, 50) \in Int /\ Smooth(pgoShift, p - raw, 15) \in Int
        BY <2>1, <3>1 DEF Smooth
      <4> QED
        BY <1>2, <2>1, <3>1, <4>1 DEF PgoCallback
    <3>2. CASE pgoShift = Nothing
      BY <1>2, <2>1, <3>2 DEF PgoCallback
    <3> QED
      BY <3>1, <3>2
  <2> QED
    BY <1>2, <2>2 DEF PgoCallback, filters, outputs
<1>3. ASSUME NEW p \in Poses, LocalizedCallback(p) PROVE FcuInv' /\ ringEma' = ringEma
  <2>1. p - raw \in Int
    BY <1>3 DEF LocalizedCallback
  <2>2. icpShift' \in Known(Int)
    BY <1>3, <2>1 DEF LocalizedCallback, Smooth
  <2> QED
    BY <1>3, <2>2 DEF LocalizedCallback, filters, outputs
<1>4. ASSUME NEW p \in Poses, NEW v \in Speeds, OdomCallback(p, v)
      PROVE  FcuInv' /\ (InWorldBounds(ringEma) => InWorldBounds(ringEma'))
  <2>1. odomPose' = lastPose' /\ odomPose' \in Int /\ count' \in 0 .. StationaryFrames
    BY <1>4, OdomStep
  <2>2. ringEma' = RingFiltered(odomPose')
    BY <1>4 DEF OdomCallback
  <2>3. CASE ring # Nothing /\ fresh /\ InWorldBounds(odomPose' + ring)
    <3>1. odomPose' + ring \in Int
      BY <2>1, <2>3
    <3>2. ringEma' = Smooth(ringEma, odomPose' + ring, 30)
      BY <2>2, <2>3 DEF RingFiltered
    <3>3. Smooth(ringEma, odomPose' + ring, 30) \in Int
      BY <3>1 DEF Smooth
    <3>4. InWorldBounds(ringEma) => InWorldBounds(Smooth(ringEma, odomPose' + ring, 30))
      BY <2>3, <3>1, SmoothInBounds
    <3>5. ringEma' \in Int /\ (InWorldBounds(ringEma) => InWorldBounds(ringEma'))
      BY <3>2, <3>3, <3>4 DEF InWorldBounds
    <3> QED
      BY <1>4, <2>1, <3>5 DEF OdomCallback, Watched
  <2>4. CASE ~(ring # Nothing /\ fresh /\ InWorldBounds(odomPose' + ring))
    <3>1. ringEma' = ringEma
      BY <2>2, <2>4 DEF RingFiltered
    <3> QED
      BY <1>4, <2>1, <3>1 DEF OdomCallback, Watched
  <2> QED
    BY <2>3, <2>4
<1> QED
  BY <1>1, <1>2, <1>3, <1>4 DEF Next

LEMMA FcuAlways == Spec => []FcuInv
<1>1. Init => FcuInv
  BY FcuAssumption DEF Init, FcuInv, Known, StationaryFrames
<1>2. FcuInv /\ [Next]_vars => FcuInv'
  <2>1. ASSUME FcuInv, UNCHANGED vars PROVE FcuInv'
    BY <2>1 DEF FcuInv, vars, inputs, filters, outputs
  <2> QED
    BY <2>1, FcuStep
<1> QED
  BY <1>1, <1>2, PTL DEF Spec

\* The pose published moves by at most a metre a message, 15 cm when stationary.
THEOREM PoseNeverJumps == Spec => NoJump
<1>1. FcuInv /\ [Next]_vars => [odomPose # Nothing => Abs(odomPose' - odomPose) <= MaxJump(count')]_vars
  <2> SUFFICES ASSUME FcuInv, Next, odomPose # Nothing
               PROVE  Abs(odomPose' - odomPose) <= MaxJump(count')
    OBVIOUS
  <2>1. CASE UNCHANGED <<odomPose, count>>
    <3>1. odomPose \in Int
      BY DEF FcuInv, Known
    <3>2. Abs(odomPose' - odomPose) = 0
      BY <2>1, <3>1 DEF Abs
    <3>3. MaxJump(count') >= 0
      BY DEF MaxJump
    <3> QED
      BY <3>2, <3>3
  <2>2. CASE \E p \in Poses, v \in Speeds : OdomCallback(p, v)
    BY <2>2, OdomStep
  <2>3. UNCHANGED <<odomPose, count>> \/ \E p \in Poses, v \in Speeds : OdomCallback(p, v)
    BY DEF Next, ImuCallback, RingTimeout, RingCallback, PgoCallback, LocalizedCallback, filters, outputs
  <2> QED
    BY <2>1, <2>2, <2>3
<1> QED
  BY <1>1, FcuAlways, PTL DEF Spec, NoJump

\* The averaged ring never leaves the bounds again.
THEOREM RingNeverLeaves == Spec => RingStaysInBounds
<1>1. FcuInv /\ [Next]_vars => [InWorldBounds(ringEma) => InWorldBounds(ringEma')]_vars
  BY FcuStep
<1> QED
  BY <1>1, FcuAlways, PTL DEF Spec, RingStaysInBounds

-----------------------------------------------------------------------------
(* map_localizer: the scan and the odometry of a localised pose.           *)

\* The numbers up to n that a subscription has not handed on or dropped.
UpTo(queue, n) == queue \in Seq(Nat) /\ \A i \in 1 .. Len(queue) : queue[i] = n - Len(queue) + i
Newest(queue, n) == UpTo(queue, n) /\ Len(queue) <= Depth

\* By how many messages the odometry is ahead: published, and taken or dropped.
Lead     == odoms - clouds
LeadGone == (odoms - Len(odomQueue)) - (clouds - Len(cloudQueue))

\* The last odometry is the one before the first that waits.
Fresh == latest # Nothing => latest = odoms - Len(odomQueue)

MapTypes ==
  /\ mapReady \in BOOLEAN /\ odoms \in Nat /\ clouds \in Nat /\ Lead \in {0, 1}
  /\ Newest(odomQueue, odoms) /\ Newest(cloudQueue, clouds)
  /\ round \in {{}, {"odom"}, {"cloud"}, {"odom", "cloud"}} /\ running \in {"none", "slow", "quick", "over"}
  /\ latest \in Nat \cup {Nothing}
  /\ ~mapReady => odomQueue = <<>> /\ cloudQueue = <<>> /\ running = "slow" /\ latest = Nothing

\* Where a round stands and what it leaves of the two queues.
Rounds ==
  /\ running = "slow" => round = {} /\ LeadGone \in {0, 1}
  /\ Len(odomQueue) = 0 => Fresh
  /\ running = "none" => round # {}
  /\ round = {"odom", "cloud"} => running = "none" /\ LeadGone \in {0, 1} /\ Len(odomQueue) > 0 /\ Len(cloudQueue) > 0
  /\ round = {"odom"} => running = "none" /\ Lead = 1 /\ LeadGone = 0 /\ Len(cloudQueue) = 0
  /\ round = {"cloud"} => Fresh /\ LeadGone \in {1, 2} /\ Len(cloudQueue) > 0
  /\ running = "quick" => Len(odomQueue) < Depth
  /\ round = {} /\ running = "quick" => Lead = 1 /\ Len(odomQueue) = 0 /\ Len(cloudQueue) = 0
  /\ round = {} /\ running = "over" => Lead = 0 /\ LeadGone = 1 /\ Len(odomQueue) = 0

MapInv == MapTypes /\ Rounds /\ PairedScan

\* Taking the oldest message, adding the next one, dropping the oldest when the queue is full.
LEMMA TailUpTo ==
  ASSUME NEW q, NEW n \in Nat, UpTo(q, n), q # <<>>
  PROVE  /\ UpTo(Tail(q), n) /\ Len(Tail(q)) = Len(q) - 1 /\ Len(q) \in Nat
         /\ Head(q) = n - Len(q) + 1 /\ Head(q) \in Nat
<1>1. q \in Seq(Nat) /\ Len(q) \in Nat \ {0}
  BY EmptySeq DEF UpTo
<1>2. PICK k \in Seq(Nat) : /\ k = Tail(q) /\ Len(k) = Len(q) - 1 /\ Head(q) \in Nat
                            /\ \A i \in 1 .. Len(k) : k[i] = q[i + 1]
  BY <1>1, HeadTailProperties
<1>3. Head(q) = q[1] /\ q[1] = n - Len(q) + 1
  BY <1>1 DEF UpTo
<1>4. ASSUME NEW i \in 1 .. Len(k) PROVE k[i] = n - Len(k) + i
  <2>1. k[i] = q[i + 1] /\ i + 1 \in 1 .. Len(q)
    BY <1>1, <1>2
  <2>2. q[i + 1] = n - Len(q) + (i + 1)
    BY <2>1 DEF UpTo
  <2>. QED BY <1>1, <1>2, <2>1, <2>2
<1>5. UpTo(k, n)
  BY <1>4 DEF UpTo
<1>. QED BY <1>1, <1>2, <1>3, <1>5

LEMMA AppendUpTo ==
  ASSUME NEW q, NEW n \in Nat, UpTo(q, n)
  PROVE  /\ UpTo(Append(q, n + 1), n + 1) /\ Append(q, n + 1) # <<>>
         /\ Len(Append(q, n + 1)) = Len(q) + 1 /\ Len(q) \in Nat
<1>1. q \in Seq(Nat) /\ n + 1 \in Nat /\ Len(q) \in Nat
  BY LenProperties DEF UpTo
<1>2. PICK k \in Seq(Nat) : /\ k = Append(q, n + 1) /\ k # <<>> /\ Len(k) = Len(q) + 1
                            /\ \A i \in 1 .. Len(q) : k[i] = q[i]
                            /\ k[Len(q) + 1] = n + 1
  BY <1>1, AppendProperties
<1>3. ASSUME NEW i \in 1 .. Len(k) PROVE k[i] = n + 1 - Len(k) + i
  BY <1>1, <1>2 DEF UpTo
<1>. QED BY <1>1, <1>2, <1>3 DEF UpTo

LEMMA KeptIsNewest ==
  ASSUME Depth \in Nat \ {0}, NEW q, NEW n \in Nat, Newest(q, n)
  PROVE  /\ Newest(Map!Kept(q, Depth, n + 1), n + 1)
         /\ \/ Len(q) < Depth /\ Len(Map!Kept(q, Depth, n + 1)) = Len(q) + 1
            \/ Len(q) = Depth /\ Len(Map!Kept(q, Depth, n + 1)) = Depth
<1>1. PICK longer : /\ longer = Append(q, n + 1) /\ longer # <<>> /\ UpTo(longer, n + 1)
                    /\ Len(longer) = Len(q) + 1 /\ Len(q) \in Nat /\ Len(q) <= Depth
  BY AppendUpTo DEF Newest
<1>2. Map!Kept(q, Depth, n + 1) = IF Len(longer) > Depth THEN Tail(longer) ELSE longer
  BY <1>1 DEF Map!Kept
<1>3. PICK k : k = Tail(longer) /\ UpTo(k, n + 1) /\ Len(k) = Len(longer) - 1
  <2>1. n + 1 \in Nat
    OBVIOUS
  <2>. QED BY <1>1, <2>1, TailUpTo
<1>4. PICK m : m = Map!Kept(q, Depth, n + 1) /\ m = IF Len(longer) > Depth THEN k ELSE longer
  BY <1>2, <1>3
<1>5. (Len(q) < Depth /\ Len(m) = Len(q) + 1) \/ (Len(q) = Depth /\ Len(m) = Depth)
  BY <1>1, <1>3, <1>4
<1>6. Newest(m, n + 1)
  <2>1. UpTo(m, n + 1)
    BY <1>1, <1>3, <1>4
  <2>2. Len(m) <= Depth
    BY <1>1, <1>5
  <2>. QED BY <2>1, <2>2 DEF Newest
<1>. QED BY <1>4, <1>5, <1>6

LEMMA TailIsNewest ==
  ASSUME Depth \in Nat, NEW q, NEW n \in Nat, Newest(q, n), q # <<>>
  PROVE  /\ Newest(Tail(q), n) /\ Len(Tail(q)) = Len(q) - 1
         /\ Head(q) = n - Len(q) + 1 /\ Head(q) \in Nat
<1>1. PICK k : k = Tail(q) /\ UpTo(k, n) /\ Len(k) = Len(q) - 1 /\ Len(q) \in Nat
  BY TailUpTo DEF Newest
<1>. QED BY <1>1, TailUpTo DEF Newest

\* Before the map is there nothing waits.
LEMMA MapStarts ==
  ASSUME Depth \in Nat \ {0}
  PROVE  Map!Init => MapInv
<1>1. <<>> \in Seq(Nat) /\ Len(<<>>) = 0
  OBVIOUS
<1>. QED
  BY <1>1, FcuAssumption DEF Map!Init, MapInv, MapTypes, Rounds, Fresh, Lead, LeadGone, UpTo, Newest, PairedScan, Map!PairedScan

\* A queue is empty when it has no message.
LEMMA LenIs ==
  ASSUME NEW q, NEW n, Newest(q, n)
  PROVE  Len(q) \in Nat /\ (Len(q) = 0 <=> q = <<>>)
BY EmptySeq DEF UpTo, Newest

LEMMA MapStep ==
  ASSUME Depth \in Nat \ {0}, MapInv, [Map!Next]_Map!vars
  PROVE  MapInv'
<1>0. /\ Len(<<>>) = 0
      /\ Len(odomQueue) \in Nat /\ (Len(odomQueue) = 0 <=> odomQueue = <<>>)
      /\ Len(cloudQueue) \in Nat /\ (Len(cloudQueue) = 0 <=> cloudQueue = <<>>)
      /\ Len(odomQueue) <= Depth /\ Len(cloudQueue) <= Depth
  BY LenIs DEF MapInv, MapTypes, Newest
<1>00. /\ odoms \in Nat /\ clouds \in Nat /\ Lead \in {0, 1} /\ latest \in Nat \cup {Nothing}
       /\ ~mapReady => Len(odomQueue) = 0 /\ Len(cloudQueue) = 0 /\ running = "slow" /\ latest = Nothing
  BY <1>0 DEF MapInv, MapTypes
<1>01. LeadGone = Lead - Len(odomQueue) + Len(cloudQueue)
  BY <1>0, <1>00 DEF Lead, LeadGone
<1>1. CASE Map!PublishOdometry
  <2>1. /\ Newest(odomQueue', odoms')
       /\ \/ ~mapReady /\ Len(odomQueue') = 0
          \/ mapReady /\ Len(odomQueue) < Depth /\ Len(odomQueue') = Len(odomQueue) + 1
          \/ mapReady /\ Len(odomQueue) = Depth /\ Len(odomQueue') = Depth
    <3>1. CASE ~mapReady
      BY <3>1, <1>1, EmptySeq DEF Map!PublishOdometry, Map!OdomKept, UpTo, Newest, MapInv, MapTypes
    <3>2. CASE mapReady
      <4>1. odomQueue' = Map!Kept(odomQueue, Depth, odoms + 1) /\ odoms' = odoms + 1
        BY <3>2, <1>1 DEF Map!PublishOdometry, Map!OdomKept
      <4>. QED BY <4>1, <3>2, KeptIsNewest DEF MapInv, MapTypes
    <3>. QED BY <3>1, <3>2
  <2>2. odomQueue' # <<>> \/ ~mapReady
    BY <2>1, <1>0
  <2>3. /\ odoms' = odoms + 1 /\ odoms = clouds /\ running \in {"slow", "quick"}
        /\ running' = IF running = "quick" THEN "over" ELSE running
        /\ UNCHANGED <<mapReady, clouds, cloudQueue, round, latest, localized>>
    BY <1>1 DEF Map!PublishOdometry, Map!Passed
  <2>4. ~mapReady => odomQueue' = <<>>
    BY <1>1 DEF Map!PublishOdometry, Map!OdomKept, MapInv, MapTypes
  <2>5. MapTypes'
    BY <2>1, <2>3, <2>4 DEF MapInv, MapTypes, Lead
  <2>6. Rounds'
    <3>1. CASE running = "slow"
      <4>1. LeadGone \in {0, 1} /\ running' = "slow" /\ round' = {} /\ (Len(odomQueue) = 0 => Fresh)
        BY <3>1, <2>3 DEF MapInv, Rounds
      <4>2. LeadGone' \in {0, 1} /\ (Len(odomQueue') = 0 => Fresh')
        BY <1>0, <1>00, <2>1, <2>3, <4>1 DEF LeadGone, Lead, Fresh
      <4>. QED BY <4>1, <4>2 DEF Rounds
    <3>2. CASE running = "quick" /\ round = {"cloud"}
      <4>1. /\ round' = {"cloud"} /\ running' = "over" /\ mapReady /\ Fresh
            /\ LeadGone \in {1, 2} /\ Len(odomQueue) < Depth /\ Len(cloudQueue) > 0
        BY <3>2, <1>00, <2>3 DEF MapInv, Rounds
      <4>2. LeadGone' \in {1, 2} /\ Fresh' /\ Len(cloudQueue') > 0
        BY <1>0, <1>00, <2>1, <2>3, <4>1 DEF LeadGone, Lead, Fresh
      <4>. QED BY <4>1, <4>2 DEF Rounds
    <3>3. ~(running = "quick" /\ round = {})
      BY <1>00, <2>3 DEF MapInv, Rounds, Lead
    <3>4. running = "quick" => round \in {{}, {"cloud"}}
      BY DEF MapInv, MapTypes, Rounds
    <3>. QED BY <2>3, <3>1, <3>2, <3>3, <3>4
  <2>7. PairedScan'
    BY <2>3 DEF MapInv, PairedScan, Map!PairedScan
  <2>. QED BY <2>5, <2>6, <2>7 DEF MapInv
<1>2. CASE Map!PublishCloud
  <2>1. /\ Newest(cloudQueue', clouds')
       /\ \/ ~mapReady /\ Len(cloudQueue') = 0
          \/ mapReady /\ Len(cloudQueue) < Depth /\ Len(cloudQueue') = Len(cloudQueue) + 1
          \/ mapReady /\ Len(cloudQueue) = Depth /\ Len(cloudQueue') = Depth
    <3>1. CASE ~mapReady
      BY <3>1, <1>2, EmptySeq DEF Map!PublishCloud, Map!CloudKept, UpTo, Newest, MapInv, MapTypes
    <3>2. CASE mapReady
      <4>1. cloudQueue' = Map!Kept(cloudQueue, Depth, clouds + 1) /\ clouds' = clouds + 1
        BY <3>2, <1>2 DEF Map!PublishCloud, Map!CloudKept
      <4>. QED BY <4>1, <3>2, KeptIsNewest DEF MapInv, MapTypes
    <3>. QED BY <3>1, <3>2
  <2>2. cloudQueue' # <<>> \/ ~mapReady
    BY <2>1, <1>0
  <2>3. /\ clouds' = clouds + 1 /\ clouds < odoms /\ running \in {"slow", "quick"}
        /\ running' = IF running = "quick" THEN "over" ELSE running
        /\ UNCHANGED <<mapReady, odoms, odomQueue, round, latest, localized>>
    BY <1>2 DEF Map!PublishCloud, Map!Passed
  <2>4. ~mapReady => cloudQueue' = <<>>
    BY <1>2 DEF Map!PublishCloud, Map!CloudKept
  <2>5. MapTypes'
    BY <2>1, <2>3, <2>4 DEF MapInv, MapTypes, Lead
  <2>6. Rounds'
    <3>1. CASE running = "slow"
      <4>1. LeadGone \in {0, 1} /\ running' = "slow" /\ round' = {} /\ (Len(odomQueue) = 0 => Fresh)
        BY <3>1, <2>3 DEF MapInv, Rounds
      <4>2. LeadGone' \in {0, 1} /\ (Len(odomQueue') = 0 => Fresh')
        BY <1>0, <1>00, <2>1, <2>3, <4>1 DEF LeadGone, Lead, Fresh
      <4>. QED BY <4>1, <4>2 DEF Rounds
    <3>2. CASE running = "quick" /\ round = {"cloud"}
      <4>1. /\ round' = {"cloud"} /\ running' = "over" /\ mapReady /\ Fresh
            /\ LeadGone \in {1, 2} /\ Len(odomQueue) < Depth /\ Len(cloudQueue) > 0
        BY <3>2, <1>00, <2>3 DEF MapInv, Rounds
      <4>2. LeadGone' \in {1, 2} /\ Fresh' /\ Len(cloudQueue') > 0
        BY <1>0, <1>00, <2>1, <2>3, <4>1 DEF LeadGone, Lead, Fresh
      <4>. QED BY <4>1, <4>2 DEF Rounds
    <3>3. CASE running = "quick" /\ round = {}
      <4>1. /\ round' = {} /\ running' = "over" /\ mapReady /\ Fresh
            /\ Lead = 1 /\ Len(odomQueue) = 0 /\ Len(cloudQueue) = 0
        BY <3>3, <1>00, <2>3 DEF MapInv, Rounds
      <4>2. Fresh' /\ Len(odomQueue') = 0
        BY <2>3, <4>1 DEF Fresh
      <4>3. Len(cloudQueue') = 1
        BY <2>1, <4>1
      <4>4. Lead' = 0 /\ LeadGone' = 1
        BY <1>00, <2>3, <4>1, <4>2, <4>3 DEF LeadGone, Lead
      <4>. QED BY <4>1, <4>2, <4>4 DEF Rounds
    <3>4. running = "quick" => round \in {{}, {"cloud"}}
      BY DEF MapInv, MapTypes, Rounds
    <3>. QED BY <2>3, <3>1, <3>2, <3>3, <3>4
  <2>7. PairedScan'
    BY <2>3 DEF MapInv, PairedScan, Map!PairedScan
  <2>. QED BY <2>5, <2>6, <2>7 DEF MapInv
<1>3. CASE Map!Return
  <2>1. Map!Waiting = {s \in {"odom", "cloud"} : IF s = "odom" THEN odomQueue # <<>> ELSE cloudQueue # <<>>}
    BY DEF Map!Waiting, Map!Queues
  <2>2. /\ running # "none" /\ round \cup Map!Waiting # {} /\ running' = "none"
        /\ round' = IF round = {} THEN Map!Waiting ELSE round
        /\ UNCHANGED <<mapReady, odoms, clouds, odomQueue, cloudQueue, latest, localized>>
    BY <1>3 DEF Map!Return, Map!published
  <2>3. mapReady
    BY <2>1, <2>2 DEF MapInv, MapTypes, Rounds
  <2>4. MapTypes'
    BY <2>1, <2>2, <2>3 DEF MapInv, MapTypes, Lead
  <2>5. Rounds'
    <3>1. LeadGone' = LeadGone /\ Lead' = Lead /\ (Fresh' <=> Fresh)
      BY <2>2 DEF Lead, LeadGone, Fresh
    <3>2. CASE round = {}
      <4>1. /\ round' = Map!Waiting /\ (Len(odomQueue) = 0 => Fresh) /\ Lead \in {0, 1}
            /\ \/ running = "slow" /\ LeadGone \in {0, 1}
               \/ running = "over" /\ Lead = 0 /\ LeadGone = 1 /\ Len(odomQueue) = 0
        <5>1. running # "quick"
          BY <1>0, <2>1, <2>2, <3>2 DEF MapInv, Rounds
        <5>2. running \in {"slow", "over"} /\ round' = Map!Waiting
          BY <2>2, <3>2, <5>1 DEF MapInv, MapTypes
        <5>3. CASE running = "slow"
          BY <1>00, <5>2, <5>3 DEF MapInv, Rounds
        <5>4. CASE running = "over"
          BY <1>00, <3>2, <5>2, <5>4 DEF MapInv, Rounds
        <5>. QED BY <5>2, <5>3, <5>4
      <4>3. CASE round' = {"odom", "cloud"}
        <5>1. Len(odomQueue) > 0 /\ Len(cloudQueue) > 0
          BY <1>0, <2>1, <4>1, <4>3
        <5>2. LeadGone \in {0, 1}
          BY <4>1
        <5>. QED BY <2>2, <3>1, <4>3, <5>1, <5>2 DEF Rounds
      <4>4. CASE round' = {"odom"}
        <5>1. Len(odomQueue) > 0 /\ Len(cloudQueue) = 0
          <6>1. Map!Waiting = {"odom"}
            BY <4>1, <4>4
          <6>2. odomQueue # <<>> /\ cloudQueue = <<>>
            BY <2>1, <6>1
          <6> QED BY <1>0, <6>2
        <5>2. Lead = 1 /\ LeadGone = 0
          BY <1>0, <1>01, <4>1, <5>1
        <5>. QED BY <2>2, <3>1, <4>4, <5>1, <5>2 DEF Rounds
      <4>5. CASE round' = {"cloud"}
        <5>1. Len(odomQueue) = 0 /\ Len(cloudQueue) > 0
          BY <1>0, <2>1, <4>1, <4>5
        <5>2. LeadGone = 1 /\ Fresh
          BY <1>0, <1>01, <4>1, <5>1
        <5>. QED BY <2>2, <3>1, <4>5, <5>1, <5>2 DEF Rounds
      <4>. QED BY <2>1, <2>2, <3>2, <4>1, <4>3, <4>4, <4>5
    <3>3. CASE round # {}
      BY <2>2, <3>1, <3>3 DEF MapInv, MapTypes, Rounds
    <3>. QED BY <3>2, <3>3
  <2>6. PairedScan'
    BY <2>2 DEF MapInv, PairedScan, Map!PairedScan
  <2>. QED BY <2>4, <2>5, <2>6 DEF MapInv
<1>4. CASE Map!OdomCallback
  <2>1. round \in {{"odom"}, {"odom", "cloud"}} /\ odomQueue # <<>> /\ mapReady
    BY <1>0, <1>4 DEF Map!OdomCallback, Map!Turn, MapInv, MapTypes, Rounds, Lead, LeadGone
  <2>2. /\ Newest(Tail(odomQueue), odoms) /\ Len(Tail(odomQueue)) = Len(odomQueue) - 1
        /\ Head(odomQueue) = odoms - Len(odomQueue) + 1 /\ Head(odomQueue) \in Nat
    BY <2>1, TailIsNewest DEF MapInv, MapTypes
  <2>3. /\ running = "none" /\ running' = "quick" /\ round' = round \ {"odom"}
        /\ latest' = Head(odomQueue) /\ odomQueue' = Tail(odomQueue)
        /\ UNCHANGED <<mapReady, odoms, clouds, cloudQueue, localized>>
    BY <1>4 DEF Map!OdomCallback, Map!published
  <2>4. MapTypes'
    BY <2>1, <2>2, <2>3 DEF MapInv, MapTypes, Lead
  <2>5. Len(odomQueue') \in Nat /\ (Len(odomQueue') = 0 <=> odomQueue' = <<>>)
    BY <2>2, <2>3, LenIs
  <2>6. Rounds'
    <3>1. Fresh' /\ LeadGone' = LeadGone + 1 /\ Lead' = Lead /\ Len(odomQueue') < Depth
      <4>1. Len(odomQueue') = Len(odomQueue) - 1 /\ latest' = odoms - Len(odomQueue) + 1
        BY <2>2, <2>3
      <4>2. Fresh' /\ Len(odomQueue') < Depth
        BY <1>0, <1>00, <2>3, <4>1 DEF Fresh
      <4>3. LeadGone' = LeadGone + 1 /\ Lead' = Lead
        <5>1. Lead' = Lead /\ odoms' = odoms /\ clouds' = clouds /\ cloudQueue' = cloudQueue
          BY <2>3 DEF Lead
        <5>. QED BY <1>0, <1>00, <4>1, <5>1 DEF LeadGone
      <4>. QED BY <4>2, <4>3
    <3>2. CASE round = {"odom"}
      <4>1. round' = {} /\ Lead = 1 /\ LeadGone = 0 /\ Len(cloudQueue) = 0
        BY <2>3, <3>2 DEF MapInv, Rounds
      <4>2. Len(odomQueue') = 0
        <5>1. Len(odomQueue) = 1
          BY <1>0, <1>01, <4>1
        <5>. QED BY <2>2, <2>3, <5>1
      <4>. QED BY <1>0, <2>3, <3>1, <4>1, <4>2 DEF Rounds
    <3>3. CASE round = {"odom", "cloud"}
      <4>1. round' = {"cloud"} /\ LeadGone \in {0, 1} /\ Len(cloudQueue) > 0
        BY <2>3, <3>3 DEF MapInv, Rounds
      <4>2. running' = "quick" /\ LeadGone' \in {1, 2} /\ Len(cloudQueue') > 0
        BY <2>3, <3>1, <4>1
      <4>3. round' # {} /\ round' # {"odom"} /\ round' # {"odom", "cloud"}
        <5>1. "cloud" \in round' /\ "odom" \notin round'
          BY <4>1
        <5> QED BY <5>1
      <4>. QED BY <3>1, <4>1, <4>2, <4>3 DEF Rounds
    <3>. QED BY <2>1, <3>2, <3>3
  <2>7. PairedScan'
    BY <2>3 DEF MapInv, PairedScan, Map!PairedScan
  <2>. QED BY <2>4, <2>6, <2>7 DEF MapInv
<1>5. ASSUME NEW enough \in BOOLEAN, NEW aligned \in BOOLEAN, Map!CloudCallback(enough, aligned)
      PROVE  MapInv'
  <2>1. round = {"cloud"} /\ cloudQueue # <<>> /\ mapReady
    BY <1>0, <1>5 DEF Map!CloudCallback, Map!Turn, MapInv, MapTypes, Rounds, Lead, LeadGone
  <2>2. /\ Newest(Tail(cloudQueue), clouds) /\ Len(Tail(cloudQueue)) = Len(cloudQueue) - 1
        /\ Head(cloudQueue) = clouds - Len(cloudQueue) + 1 /\ Head(cloudQueue) \in Nat
    BY <2>1, TailIsNewest DEF MapInv, MapTypes
  <2>3. /\ running = "none" /\ running' = "slow" /\ round' = {} /\ cloudQueue' = Tail(cloudQueue)
        /\ UNCHANGED <<mapReady, odoms, clouds, odomQueue, latest>>
    BY <1>5, <2>1 DEF Map!CloudCallback, Map!published
  <2>4. MapTypes'
    BY <2>1, <2>2, <2>3 DEF MapInv, MapTypes, Lead
  <2>5. Len(cloudQueue') \in Nat /\ (Len(cloudQueue') = 0 <=> cloudQueue' = <<>>)
    BY <2>2, <2>3, LenIs
  <2>6. Rounds'
    BY <1>0, <2>1, <2>2, <2>3, <2>5 DEF MapInv, MapTypes, Rounds, Lead, LeadGone, Fresh
  <2>7. PairedScan'
    <3>1. CASE latest = Nothing \/ ~enough
      BY <3>1, <1>5 DEF Map!CloudCallback, MapInv, PairedScan, Map!PairedScan
    <3>2. CASE ~(latest = Nothing \/ ~enough)
      <4>1. localized' = [scan |-> Head(cloudQueue), odom |-> latest, corrected |-> aligned]
        BY <3>2, <1>5 DEF Map!CloudCallback
      <4>2. latest - Head(cloudQueue) \in {0, 1}
        <5>1. Fresh /\ LeadGone \in {1, 2}
          BY <2>1 DEF MapInv, Rounds
        <5>2. latest = odoms - Len(odomQueue) /\ Head(cloudQueue) = clouds - Len(cloudQueue) + 1
          BY <2>2, <3>2, <5>1 DEF Fresh
        <5>3. LeadGone = (odoms - Len(odomQueue)) - (clouds - Len(cloudQueue))
          BY DEF LeadGone
        <5> QED BY <1>0, <1>00, <5>1, <5>2, <5>3
      <4>. QED BY <4>1, <4>2 DEF PairedScan, Map!PairedScan
    <3>. QED BY <3>1, <3>2
  <2>. QED BY <2>4, <2>6, <2>7 DEF MapInv
<1>6. CASE UNCHANGED Map!vars
  BY <1>6 DEF Map!vars, Map!published, MapInv, MapTypes, Rounds, Lead, LeadGone, Fresh, UpTo, Newest, PairedScan, Map!PairedScan
<1>. QED BY <1>1, <1>2, <1>3, <1>4, <1>5, <1>6 DEF Map!Next

\* The odometry a scan is localised with is the one published just before the scan or the
\* one just after it, however slow ICP is, whatever the queues drop and whichever of the two
\* callbacks runs first: it is never older than the scan.
THEOREM LocalizedWithItsScan ==
  ASSUME Depth \in Nat \ {0}
  PROVE  Map!Spec => []PairedScan
<1>1. MapInv => PairedScan
  BY DEF MapInv
<1>. QED BY <1>1, MapStarts, MapStep, PTL DEF Map!Spec

-----------------------------------------------------------------------------
(* sc_pgo_node: the theorems of PoseGraph_proof for this instance.         *)

\* The graph of this composition and the graph PoseGraph_proof speaks of are instances of the
\* same module with the same parameters.
GP == INSTANCE PoseGraph_proof WITH NoPose <- Nothing

LEMMA SameGraph ==
  /\ Graph!Init <=> GP!Init
  /\ [Graph!Next]_Graph!vars <=> [GP!Next]_GP!vars
  /\ GraphIsDetermined <=> GP!GraphIsDetermined
  /\ MeasuredBeforeLoops <=> GP!MeasuredBeforeLoops
<1>. USE DEF Graph!vars, GP!vars, Graph!inputs, GP!inputs, Graph!scans, GP!scans, Graph!isam, GP!isam,
             Graph!Count, GP!Count, Graph!Idle, GP!Idle, Graph!Sleep, GP!Sleep, Graph!Free, GP!Free,
             Graph!AsleepLoop, GP!AsleepLoop, Graph!GraphFree, GP!GraphFree
<1>1. Graph!Init <=> GP!Init
  BY DEF Graph!Init, GP!Init
<1>2. Graph!PoseCallback <=> GP!PoseCallback
  BY DEF Graph!PoseCallback, GP!PoseCallback
<1>3. Graph!CloudCallback <=> GP!CloudCallback
  BY DEF Graph!CloudCallback, GP!CloudCallback, Graph!IsKeyframe, GP!IsKeyframe
<1>4. Graph!SaveKeyframe <=> GP!SaveKeyframe
  BY DEF Graph!SaveKeyframe, GP!SaveKeyframe
<1>5. Graph!MakeContext <=> GP!MakeContext
  BY DEF Graph!MakeContext, GP!MakeContext
<1>6. Graph!AddPrior <=> GP!AddPrior
  BY DEF Graph!AddPrior, GP!AddPrior
<1>7. (Graph!ReadPrev <=> GP!ReadPrev) /\ (Graph!ReadCurr <=> GP!ReadCurr)
  BY DEF Graph!ReadPrev, GP!ReadPrev, Graph!ReadCurr, GP!ReadCurr
<1>8. (Graph!AddOdometry <=> GP!AddOdometry) /\ (Graph!AddLoop <=> GP!AddLoop)
  BY DEF Graph!AddOdometry, GP!AddOdometry, Graph!AddLoop, GP!AddLoop, Graph!AddFactor, GP!AddFactor
<1>9. (Graph!Wake <=> GP!Wake) /\ (Graph!Detect <=> GP!Detect)
  BY DEF Graph!Wake, GP!Wake, Graph!Detect, GP!Detect
<1>10. Graph!Loops = GP!Loops /\ Graph!Odometry = GP!Odometry
  BY DEF Graph!Loops, GP!Loops, Graph!Odometry, GP!Odometry
<1>16. Graph!Verify <=> GP!Verify
  BY DEF Graph!Verify, GP!Verify, Graph!Loops, GP!Loops, Graph!Cardinality, GP!Cardinality
<1>11. Graph!PublishLatestOdom <=> GP!PublishLatestOdom
  BY DEF Graph!PublishLatestOdom, GP!PublishLatestOdom
<1>12. Graph!Estimates = GP!Estimates
  <2>1. Graph!Chain = GP!Chain
    BY DEF Graph!Chain, GP!Chain, Graph!Odometry, GP!Odometry, Graph!Loops, GP!Loops, Graph!Cardinality, GP!Cardinality
  <2>. QED BY <2>1, <1>10 DEF Graph!Estimates, GP!Estimates
<1>13. \A who : /\ Graph!Estimate(who) <=> GP!Estimate(who)
                /\ Graph!Rewrite(who) <=> GP!Rewrite(who)
                /\ Graph!Publish(who) <=> GP!Publish(who)
  BY <1>12 DEF Graph!Estimate, GP!Estimate, Graph!Optimizing, GP!Optimizing, Graph!Rewrite, GP!Rewrite, Graph!Publish, GP!Publish
<1>14. Graph!Next <=> GP!Next
  BY <1>2, <1>3, <1>4, <1>5, <1>6, <1>7, <1>8, <1>9, <1>16, <1>11, <1>13 DEF Graph!Next, GP!Next
<1>15. GraphIsDetermined <=> GP!GraphIsDetermined
  BY DEF GraphIsDetermined, Graph!GraphIsDetermined, GP!GraphIsDetermined
<1>17. MeasuredBeforeLoops <=> GP!MeasuredBeforeLoops
  BY <1>10 DEF MeasuredBeforeLoops, Graph!MeasuredBeforeLoops, GP!MeasuredBeforeLoops,
     Graph!OdometryIsMeasured, GP!OdometryIsMeasured, Graph!Displacement, GP!Displacement
<1>. QED BY <1>1, <1>14, <1>15, <1>17

\* Every node of the graph has a value and is tied to the first by factors, whatever loops
\* are closed and whenever the optimisation runs.
THEOREM GraphHasOneSolution ==
  ASSUME LoopMinIndexDiff \in Nat, NumExcludeRecent \in Nat
  PROVE  Graph!Spec => []GraphIsDetermined
<1>1. GP!Spec => []GP!GraphIsDetermined
  BY GP!GraphHasOneSolution
<1>. QED BY <1>1, SameGraph, PTL DEF Graph!Spec, GP!Spec

\* The list of keyframes is extended only while the loop thread holds no reference into it.
THEOREM ReferencesStay ==
  ASSUME LoopMinIndexDiff \in Nat, NumExcludeRecent \in Nat
  PROVE  Graph!Spec => KeyframesStay
<1>1. GP!Spec => GP!KeyframesStay
  BY GP!ReferencesStay
<1>2. [keyframes' # keyframes /\ Len(keyframes') > Graph!Count => Graph!AsleepLoop]_Graph!vars
       <=> [keyframes' # keyframes /\ Len(keyframes') > GP!Count => GP!AsleepLoop]_GP!vars
  BY DEF Graph!vars, GP!vars, Graph!inputs, GP!inputs, Graph!scans, GP!scans, Graph!isam, GP!isam,
         Graph!Count, GP!Count, Graph!AsleepLoop, GP!AsleepLoop
<1>. QED BY <1>1, <1>2, SameGraph, PTL DEF Graph!Spec, GP!Spec, KeyframesStay, Graph!KeyframesStay, GP!KeyframesStay

\* While no loop has been closed, the factor between two keyframes is the displacement the
\* odometry measured between them, for keyframes at any whole numbers.
THEOREM FactorsAreMeasured ==
  ASSUME LoopMinIndexDiff \in Nat, NumExcludeRecent \in Nat, MaxKeyframes \in Nat, Starts \subseteq Int
  PROVE  Graph!Spec => []MeasuredBeforeLoops
<1>1. GP!Spec => []GP!MeasuredBeforeLoops
  BY GP!FactorsAreMeasured
<1>. QED BY <1>1, SameGraph, PTL DEF Graph!Spec, GP!Spec

-----------------------------------------------------------------------------
(* cloud_filter_node and shape_detect_node: the window of frames and the   *)
(* tracks of the rings.  What their loops compute is a recursive function; *)
(* what holds of it at every index is shown by induction, which is the     *)
(* lemma Induction, from the least index at which it would fail.           *)

Less == {p \in Nat \X Nat : p[1] < p[2]}

\* The naturals are well-founded, so every set of them has a least element.
LEMMA LessIsWellFounded == IsWellFoundedOn(Less, Nat)
<1>1. Less = OpToRel(<, Nat)
  BY DEF Less, OpToRel
<1> QED BY <1>1, NatLessThanWellFounded

LEMMA Least ==
  ASSUME NEW T \in SUBSET Nat, T # {}
  PROVE  \E x \in T : \A y \in T : x <= y
<1>1. PICK x \in T : \A y \in T : ~(<<y, x>> \in Less)
  BY LessIsWellFounded, WFMin
<1>2. ASSUME NEW y \in T PROVE x <= y
  <2>1. ~(<<y, x>> \in Less) /\ y \in Nat /\ x \in Nat
    BY <1>1
  <2> QED BY <2>1 DEF Less
<1> QED BY <1>2

\* A function may be defined by a first value and a step.
Steps(N, S, a, G) == N \in Nat /\ a \in S /\ G \in [1 .. N -> [S -> S]]
Follows(h, N, S, a, G) ==
  h \in [0 .. N -> S] /\ h[0] = a /\ \A k \in 1 .. N : h[k] = G[k][h[k - 1]]

LEMMA Recursion ==
  ASSUME NEW N, NEW S, NEW a, NEW G, Steps(N, S, a, G)
  PROVE  \E h : Follows(h, N, S, a, G)
<1> USE DEF Steps
<1> DEFINE Upto(n) == \E h : Follows(h, n, S, a, G)
           Bad == {n \in 0 .. N : ~Upto(n)}
<1> SUFFICES ASSUME Bad # {} PROVE FALSE
  <2>1. N \in 0 .. N
    OBVIOUS
  <2> QED BY <2>1
<1>1. PICK n \in Bad : \A m \in Bad : n <= m
  <2>1. Bad \in SUBSET Nat
    OBVIOUS
  <2> QED BY <2>1, Least
<1>2. CASE n = 0
  <2>1. [k \in 0 .. 0 |-> a] \in [0 .. 0 -> S]
    OBVIOUS
  <2>2. [k \in 0 .. 0 |-> a][0] = a
    OBVIOUS
  <2>3. 1 .. 0 = {}
    OBVIOUS
  <2>4. Upto(0)
    BY <2>1, <2>2, <2>3 DEF Follows
  <2> QED BY <1>1, <1>2, <2>4
<1>3. CASE n # 0
  <2>1. n \in 1 .. N /\ n - 1 \in 0 .. N /\ n - 1 \notin Bad
    <3>1. n \in 1 .. N /\ n - 1 \in 0 .. N /\ ~(n <= n - 1)
      BY <1>3
    <3> HIDE DEF Bad
    <3> QED BY <1>1, <3>1
  <2>2. PICK h \in [0 .. n - 1 -> S] : h[0] = a /\ \A k \in 1 .. n - 1 : h[k] = G[k][h[k - 1]]
    BY <2>1 DEF Follows
  <2> DEFINE g == [k \in 0 .. n |-> IF k = n THEN G[n][h[n - 1]] ELSE h[k]]
  <2>3. h[n - 1] \in S /\ G[n][h[n - 1]] \in S
    BY <2>1, <2>2
  <2>4. \A k \in 0 .. n : k = n \/ (k \in 0 .. n - 1 /\ h[k] \in S)
    BY <2>1, <2>2
  <2>5. g \in [0 .. n -> S]
    BY <2>3, <2>4
  <2>6. g[0] = a /\ g[n] = G[n][h[n - 1]]
    BY <2>1, <2>2
  <2>7. \A k \in 0 .. n - 1 : g[k] = h[k]
    BY <2>1
  <2>8. ASSUME NEW k \in 1 .. n PROVE g[k] = G[k][g[k - 1]]
    <3>1. k - 1 \in 0 .. n - 1 /\ g[k - 1] = h[k - 1]
      BY <2>1, <2>7
    <3>2. CASE k = n
      BY <2>6, <3>1, <3>2
    <3>3. CASE k # n
      <4>1. k \in 1 .. n - 1 /\ k \in 0 .. n - 1
        BY <2>1, <3>3
      <4> QED BY <2>2, <2>7, <3>1, <4>1
    <3> QED BY <3>2, <3>3
  <2> HIDE DEF g
  <2>9. Upto(n)
    BY <2>5, <2>6, <2>8 DEF Follows
  <2> QED BY <1>1, <2>9
<1> QED BY <1>2, <1>3

\* What holds of the first index and passes from each to the next holds of all.
LEMMA Induction ==
  ASSUME NEW N \in Nat, NEW B, 0 \in B, \A k \in 1 .. N : k - 1 \in B => k \in B
  PROVE  \A k \in 0 .. N : k \in B
<1> DEFINE Bad == {k \in 0 .. N : k \notin B}
<1> SUFFICES ASSUME Bad # {} PROVE FALSE
  OBVIOUS
<1>1. PICK k \in Bad : \A m \in Bad : k <= m
  <2>1. Bad \in SUBSET Nat
    OBVIOUS
  <2> QED BY <2>1, Least
<1>2. k \in 1 .. N /\ k - 1 \in 0 .. N /\ ~(k <= k - 1)
  BY <1>1
<1>3. k - 1 \notin Bad
  <2> HIDE DEF Bad
  <2> QED BY <1>1, <1>2
<1> QED BY <1>1, <1>2, <1>3

\* A frame that was pushed with the drone's true pose shows points of the world.
Frame == [cloud : SUBSET Int, pose : Int, stamp : Int, exact : BOOLEAN]
Shows(f) == f.exact => hasPose /\ \A x \in f.cloud : x + f.pose \in World

CloudInv ==
  /\ now \in Int /\ truth \in Int /\ pose \in Int /\ hasPose \in BOOLEAN
  /\ buffer \in Seq(Frame) /\ \A k \in 1 .. Len(buffer) : Shows(buffer[k])
  /\ NoGhosts

\* The scan that is pushed is the last of the window, and the others were there.
LEMMA WindowShows ==
  ASSUME World \subseteq Int, Window \in Nat, CloudInv, NEW cloud \in Tracker!FilteredClouds
  PROVE  /\ Tracker!Pushed(cloud) \in Seq(Frame) /\ Len(Tracker!Pushed(cloud)) >= 1
         /\ \A k \in 1 .. Len(Tracker!Pushed(cloud)) : Shows(Tracker!Pushed(cloud)[k])
<1> DEFINE frame == [cloud |-> cloud, pose |-> pose, stamp |-> now, exact |-> hasPose /\ pose = truth]
<1>1. now \in Int /\ truth \in Int /\ pose \in Int /\ hasPose \in BOOLEAN /\ buffer \in Seq(Frame)
  BY DEF CloudInv
<1>2. \A x \in cloud : x \in Int /\ x + truth \in World
  <2> SUFFICES ASSUME NEW x \in cloud PROVE x \in Int /\ x + truth \in World
    OBVIOUS
  <2>1. PICK w \in World : x = w - truth
    BY DEF Tracker!FilteredClouds
  <2> QED BY <1>1, <2>1
<1>3. frame \in Frame /\ Shows(frame) /\ frame.stamp = now
  <2>1. cloud \in SUBSET Int
    BY <1>2
  <2> QED BY <1>1, <1>2, <2>1 DEF Frame, Shows
<1> HIDE DEF frame
<1>4. PICK b \in Seq(Frame) : b = buffer /\ \A k \in 1 .. Len(b) : Shows(b[k])
  BY DEF CloudInv
<1>5. PICK all : all = Append(b, frame)
  OBVIOUS
<1>6. /\ all \in Seq(Frame) /\ Len(all) = Len(b) + 1 /\ Len(b) \in Nat
      /\ \A k \in 1 .. Len(b) : all[k] = b[k]
      /\ all[Len(b) + 1] = frame
  BY <1>3, <1>5, AppendProperties
<1>7. \A k \in 1 .. Len(all) : all[k] \in Frame /\ Shows(all[k])
  BY <1>3, <1>4, <1>6
<1> DEFINE Young(k) == now - all[k].stamp <= Window
           first == CHOOSE k \in 1 .. Len(all) : Young(k) /\ \A j \in 1 .. k - 1 : ~Young(j)
<1>8. first \in 1 .. Len(all)
  <2> DEFINE T == {k \in 1 .. Len(all) : Young(k)}
  <2>1. Len(all) \in T /\ T \in SUBSET Nat
    <3>1. Len(all) \in 1 .. Len(all) /\ all[Len(all)].stamp = now
      BY <1>3, <1>6
    <3> QED BY <1>1, <3>1
  <2>2. PICK k \in T : \A j \in T : k <= j
    BY <2>1, Least
  <2>3. k \in 1 .. Len(all) /\ Young(k) /\ \A j \in 1 .. k - 1 : ~Young(j)
    <3>1. k \in 1 .. Len(all)
      BY <2>2
    <3>2. ASSUME NEW j \in 1 .. k - 1 PROVE ~Young(j)
      <4>1. j \in 1 .. Len(all) /\ ~(k <= j)
        BY <1>6, <3>1
      <4>2. j \notin T
        <5> HIDE DEF T
        <5> QED BY <2>2, <4>1
      <4> QED BY <4>1, <4>2
    <3> QED BY <2>2, <3>1, <3>2
  <2> HIDE DEF Young
  <2> QED BY <2>3
<1>9. PICK n \in 1 .. Len(all) : n = first
  BY <1>8
<1>10. PICK p : p = SubSeq(all, n, Len(all))
  OBVIOUS
<1>11. Tracker!Pushed(cloud) = p
  BY <1>4, <1>5, <1>9, <1>10 DEF Tracker!Pushed, frame
<1>12. /\ p \in Seq(Frame) /\ Len(p) = Len(all) - n + 1
       /\ \A k \in 1 .. Len(all) - n + 1 : p[k] = all[n + k - 1]
  <2>1. /\ n \in Int /\ Len(all) \in Int /\ n <= Len(all) /\ \A k \in n .. Len(all) : all[k] \in Frame
    BY <1>6, <1>7
  <2> HIDE DEF first
  <2> QED BY <1>10, <2>1, SubSeqProperties
<1>13. \A k \in 1 .. Len(all) - n + 1 : n + k - 1 \in 1 .. Len(all)
  BY <1>6
<1> HIDE DEF first
<1>14. Len(p) >= 1 /\ \A k \in 1 .. Len(p) : Shows(p[k])
  BY <1>6, <1>7, <1>12, <1>13
<1> QED BY <1>11, <1>12, <1>14

\* What is merged from frames that show the world shows the world.
LEMMA MergeShows ==
  ASSUME NEW p \in Seq(Frame), Len(p) >= 1, \A k \in 1 .. Len(p) : Shows(p[k]),
         NEW x \in Tracker!Merge(p).cloud, Tracker!Merge(p).exact
  PROVE  x + Tracker!Merge(p).base \in World
<1> DEFINE newest == p[Len(p)]
           cutoff == newest.stamp - (IF fast THEN FastWindow ELSE Window)
           Moved(f) == IF hasPose /\ f # newest THEN {y + f.pose - newest.pose : y \in f.cloud} ELSE f.cloud
           used == {f \in Tracker!Range(p) : f.stamp >= cutoff}
<1>1. /\ Tracker!Merge(p).cloud = UNION {Moved(f) : f \in used} /\ Tracker!Merge(p).base = newest.pose
      /\ Tracker!Merge(p).exact = (\A f \in used : f.exact)
  BY DEF Tracker!Merge, Tracker!Last
<1>2. newest \in Frame /\ newest.pose \in Int
  <2>1. newest \in Frame
    OBVIOUS
  <2> QED BY <2>1 DEF Frame
<1>3. PICK f \in used : x \in Moved(f)
  BY <1>1
<1>4. f \in Frame /\ Shows(f) /\ f.exact
  <2>1. PICK k \in 1 .. Len(p) : f = p[k]
    BY <1>3 DEF Tracker!Range
  <2>2. f.exact
    BY <1>1, <1>3
  <2> QED BY <2>1, <2>2
<1>5. hasPose /\ f.pose \in Int /\ f.cloud \subseteq Int /\ \A y \in f.cloud : y + f.pose \in World
  BY <1>4 DEF Shows, Frame
<1> HIDE DEF newest, used
<1>6. CASE f = newest
  BY <1>1, <1>3, <1>5, <1>6
<1>7. CASE f # newest
  <2>1. PICK y \in f.cloud : x = y + f.pose - newest.pose
    BY <1>3, <1>5, <1>7
  <2>2. x + newest.pose = y + f.pose
    BY <1>2, <1>5, <2>1
  <2> QED BY <1>1, <1>5, <2>2
<1> QED BY <1>6, <1>7

\* A merged cloud is a set of coordinates.
LEMMA MergeIsCloud ==
  ASSUME NEW p \in Seq(Frame), Len(p) >= 1
  PROVE  Tracker!Merge(p).cloud \subseteq Int
<1> DEFINE newest == p[Len(p)]
           cutoff == newest.stamp - (IF fast THEN FastWindow ELSE Window)
           Moved(f) == IF hasPose /\ f # newest THEN {y + f.pose - newest.pose : y \in f.cloud} ELSE f.cloud
           used == {f \in Tracker!Range(p) : f.stamp >= cutoff}
<1>1. Tracker!Merge(p).cloud = UNION {Moved(f) : f \in used}
  BY DEF Tracker!Merge, Tracker!Last
<1>2. newest.pose \in Int
  <2>1. newest \in Frame
    OBVIOUS
  <2> QED BY <2>1 DEF Frame
<1>3. \A f \in used : f.pose \in Int /\ f.cloud \subseteq Int
  <2> SUFFICES ASSUME NEW f \in used PROVE f.pose \in Int /\ f.cloud \subseteq Int
    OBVIOUS
  <2>1. PICK k \in 1 .. Len(p) : f = p[k]
    BY DEF Tracker!Range
  <2>2. f \in Frame
    BY <2>1
  <2> QED BY <2>2 DEF Frame
<1> HIDE DEF newest, used
<1>4. \A f \in used : Moved(f) \subseteq Int
  BY <1>2, <1>3
<1> HIDE DEF Moved
<1> QED BY <1>1, <1>4

\* Every step of the two nodes keeps the clouds true.
LEMMA CloudsStep ==
  ASSUME World \subseteq Int, RingPoses \subseteq Int, Window \in Nat, CloudInv, [Tracker!Next]_Tracker!vars
  PROVE  CloudInv'
<1>1. CASE Tracker!Move
  BY <1>1 DEF Tracker!Move, CloudInv, Shows, NoGhosts, Tracker!NoGhosts
<1>2. CASE Tracker!OnOdom
  BY <1>2 DEF Tracker!OnOdom, CloudInv, Shows, NoGhosts, Tracker!NoGhosts
<1>3. CASE Tracker!OnImu
  BY <1>3 DEF Tracker!OnImu, CloudInv, Shows, NoGhosts, Tracker!NoGhosts
<1>4. CASE Tracker!OnCloud
  <2>1. PICK cloud \in Tracker!FilteredClouds :
          /\ buffer' = Tracker!Pushed(cloud)
          /\ \/ merged' = merged
             \/ merged' = [Tracker!Merge(Tracker!Pushed(cloud)) EXCEPT
                             !.cloud = Tracker!InWorldBox(Tracker!Merge(Tracker!Pushed(cloud)).cloud)]
    BY <1>4 DEF Tracker!OnCloud
  <2>2. UNCHANGED <<now, truth, pose, hasPose, fast>>
    BY <1>4 DEF Tracker!OnCloud, Tracker!inputs
  <2>3. PICK p \in Seq(Frame) : p = Tracker!Pushed(cloud) /\ Len(p) >= 1 /\ \A k \in 1 .. Len(p) : Shows(p[k])
    BY WindowShows
  <2>4. NoGhosts'
    <3>1. CASE merged' = merged
      BY <3>1 DEF CloudInv, NoGhosts, Tracker!NoGhosts
    <3>2. CASE merged' = [Tracker!Merge(p) EXCEPT !.cloud = Tracker!InWorldBox(Tracker!Merge(p).cloud)]
      <4>1. /\ merged'.cloud \subseteq Tracker!Merge(p).cloud /\ merged'.base = Tracker!Merge(p).base
            /\ merged'.exact = Tracker!Merge(p).exact
        BY <3>2 DEF Tracker!InWorldBox, Tracker!Merge
      <4> QED BY <2>3, <4>1, MergeShows DEF NoGhosts, Tracker!NoGhosts
    <3> QED BY <2>1, <2>3, <3>1, <3>2
  <2> QED BY <2>1, <2>2, <2>3, <2>4 DEF CloudInv, Shows
<1>5. CASE UNCHANGED Tracker!vars
  BY <1>5 DEF Tracker!vars, Tracker!inputs, CloudInv, Shows, NoGhosts, Tracker!NoGhosts
<1> QED BY <1>1, <1>2, <1>3, <1>4, <1>5 DEF Tracker!Next

\* Nothing is merged at first.
LEMMA CloudsInit ==
  ASSUME World \subseteq Int, RingPoses \subseteq Int, Window \in Nat
  PROVE  Tracker!Init => CloudInv
<1> SUFFICES ASSUME Tracker!Init PROVE CloudInv
  OBVIOUS
<1>1. now = 0 /\ truth \in Int /\ pose = 0 /\ hasPose = FALSE
  BY DEF Tracker!Init
<1>2. buffer = <<>> /\ buffer \in Seq(Frame) /\ Len(buffer) = 0
  BY DEF Tracker!Init
<1>3. merged.cloud = {}
  BY DEF Tracker!Init
<1>4. NoGhosts
  BY <1>3 DEF NoGhosts, Tracker!NoGhosts
<1>5. \A k \in 1 .. Len(buffer) : Shows(buffer[k])
  BY <1>2
<1>6. now \in Int /\ pose \in Int
  BY <1>1
<1>7. hasPose \in BOOLEAN
  BY <1>1, Zenon
<1> QED BY <1>1, <1>2, <1>4, <1>5, <1>6, <1>7 DEF CloudInv

\* merge_buffer makes no ghosts: when every merged frame was pushed with the drone's true pose,
\* the merged points are where the world's points are seen from the newest frame, for every
\* world, window and flight.
THEOREM AccumulationMakesNoGhosts ==
  ASSUME World \subseteq Int, RingPoses \subseteq Int, Window \in Nat
  PROVE  Tracker!Spec => []NoGhosts
<1>1. Tracker!Init => CloudInv
  BY CloudsInit
<1>2. CloudInv => NoGhosts
  BY DEF CloudInv
<1> QED BY <1>1, <1>2, CloudsStep, PTL DEF Tracker!Spec

\* A track lies between its sightings, of which there are as many as hits, each in a frame of
\* its own, the last as long ago as the misses say.
Sighting == [at : Int, ago : Nat]
AnyTrack == [center : Int, hits : Nat, misses : Nat, seen : Seq(Sighting)]
Between(t) == \E i, j \in 1 .. Len(t.seen) : t.seen[i].at <= t.center /\ t.center <= t.seen[j].at
Counted(t) ==
  /\ Len(t.seen) = t.hits /\ t.hits >= 1 /\ t.seen[t.hits].ago = t.misses
  /\ \A i, j \in 1 .. Len(t.seen) : i < j => t.seen[j].ago < t.seen[i].ago
Tracks == {t \in AnyTrack : Between(t) /\ Counted(t)}

\* A centre that no track takes begins a track.
LEMMA NewIsTrack ==
  ASSUME NEW x \in Int
  PROVE  [center |-> x, hits |-> 1, misses |-> 0, seen |-> <<[at |-> x, ago |-> 0]>>] \in Tracks
<1> DEFINE s == <<[at |-> x, ago |-> 0]>>
           t == [center |-> x, hits |-> 1, misses |-> 0, seen |-> s]
<1>1. s \in Seq(Sighting) /\ Len(s) = 1 /\ s[1] = [at |-> x, ago |-> 0]
  <2>1. [at |-> x, ago |-> 0] \in Sighting
    BY DEF Sighting
  <2> QED BY <2>1
<1>2. s[1].at = x /\ s[1].ago = 0
  BY <1>1
<1> HIDE DEF s
<1>3. t \in AnyTrack
  BY <1>1 DEF AnyTrack
<1>4. Between(t) /\ Counted(t)
  <2>1. t.seen = s /\ t.center = x /\ t.hits = 1 /\ t.misses = 0 /\ 1 .. Len(s) = {1}
    BY <1>1
  <2> HIDE DEF t
  <2>2. Between(t)
    BY <1>2, <2>1 DEF Between
  <2>3. Counted(t)
    <3>1. Len(t.seen) = t.hits /\ t.hits >= 1 /\ t.seen[t.hits].ago = t.misses
      BY <1>1, <1>2, <2>1
    <3>2. \A i, j \in 1 .. Len(t.seen) : ~(i < j)
      BY <2>1
    <3> QED BY <3>1, <3>2 DEF Counted
  <2> QED BY <2>2, <2>3
<1>5. t \in Tracks
  BY <1>3, <1>4 DEF Tracks
<1> QED BY <1>5 DEF s

\* A frame later every sighting is a frame older.
LEMMA OlderIs ==
  ASSUME NEW t \in Tracks
  PROVE  \E s \in Seq(Sighting) :
           /\ Tracker!Older(t) = [t EXCEPT !.seen = s] /\ Len(s) = Len(t.seen) /\ Len(s) \in Nat
           /\ \A i \in 1 .. Len(s) : s[i].at = t.seen[i].at /\ s[i].ago = t.seen[i].ago + 1
<1> DEFINE s == [i \in DOMAIN t.seen |-> [at |-> t.seen[i].at, ago |-> t.seen[i].ago + 1]]
<1>1. PICK q \in Seq(Sighting) : q = t.seen
  BY DEF Tracks, AnyTrack
<1>2. Len(q) \in Nat /\ DOMAIN q = 1 .. Len(q) /\ \A i \in 1 .. Len(q) : q[i] \in Sighting
  BY <1>1
<1>3. \A i \in 1 .. Len(q) : [at |-> q[i].at, ago |-> q[i].ago + 1] \in Sighting
  BY <1>2 DEF Sighting
<1>4. s = [i \in 1 .. Len(q) |-> [at |-> q[i].at, ago |-> q[i].ago + 1]]
  BY <1>1, <1>2
<1>5. s \in Seq(Sighting) /\ Len(s) = Len(q)
  <2>1. s \in [1 .. Len(q) -> Sighting]
    BY <1>3, <1>4
  <2> HIDE DEF s
  <2> QED BY <1>2, <2>1
<1>6. \A i \in 1 .. Len(q) : s[i].at = q[i].at /\ s[i].ago = q[i].ago + 1
  BY <1>3, <1>4
<1>7. Tracker!Older(t) = [t EXCEPT !.seen = s]
  BY DEF Tracker!Older
<1> HIDE DEF s
<1> QED BY <1>1, <1>2, <1>5, <1>6, <1>7

\* A track that takes no centre was missed once more.
LEMMA MissedIsTrack ==
  ASSUME NEW t \in Tracks PROVE Tracker!Missed(Tracker!Older(t)) \in Tracks
<1>1. PICK s \in Seq(Sighting) :
           /\ Tracker!Older(t) = [t EXCEPT !.seen = s] /\ Len(s) = Len(t.seen) /\ Len(s) \in Nat
           /\ \A i \in 1 .. Len(s) : s[i].at = t.seen[i].at /\ s[i].ago = t.seen[i].ago + 1
  BY OlderIs
<1>2. t \in AnyTrack /\ Between(t) /\ Counted(t)
  BY DEF Tracks
<1>3. t.center \in Int /\ t.hits \in Nat /\ t.misses \in Nat /\ t.seen \in Seq(Sighting)
  BY <1>2 DEF AnyTrack
<1> DEFINE r == Tracker!Missed(Tracker!Older(t))
<1>4. r \in AnyTrack /\ r.center = t.center /\ r.hits = t.hits /\ r.misses = t.misses + 1 /\ r.seen = s
  <2>1. PICK u \in AnyTrack :
          /\ u = Tracker!Older(t) /\ u.seen = s
          /\ u.center = t.center /\ u.hits = t.hits /\ u.misses = t.misses
    BY <1>1, <1>2 DEF AnyTrack
  <2>2. r = [u EXCEPT !.misses = u.misses + 1]
    BY <2>1 DEF Tracker!Missed
  <2> HIDE DEF r
  <2> QED BY <2>1, <2>2 DEF AnyTrack
<1> HIDE DEF r
<1>5. \A i \in 1 .. Len(s) : t.seen[i].ago \in Nat
  <2>1. \A i \in 1 .. Len(s) : t.seen[i] \in Sighting
    BY <1>1, <1>3
  <2> QED BY <2>1 DEF Sighting
<1>6. Between(r)
  BY <1>1, <1>2, <1>4 DEF Between
<1>7. Counted(r)
  <2>1. Len(s) = r.hits /\ r.hits >= 1 /\ t.hits \in 1 .. Len(s)
    BY <1>1, <1>2, <1>3, <1>4 DEF Counted
  <2>2. s[r.hits].ago = r.misses
    BY <1>1, <1>2, <1>4, <2>1 DEF Counted
  <2>3. ASSUME NEW i \in 1 .. Len(s), NEW j \in 1 .. Len(s), i < j PROVE s[j].ago < s[i].ago
    <3>1. t.seen[j].ago < t.seen[i].ago
      BY <1>1, <1>2, <2>3 DEF Counted
    <3> QED BY <1>1, <1>5, <3>1
  <2> QED BY <1>4, <2>1, <2>2, <2>3 DEF Counted
<1> QED BY <1>4, <1>6, <1>7 DEF Tracks, r

\* A track that takes a centre moves towards it and stays between its sightings.
LEMMA SeenIsTrack ==
  ASSUME NEW t \in Tracks, NEW x \in Int PROVE Tracker!Seen(Tracker!Older(t), x) \in Tracks
<1>1. PICK s \in Seq(Sighting) :
           /\ Tracker!Older(t) = [t EXCEPT !.seen = s] /\ Len(s) = Len(t.seen) /\ Len(s) \in Nat
           /\ \A i \in 1 .. Len(s) : s[i].at = t.seen[i].at /\ s[i].ago = t.seen[i].ago + 1
  BY OlderIs
<1>2. t \in AnyTrack /\ Between(t) /\ Counted(t)
  BY DEF Tracks
<1>3. t.center \in Int /\ t.hits \in Nat /\ t.misses \in Nat /\ t.seen \in Seq(Sighting)
  BY <1>2 DEF AnyTrack
<1> DEFINE r == Tracker!Seen(Tracker!Older(t), x)
           new == [at |-> x, ago |-> 0]
<1>4. PICK q : q = Append(s, new)
  OBVIOUS
<1>5. new \in Sighting /\ new.at = x /\ new.ago = 0
  BY DEF Sighting
<1>6. /\ q \in Seq(Sighting) /\ Len(q) = Len(s) + 1
      /\ \A i \in 1 .. Len(s) : q[i] = s[i]
      /\ q[Len(s) + 1] = new
  BY <1>1, <1>4, <1>5, AppendProperties
<1>7. PICK c \in Int : c = (7 * t.center + 3 * x) \div 10
  BY <1>3
<1>8. r \in AnyTrack /\ r.center = c /\ r.hits = t.hits + 1 /\ r.misses = 0 /\ r.seen = q
  <2>1. PICK u \in AnyTrack :
          /\ u = Tracker!Older(t) /\ u.seen = s
          /\ u.center = t.center /\ u.hits = t.hits /\ u.misses = t.misses
    BY <1>1, <1>2 DEF AnyTrack
  <2>2. r = [u EXCEPT !.center = c, !.hits = u.hits + 1, !.misses = 0, !.seen = q]
    BY <1>4, <1>7, <2>1 DEF Tracker!Seen
  <2> HIDE DEF r, new
  <2>3. u.hits \in Nat
    BY <2>1 DEF AnyTrack
  <2>4. PICK h \in Nat : h = u.hits + 1
    BY <2>3
  <2>5. r = [u EXCEPT !.center = c, !.hits = h, !.misses = 0, !.seen = q]
    BY <2>2, <2>4
  <2>6. r \in AnyTrack /\ r.center = c /\ r.hits = h /\ r.misses = 0 /\ r.seen = q
    BY <1>6, <2>1, <2>5 DEF AnyTrack
  <2> QED BY <2>1, <2>4, <2>6
<1> HIDE DEF r, new
<1>9. \A i \in 1 .. Len(s) : t.seen[i].ago \in Nat /\ t.seen[i].at \in Int
  <2>1. \A i \in 1 .. Len(s) : t.seen[i] \in Sighting
    BY <1>1, <1>3
  <2> QED BY <2>1 DEF Sighting
<1>10. Between(r)
  <2>1. PICK i \in 1 .. Len(s), j \in 1 .. Len(s) : t.seen[i].at <= t.center /\ t.center <= t.seen[j].at
    BY <1>1, <1>2 DEF Between
  <2>2. /\ i \in 1 .. Len(q) /\ j \in 1 .. Len(q) /\ Len(q) \in 1 .. Len(q)
        /\ q[i].at = t.seen[i].at /\ q[j].at = t.seen[j].at /\ q[Len(q)].at = x
    <3>1. i \in 1 .. Len(q) /\ j \in 1 .. Len(q) /\ Len(q) \in 1 .. Len(q)
      BY <1>1, <1>6
    <3>2. q[i] = s[i] /\ q[j] = s[j] /\ q[Len(q)] = new
      BY <1>6
    <3>3. s[i].at = t.seen[i].at /\ s[j].at = t.seen[j].at
      BY <1>1
    <3> QED BY <1>5, <3>1, <3>2, <3>3
  <2>3. PICK a \in Int, b \in Int, d \in Int : a = t.seen[i].at /\ b = t.seen[j].at /\ d = t.center
    BY <1>3, <1>9
  <2>4. a <= d /\ d <= b /\ c = (7 * d + 3 * x) \div 10
    BY <1>7, <2>1, <2>3
  <2>5. (x <= c /\ c <= b) \/ (a <= c /\ c <= x)
    BY <2>4
  <2> QED BY <1>8, <2>2, <2>3, <2>5 DEF Between
<1>11. Counted(r)
  <2>1. Len(q) = r.hits /\ r.hits >= 1 /\ q[r.hits].ago = r.misses
    BY <1>1, <1>2, <1>3, <1>5, <1>6, <1>8 DEF Counted
  <2>2. ASSUME NEW i \in 1 .. Len(q), NEW j \in 1 .. Len(q), i < j PROVE q[j].ago < q[i].ago
    <3>1. i \in 1 .. Len(s) /\ q[i].ago = t.seen[i].ago + 1 /\ t.seen[i].ago \in Nat
      BY <1>1, <1>6, <1>9, <2>2
    <3>2. CASE j = Len(s) + 1
      BY <1>5, <1>6, <3>1, <3>2
    <3>3. CASE j # Len(s) + 1
      <4>1. j \in 1 .. Len(s) /\ q[j].ago = t.seen[j].ago + 1 /\ t.seen[j].ago \in Nat
        BY <1>1, <1>6, <1>9, <3>3
      <4>2. t.seen[j].ago < t.seen[i].ago
        <5>1. \A a, b \in 1 .. Len(t.seen) : a < b => t.seen[b].ago < t.seen[a].ago
          BY <1>2 DEF Counted
        <5>2. i \in 1 .. Len(t.seen) /\ j \in 1 .. Len(t.seen)
          BY <1>1, <3>1, <4>1, Zenon
        <5> QED BY <2>2, <5>1, <5>2, Zenon
      <4>3. PICK a \in Nat, b \in Nat : a = t.seen[i].ago /\ b = t.seen[j].ago
        BY <3>1, <4>1
      <4>4. q[i].ago = a + 1 /\ q[j].ago = b + 1 /\ b < a
        BY <3>1, <4>1, <4>2, <4>3
      <4> QED BY <4>4
    <3> QED BY <3>2, <3>3
  <2> QED BY <1>8, <2>1, <2>2 DEF Counted
<1> QED BY <1>8, <1>10, <1>11 DEF Tracks, r

\* A track takes a centre of the frame or none.
LEMMA NearestIs ==
  ASSUME NEW t \in Tracks, NEW n \in Nat, NEW centers \in [1 .. n -> Int], NEW taken
  PROVE  Tracker!Nearest(t, centers, taken) \in 0 .. n
<1> DEFINE near == {i \in DOMAIN centers \ taken : Tracker!Abs(t.center - centers[i]) < TemporalTol}
           Dist(i) == Tracker!Abs(t.center - centers[i])
           Closer(i, j) == Dist(i) <= Dist(j) /\ (Dist(i) = Dist(j) => i <= j)
<1>1. near \subseteq 1 .. n
  OBVIOUS
<1>2. \A i \in near : Dist(i) \in Nat
  BY <1>1 DEF Tracker!Abs, Tracks, AnyTrack
<1>3. Tracker!Nearest(t, centers, taken) = IF near = {} THEN 0 ELSE CHOOSE i \in near : \A j \in near : Closer(i, j)
  BY DEF Tracker!Nearest
<1> HIDE DEF near, Dist
<1>4. CASE near = {}
  BY <1>3, <1>4
<1>5. CASE near # {}
  <2>1. PICK d \in {Dist(i) : i \in near} : \A e \in {Dist(i) : i \in near} : d <= e
    <3>1. {Dist(i) : i \in near} \in SUBSET Nat /\ {Dist(i) : i \in near} # {}
      BY <1>2, <1>5
    <3> QED BY <3>1, Least
  <2>2. PICK i \in {j \in near : Dist(j) = d} : \A j \in {j \in near : Dist(j) = d} : i <= j
    <3>1. {j \in near : Dist(j) = d} # {} /\ {j \in near : Dist(j) = d} \in SUBSET Nat
      BY <1>1, <2>1
    <3> QED BY <3>1, Least
  <2>3. \A j \in near : Closer(i, j)
    BY <2>1, <2>2
  <2>4. i \in near
    BY <2>2
  <2> HIDE DEF Closer
  <2>5. (CHOOSE i_1 \in near : \A j \in near : Closer(i_1, j)) \in near
    BY <2>3, <2>4
  <2> QED BY <1>1, <1>3, <1>5, <2>5
<1> QED BY <1>4, <1>5

\* Every track has its place among the matches.
LEMMA MatchesAre ==
  ASSUME tracked \in Seq(Tracks), NEW n \in Nat, NEW centers \in [1 .. n -> Int]
  PROVE  /\ Tracker!Matches(centers) \in Seq(0 .. n)
         /\ Len(Tracker!Matches(centers)) = Len(tracked)
<1> DEFINE N == Len(tracked)
           S == Seq(0 .. n)
           Take(k, s) == Append(s, Tracker!Nearest(tracked[k], centers, Tracker!Range(s)))
           Law(h) == h = [k \in 0 .. N |-> IF k = 0 THEN <<>> ELSE Take(k, h[k - 1])]
<1>1. N \in Nat /\ \A k \in 1 .. N : tracked[k] \in Tracks
  OBVIOUS
<1>2. ASSUME NEW k \in 1 .. N, NEW s \in S
      PROVE  Take(k, s) \in S /\ Len(Take(k, s)) = Len(s) + 1
  <2>1. PICK x \in 0 .. n : x = Tracker!Nearest(tracked[k], centers, Tracker!Range(s))
    BY <1>1, NearestIs
  <2>2. Append(s, x) \in S /\ Len(Append(s, x)) = Len(s) + 1
    BY AppendProperties
  <2> QED BY <2>1, <2>2
<1> HIDE DEF Take
<1>3. \E h : Law(h)
  <2> DEFINE G == [k \in 1 .. N |-> [s \in S |-> Take(k, s)]]
  <2>1. G \in [1 .. N -> [S -> S]]
    BY <1>2
  <2>2. <<>> \in S
    OBVIOUS
  <2>3. PICK h \in [0 .. N -> S] : h[0] = <<>> /\ \A k \in 1 .. N : h[k] = G[k][h[k - 1]]
    <3>1. Steps(N, S, <<>>, G)
      BY <1>1, <2>1, <2>2 DEF Steps
    <3>2. \E h : Follows(h, N, S, <<>>, G)
      BY <3>1, Recursion
    <3> QED BY <3>2 DEF Follows
  <2>4. \A k \in 1 .. N : h[k] = Take(k, h[k - 1])
    <3>1. \A k \in 1 .. N : k - 1 \in 0 .. N
      BY <1>1
    <3> QED BY <2>3, <3>1
  <2>5. \A k \in 0 .. N : h[k] = IF k = 0 THEN <<>> ELSE Take(k, h[k - 1])
    <3> SUFFICES ASSUME NEW k \in 0 .. N PROVE h[k] = IF k = 0 THEN <<>> ELSE Take(k, h[k - 1])
      OBVIOUS
    <3>1. k = 0 \/ k \in 1 .. N
      BY <1>1
    <3> QED BY <2>3, <2>4, <3>1
  <2>6. Law(h)
    BY <2>3, <2>5
  <2> QED BY <2>6
<1>4. PICK h : Law(h) /\ Tracker!Matches(centers) = h[N]
  <2>1. Law(CHOOSE h : Law(h))
    BY <1>3
  <2>2. Tracker!Matches(centers) = (CHOOSE h : Law(h))[N]
    BY DEF Tracker!Matches, Take
  <2> QED BY <2>1, <2>2
<1>5. h[0] = <<>> /\ \A k \in 1 .. N : h[k] = Take(k, h[k - 1])
  <2>1. 0 \in 0 .. N /\ \A k \in 1 .. N : k \in 0 .. N /\ k # 0
    BY <1>1
  <2> HIDE DEF N
  <2>2. h[0] = IF 0 = 0 THEN <<>> ELSE Take(0, h[0 - 1])
    BY <1>4, <2>1
  <2>3. \A k \in 1 .. N : h[k] = IF k = 0 THEN <<>> ELSE Take(k, h[k - 1])
    BY <1>4, <2>1
  <2> QED BY <2>1, <2>2, <2>3
<1>6. \A k \in 0 .. N : h[k] \in S /\ Len(h[k]) = k
  <2> DEFINE B == {k \in Nat : h[k] \in S /\ Len(h[k]) = k}
  <2>1. 0 \in B
    <3>1. <<>> \in Seq(Nat) /\ Len(<<>>) = 0 /\ <<>> \in S
      OBVIOUS
    <3> QED BY <1>5, <3>1
  <2>2. ASSUME NEW k \in 1 .. N, k - 1 \in B PROVE k \in B
    <3>1. k \in Nat /\ h[k - 1] \in S /\ Len(h[k - 1]) = k - 1 /\ h[k] = Take(k, h[k - 1])
      BY <1>1, <1>5, <2>2
    <3>2. h[k] \in S /\ Len(h[k]) = Len(h[k - 1]) + 1
      BY <1>2, <3>1
    <3>3. Len(h[k]) = k
      BY <3>1, <3>2
    <3> QED BY <3>1, <3>2, <3>3
  <2> HIDE DEF B, N
  <2>3. \A k \in 0 .. N : k \in B
    BY <1>1, <2>1, <2>2, Induction
  <2> QED BY <2>3 DEF B
<1>7. h[N] \in S /\ Len(h[N]) = N
  <2>1. N \in 0 .. N
    BY <1>1
  <2> QED BY <1>6, <2>1
<1> QED BY <1>1, <1>4, <1>7

\* What is kept of a list is of the list.
LEMMA SelectedAre ==
  ASSUME NEW S, NEW list \in Seq(S), NEW T, NEW kept, \A k \in kept : k \in 1 .. Len(list) => list[k] \in T
  PROVE  Tracker!Selected(list, kept) \in Seq(T)
<1> DEFINE N == Len(list)
           Take(k, s) == IF k \in kept THEN Append(s, list[k]) ELSE s
           Law(h) == h = [k \in 0 .. N |-> IF k = 0 THEN <<>> ELSE Take(k, h[k - 1])]
<1>1. N \in Nat
  OBVIOUS
<1>2. ASSUME NEW k \in 1 .. N, NEW s \in Seq(T) PROVE Take(k, s) \in Seq(T)
  <2>1. CASE k \in kept
    <3>1. PICK x \in T : x = list[k]
      BY <2>1
    <3>2. Append(s, x) \in Seq(T)
      OBVIOUS
    <3> QED BY <2>1, <3>1, <3>2
  <2> QED BY <2>1
<1>0. Law(CHOOSE h : Law(h)) => Tracker!Selected(list, kept) = (CHOOSE h : Law(h))[N]
  BY DEF Tracker!Selected
<1> HIDE DEF Take
<1>3. \E h : Law(h)
  <2> DEFINE G == [k \in 1 .. N |-> [s \in Seq(T) |-> Take(k, s)]]
  <2>1. G \in [1 .. N -> [Seq(T) -> Seq(T)]]
    BY <1>2
  <2>2. <<>> \in Seq(T)
    OBVIOUS
  <2>3. PICK h \in [0 .. N -> Seq(T)] : h[0] = <<>> /\ \A k \in 1 .. N : h[k] = G[k][h[k - 1]]
    <3>1. Steps(N, Seq(T), <<>>, G)
      BY <1>1, <2>1, <2>2 DEF Steps
    <3>2. \E h : Follows(h, N, Seq(T), <<>>, G)
      BY <3>1, Recursion
    <3> QED BY <3>2 DEF Follows
  <2>4. \A k \in 1 .. N : h[k] = Take(k, h[k - 1])
    <3>1. \A k \in 1 .. N : k - 1 \in 0 .. N
      BY <1>1
    <3> QED BY <2>3, <3>1
  <2>5. \A k \in 0 .. N : h[k] = IF k = 0 THEN <<>> ELSE Take(k, h[k - 1])
    <3> SUFFICES ASSUME NEW k \in 0 .. N PROVE h[k] = IF k = 0 THEN <<>> ELSE Take(k, h[k - 1])
      OBVIOUS
    <3>1. k = 0 \/ k \in 1 .. N
      BY <1>1
    <3> QED BY <2>3, <2>4, <3>1
  <2>6. Law(h)
    BY <2>3, <2>5
  <2> QED BY <2>6
<1>4. PICK h : Law(h) /\ Tracker!Selected(list, kept) = h[N]
  BY <1>0, <1>3
<1>5. h[0] = <<>> /\ \A k \in 1 .. N : h[k] = Take(k, h[k - 1])
  <2>1. 0 \in 0 .. N /\ \A k \in 1 .. N : k \in 0 .. N /\ k # 0
    BY <1>1
  <2> HIDE DEF N
  <2>2. h[0] = IF 0 = 0 THEN <<>> ELSE Take(0, h[0 - 1])
    BY <1>4, <2>1
  <2>3. \A k \in 1 .. N : h[k] = IF k = 0 THEN <<>> ELSE Take(k, h[k - 1])
    BY <1>4, <2>1
  <2> QED BY <2>1, <2>2, <2>3
<1>6. \A k \in 0 .. N : h[k] \in Seq(T)
  <2> DEFINE B == {k \in Nat : h[k] \in Seq(T)}
  <2>1. 0 \in B
    <3>1. <<>> \in Seq(T)
      OBVIOUS
    <3> QED BY <1>5, <3>1
  <2>2. ASSUME NEW k \in 1 .. N, k - 1 \in B PROVE k \in B
    <3>1. k \in Nat /\ h[k - 1] \in Seq(T) /\ h[k] = Take(k, h[k - 1])
      BY <1>1, <1>5, <2>2
    <3> QED BY <1>2, <2>2, <3>1
  <2> HIDE DEF B, N
  <2>3. \A k \in 0 .. N : k \in B
    BY <1>1, <2>1, <2>2, Induction
  <2> QED BY <2>3 DEF B
<1> QED BY <1>1, <1>4, <1>6

\* The tracks that are not stale.
Lively == {t \in Tracks : t.misses < StaleFrames}

\* update_tracked_rings leaves tracks, none of them stale.
LEMMA UpdatedAre ==
  ASSUME tracked \in Seq(Tracks), NEW n \in Nat, NEW centers \in [1 .. n -> Int]
  PROVE  Tracker!Updated(centers) \in Seq(Lively)
<1> DEFINE match == Tracker!Matches(centers)
           Step(k) == IF match[k] = 0 THEN Tracker!Missed(Tracker!Older(tracked[k]))
                      ELSE Tracker!Seen(Tracker!Older(tracked[k]), centers[match[k]])
           New(i) == [center |-> centers[i], hits |-> 1, misses |-> 0, seen |-> <<[at |-> centers[i], ago |-> 0]>>]
           old == Len(tracked)
           all == [k \in 1 .. old + Len(centers) |-> IF k <= old THEN Step(k) ELSE New(k - old)]
           unused == (1 .. old + Len(centers)) \ {old + match[k] : k \in {j \in DOMAIN match : match[j] # 0}}
           kept == {k \in unused : Tracker!Kept(all[k])}
<1>1. old \in Nat /\ \A k \in 1 .. old : tracked[k] \in Tracks
  OBVIOUS
<1>2. centers \in Seq(Int) /\ Len(centers) = n
  OBVIOUS
<1>3. \A k \in 1 .. old : match[k] \in 0 .. n
  <2>1. match \in Seq(0 .. n) /\ Len(match) = old
    BY MatchesAre
  <2> HIDE DEF match
  <2> QED BY <2>1
<1>4. \A k \in 1 .. old : Step(k) \in Tracks
  <2> SUFFICES ASSUME NEW k \in 1 .. old PROVE Step(k) \in Tracks
    OBVIOUS
  <2>1. tracked[k] \in Tracks /\ match[k] \in 0 .. n
    BY <1>1, <1>3
  <2> HIDE DEF match
  <2>2. CASE match[k] = 0
    BY <2>1, <2>2, MissedIsTrack
  <2>3. CASE match[k] # 0
    <3>1. centers[match[k]] \in Int
      BY <2>1, <2>3
    <3> QED BY <2>1, <2>3, <3>1, SeenIsTrack
  <2> QED BY <2>2, <2>3
<1>5. \A i \in 1 .. n : New(i) \in Tracks
  BY NewIsTrack
<1>6. Tracker!Updated(centers) = Tracker!Selected(all, kept)
  BY DEF Tracker!Updated
<1> HIDE DEF Step, New, match, old
<1>7. \A k \in 1 .. old + n : all[k] \in Tracks
  <2> SUFFICES ASSUME NEW k \in 1 .. old + n PROVE all[k] \in Tracks
    OBVIOUS
  <2>1. CASE k <= old
    BY <1>1, <1>2, <1>4, <2>1
  <2>2. CASE ~(k <= old)
    <3>1. k - old \in 1 .. n
      BY <1>1, <2>2
    <3>2. all[k] = New(k - old)
      BY <1>2, <2>2
    <3> QED BY <1>5, <3>1, <3>2
  <2> QED BY <2>1, <2>2
<1>8. all \in Seq(Tracks) /\ Len(all) = old + n
  <2>1. all \in [1 .. old + n -> Tracks]
    BY <1>2, <1>7
  <2> HIDE DEF all
  <2> QED BY <1>1, <2>1
<1>9. \A k \in kept : k \in 1 .. Len(all) => all[k] \in Lively
  <2> HIDE DEF all, unused
  <2> QED BY <1>7, <1>8 DEF Lively, Tracker!Kept
<1> HIDE DEF all, kept
<1> QED BY <1>6, <1>8, <1>9, SelectedAre

\* One of the tracks that were seen often enough has most hits, and is the first of these.
LEMMA BestIs ==
  ASSUME NEW tracks \in Seq(Tracks), NEW ok, ok \subseteq 1 .. Len(tracks), ok # {}
  PROVE  \E k \in ok : \A j \in ok : tracks[j].hits <= tracks[k].hits /\ (tracks[j].hits = tracks[k].hits => k <= j)
<1> DEFINE N == Len(tracks)
           Best(k, n) == \A j \in ok \cap (1 .. n) :
                           tracks[j].hits <= tracks[k].hits /\ (tracks[j].hits = tracks[k].hits => k <= j)
           B == {n \in Nat : ok \cap (1 .. n) = {} \/ \E k \in ok \cap (1 .. n) : Best(k, n)}
<1>1. N \in Nat /\ \A k \in 1 .. N : tracks[k].hits \in Nat
  <2>1. N \in Nat /\ \A k \in 1 .. N : tracks[k] \in AnyTrack
    BY DEF Tracks
  <2> QED BY <2>1 DEF AnyTrack
<1>2. 0 \in B
  OBVIOUS
<1>3. ASSUME NEW n \in 1 .. N, n - 1 \in B PROVE n \in B
  <2>0. n \in Nat /\ \A j \in 1 .. n : j = n \/ j \in 1 .. n - 1
    BY <1>1
  <2>1. CASE n \notin ok
    <3>1. ok \cap (1 .. n) = ok \cap (1 .. n - 1)
      BY <2>0, <2>1
    <3> QED BY <1>3, <2>0, <3>1
  <2>2. CASE n \in ok /\ ok \cap (1 .. n - 1) = {}
    <3>1. ok \cap (1 .. n) = {n}
      BY <2>0, <2>2
    <3>2. Best(n, n)
      BY <1>1, <3>1
    <3> QED BY <2>0, <3>1, <3>2
  <2>3. CASE n \in ok /\ ok \cap (1 .. n - 1) # {}
    <3>1. PICK k \in ok \cap (1 .. n - 1) : Best(k, n - 1)
      BY <1>3, <2>3
    <3>2. k \in 1 .. N /\ k < n /\ k \in ok \cap (1 .. n) /\ n \in ok \cap (1 .. n)
      BY <1>1, <2>3
    <3>3. CASE tracks[n].hits <= tracks[k].hits
      <4>1. Best(k, n)
        BY <2>0, <3>1, <3>2, <3>3
      <4> QED BY <2>0, <3>2, <4>1
    <3>4. CASE ~(tracks[n].hits <= tracks[k].hits)
      <4>1. ASSUME NEW j \in ok \cap (1 .. n)
            PROVE  tracks[j].hits <= tracks[n].hits /\ (tracks[j].hits = tracks[n].hits => n <= j)
        <5>1. CASE j = n
          BY <1>1, <5>1
        <5>2. CASE j # n
          <6>1. j \in ok \cap (1 .. n - 1) /\ j \in 1 .. N
            BY <1>1, <2>0, <5>2
          <6>2. tracks[j].hits <= tracks[k].hits
            BY <3>1, <6>1
          <6> QED BY <1>1, <3>2, <3>4, <6>1, <6>2
        <5> QED BY <5>1, <5>2
      <4>2. Best(n, n)
        BY <4>1
      <4> QED BY <2>0, <3>2, <4>2
    <3> QED BY <3>3, <3>4
  <2> QED BY <2>1, <2>2, <2>3
<1> HIDE DEF B
<1>4. \A n \in 0 .. N : n \in B
  BY <1>1, <1>2, <1>3, Induction
<1>5. N \in B /\ ok \cap (1 .. N) = ok
  <2>1. N \in 0 .. N
    BY <1>1
  <2> QED BY <1>4, <2>1
<1> QED BY <1>5 DEF B

\* The frames in which a track was seen are as many as its hits.
LEMMA FramesAreHits ==
  ASSUME NEW t \in Tracks
  PROVE  Tracker!Cardinality({s.ago : s \in Tracker!Range(t.seen)}) = t.hits
<1> DEFINE T == {s.ago : s \in Tracker!Range(t.seen)}
           f == [i \in 1 .. t.hits |-> t.seen[i].ago]
<1>1. t \in AnyTrack /\ Counted(t)
  BY DEF Tracks
<1>2. t.hits \in Nat /\ t.seen \in Seq(Sighting)
  BY <1>1 DEF AnyTrack
<1>3. Len(t.seen) = t.hits /\ DOMAIN t.seen = 1 .. t.hits
  BY <1>1, <1>2 DEF Counted
<1>4. T = {t.seen[i].ago : i \in 1 .. t.hits}
  BY <1>3 DEF Tracker!Range
<1>5. \A i \in 1 .. t.hits : t.seen[i].ago \in Nat
  <2>1. \A i \in 1 .. t.hits : t.seen[i] \in Sighting
    BY <1>2, <1>3
  <2> QED BY <2>1 DEF Sighting
<1>6. \A i, j \in 1 .. t.hits : t.seen[i].ago = t.seen[j].ago => i = j
  BY <1>1, <1>2, <1>3, <1>5 DEF Counted
<1> HIDE DEF T
<1>7. f \in [1 .. t.hits -> T] /\ \A x \in T : \E i \in 1 .. t.hits : f[i] = x
  BY <1>4
<1>8. ExistsBijection(1 .. t.hits, T)
  <2>0. \A i, j \in 1 .. t.hits : f[i] = f[j] => i = j
    BY <1>6
  <2>1. f \in Bijection(1 .. t.hits, T)
    <3> HIDE DEF f
    <3>1. f \in Injection(1 .. t.hits, T)
      BY <1>7, <2>0 DEF Injection, IsInjective
    <3>2. f \in Surjection(1 .. t.hits, T)
      BY <1>7 DEF Surjection
    <3> QED BY <3>1, <3>2 DEF Bijection
  <2> QED BY <2>1 DEF ExistsBijection
<1>9. Cardinality(T) = t.hits
  BY <1>2, <1>8, FS_CountingElements
<1> QED BY <1>9 DEF T, Tracker!Cardinality, Cardinality

\* The ring that is published was confirmed.
LEMMA ConfirmedAre ==
  ASSUME NEW all \in Seq(Lively)
  PROVE  \/ Tracker!Confirmed(all) = published
         \/ Tracker!Confirmed(all) \in Lively /\ Tracker!Confirmed(all).hits >= ConfirmFrames
<1> DEFINE ok == {k \in DOMAIN all : all[k].hits >= ConfirmFrames}
           Best(k) == \A j \in ok : all[j].hits <= all[k].hits /\ (all[j].hits = all[k].hits => k <= j)
<1>1. Tracker!Confirmed(all) = IF ok = {} THEN published ELSE all[CHOOSE k \in ok : Best(k)]
  BY DEF Tracker!Confirmed
<1>2. CASE ok = {}
  BY <1>1, <1>2
<1>3. CASE ok # {}
  <2>1. all \in Seq(Tracks) /\ ok \subseteq 1 .. Len(all)
    <3>1. \A k \in 1 .. Len(all) : all[k] \in Tracks
      BY DEF Lively
    <3> QED BY <3>1
  <2>2. \E k \in ok : Best(k)
    <3> HIDE DEF ok
    <3> QED BY <1>3, <2>1, BestIs
  <2>3. PICK k \in ok : Tracker!Confirmed(all) = all[k]
    <3> HIDE DEF ok, Best
    <3> QED BY <1>1, <1>3, <2>2
  <2> QED BY <2>3
<1> QED BY <1>2, <1>3

\* What is tracked are tracks that were missed for less than stale_frames_ frames; what was
\* published was one of these, confirmed.
RingInv ==
  /\ tracked \in Seq(Lively)
  /\ published # Nothing => published \in Lively /\ published.hits >= ConfirmFrames

\* Every step of the two nodes keeps the tracks and what was published.
LEMMA RingsStep ==
  ASSUME World \subseteq Int, RingPoses \subseteq Int, Window \in Nat, MaxRings \in Nat,
         CloudInv, RingInv, [Tracker!Next]_Tracker!vars
  PROVE  RingInv'
<1>1. CASE UNCHANGED <<tracked, published>>
  BY <1>1 DEF RingInv
<1>2. CASE Tracker!OnCloud
  <2>1. PICK cloud \in Tracker!FilteredClouds :
          \/ UNCHANGED <<tracked, published>>
          \/ Tracker!Detect(Tracker!InWorldBox(Tracker!Merge(Tracker!Pushed(cloud)).cloud))
    BY <1>2 DEF Tracker!OnCloud
  <2> DEFINE box == Tracker!InWorldBox(Tracker!Merge(Tracker!Pushed(cloud)).cloud)
  <2>2. box \subseteq Int
    <3>1. PICK p \in Seq(Frame) : p = Tracker!Pushed(cloud) /\ Len(p) >= 1
      BY WindowShows
    <3>2. Tracker!Merge(p).cloud \subseteq Int
      BY <3>1, MergeIsCloud
    <3> QED BY <3>1, <3>2 DEF Tracker!InWorldBox
  <2>3. CASE Tracker!Detect(box) /\ ~ UNCHANGED <<tracked, published>>
    <3>1. PICK centers \in Tracker!Sightings(box) :
            tracked' = Tracker!Updated(centers) /\ published' = Tracker!Confirmed(Tracker!Updated(centers))
      BY <2>3 DEF Tracker!Detect
    <3>2. PICK n \in Nat : centers \in [1 .. n -> Int]
      <4> HIDE DEF box
      <4>1. PICK n \in 0 .. MaxRings : centers \in [1 .. n -> box]
        BY <3>1 DEF Tracker!Sightings
      <4>2. n \in Nat
        OBVIOUS
      <4>3. centers \in [1 .. n -> Int]
        BY <2>2, <4>1
      <4> QED BY <4>2, <4>3
    <3>3. tracked \in Seq(Tracks)
      <4>1. \A k \in 1 .. Len(tracked) : tracked[k] \in Tracks
        BY DEF RingInv, Lively
      <4> QED BY <4>1 DEF RingInv
    <3>4. PICK all \in Seq(Lively) : all = Tracker!Updated(centers)
      BY <3>2, <3>3, UpdatedAre
    <3>5. tracked' \in Seq(Lively) /\ published' = Tracker!Confirmed(all)
      BY <3>1, <3>4
    <3>6. Tracker!Confirmed(all) = published \/
            (Tracker!Confirmed(all) \in Lively /\ Tracker!Confirmed(all).hits >= ConfirmFrames)
      BY ConfirmedAre
    <3> QED BY <3>5, <3>6 DEF RingInv
  <2> QED BY <1>1, <2>1, <2>3
<1> QED BY <1>1, <1>2 DEF Tracker!Next, Tracker!Move, Tracker!OnOdom, Tracker!OnImu, Tracker!vars

\* What was published was seen in confirm_frames_ frames, and lately.
LEMMA LivelyIsSeen == RingInv => ConfirmedIsSeen
<1> SUFFICES ASSUME RingInv, published # Nothing
             PROVE  /\ Tracker!Cardinality({s.ago : s \in Tracker!Range(published.seen)}) >= ConfirmFrames
                    /\ Tracker!Last(published.seen).ago < StaleFrames
                    /\ \E s, t \in Tracker!Range(published.seen) :
                         s.at <= published.center /\ published.center <= t.at
  BY DEF ConfirmedIsSeen, Tracker!ConfirmedIsSeen
<1>1. PICK t \in Tracks : t = published /\ t.misses < StaleFrames /\ t.hits >= ConfirmFrames
  BY DEF RingInv, Lively
<1>2. t \in AnyTrack /\ Between(t) /\ Counted(t)
  BY DEF Tracks
<1>3. t.hits \in Nat /\ t.seen \in Seq(Sighting)
  BY <1>2 DEF AnyTrack
<1>4. Tracker!Cardinality({s.ago : s \in Tracker!Range(t.seen)}) >= ConfirmFrames
  BY <1>1, FramesAreHits
<1>5. Tracker!Last(t.seen).ago = t.misses
  BY <1>2, <1>3 DEF Counted, Tracker!Last
<1>6. \E s, u \in Tracker!Range(t.seen) : s.at <= t.center /\ t.center <= u.at
  <2>1. PICK i \in 1 .. Len(t.seen), j \in 1 .. Len(t.seen) : t.seen[i].at <= t.center /\ t.center <= t.seen[j].at
    BY <1>2 DEF Between
  <2>2. t.seen[i] \in Tracker!Range(t.seen) /\ t.seen[j] \in Tracker!Range(t.seen)
    BY <1>3 DEF Tracker!Range
  <2> QED BY <2>1, <2>2
<1> QED BY <1>1, <1>4, <1>5, <1>6

\* publish_confirmed_ring: a ring on /lidox/ring_center was seen in confirm_frames_ different
\* frames, the last of them less than stale_frames_ frames ago, and lies between its sightings,
\* however many rings compete for the centres of a frame.
THEOREM PublishedRingsWereSeen ==
  ASSUME World \subseteq Int, RingPoses \subseteq Int, Window \in Nat, MaxRings \in Nat
  PROVE  Tracker!Spec => []ConfirmedIsSeen
<1>1. Tracker!Init => CloudInv
  BY CloudsInit
<1>2. Tracker!Init => RingInv
  <2> SUFFICES ASSUME Tracker!Init PROVE RingInv
    OBVIOUS
  <2>1. tracked = <<>> /\ published = Nothing
    BY DEF Tracker!Init
  <2> QED BY <2>1 DEF RingInv
<1> QED BY <1>1, <1>2, CloudsStep, RingsStep, LivelyIsSeen, PTL DEF Tracker!Spec

(* SCManager: the descriptors of places.                                   *)

\* What the loop of a sum holds at each index.
IsSum(h, f, n) == h[0] = 0 /\ \A k \in 1 .. n : h[k - 1] \in Int /\ h[k] = h[k - 1] + f[k - 1]

LEMMA SumIs ==
  ASSUME NEW n \in Nat, NEW f, \A k \in 0 .. n - 1 : f[k] \in Int
  PROVE  \E h : IsSum(h, f, n) /\ Context!Sum(f, n) = h[n] /\ h[n] \in Int
<1> DEFINE Take(k, x) == x + f[k - 1]
           Law(h) == h = [k \in 0 .. n |-> IF k = 0 THEN 0 ELSE Take(k, h[k - 1])]
<1>1. Law(CHOOSE h : Law(h)) => Context!Sum(f, n) = (CHOOSE h : Law(h))[n]
  BY DEF Context!Sum
<1>2. ASSUME NEW k \in 1 .. n, NEW x \in Int PROVE Take(k, x) \in Int
  <2>1. k - 1 \in 0 .. n - 1
    OBVIOUS
  <2> QED BY <2>1
<1> HIDE DEF Take
<1>3. \E h : Law(h)
  <2> DEFINE G == [k \in 1 .. n |-> [x \in Int |-> Take(k, x)]]
  <2>1. G \in [1 .. n -> [Int -> Int]]
    BY <1>2
  <2>2. PICK h \in [0 .. n -> Int] : h[0] = 0 /\ \A k \in 1 .. n : h[k] = G[k][h[k - 1]]
    <3>1. Steps(n, Int, 0, G)
      BY <2>1 DEF Steps
    <3>2. \E h : Follows(h, n, Int, 0, G)
      BY <3>1, Recursion
    <3> QED BY <3>2 DEF Follows
  <2>3. \A k \in 1 .. n : h[k] = Take(k, h[k - 1])
    <3>1. \A k \in 1 .. n : k - 1 \in 0 .. n
      OBVIOUS
    <3> QED BY <2>2, <3>1
  <2>4. \A k \in 0 .. n : h[k] = IF k = 0 THEN 0 ELSE Take(k, h[k - 1])
    <3> SUFFICES ASSUME NEW k \in 0 .. n PROVE h[k] = IF k = 0 THEN 0 ELSE Take(k, h[k - 1])
      OBVIOUS
    <3>1. k = 0 \/ k \in 1 .. n
      OBVIOUS
    <3> QED BY <2>2, <2>3, <3>1
  <2>5. Law(h)
    BY <2>2, <2>4
  <2> QED BY <2>5
<1>4. PICK h : Law(h) /\ Context!Sum(f, n) = h[n]
  BY <1>1, <1>3
<1>5. h[0] = 0 /\ \A k \in 1 .. n : h[k] = Take(k, h[k - 1])
  <2>1. 0 \in 0 .. n /\ \A k \in 1 .. n : k \in 0 .. n /\ k # 0
    OBVIOUS
  <2>2. h[0] = IF 0 = 0 THEN 0 ELSE Take(0, h[0 - 1])
    BY <1>4, <2>1
  <2>3. \A k \in 1 .. n : h[k] = IF k = 0 THEN 0 ELSE Take(k, h[k - 1])
    BY <1>4, <2>1
  <2> QED BY <2>1, <2>2, <2>3
<1>6. \A k \in 0 .. n : h[k] \in Int
  <2> DEFINE B == {k \in Nat : h[k] \in Int}
  <2>1. 0 \in B
    BY <1>5
  <2>2. ASSUME NEW k \in 1 .. n, k - 1 \in B PROVE k \in B
    <3>1. k \in Nat /\ h[k - 1] \in Int /\ h[k] = Take(k, h[k - 1])
      BY <1>5, <2>2
    <3> QED BY <1>2, <2>2, <3>1
  <2> HIDE DEF B
  <2>3. \A k \in 0 .. n : k \in B
    BY <2>1, <2>2, Induction
  <2> QED BY <2>3 DEF B
<1>7. IsSum(h, f, n)
  <2>1. \A k \in 1 .. n : k - 1 \in 0 .. n
    OBVIOUS
  <2> QED BY <1>5, <1>6, <2>1 DEF Take, IsSum
<1>8. n \in 0 .. n
  OBVIOUS
<1> QED BY <1>4, <1>6, <1>7, <1>8

\* Sums of naturals, of nothing, and of something.
LEMMA SumNat ==
  ASSUME NEW n \in Nat, NEW f, \A k \in 0 .. n - 1 : f[k] \in Nat
  PROVE  /\ Context!Sum(f, n) \in Nat
         /\ (\A k \in 0 .. n - 1 : f[k] = 0) => Context!Sum(f, n) = 0
         /\ (\E k \in 0 .. n - 1 : f[k] >= 1) => Context!Sum(f, n) >= 1
<1>1. PICK h : IsSum(h, f, n) /\ Context!Sum(f, n) = h[n] /\ h[n] \in Int
  BY SumIs
<1>2. h[0] = 0 /\ \A k \in 1 .. n : k - 1 \in 0 .. n - 1 /\ h[k - 1] \in Int /\ h[k] = h[k - 1] + f[k - 1]
  BY <1>1 DEF IsSum
<1>3. n \in 0 .. n
  OBVIOUS
<1>4. h[n] \in Nat
  <2> DEFINE B == {k \in Nat : h[k] \in Nat}
  <2>1. 0 \in B
    BY <1>2
  <2>2. ASSUME NEW k \in 1 .. n, k - 1 \in B PROVE k \in B
    BY <1>2, <2>2
  <2> HIDE DEF B
  <2>3. \A k \in 0 .. n : k \in B
    BY <2>1, <2>2, Induction
  <2> QED BY <1>3, <2>3 DEF B
<1>5. ASSUME \A k \in 0 .. n - 1 : f[k] = 0 PROVE h[n] = 0
  <2> DEFINE B == {k \in Nat : h[k] = 0}
  <2>1. 0 \in B
    BY <1>2
  <2>2. ASSUME NEW k \in 1 .. n, k - 1 \in B PROVE k \in B
    BY <1>2, <1>5, <2>2
  <2> HIDE DEF B
  <2>3. \A k \in 0 .. n : k \in B
    BY <2>1, <2>2, Induction
  <2> QED BY <1>3, <2>3 DEF B
<1>6. ASSUME NEW i \in 0 .. n - 1, f[i] >= 1 PROVE h[n] >= 1
  <2> DEFINE B == {k \in Nat : h[k] \in Nat /\ (i < k => h[k] >= 1)}
  <2>1. 0 \in B
    BY <1>2
  <2>2. ASSUME NEW k \in 1 .. n, k - 1 \in B PROVE k \in B
    <3>1. h[k - 1] \in Nat /\ f[k - 1] \in Nat /\ h[k] = h[k - 1] + f[k - 1] /\ (i < k - 1 => h[k - 1] >= 1)
      BY <1>2, <2>2
    <3>2. i < k => i < k - 1 \/ i = k - 1
      OBVIOUS
    <3> QED BY <1>6, <3>1, <3>2
  <2> HIDE DEF B
  <2>3. \A k \in 0 .. n : k \in B
    BY <2>1, <2>2, Induction
  <2> QED BY <1>3, <2>3 DEF B
<1> QED BY <1>1, <1>4, <1>5, <1>6

\* The closest of some results is one of them or where the loop starts, and if one of them is
\* an exact fit it is an exact fit as well.
Results    == [id : Int, shift : Int, num : Nat, den : Nat]
FitsWell(a) == a.num = 0 /\ a.den # 0

LEMMA CloserIs ==
  ASSUME NEW a \in Results, NEW b \in Results, b.den # 0
  PROVE  /\ b.num = 0 => ~Context!Closer(a, b)
         /\ FitsWell(a) /\ ~Context!Closer(a, b) => b.num = 0
<1>1. PICK an \in Nat, ad \in Nat, bn \in Nat, bd \in Nat : an = a.num /\ ad = a.den /\ bn = b.num /\ bd = b.den
  BY DEF Results
<1>2. Context!Closer(a, b) <=> ad # 0 /\ an * bd < bn * ad
  BY <1>1 DEF Context!Closer
<1>3. ASSUME bn = 0 PROVE ~(an * bd < bn * ad)
  <2>1. bn * ad = 0 /\ an * bd >= 0
    BY <1>3
  <2> QED BY <2>1
<1>4. ASSUME an = 0, ad # 0, bn # 0 PROVE an * bd < bn * ad
  <2>1. an * bd = 0
    BY <1>4
  <2>2. bn * ad > 0
    BY <1>4
  <2> QED BY <2>1, <2>2
<1> QED BY <1>1, <1>2, <1>3, <1>4 DEF FitsWell

LEMMA ClosestIs ==
  ASSUME NEW n \in Nat, NEW results, DOMAIN results \subseteq 0 .. n - 1,
         \A k \in DOMAIN results : results[k] \in Results
  PROVE  LET b == Context!Closest(results, n) IN
         /\ b \in Results /\ b.den # 0
         /\ b = Context!Start \/ \E k \in DOMAIN results : b = results[k]
         /\ (\E k \in DOMAIN results : FitsWell(results[k])) => b.num = 0
<1> DEFINE S == {b \in Results : b.den # 0 /\ (b = Context!Start \/ \E k \in DOMAIN results : b = results[k])}
           Take(k, b) == IF k - 1 \in DOMAIN results /\ Context!Closer(results[k - 1], b) THEN results[k - 1] ELSE b
           Law(h) == h = [k \in 0 .. n |-> IF k = 0 THEN Context!Start ELSE Take(k, h[k - 1])]
<1>1. Law(CHOOSE h : Law(h)) => Context!Closest(results, n) = (CHOOSE h : Law(h))[n]
  BY DEF Context!Closest
<1>2. ASSUME NEW k \in 1 .. n, NEW b \in S PROVE Take(k, b) \in S
  <2>1. CASE k - 1 \in DOMAIN results /\ Context!Closer(results[k - 1], b)
    <3>1. Take(k, b) = results[k - 1]
      BY <2>1
    <3>2. results[k - 1] \in Results /\ results[k - 1].den # 0
      BY <2>1 DEF Context!Closer
    <3> QED BY <2>1, <3>1, <3>2
  <2>2. CASE ~(k - 1 \in DOMAIN results /\ Context!Closer(results[k - 1], b))
    <3>1. Take(k, b) = b
      BY <2>2
    <3> QED BY <3>1
  <2> QED BY <2>1, <2>2
<1>3. Context!Start \in S
  BY DEF Context!Start, Results
<1>4. ASSUME NEW k \in 1 .. n, NEW b \in S, k - 1 \in DOMAIN results, FitsWell(results[k - 1])
      PROVE  Take(k, b).num = 0
  <2>1. CASE Context!Closer(results[k - 1], b)
    <3>1. Take(k, b) = results[k - 1]
      BY <1>4, <2>1
    <3> QED BY <1>4, <3>1 DEF FitsWell
  <2>2. CASE ~Context!Closer(results[k - 1], b)
    <3>1. Take(k, b) = b
      BY <2>2
    <3>2. results[k - 1] \in Results /\ b \in Results /\ b.den # 0
      BY <1>4
    <3> QED BY <1>4, <2>2, <3>1, <3>2, CloserIs
  <2> QED BY <2>1, <2>2
<1>5. ASSUME NEW k \in 1 .. n, NEW b \in S, b.num = 0 PROVE Take(k, b).num = 0
  <2>1. CASE k - 1 \in DOMAIN results
    <3>1. ~Context!Closer(results[k - 1], b)
      BY <1>5, <2>1, CloserIs
    <3> QED BY <1>5, <3>1
  <2> QED BY <1>5, <2>1
<1> HIDE DEF Take, S
<1>6. \E h : Law(h)
  <2> DEFINE G == [k \in 1 .. n |-> [b \in S |-> Take(k, b)]]
  <2>1. G \in [1 .. n -> [S -> S]]
    BY <1>2
  <2>2. PICK h \in [0 .. n -> S] : h[0] = Context!Start /\ \A k \in 1 .. n : h[k] = G[k][h[k - 1]]
    <3>1. Steps(n, S, Context!Start, G)
      BY <1>3, <2>1 DEF Steps
    <3>2. \E h : Follows(h, n, S, Context!Start, G)
      BY <3>1, Recursion
    <3> QED BY <3>2 DEF Follows
  <2>3. \A k \in 1 .. n : h[k] = Take(k, h[k - 1])
    <3>1. \A k \in 1 .. n : k - 1 \in 0 .. n
      OBVIOUS
    <3> QED BY <2>2, <3>1
  <2>4. \A k \in 0 .. n : h[k] = IF k = 0 THEN Context!Start ELSE Take(k, h[k - 1])
    <3> SUFFICES ASSUME NEW k \in 0 .. n PROVE h[k] = IF k = 0 THEN Context!Start ELSE Take(k, h[k - 1])
      OBVIOUS
    <3>1. k = 0 \/ k \in 1 .. n
      OBVIOUS
    <3> QED BY <2>2, <2>3, <3>1
  <2>5. Law(h)
    BY <2>2, <2>4
  <2> QED BY <2>5
<1>7. PICK h : Law(h) /\ Context!Closest(results, n) = h[n]
  BY <1>1, <1>6
<1>8. h[0] = Context!Start /\ \A k \in 1 .. n : h[k] = Take(k, h[k - 1])
  <2>1. 0 \in 0 .. n /\ \A k \in 1 .. n : k \in 0 .. n /\ k # 0
    OBVIOUS
  <2>2. h[0] = IF 0 = 0 THEN Context!Start ELSE Take(0, h[0 - 1])
    BY <1>7, <2>1
  <2>3. \A k \in 1 .. n : h[k] = IF k = 0 THEN Context!Start ELSE Take(k, h[k - 1])
    BY <1>7, <2>1
  <2> QED BY <2>1, <2>2, <2>3
<1>9. n \in 0 .. n
  OBVIOUS
<1>10. \A k \in 0 .. n : h[k] \in S
  <2> DEFINE B == {k \in Nat : h[k] \in S}
  <2>1. 0 \in B
    BY <1>3, <1>8
  <2>2. ASSUME NEW k \in 1 .. n, k - 1 \in B PROVE k \in B
    <3>1. k \in Nat /\ h[k - 1] \in S /\ h[k] = Take(k, h[k - 1])
      BY <1>8, <2>2
    <3> QED BY <1>2, <2>2, <3>1
  <2> HIDE DEF B
  <2>3. \A k \in 0 .. n : k \in B
    BY <2>1, <2>2, Induction
  <2> QED BY <2>3 DEF B
<1>11. ASSUME NEW z \in DOMAIN results, FitsWell(results[z]) PROVE h[n].num = 0
  <2> DEFINE B == {k \in Nat : z < k => h[k].num = 0}
  <2>1. 0 \in B /\ z \in 0 .. n - 1
    OBVIOUS
  <2>2. ASSUME NEW k \in 1 .. n, k - 1 \in B PROVE k \in B
    <3>1. k \in Nat /\ h[k - 1] \in S /\ h[k] = Take(k, h[k - 1])
      <4>1. k - 1 \in 0 .. n
        OBVIOUS
      <4> QED BY <1>8, <1>10, <4>1
    <3>2. CASE z = k - 1
      <4>1. h[k].num = 0
        BY <1>4, <1>11, <3>1, <3>2
      <4> QED BY <4>1
    <3>3. CASE z < k - 1
      <4>1. h[k - 1].num = 0
        BY <2>2, <3>3
      <4>2. h[k].num = 0
        BY <1>5, <3>1, <4>1
      <4> QED BY <4>2
    <3>4. z < k => z = k - 1 \/ z < k - 1
      BY <2>1
    <3> QED BY <3>2, <3>3, <3>4
  <2>3. z < n
    BY <2>1
  <2> HIDE DEF B
  <2>4. \A k \in 0 .. n : k \in B
    BY <2>1, <2>2, Induction
  <2> QED BY <1>9, <2>3, <2>4 DEF B
<1>12. h[n] \in S
  BY <1>9, <1>10
<1> QED BY <1>7, <1>11, <1>12 DEF S

\* The contexts that the scans make, and the shifts.
IsContext(m) == \A r \in Context!Rows, c \in Context!Cols : m[r][c] \in Int

LEMMA PlaceConstants ==
  /\ ContextRings \in Nat \ {0} /\ Sectors \in Nat \ {0}
  /\ Candidates \in Nat /\ Candidates >= 2 /\ SearchRadius \in 0 .. Sectors
  /\ \E t \in Nat \ {0} : Sectors = 4 * t /\ Sectors \div 4 = t
<1>1. /\ ContextRings \in Nat \ {0} /\ Sectors \in Nat \ {0} /\ Sectors % 4 = 0
      /\ Candidates \in Nat /\ Candidates >= 2 /\ SearchRadius \in 0 .. Sectors
  BY PointsOffAxes DEF Context!PlaceAssumption
<1>2. Sectors = 4 * (Sectors \div 4) /\ Sectors \div 4 \in Nat \ {0}
  BY <1>1
<1> QED BY <1>1, <1>2

LEMMA SourceIs ==
  ASSUME NEW c \in Context!Cols, NEW k \in Context!Cols
  PROVE  Context!Source(c, k) \in Context!Cols
<1>1. PICK s \in Nat \ {0} : s = Sectors
  BY PlaceConstants
<1>2. c \in 0 .. s - 1 /\ k \in 0 .. s - 1
  BY <1>1 DEF Context!Cols
<1>3. (c + s - k) % s \in 0 .. s - 1
  <2>1. PICK x \in Int : x = c + s - k
    BY <1>2
  <2> QED BY <2>1
<1> QED BY <1>1, <1>3 DEF Context!Cols, Context!Source

LEMMA ShiftIs ==
  ASSUME NEW m, IsContext(m), NEW k \in Context!Cols
  PROVE  /\ IsContext(Context!CircShift(m, k))
         /\ \A r \in Context!Rows, c \in Context!Cols :
              Context!CircShift(m, k)[r][c] = m[r][Context!Source(c, k)]
<1>1. ASSUME NEW r \in Context!Rows, NEW c \in Context!Cols
      PROVE  Context!CircShift(m, k)[r][c] = m[r][Context!Source(c, k)]
  BY DEF Context!CircShift
<1> QED BY <1>1, SourceIs DEF IsContext

\* The greatest of some bounded numbers is one of them.
LEMMA GreatestIs ==
  ASSUME NEW T \in SUBSET Int, T # {}, NEW B \in Int, \A x \in T : x <= B
  PROVE  Context!Max(T) \in T /\ \A y \in T : Context!Max(T) >= y
<1> DEFINE D == {B - x : x \in T}
<1>1. D \in SUBSET Nat /\ D # {}
  <2>1. \A x \in T : B - x \in Nat
    OBVIOUS
  <2>2. PICK x : x \in T
    OBVIOUS
  <2>3. B - x \in D
    BY <2>2
  <2> QED BY <2>1, <2>3
<1>2. PICK d \in D : \A e \in D : d <= e
  <2> HIDE DEF D
  <2> QED BY <1>1, Least
<1>3. PICK x \in T : d = B - x
  OBVIOUS
<1>4. ASSUME NEW y \in T PROVE x >= y
  <2>1. B - x <= B - y
    BY <1>2, <1>3
  <2> QED BY <2>1
<1> QED BY <1>4 DEF Context!Max

LEMMA SquareIs == ASSUME NEW a \in Int PROVE a * a \in Nat /\ (a # 0 => a * a >= 1)
<1>1. a * a \in Int
  OBVIOUS
<1>2. CASE a >= 0
  BY <1>1, <1>2
<1>3. CASE a < 0
  BY <1>1, <1>3
<1> QED BY <1>2, <1>3

\* The products of two columns; that of a column that has a point with itself is positive.
LEMMA DotIs ==
  ASSUME NEW m1, IsContext(m1), NEW m2, IsContext(m2), NEW c \in Context!Cols
  PROVE  Context!Dot(m1, m2, c) \in Int
<1> DEFINE f == [r \in Context!Rows |-> m1[r][c] * m2[r][c]]
<1>1. Context!Dot(m1, m2, c) = Context!Sum(f, ContextRings)
  BY DEF Context!Dot
<1>2. ContextRings \in Nat /\ \A r \in 0 .. ContextRings - 1 : f[r] \in Int
  BY PlaceConstants DEF Context!Rows, IsContext
<1> HIDE DEF f
<1> QED BY <1>1, <1>2, SumIs

LEMMA DotOfItself ==
  ASSUME NEW m, IsContext(m), NEW c \in Context!Cols
  PROVE  /\ Context!Dot(m, m, c) \in Nat
         /\ (\E r \in Context!Rows : m[r][c] # 0) => Context!Dot(m, m, c) >= 1
<1> DEFINE f == [r \in Context!Rows |-> m[r][c] * m[r][c]]
<1>1. Context!Dot(m, m, c) = Context!Sum(f, ContextRings)
  BY DEF Context!Dot
<1>2. ContextRings \in Nat /\ Context!Rows = 0 .. ContextRings - 1
  BY PlaceConstants DEF Context!Rows
<1>3. ASSUME NEW r \in Context!Rows PROVE f[r] \in Nat /\ (m[r][c] # 0 => f[r] >= 1)
  <2>1. PICK a \in Int : a = m[r][c]
    BY DEF IsContext
  <2>2. f[r] = a * a
    BY <2>1
  <2> HIDE DEF f
  <2> QED BY <2>1, <2>2, SquareIs
<1> HIDE DEF f
<1> QED BY <1>1, <1>2, <1>3, SumNat

\* Two columns are alike in at most all of a Unit, and in all of it if the one is the other.
LEMMA AlikeIs ==
  ASSUME NEW d \in Int, NEW p \in Nat
  PROVE  /\ Context!Unit - Context!Alike(d, p) \in Nat
         /\ d >= 0 /\ p = d * d => Context!Alike(d, p) = Context!Unit
<1> DEFINE T == {n \in 0 .. 25 : n * n * p <= (25 * d) * (25 * d)}
<1>1. Context!Alike(d, p) = IF d >= 0 THEN Context!Max(T) ELSE -Context!Max(T)
  BY DEF Context!Alike, Context!Unit, Context!Squared
<1>2. PICK q \in Nat : q = (25 * d) * (25 * d)
  <2>1. PICK e \in Int : e = 25 * d
    OBVIOUS
  <2> QED BY <2>1, SquareIs
<1>3. 0 \in T
  BY <1>2
<1>4. T \in SUBSET Int /\ \A x \in T : x <= 25
  OBVIOUS
<1>5. p = d * d => 25 \in T
  <2>1. (25 * d) * (25 * d) = 25 * 25 * (d * d)
    OBVIOUS
  <2> QED BY <1>2, <2>1
<1>6. \A x \in T : x \in 0 .. 25
  OBVIOUS
<1> HIDE DEF T
<1>7. Context!Max(T) \in T /\ \A y \in T : Context!Max(T) >= y
  BY <1>3, <1>4, GreatestIs
<1>8. PICK g \in 0 .. 25 : g = Context!Max(T)
  BY <1>6, <1>7
<1>9. p = d * d => g = 25
  BY <1>5, <1>7, <1>8
<1> QED BY <1>1, <1>8, <1>9 DEF Context!Unit

Unlike(m1, m2, c) ==
  Context!Unit - Context!Alike(Context!Dot(m1, m2, c), Context!Dot(m1, m1, c) * Context!Dot(m2, m2, c))

LEMMA UnlikeIs ==
  ASSUME NEW m1, IsContext(m1), NEW m2, IsContext(m2), NEW c \in Context!Cols
  PROVE  Unlike(m1, m2, c) \in Nat /\ (m1 = m2 => Unlike(m1, m2, c) = 0)
<1>1. PICK d \in Int : d = Context!Dot(m1, m2, c)
  BY DotIs
<1>2. PICK q1 \in Nat, q2 \in Nat : q1 = Context!Dot(m1, m1, c) /\ q2 = Context!Dot(m2, m2, c)
  BY DotOfItself
<1>3. PICK p \in Nat : p = q1 * q2
  OBVIOUS
<1>4. Unlike(m1, m2, c) = Context!Unit - Context!Alike(d, p)
  BY <1>1, <1>2, <1>3 DEF Unlike
<1>5. m1 = m2 => d >= 0 /\ p = d * d
  BY <1>1, <1>2, <1>3
<1>6. Context!Unit - Context!Unit = 0
  BY DEF Context!Unit
<1> QED BY <1>4, <1>5, <1>6, AlikeIs

HasPoints(m) == \E r \in Context!Rows, c \in Context!Cols : m[r][c] # 0

\* A comparison gives a fraction of naturals, and no distance for a context with itself.
LEMMA DistDirectIs ==
  ASSUME NEW m1, IsContext(m1), NEW m2, IsContext(m2)
  PROVE  LET d == Context!DistDirect(m1, m2) IN
         /\ d.num \in Nat /\ d.den \in Nat
         /\ m1 = m2 /\ HasPoints(m1) => FitsWell(d)
<1> DEFINE common(c) == Context!Dot(m1, m1, c) # 0 /\ Context!Dot(m2, m2, c) # 0
           f == [c \in Context!Cols |-> IF common(c) THEN Unlike(m1, m2, c) ELSE 0]
           g == [c \in Context!Cols |-> IF common(c) THEN 1 ELSE 0]
<1>1. Context!DistDirect(m1, m2) =
        [num |-> Context!Sum(f, Sectors), den |-> Context!Unit * Context!Sum(g, Sectors)]
  BY DEF Context!DistDirect, Unlike
<1>2. PICK n \in Nat \ {0} : n = Sectors
  BY PlaceConstants
<1>3. Context!Cols = 0 .. n - 1
  BY <1>2 DEF Context!Cols
<1>4. \A c \in 0 .. n - 1 : f[c] \in Nat /\ (m1 = m2 => f[c] = 0)
  BY <1>3, UnlikeIs
<1>5. \A c \in 0 .. n - 1 : g[c] \in Nat /\ (common(c) => g[c] >= 1)
  BY <1>3
<1>6. ASSUME m1 = m2, HasPoints(m1) PROVE \E c \in 0 .. n - 1 : common(c)
  <2>1. PICK r \in Context!Rows, c \in Context!Cols : m1[r][c] # 0
    BY <1>6 DEF HasPoints
  <2>2. Context!Dot(m1, m1, c) # 0
    BY <2>1, DotOfItself
  <2> QED BY <1>3, <1>6, <2>2
<1> HIDE DEF common, f, g
<1>7. Context!Sum(f, n) \in Nat /\ (m1 = m2 => Context!Sum(f, n) = 0)
  BY <1>4, SumNat
<1>8. Context!Sum(g, n) \in Nat /\ (m1 = m2 /\ HasPoints(m1) => Context!Sum(g, n) >= 1)
  BY <1>5, <1>6, SumNat
<1>9. PICK u \in Nat, v \in Nat : u = Context!Sum(f, n) /\ v = Context!Sum(g, n)
  BY <1>7, <1>8
<1>10. Context!DistDirect(m1, m2) = [num |-> u, den |-> 25 * v]
  BY <1>1, <1>2, <1>9 DEF Context!Unit
<1>11. 25 * v \in Nat /\ (v >= 1 => 25 * v # 0)
  OBVIOUS
<1> QED BY <1>7, <1>8, <1>9, <1>10, <1>11 DEF FitsWell

\* The quarter of a turn.
Quarter == Sectors \div 4

LEMMA QuarterIs == Quarter \in Context!Cols /\ 0 \in Context!Cols
<1>1. PICK t \in Nat \ {0} : Sectors = 4 * t /\ Sectors \div 4 = t
  BY PlaceConstants
<1>2. t \in 0 .. 4 * t - 1 /\ 0 \in 0 .. 4 * t - 1
  OBVIOUS
<1> QED BY <1>1, <1>2 DEF Quarter, Context!Cols

\* The keys of a context are whole numbers, and a turned context has the turned key.
LEMMA SectorKeyIs ==
  ASSUME NEW m, IsContext(m), NEW c \in Context!Cols
  PROVE  Context!SectorKey(m)[c] \in Int
<1> DEFINE f == [r \in Context!Rows |-> m[r][c]]
<1>1. Context!SectorKey(m)[c] = Context!Sum(f, ContextRings)
  BY DEF Context!SectorKey
<1>2. ContextRings \in Nat /\ \A r \in 0 .. ContextRings - 1 : f[r] \in Int
  BY PlaceConstants DEF Context!Rows, IsContext
<1> HIDE DEF f
<1> QED BY <1>1, <1>2, SumIs

LEMMA KeyTurns ==
  ASSUME NEW m, IsContext(m), NEW k \in Context!Cols, NEW c \in Context!Cols
  PROVE  Context!SectorKey(Context!CircShift(m, k))[c] = Context!SectorKey(m)[Context!Source(c, k)]
<1> DEFINE turned == Context!CircShift(m, k)
           s == Context!Source(c, k)
<1>1. s \in Context!Cols
  BY SourceIs
<1>2. [r \in Context!Rows |-> turned[r][c]] = [r \in Context!Rows |-> m[r][s]]
  BY ShiftIs
<1>3. Context!SectorKey(turned)[c] = Context!Sum([r \in Context!Rows |-> turned[r][c]], ContextRings)
  BY DEF Context!SectorKey
<1>4. Context!SectorKey(m)[s] = Context!Sum([r \in Context!Rows |-> m[r][s]], ContextRings)
  BY <1>1 DEF Context!SectorKey
<1> HIDE DEF turned, s
<1>5. Context!SectorKey(turned)[c] = Context!SectorKey(m)[s]
  BY <1>2, <1>3, <1>4
<1> QED BY <1>5 DEF turned, s

\* What the sector keys are off is a natural number, and none at the turn itself.
LEMMA OffIs ==
  ASSUME NEW m1, IsContext(m1), NEW m2, IsContext(m2), NEW k \in Context!Cols
  PROVE  /\ Context!Off(Context!SectorKey(m1), Context!SectorKey(m2), k) \in Nat
         /\ m1 = Context!CircShift(m2, k) =>
              Context!Off(Context!SectorKey(m1), Context!SectorKey(m2), k) = 0
<1> DEFINE k1 == Context!SectorKey(m1)
           k2 == Context!SectorKey(m2)
           f  == [c \in Context!Cols |-> Context!Squared(k1[c] - k2[Context!Source(c, k)])]
<1>1. Context!Off(k1, k2, k) = Context!Sum(f, Sectors)
  BY DEF Context!Off
<1>2. Sectors \in Nat /\ Context!Cols = 0 .. Sectors - 1
  BY PlaceConstants DEF Context!Cols
<1>3. ASSUME NEW c \in Context!Cols
      PROVE  f[c] \in Nat /\ (m1 = Context!CircShift(m2, k) => f[c] = 0)
  <2>1. PICK s \in Context!Cols : s = Context!Source(c, k)
    BY SourceIs
  <2>2. PICK x \in Int, y \in Int : x = k1[c] /\ y = k2[s]
    BY <2>1, SectorKeyIs
  <2>3. f[c] = (x - y) * (x - y)
    BY <2>1, <2>2 DEF Context!Squared
  <2>4. m1 = Context!CircShift(m2, k) => x = y
    BY <2>1, <2>2, KeyTurns
  <2>5. (x - y) * (x - y) \in Nat /\ (x = y => (x - y) * (x - y) = 0)
    <3>1. PICK d \in Int : d = x - y
      OBVIOUS
    <3>2. d * d \in Nat /\ (d = 0 => d * d = 0)
      <4>1. d * d \in Int
        OBVIOUS
      <4>2. CASE d >= 0
        BY <4>1, <4>2
      <4>3. CASE d < 0
        BY <4>1, <4>3
      <4> QED BY <4>2, <4>3
    <3> QED BY <3>1, <3>2
  <2> HIDE DEF f
  <2> QED BY <2>3, <2>4, <2>5
<1> HIDE DEF f
<1>4. Context!Sum(f, Sectors) \in Nat /\ (m1 = Context!CircShift(m2, k) => Context!Sum(f, Sectors) = 0)
  BY <1>2, <1>3, SumNat
<1> QED BY <1>1, <1>4

\* Where the sector keys fit one way only, the alignment finds it.
Fits(m1, m2) ==
  {k \in Context!Cols : Context!Off(Context!SectorKey(m1), Context!SectorKey(m2), k) = 0}

LEMMA FastAlignIs ==
  ASSUME NEW m1, IsContext(m1), NEW m2, IsContext(m2)
  PROVE  /\ Context!FastAlign(m1, m2) \in Context!Cols
         /\ Fits(m1, m2) # {} => Context!FastAlign(m1, m2) \in Fits(m1, m2)
<1> DEFINE off(k) == Context!Off(Context!SectorKey(m1), Context!SectorKey(m2), k)
           tried == {[shift |-> k, off |-> off(k)] : k \in Context!Cols}
           First(a) == \A b \in tried : a.off < b.off \/ (a.off = b.off /\ a.shift <= b.shift)
<1>1. Context!FastAlign(m1, m2) = (CHOOSE a \in tried : First(a)).shift
  BY DEF Context!FastAlign
<1>2. \A k \in Context!Cols : off(k) \in Nat /\ k \in Nat
  BY OffIs DEF Context!Cols
<1> HIDE DEF off
<1>3. \A a \in tried : a.shift \in Context!Cols /\ a.shift \in Nat /\ a.off \in Nat /\ a.off = off(a.shift)
  BY <1>2
<1>4. \A k \in Context!Cols : \E a \in tried : a.shift = k /\ a.off = off(k)
  <2> SUFFICES ASSUME NEW k \in Context!Cols PROVE \E a \in tried : a.shift = k /\ a.off = off(k)
    OBVIOUS
  <2> DEFINE a == [shift |-> k, off |-> off(k)]
  <2>1. a \in tried /\ a.shift = k /\ a.off = off(k)
    BY DEF tried
  <2> QED BY <2>1
<1>5. tried # {}
  BY <1>4, QuarterIs
<1> HIDE DEF tried
<1>6. \E a \in tried : First(a)
  <2> DEFINE offs == {a.off : a \in tried}
  <2>1. offs \in SUBSET Nat /\ offs # {}
    BY <1>3, <1>5
  <2>2. PICK least \in offs : \A o \in offs : least <= o
    BY <2>1, Least
  <2> DEFINE turns == {a.shift : a \in {x \in tried : x.off = least}}
  <2>3. turns \in SUBSET Nat /\ turns # {}
    BY <1>3, <2>2
  <2>4. PICK lowest \in turns : \A s \in turns : lowest <= s
    BY <2>3, Least
  <2>5. PICK a \in tried : a.off = least /\ a.shift = lowest
    BY <2>4
  <2>6. ASSUME NEW b \in tried PROVE a.off < b.off \/ (a.off = b.off /\ a.shift <= b.shift)
    <3>1. least <= b.off /\ (b.off = least => lowest <= b.shift)
      BY <2>2, <2>4
    <3>2. least \in Nat /\ b.off \in Nat
      BY <1>3, <2>1
    <3> QED BY <2>5, <3>1, <3>2
  <2> QED BY <2>5, <2>6
<1>7. PICK a \in tried : First(a) /\ Context!FastAlign(m1, m2) = a.shift
  BY <1>1, <1>6
<1>8. ASSUME NEW k \in Fits(m1, m2) PROVE off(a.shift) = 0
  <2>1. k \in Context!Cols /\ off(k) = 0
    BY DEF Fits, off
  <2>2. PICK b \in tried : b.shift = k /\ b.off = off(k)
    BY <1>4, <2>1
  <2>3. a.off \in Nat /\ a.off = off(a.shift) /\ b.off = 0
    BY <1>3, <2>1, <2>2
  <2>4. a.off < b.off \/ a.off = b.off
    BY <1>7
  <2> QED BY <2>3, <2>4
<1> QED BY <1>3, <1>7, <1>8 DEF Fits, off

\* The distance of two contexts is that of one of the shifts tried, and an exact fit is found
\* where the alignment gives it.
LEMMA DistanceIs ==
  ASSUME NEW n \in Int, NEW m1, IsContext(m1), NEW m2, IsContext(m2)
  PROVE  LET d == Context!Distance(n, m1, m2) IN
         /\ d \in Results /\ d.den # 0
         /\ \/ d = Context!Start
            \/ /\ d.id = n /\ d.shift \in Context!Cols
               /\ d.num = Context!DistDirect(m1, Context!CircShift(m2, d.shift)).num
               /\ d.den = Context!DistDirect(m1, Context!CircShift(m2, d.shift)).den
         /\ /\ m1 = Context!CircShift(m2, Quarter) /\ HasPoints(m1)
            /\ Context!FastAlign(m1, m2) = Quarter
            => d.num = 0
<1> DEFINE turns == Context!Tried(m1, m2)
           direct(k) == Context!DistDirect(m1, Context!CircShift(m2, k))
           results == [k \in turns |-> [id |-> n, shift |-> k, num |-> direct(k).num, den |-> direct(k).den]]
<1>1. Context!Distance(n, m1, m2) = Context!Closest(results, Sectors)
  BY DEF Context!Distance
<1>2. PICK s \in Nat \ {0} : s = Sectors /\ SearchRadius \in 0 .. s
  BY PlaceConstants
<1>3. PICK a \in 0 .. s - 1 : a = Context!FastAlign(m1, m2)
  BY <1>2, FastAlignIs DEF Context!Cols
<1>4. turns = {(a + k + s) % s : k \in -SearchRadius .. SearchRadius}
  BY <1>2, <1>3 DEF Context!Tried
<1>5. turns \subseteq 0 .. s - 1
  <2>1. ASSUME NEW k \in -SearchRadius .. SearchRadius PROVE (a + k + s) % s \in 0 .. s - 1
    <3>1. PICK x \in Int : x = a + k + s
      BY <1>2
    <3> QED BY <3>1
  <2> QED BY <1>4, <2>1
<1>6. a \in turns
  <2>1. 0 \in -SearchRadius .. SearchRadius
    BY <1>2
  <2>2. (a + 0 + s) % s = a
    OBVIOUS
  <2> QED BY <1>4, <2>1, <2>2
<1>7. Context!Cols = 0 .. s - 1
  BY <1>2 DEF Context!Cols
<1>8. ASSUME NEW k \in turns
      PROVE  direct(k).num \in Nat /\ direct(k).den \in Nat
  <2>1. k \in Context!Cols
    BY <1>5, <1>7
  <2>2. IsContext(Context!CircShift(m2, k))
    BY <2>1, ShiftIs
  <2> QED BY <2>2, DistDirectIs
<1>9. ASSUME m1 = Context!CircShift(m2, Quarter), HasPoints(m1), a = Quarter
      PROVE  FitsWell(direct(a))
  <2>1. FitsWell(Context!DistDirect(m1, m1))
    BY <1>9, DistDirectIs
  <2> QED BY <1>9, <2>1
<1> HIDE DEF turns, direct
<1>10. DOMAIN results \subseteq 0 .. s - 1 /\ DOMAIN results = turns
  BY <1>5
<1>11. ASSUME NEW k \in turns
       PROVE  /\ results[k] \in Results /\ results[k].id = n /\ results[k].shift = k
              /\ results[k].num = direct(k).num /\ results[k].den = direct(k).den
  <2>1. k \in Int
    BY <1>5
  <2> QED BY <1>8, <2>1 DEF Results
<1> HIDE DEF results
<1>12. PICK d : d = Context!Closest(results, s)
  OBVIOUS
<1>13. /\ d \in Results /\ d.den # 0
       /\ d = Context!Start \/ \E k \in DOMAIN results : d = results[k]
       /\ (\E k \in DOMAIN results : FitsWell(results[k])) => d.num = 0
  <2>1. \A k \in DOMAIN results : results[k] \in Results
    BY <1>10, <1>11
  <2> QED BY <1>10, <1>12, <2>1, ClosestIs
<1>14. \/ d = Context!Start
       \/ /\ d.id = n /\ d.shift \in Context!Cols
          /\ d.num = direct(d.shift).num /\ d.den = direct(d.shift).den
  <2>1. CASE d = Context!Start
    BY <2>1
  <2>2. CASE d # Context!Start
    <3>1. PICK k \in turns : d = results[k]
      BY <1>10, <1>13, <2>2
    <3>2. d.id = n /\ d.shift = k /\ d.num = direct(k).num /\ d.den = direct(k).den
      BY <1>11, <3>1
    <3>3. k \in Context!Cols
      BY <1>5, <1>7
    <3> QED BY <3>2, <3>3
  <2> QED BY <2>1, <2>2
<1>15. ASSUME m1 = Context!CircShift(m2, Quarter), HasPoints(m1), a = Quarter
       PROVE  d.num = 0
  <2>1. FitsWell(results[a])
    BY <1>6, <1>9, <1>11, <1>15 DEF FitsWell
  <2> QED BY <1>6, <1>10, <1>13, <2>1
<1>16. d = Context!Distance(n, m1, m2)
  BY <1>1, <1>2, <1>12
<1> QED BY <1>3, <1>13, <1>14, <1>15, <1>16 DEF direct

\* With two older contexts, both are among the candidates.
LEMMA SlotsAre ==
  ASSUME NEW m, NEW q \in Context!Neighbours(m, 1 .. 2), NEW n \in {1, 2}
  PROVE  /\ q \in [0 .. Candidates - 1 -> 1 .. 2]
         /\ \E i \in 0 .. Candidates - 1 : q[i] = n
<1>1. q \in [0 .. Candidates - 1 -> 1 .. 2]
  BY DEF Context!Neighbours
<1>2. Context!Cardinality(1 .. 2) = 2
  <2>1. Cardinality(1 .. 2) = 2
    <3>1. 1 \in Int /\ 2 \in Int /\ ~(1 > 2) /\ 2 - 1 + 1 = 2
      OBVIOUS
    <3> QED BY <3>1, FS_Interval
  <2> QED BY <2>1 DEF Context!Cardinality, Cardinality
<1>3. Context!Min({Candidates, 2}) = 2
  <2>1. 2 \in {Candidates, 2} /\ \A x \in {Candidates, 2} : 2 <= x
    BY PlaceConstants
  <2>2. \A y \in {Candidates, 2} : (\A x \in {Candidates, 2} : y <= x) => y = 2
    BY PlaceConstants
  <2> QED BY <2>1, <2>2 DEF Context!Min
<1>4. 0 .. Context!Min({Candidates, Context!Cardinality(1 .. 2)}) - 1 = 0 .. 1
  BY <1>2, <1>3
<1>5. \A i, j \in 0 .. 1 : i < j => q[i] # q[j]
  BY <1>4 DEF Context!Neighbours
<1>6. q[0] # q[1] /\ 0 \in 0 .. Candidates - 1 /\ 1 \in 0 .. Candidates - 1
  BY <1>5, PlaceConstants
<1> QED BY <1>1, <1>6

\* A quarter turn of the drone adds a quarter to the angle of a point.
Turned(p) == [p EXCEPT !.x = -p.y, !.y = p.x]

LEMMA AtanIs ==
  ASSUME NEW x \in Nat \ {0}, NEW y \in Nat \ {0}
  PROVE  Context!Atan(y, x) \in 1 .. 3 /\ Context!Atan(x, y) = 4 - Context!Atan(y, x)
BY DEF Context!Atan

LEMMA ThetaTurns ==
  ASSUME NEW x \in Int \ {0}, NEW y \in Int \ {0}
  PROVE  /\ Context!Theta(x, y) \in 1 .. 15
         /\ \/ Context!Theta(-y, x) = Context!Theta(x, y) + 4
            \/ Context!Theta(-y, x) = Context!Theta(x, y) - 12
<1>1. CASE x > 0 /\ y > 0
  <2>1. Context!Theta(x, y) = Context!Atan(y, x)
    BY <1>1 DEF Context!Theta
  <2>2. Context!Theta(-y, x) = 8 - Context!Atan(x, -(-y))
    BY <1>1 DEF Context!Theta
  <2>3. -(-y) = y /\ x \in Nat \ {0} /\ y \in Nat \ {0}
    BY <1>1
  <2>4. Context!Atan(y, x) \in 1 .. 3 /\ Context!Atan(x, y) = 4 - Context!Atan(y, x)
    BY <2>3, AtanIs
  <2> QED BY <2>1, <2>2, <2>3, <2>4
<1>2. CASE x < 0 /\ y > 0
  <2>1. Context!Theta(x, y) = 8 - Context!Atan(y, -x)
    BY <1>2 DEF Context!Theta
  <2>2. Context!Theta(-y, x) = 8 + Context!Atan(-x, -(-y))
    BY <1>2 DEF Context!Theta, Context!Opposite
  <2>3. -(-y) = y /\ -x \in Nat \ {0} /\ y \in Nat \ {0}
    BY <1>2
  <2>4. Context!Atan(y, -x) \in 1 .. 3 /\ Context!Atan(-x, y) = 4 - Context!Atan(y, -x)
    BY <2>3, AtanIs
  <2> QED BY <2>1, <2>2, <2>3, <2>4
<1>3. CASE x < 0 /\ y < 0
  <2>1. Context!Theta(x, y) = 8 + Context!Atan(-y, -x)
    BY <1>3 DEF Context!Theta, Context!Opposite
  <2>2. Context!Theta(-y, x) = 16 - Context!Atan(-x, -y)
    BY <1>3 DEF Context!Theta
  <2>3. -x \in Nat \ {0} /\ -y \in Nat \ {0}
    BY <1>3
  <2>4. Context!Atan(-y, -x) \in 1 .. 3 /\ Context!Atan(-x, -y) = 4 - Context!Atan(-y, -x)
    BY <2>3, AtanIs
  <2> QED BY <2>1, <2>2, <2>4
<1>4. CASE x > 0 /\ y < 0
  <2>1. Context!Theta(x, y) = 16 - Context!Atan(-y, x)
    BY <1>4 DEF Context!Theta
  <2>2. Context!Theta(-y, x) = Context!Atan(x, -y)
    BY <1>4 DEF Context!Theta
  <2>3. x \in Nat \ {0} /\ -y \in Nat \ {0}
    BY <1>4
  <2>4. Context!Atan(-y, x) \in 1 .. 3 /\ Context!Atan(x, -y) = 4 - Context!Atan(-y, x)
    BY <2>3, AtanIs
  <2> QED BY <2>1, <2>2, <2>4
<1> QED BY <1>1, <1>2, <1>3, <1>4

\* The sector of an angle off the axes, and that of the turned angle.
LEMMA SectorTurns ==
  ASSUME NEW p, Context!IsPoint(p)
  PROVE  /\ Context!IsPoint(Turned(p)) /\ Context!Sector(p) \in Context!Cols
         /\ Turned(p).ring = p.ring /\ Turned(p).height = p.height
         /\ \A c \in Context!Cols :
              Context!Sector(Turned(p)) = c <=> Context!Sector(p) = Context!Source(c, Quarter)
<1>1. PICK x \in Int \ {0}, y \in Int \ {0} : x = p.x /\ y = p.y
  BY DEF Context!IsPoint
<1>2. /\ Turned(p).x = -y /\ Turned(p).y = x /\ Turned(p).ring = p.ring /\ Turned(p).height = p.height
      /\ Context!IsPoint(Turned(p))
  <2>1. p \in [x : Int \ {0}, y : Int \ {0}, ring : Context!Rows, height : Int]
    BY DEF Context!IsPoint
  <2>2. /\ Turned(p) \in [x : Int \ {0}, y : Int \ {0}, ring : Context!Rows, height : Int]
        /\ Turned(p).x = -y /\ Turned(p).y = x /\ Turned(p).ring = p.ring /\ Turned(p).height = p.height
    <3>1. PICK u : u = -p.y
      OBVIOUS
    <3>2. Turned(p) = [p EXCEPT !.x = u, !.y = p.x]
      BY <3>1 DEF Turned
    <3>3. u = -y /\ u \in Int \ {0} /\ p.x = x
      BY <1>1, <3>1
    <3> QED BY <2>1, <3>2, <3>3
  <2> QED BY <2>2 DEF Context!IsPoint
<1>3. PICK t \in Nat \ {0} : Sectors = 4 * t /\ Quarter = t
  BY PlaceConstants DEF Quarter
<1> DEFINE at(theta) == (theta * (4 * t) + 15) \div 16 - 1
<1>4. ASSUME NEW theta \in 1 .. 15
      PROVE  /\ at(theta) \in 0 .. 4 * t - 1
             /\ Context!Max({(theta * (4 * t) + 15) \div 16, 1}) - 1 = at(theta)
  <2>1. PICK u \in Int : u = theta * t /\ u >= 1 /\ u <= 15 * t
    <3>1. theta * t \in Int /\ theta * t >= 1 * t /\ theta * t <= 15 * t
      <4>1. PICK u \in Int, v \in Int : u = (theta - 1) * t /\ v = (15 - theta) * t /\ u >= 0 /\ v >= 0
        OBVIOUS
      <4>2. theta * t = u + t /\ 15 * t = theta * t + v
        BY <4>1
      <4> QED BY <4>1, <4>2
    <3> QED BY <3>1
  <2>2. theta * (4 * t) = 4 * u
    BY <2>1
  <2>3. PICK s \in Int : s = (4 * u + 15) \div 16 /\ s >= 1 /\ s <= 4 * t
    BY <2>1
  <2>4. Context!Max({s, 1}) = s
    <3>1. s \in {s, 1} /\ \A z \in {s, 1} : s >= z
      BY <2>3
    <3>2. PICK w : w = Context!Max({s, 1})
      OBVIOUS
    <3>3. w \in {s, 1} /\ \A z \in {s, 1} : w >= z
      BY <3>1, <3>2 DEF Context!Max
    <3>4. w >= s /\ (w = s \/ w = 1)
      BY <3>3
    <3> QED BY <2>3, <3>2, <3>4
  <2>5. (theta * (4 * t) + 15) \div 16 = s
    BY <2>2, <2>3
  <2>6. at(theta) = s - 1
    BY <2>5
  <2>7. Context!Max({(theta * (4 * t) + 15) \div 16, 1}) = s
    BY <2>4, <2>5, Zenon
  <2>8. Context!Max({(theta * (4 * t) + 15) \div 16, 1}) - 1 = at(theta)
    <3> HIDE DEF at
    <3> QED BY <2>6, <2>7, Zenon
  <2>9. at(theta) \in 0 .. 4 * t - 1
    BY <2>3, <2>6
  <2> QED BY <2>8, <2>9, Zenon
<1>5. ASSUME NEW theta \in 1 .. 15
      PROVE  /\ at(theta + 4) = at(theta) + t
             /\ at(theta - 12) = at(theta) - 3 * t
  <2>1. PICK u \in Int : u = theta * (4 * t)
    OBVIOUS
  <2>2. (theta + 4) * (4 * t) = u + 16 * t /\ (theta - 12) * (4 * t) = u - 48 * t
    BY <2>1
  <2>3. (u + 16 * t + 15) \div 16 = (u + 15) \div 16 + t /\ (u - 48 * t + 15) \div 16 = (u + 15) \div 16 - 3 * t
    OBVIOUS
  <2>4. (u + 15) \div 16 \in Int
    OBVIOUS
  <2> QED BY <2>1, <2>2, <2>3, <2>4
<1>6. PICK theta \in 1 .. 15 : theta = Context!Theta(x, y)
  BY ThetaTurns
<1>7. PICK next \in 1 .. 15 : next = Context!Theta(-y, x) /\ (next = theta + 4 \/ next = theta - 12)
  <2>1. Context!Theta(-y, x) \in 1 .. 15
    BY ThetaTurns
  <2> QED BY <1>6, <2>1, ThetaTurns
<1>8. Context!Sector(p) = at(theta) /\ Context!Sector(Turned(p)) = at(next)
  <2>1. Context!Sector(p) = Context!Max({(theta * (4 * t) + 15) \div 16, 1}) - 1
    BY <1>1, <1>3, <1>6 DEF Context!Sector
  <2>2. Context!Sector(Turned(p)) = Context!Max({(next * (4 * t) + 15) \div 16, 1}) - 1
    BY <1>2, <1>3, <1>7 DEF Context!Sector
  <2> HIDE DEF at
  <2> QED BY <1>4, <2>1, <2>2
<1> HIDE DEF at
<1>9. PICK a \in 0 .. 4 * t - 1, b \in 0 .. 4 * t - 1 :
        a = at(theta) /\ b = at(next) /\ (b = a + t \/ b = a - 3 * t)
  BY <1>4, <1>5, <1>7
<1>10. ASSUME NEW c \in 0 .. 4 * t - 1
       PROVE  b = c <=> a = (c + 4 * t - t) % (4 * t)
  <2>1. (c + 4 * t - t) % (4 * t) = IF c >= t THEN c - t ELSE c + 3 * t
    <3>1. CASE c >= t
      <4>1. c + 4 * t - t = (c - t) + 1 * (4 * t) /\ c - t \in 0 .. 4 * t - 1
        BY <3>1
      <4> QED BY <3>1, <4>1
    <3>2. CASE c < t
      <4>1. c + 4 * t - t = c + 3 * t /\ c + 3 * t \in 0 .. 4 * t - 1
        BY <3>2
      <4> QED BY <3>2, <4>1
    <3> QED BY <3>1, <3>2
  <2>2. b = c => a = c - t \/ a = c + 3 * t
    BY <1>9
  <2> QED BY <1>9, <2>1, <2>2
<1>11. Context!Cols = 0 .. 4 * t - 1
  BY <1>3 DEF Context!Cols
<1>12. \A c \in Context!Cols : Context!Source(c, Quarter) = (c + 4 * t - t) % (4 * t)
  BY <1>3 DEF Context!Source
<1> QED BY <1>2, <1>8, <1>9, <1>10, <1>11, <1>12

\* The context of a scan, bin by bin.
Bin(s, r, c) == {p \in s : p.ring = r /\ Context!Sector(p) = c}

\* Finitely many numbers are bounded, so a bin has a highest point.
LEMMA FiniteIsBounded ==
  ASSUME NEW T \in SUBSET Int, IsFiniteSet(T)
  PROVE  \E b \in Int : \A x \in T : x <= b
<1>1. PICK n \in Nat : ExistsSurjection(1 .. n, T)
  BY FS_NatSurjection
<1>2. PICK f \in [1 .. n -> T] : \A x \in T : \E i \in 1 .. n : f[i] = x
  BY <1>1 DEF ExistsSurjection, Surjection
<1> DEFINE B == {k \in Nat : \E b \in Int : \A i \in 1 .. k : f[i] <= b}
<1>3. 0 \in B
  OBVIOUS
<1>4. ASSUME NEW k \in 1 .. n, k - 1 \in B PROVE k \in B
  <2>1. PICK b \in Int : \A i \in 1 .. k - 1 : f[i] <= b
    BY <1>4
  <2>2. (\A i \in 1 .. n : f[i] \in Int) /\ \A i \in 1 .. k : i = k \/ i \in 1 .. k - 1
    <3> HIDE DEF B
    <3>1. \A i \in 1 .. n : f[i] \in T
      OBVIOUS
    <3>2. \A i \in 1 .. n : f[i] \in Int
      BY <3>1
    <3>3. \A i \in 1 .. k : i = k \/ i \in 1 .. k - 1
      OBVIOUS
    <3> QED BY <3>2, <3>3
  <2>3. CASE f[k] <= b
    BY <2>1, <2>2, <2>3
  <2>4. CASE ~(f[k] <= b)
    <3>1. \A i \in 1 .. k : f[i] \in Int
      BY <2>2
    <3>2. \A i \in 1 .. k : f[i] <= f[k]
      BY <2>1, <2>2, <2>4, <3>1
    <3> QED BY <2>2, <3>2
  <2> QED BY <2>3, <2>4
<1> HIDE DEF B
<1>5. n \in B
  <2>1. \A k \in 0 .. n : k \in B
    BY <1>3, <1>4, Induction
  <2> QED BY <2>1
<1>6. PICK b \in Int : \A i \in 1 .. n : f[i] <= b
  BY <1>5 DEF B
<1> QED BY <1>2, <1>6

Heights(s, r, c) == {p.height : p \in Bin(s, r, c)}

LEMMA HighestIs ==
  ASSUME NEW s, IsFiniteSet(s), \A p \in s : Context!IsPoint(p), NEW r, NEW c, Bin(s, r, c) # {}
  PROVE  Context!Max(Heights(s, r, c)) \in Int
<1> DEFINE f == [p \in Bin(s, r, c) |-> p.height]
           T == Heights(s, r, c)
<1>1. IsFiniteSet(Bin(s, r, c))
  <2>1. Bin(s, r, c) \in SUBSET s
    BY DEF Bin
  <2> QED BY <2>1, FS_Subset
<1>2. f \in Surjection(Bin(s, r, c), T)
  BY DEF Surjection, Heights
<1>3. T \in SUBSET Int /\ T # {}
  <2>1. \A p \in Bin(s, r, c) : p.height \in Int
    BY DEF Bin, Context!IsPoint
  <2> QED BY <2>1 DEF Heights
<1> HIDE DEF f, T
<1>4. IsFiniteSet(T)
  BY <1>1, <1>2, FS_Surjection
<1>5. PICK b \in Int : \A x \in T : x <= b
  BY <1>3, <1>4, FiniteIsBounded
<1>6. Context!Max(T) \in T
  BY <1>3, <1>5, GreatestIs
<1> QED BY <1>3, <1>6 DEF T

\* The scans are finite and off the axes.
IsScan(s) == IsFiniteSet(s) /\ \A p \in s : Context!IsPoint(p)

LEMMA ContextIs ==
  ASSUME NEW s, IsScan(s)
  PROVE  LET m == Context!MakeScancontext(s) IN
         /\ IsContext(m)
         /\ \A r \in Context!Rows, c \in Context!Cols :
              m[r][c] = IF Bin(s, r, c) = {} THEN 0 ELSE Context!Max({p.height : p \in Bin(s, r, c)})
<1> DEFINE m == Context!MakeScancontext(s)
<1>1. ASSUME NEW r \in Context!Rows, NEW c \in Context!Cols
      PROVE  /\ Bin(s, r, c) = {} => m[r][c] = 0
             /\ Bin(s, r, c) # {} => m[r][c] = Context!Max({p.height : p \in Bin(s, r, c)})
  BY <1>1 DEF Context!MakeScancontext, Bin
<1> HIDE DEF m
<1>2. ASSUME NEW r \in Context!Rows, NEW c \in Context!Cols PROVE m[r][c] \in Int
  <2>1. CASE Bin(s, r, c) = {}
    BY <1>1, <2>1
  <2>2. CASE Bin(s, r, c) # {}
    <3>1. m[r][c] = Context!Max(Heights(s, r, c))
      BY <1>1, <2>2 DEF Heights
    <3> QED BY <2>2, <3>1, HighestIs DEF IsScan
  <2> QED BY <2>1, <2>2
<1> QED BY <1>1, <1>2 DEF m, IsContext

\* The context of a turned scan is the turned context.
LEMMA ContextTurns ==
  ASSUME NEW s, IsScan(s)
  PROVE  /\ IsScan(Context!QuarterTurn(s))
         /\ Context!MakeScancontext(Context!QuarterTurn(s)) =
              Context!CircShift(Context!MakeScancontext(s), Quarter)
<1> DEFINE turned == Context!QuarterTurn(s)
           m == Context!MakeScancontext(s)
<1>1. turned = {Turned(p) : p \in s}
  BY DEF Context!QuarterTurn, Turned
<1>2. IsScan(turned)
  <2>1. \A p \in turned : Context!IsPoint(p)
    BY <1>1, SectorTurns DEF IsScan
  <2>2. [p \in s |-> Turned(p)] \in Surjection(s, turned)
    BY <1>1 DEF Surjection
  <2>3. IsFiniteSet(turned)
    BY <2>2, FS_Surjection DEF IsScan
  <2> QED BY <2>1, <2>3 DEF IsScan
<1>3. ASSUME NEW r \in Context!Rows, NEW c \in Context!Cols
      PROVE  {p.height : p \in Bin(turned, r, c)} = {p.height : p \in Bin(s, r, Context!Source(c, Quarter))}
  <2> DEFINE old == Context!Source(c, Quarter)
  <2>1. ASSUME NEW p \in s
        PROVE  /\ Turned(p) \in turned /\ Turned(p).height = p.height
               /\ Turned(p) \in Bin(turned, r, c) <=> p \in Bin(s, r, old)
    BY <1>1, SectorTurns DEF Bin, IsScan
  <2>2. \A q \in Bin(turned, r, c) : \E p \in s : q = Turned(p)
    BY <1>1 DEF Bin
  <2>3. \A p \in Bin(s, r, old) : p \in s
    BY DEF Bin
  <2> HIDE DEF old, turned
  <2>4. ASSUME NEW h \in {p.height : p \in Bin(turned, r, c)} PROVE h \in {p.height : p \in Bin(s, r, old)}
    BY <2>1, <2>2
  <2>5. ASSUME NEW h \in {p.height : p \in Bin(s, r, old)} PROVE h \in {p.height : p \in Bin(turned, r, c)}
    BY <2>1, <2>3
  <2>6. {p.height : p \in Bin(turned, r, c)} = {p.height : p \in Bin(s, r, old)}
    BY <2>4, <2>5
  <2> QED BY <2>6 DEF old
<1>4. ASSUME NEW r \in Context!Rows, NEW c \in Context!Cols
      PROVE  Context!MakeScancontext(turned)[r][c] = m[r][Context!Source(c, Quarter)]
  <2> DEFINE old == Context!Source(c, Quarter)
  <2>1. old \in Context!Cols
    BY QuarterIs, SourceIs
  <2> HIDE DEF old
  <2>2. m[r][old] = IF Bin(s, r, old) = {} THEN 0 ELSE Context!Max({p.height : p \in Bin(s, r, old)})
    BY <2>1, ContextIs
  <2>3. Context!MakeScancontext(turned)[r][c] =
          IF Bin(turned, r, c) = {} THEN 0 ELSE Context!Max({p.height : p \in Bin(turned, r, c)})
    <3> HIDE DEF turned
    <3> QED BY <1>2, ContextIs
  <2>4. {p.height : p \in Bin(turned, r, c)} = {p.height : p \in Bin(s, r, old)}
    BY <1>3 DEF old
  <2>5. Bin(turned, r, c) = {} <=> Bin(s, r, old) = {}
    <3> HIDE DEF turned
    <3> QED BY <2>4
  <2> HIDE DEF m, turned
  <2>6. Context!MakeScancontext(turned)[r][c] = m[r][old]
    <3>1. CASE Bin(s, r, old) = {}
      BY <2>2, <2>3, <2>5, <3>1
    <3>2. CASE Bin(s, r, old) # {}
      <4>1. m[r][old] = Context!Max({p.height : p \in Bin(s, r, old)})
        BY <2>2, <3>2
      <4>2. Context!MakeScancontext(turned)[r][c] = Context!Max({p.height : p \in Bin(turned, r, c)})
        BY <2>3, <2>5, <3>2
      <4> QED BY <2>4, <4>1, <4>2, Zenon
    <3> QED BY <3>1, <3>2
  <2> QED BY <2>6 DEF old, m, turned
<1>5. Context!MakeScancontext(turned) = Context!CircShift(m, Quarter)
  <2>1. Context!MakeScancontext(turned) =
          [r \in Context!Rows |-> [c \in Context!Cols |-> Context!MakeScancontext(turned)[r][c]]]
    BY DEF Context!MakeScancontext
  <2>2. Context!CircShift(m, Quarter) =
          [r \in Context!Rows |-> [c \in Context!Cols |-> m[r][Context!Source(c, Quarter)]]]
    BY DEF Context!CircShift
  <2> HIDE DEF m, turned
  <2> QED BY <1>4, <2>1, <2>2
<1> QED BY <1>2, <1>5

\* Every column is the source of one.
LEMMA TurnBack ==
  ASSUME NEW c \in Context!Cols
  PROVE  \E d \in Context!Cols : Context!Source(d, Quarter) = c
<1>1. PICK t \in Nat \ {0} : Sectors = 4 * t /\ Quarter = t
  BY PlaceConstants DEF Quarter
<1>2. PICK s \in Nat \ {0} : s = Sectors /\ s = 4 * t
  BY <1>1
<1>3. c \in 0 .. s - 1 /\ Context!Cols = 0 .. s - 1
  BY <1>2 DEF Context!Cols
<1>4. \A d \in Context!Cols : Context!Source(d, Quarter) = (d + s - t) % s
  BY <1>1, <1>2 DEF Context!Source
<1>5. c % s = c /\ (c + s) % s = c
  BY <1>3
<1>6. CASE c + t < s
  <2>1. c + t \in 0 .. s - 1 /\ c + t + s - t = c + s
    BY <1>3, <1>6
  <2> QED BY <1>3, <1>4, <1>5, <2>1
<1>7. CASE ~(c + t < s)
  <2>1. c + t - s \in 0 .. s - 1 /\ c + t - s + s - t = c
    BY <1>2, <1>3, <1>7
  <2> QED BY <1>3, <1>4, <1>5, <2>1
<1> QED BY <1>6, <1>7

\* A context that is empty fits any way, so one that fits one way only is not.
LEMMA EmptyFitsAnyWay ==
  ASSUME NEW m1, IsContext(m1), ~HasPoints(m1), NEW m2, m1 = Context!CircShift(m2, Quarter), IsContext(m2),
         NEW k \in Context!Cols
  PROVE  k \in Fits(m1, m2)
<1>1. ASSUME NEW c \in Context!Cols
      PROVE  Context!SectorKey(m1)[c] = 0
  <2> DEFINE f == [r \in Context!Rows |-> m1[r][c]]
  <2>1. Context!SectorKey(m1)[c] = Context!Sum(f, ContextRings)
    BY DEF Context!SectorKey
  <2>2. ContextRings \in Nat /\ \A r \in 0 .. ContextRings - 1 : f[r] \in Nat /\ f[r] = 0
    BY PlaceConstants DEF Context!Rows, HasPoints
  <2> HIDE DEF f
  <2> QED BY <2>1, <2>2, SumNat
<1>2. ASSUME NEW c \in Context!Cols
      PROVE  Context!SectorKey(m2)[c] = 0
  <2>1. PICK d \in Context!Cols : Context!Source(d, Quarter) = c
    BY TurnBack
  <2> QED BY <1>1, <2>1, KeyTurns, QuarterIs
<1> DEFINE k1 == Context!SectorKey(m1)
           k2 == Context!SectorKey(m2)
           f  == [c \in Context!Cols |-> Context!Squared(k1[c] - k2[Context!Source(c, k)])]
<1>3. Context!Off(k1, k2, k) = Context!Sum(f, Sectors)
  BY DEF Context!Off
<1>4. Sectors \in Nat /\ \A c \in 0 .. Sectors - 1 : f[c] \in Nat /\ f[c] = 0
  <2>1. ASSUME NEW c \in Context!Cols PROVE f[c] = 0
    <3>1. k1[c] = 0 /\ k2[Context!Source(c, k)] = 0
      BY <1>1, <1>2, SourceIs
    <3> QED BY <3>1 DEF Context!Squared
  <2> QED BY <2>1, PlaceConstants DEF Context!Cols
<1> HIDE DEF f
<1>5. Context!Off(k1, k2, k) = 0
  BY <1>3, <1>4, SumNat
<1> QED BY <1>5 DEF Fits

\* A context is that of the place come back to, a quarter turn on.
CameBack(m) == IsContext(m) /\ m = Context!CircShift(descriptors[home], Quarter)

\* Where the sector keys fit one way only, the candidate that is found fits exactly.
LEMMA DetectionIs ==
  ASSUME home \in {1, 2}, IsContext(descriptors[1]), IsContext(descriptors[2]),
         NEW m, CameBack(m), Context!Cardinality(Fits(m, descriptors[home])) = 1,
         NEW q \in Context!Neighbours(m, 1 .. 2)
  PROVE  LET b == Context!Closest([i \in DOMAIN q |-> Context!Distance(q[i], m, descriptors[q[i]])], Candidates)
         IN /\ b.id \in {1, 2} /\ 5 * b.num < b.den
            /\ FitsWell(Context!DistDirect(m, Context!CircShift(descriptors[b.id], b.shift)))
<1> DEFINE results == [i \in DOMAIN q |-> Context!Distance(q[i], m, descriptors[q[i]])]
<1>1. q \in [0 .. Candidates - 1 -> 1 .. 2] /\ Candidates \in Nat
  BY SlotsAre, PlaceConstants
<1>2. PICK z \in 0 .. Candidates - 1 : q[z] = home
  BY SlotsAre
<1>3. \A i \in 0 .. Candidates - 1 : q[i] \in {1, 2}
  BY <1>1
<1>4. IsContext(m) /\ m = Context!CircShift(descriptors[home], Quarter)
  BY DEF CameBack
<1>5. IsContext(descriptors[home])
  OBVIOUS
<1>6. HasPoints(m) /\ Context!FastAlign(m, descriptors[home]) = Quarter
  <2> DEFINE F == Fits(m, descriptors[home])
  <2>1. Quarter \in F
    BY <1>4, <1>5, QuarterIs, OffIs DEF Fits
  <2>2. IsFiniteSet(F)
    <3>1. F \subseteq 0 .. Sectors - 1 /\ IsFiniteSet(0 .. Sectors - 1)
      BY PlaceConstants, FS_Interval DEF Fits, Context!Cols
    <3> QED BY <3>1, FS_Subset
  <2>3. Cardinality(F) = 1
    BY DEF Context!Cardinality, Cardinality
  <2> HIDE DEF F
  <2>4. \E k : F = {k}
    BY <2>2, <2>3, FS_Singleton
  <2>5. Context!FastAlign(m, descriptors[home]) \in F
    BY <1>4, <1>5, <2>1, FastAlignIs DEF F
  <2>6. ~HasPoints(m) => 0 \in F
    BY <1>4, <1>5, QuarterIs, EmptyFitsAnyWay DEF F
  <2>7. Quarter # 0
    BY PlaceConstants DEF Quarter
  <2> QED BY <2>1, <2>4, <2>5, <2>6, <2>7
<1>7. ASSUME NEW i \in 0 .. Candidates - 1
      PROVE  LET d == Context!Distance(q[i], m, descriptors[q[i]]) IN
             /\ d \in Results /\ d.den # 0
             /\ \/ d = Context!Start
                \/ /\ d.id = q[i]
                   /\ d.num = Context!DistDirect(m, Context!CircShift(descriptors[q[i]], d.shift)).num
                   /\ d.den = Context!DistDirect(m, Context!CircShift(descriptors[q[i]], d.shift)).den
             /\ q[i] = home => d.num = 0
  <2>1. PICK n \in {1, 2} : n = q[i]
    BY <1>3
  <2>2. PICK old : old = descriptors[n] /\ IsContext(old)
    BY <2>1
  <2>3. n \in Int
    BY <2>1
  <2>4. n = home => m = Context!CircShift(old, Quarter) /\ HasPoints(m) /\ Context!FastAlign(m, old) = Quarter
    BY <1>4, <1>6, <2>2
  <2>5. LET d == Context!Distance(n, m, old) IN
        /\ d \in Results /\ d.den # 0
        /\ \/ d = Context!Start
           \/ /\ d.id = n
              /\ d.num = Context!DistDirect(m, Context!CircShift(old, d.shift)).num
              /\ d.den = Context!DistDirect(m, Context!CircShift(old, d.shift)).den
        /\ n = home => d.num = 0
    BY <1>4, <2>2, <2>3, <2>4, DistanceIs
  <2> QED BY <2>1, <2>2, <2>5
<1>8. /\ DOMAIN results = 0 .. Candidates - 1
      /\ \A i \in 0 .. Candidates - 1 : results[i] = Context!Distance(q[i], m, descriptors[q[i]])
  BY <1>1
<1> HIDE DEF results
<1>9. PICK b : b = Context!Closest(results, Candidates)
  OBVIOUS
<1>10. /\ b \in Results /\ b.den # 0 /\ b.num = 0
       /\ b = Context!Start \/ \E i \in 0 .. Candidates - 1 : b = results[i]
  <2>1. \A i \in DOMAIN results : results[i] \in Results
    BY <1>7, <1>8
  <2>2. FitsWell(results[z])
    BY <1>2, <1>7, <1>8 DEF FitsWell
  <2>3. DOMAIN results \subseteq 0 .. Candidates - 1 /\ z \in DOMAIN results /\ Candidates \in Nat
    BY <1>1, <1>8
  <2>4. LET x == Context!Closest(results, Candidates) IN
        /\ x \in Results /\ x.den # 0
        /\ x = Context!Start \/ \E k \in DOMAIN results : x = results[k]
        /\ (\E k \in DOMAIN results : FitsWell(results[k])) => x.num = 0
    BY <2>1, <2>3, ClosestIs
  <2> QED BY <1>8, <1>9, <2>2, <2>3, <2>4
<1>11. b # Context!Start
  BY <1>10 DEF Context!Start
<1>12. PICK i \in 0 .. Candidates - 1 : b = Context!Distance(q[i], m, descriptors[q[i]])
  BY <1>8, <1>10, <1>11
<1>13. /\ b.id = q[i]
       /\ b.num = Context!DistDirect(m, Context!CircShift(descriptors[q[i]], b.shift)).num
       /\ b.den = Context!DistDirect(m, Context!CircShift(descriptors[q[i]], b.shift)).den
  BY <1>7, <1>11, <1>12
<1>14. 5 * b.num < b.den
  <2>1. PICK den \in Nat : den = b.den /\ den # 0
    BY <1>10 DEF Results
  <2> QED BY <1>10, <2>1
<1>15. b.id \in {1, 2} /\ FitsWell(Context!DistDirect(m, Context!CircShift(descriptors[b.id], b.shift)))
  BY <1>3, <1>10, <1>13 DEF FitsWell
<1> QED BY <1>9, <1>14, <1>15 DEF results

\* Sequences of two, and with a third.
LEMMA TwoIs ==
  ASSUME NEW S, NEW u \in [1 .. 2 -> S]
  PROVE  u \in Seq(S) /\ Len(u) = 2
<1>1. \A n \in Nat : \A v \in [1 .. n -> S] : v \in Seq(S) /\ Len(v) = n
  OBVIOUS
<1> QED BY <1>1

LEMMA ThirdIs ==
  ASSUME NEW S, NEW u \in Seq(S), NEW m \in S, Len(u) = 2
  PROVE  /\ Append(u, m) \in Seq(S) /\ Len(Append(u, m)) = 3
         /\ Append(u, m)[1] = u[1] /\ Append(u, m)[2] = u[2] /\ Append(u, m)[3] = m
<1>1. /\ Append(u, m) \in Seq(S) /\ Len(Append(u, m)) = Len(u) + 1
      /\ \A i \in 1 .. Len(u) : Append(u, m)[i] = u[i]
      /\ Append(u, m)[Len(u) + 1] = m
  <2>1. Append(u, m) \in Seq(S) /\ Len(Append(u, m)) = Len(u) + 1
    BY AppendProperties
  <2>2. \A i \in 1 .. Len(u) : Append(u, m)[i] = u[i]
    BY AppendProperties
  <2>3. Append(u, m)[Len(u) + 1] = m
    BY AppendProperties
  <2> QED BY <2>1, <2>2, <2>3
<1>2. PICK v : v = Append(u, m)
  OBVIOUS
<1>3. 1 \in 1 .. Len(u) /\ 2 \in 1 .. Len(u) /\ Len(u) + 1 = 3
  OBVIOUS
<1>4. Len(v) = 3 /\ v[1] = u[1] /\ v[2] = u[2] /\ v[3] = m
  BY <1>1, <1>2, <1>3
<1> QED BY <1>1, <1>2, <1>4

Matrices == [Context!Rows -> [Context!Cols -> Int]]

PlaceInv ==
  /\ home \in {1, 2} /\ descriptors \in Seq(Matrices) /\ Len(descriptors) \in {2, 3}
  /\ IsContext(descriptors[1]) /\ IsContext(descriptors[2])
  /\ scan # {} => /\ Len(descriptors) = 2 /\ found = Context!Pending
                  /\ Context!MakeScancontext(scan) \in Matrices /\ CameBack(Context!MakeScancontext(scan))
  /\ scan = {} => Len(descriptors) = 3 /\ CameBack(descriptors[3])
  /\ Context!PlaceIsRecognised

\* A scan context is a matrix of whole numbers.
LEMMA ContextIsMatrix ==
  ASSUME NEW s, IsScan(s)
  PROVE  Context!MakeScancontext(s) \in Matrices
<1> DEFINE m == Context!MakeScancontext(s)
<1>1. \A r \in Context!Rows, c \in Context!Cols : m[r][c] \in Int
  BY ContextIs DEF IsContext
<1>2. m = [r \in Context!Rows |-> [c \in Context!Cols |-> m[r][c]]]
  BY DEF Context!MakeScancontext
<1> HIDE DEF m
<1>3. [r \in Context!Rows |-> [c \in Context!Cols |-> m[r][c]]] \in Matrices
  BY <1>1 DEF Matrices
<1>4. m \in Matrices
  BY <1>2, <1>3
<1> QED BY <1>4 DEF m

\* Init: the scan is one of the place, turned, and the contexts are those of the two places.
LEMMA PlaceInitial == Context!Init => PlaceInv
<1> SUFFICES ASSUME Context!Init PROVE PlaceInv
  OBVIOUS
<1>1. PICK s \in Scans, other \in Elsewhere :
        /\ scan = Context!QuarterTurn(s) /\ home \in {1, 2} /\ found = Context!Pending
        /\ descriptors = [n \in 1 .. 2 |-> Context!MakeScancontext(IF n = home THEN s ELSE other)]
  BY DEF Context!Init
<1>2. s # {} /\ IsScan(s) /\ IsScan(other)
  BY PointsOffAxes DEF Context!PlaceAssumption, IsScan, Context!IsFiniteSet, IsFiniteSet
<1>3. ASSUME NEW n \in 1 .. 2
      PROVE  /\ descriptors[n] \in Matrices /\ IsContext(descriptors[n])
             /\ n = home => descriptors[n] = Context!MakeScancontext(s)
  <2>1. CASE n = home
    <3>1. descriptors[n] = Context!MakeScancontext(s)
      BY <1>1, <2>1
    <3> QED BY <1>2, <3>1, ContextIs, ContextIsMatrix
  <2>2. CASE n # home
    <3>1. descriptors[n] = Context!MakeScancontext(other)
      BY <1>1, <2>2
    <3> QED BY <1>2, <2>2, <3>1, ContextIs, ContextIsMatrix
  <2> QED BY <2>1, <2>2
<1>4. descriptors \in Seq(Matrices) /\ Len(descriptors) = 2
  <2>1. DOMAIN descriptors = 1 .. 2 /\ descriptors = [n \in 1 .. 2 |-> descriptors[n]]
    BY <1>1
  <2>2. descriptors \in [1 .. 2 -> Matrices]
    BY <1>3, <2>1
  <2> QED BY <2>2, TwoIs
<1>5. /\ scan # {} /\ IsScan(scan)
      /\ Context!MakeScancontext(scan) = Context!CircShift(descriptors[home], Quarter)
  <2>1. scan # {}
    BY <1>1, <1>2 DEF Context!QuarterTurn
  <2>2. descriptors[home] = Context!MakeScancontext(s)
    BY <1>1, <1>3
  <2> QED BY <1>1, <1>2, <2>1, <2>2, ContextTurns
<1>6. Context!MakeScancontext(scan) \in Matrices /\ CameBack(Context!MakeScancontext(scan))
  BY <1>5, ContextIs, ContextIsMatrix DEF CameBack
<1>7. Context!PlaceIsRecognised
  BY <1>1 DEF Context!PlaceIsRecognised
<1> QED BY <1>1, <1>3, <1>4, <1>5, <1>6, <1>7 DEF PlaceInv

\* MakeAndSave: the newest context is that of the scan.
LEMMA MakeAndSaveKeepsPlace == PlaceInv /\ Context!MakeAndSave => PlaceInv'
<1> SUFFICES ASSUME PlaceInv, Context!MakeAndSave PROVE PlaceInv'
  OBVIOUS
<1>1. PICK m : m = Context!MakeScancontext(scan)
  OBVIOUS
<1>2. /\ scan # {} /\ descriptors' = Append(descriptors, m)
      /\ scan' = {} /\ home' = home /\ found' = found
  BY <1>1 DEF Context!MakeAndSave
<1>3. /\ home \in {1, 2} /\ descriptors \in Seq(Matrices) /\ Len(descriptors) = 2
      /\ IsContext(descriptors[1]) /\ IsContext(descriptors[2])
      /\ found = Context!Pending /\ m \in Matrices /\ CameBack(m)
  BY <1>1, <1>2 DEF PlaceInv
<1>4. /\ descriptors' \in Seq(Matrices) /\ Len(descriptors') = 3
      /\ descriptors'[1] = descriptors[1] /\ descriptors'[2] = descriptors[2] /\ descriptors'[3] = m
  <2> QED BY <1>2, <1>3, ThirdIs
<1>5. descriptors'[home'] = descriptors[home]
  BY <1>2, <1>3, <1>4
<1>6. CameBack(m)'
  BY <1>3, <1>5 DEF CameBack
<1>7. Context!PlaceIsRecognised'
  BY <1>2, <1>3 DEF Context!PlaceIsRecognised
<1>8. CameBack(descriptors[3])'
  BY <1>4, <1>6
<1> QED BY <1>2, <1>3, <1>4, <1>7, <1>8 DEF PlaceInv

\* DetectLoopClosureID: what is found fits, if the keys fit one way only.
LEMMA DetectKeepsPlace == PlaceInv /\ Context!DetectLoopClosureID => PlaceInv'
<1> SUFFICES ASSUME PlaceInv, Context!DetectLoopClosureID PROVE PlaceInv'
  OBVIOUS
<1>1. scan = {} /\ scan' = scan /\ descriptors' = descriptors /\ home' = home
  BY DEF Context!DetectLoopClosureID
<1>2. /\ home \in {1, 2} /\ Len(descriptors) = 3 /\ CameBack(descriptors[3])
      /\ IsContext(descriptors[1]) /\ IsContext(descriptors[2])
  BY <1>1 DEF PlaceInv
<1>3. PICK m : m = descriptors[3] /\ m = descriptors[Len(descriptors)] /\ CameBack(m)
  BY <1>2
<1>4. 1 .. Len(descriptors) - 1 = 1 .. 2
  BY <1>2
<1>5. PICK q \in Context!Neighbours(m, 1 .. 2) :
        LET b == Context!Closest([i \in DOMAIN q |-> Context!Distance(q[i], m, descriptors[q[i]])], Candidates)
        IN found' = [id |-> IF 5 * b.num < b.den THEN b.id ELSE -1, shift |-> b.shift]
  BY <1>3, <1>4 DEF Context!DetectLoopClosureID
<1>6. PICK b : b = Context!Closest([i \in DOMAIN q |-> Context!Distance(q[i], m, descriptors[q[i]])], Candidates)
  OBVIOUS
<1>7. found' = [id |-> IF 5 * b.num < b.den THEN b.id ELSE -1, shift |-> b.shift]
  BY <1>5, <1>6
<1>8. Quarter \in Fits(m, descriptors[home])
  BY <1>2, <1>3, QuarterIs, OffIs DEF Fits, CameBack
<1>9. ASSUME Context!Cardinality(Fits(m, descriptors[home])) = 1
      PROVE  found'.id # -1 /\ FitsWell(Context!DistDirect(m, Context!CircShift(descriptors[found'.id], found'.shift)))
  <2>1. /\ b.id \in {1, 2} /\ 5 * b.num < b.den
        /\ FitsWell(Context!DistDirect(m, Context!CircShift(descriptors[b.id], b.shift)))
    BY <1>2, <1>3, <1>6, <1>9, DetectionIs
  <2>2. found'.id = b.id /\ found'.shift = b.shift
    BY <1>7, <2>1
  <2> QED BY <2>1, <2>2
<1>10. Context!PlaceIsRecognised'
  BY <1>1, <1>3, <1>8, <1>9 DEF Context!PlaceIsRecognised, Fits, FitsWell, Quarter
<1>11. PlaceInv' <=>
        /\ home \in {1, 2} /\ descriptors \in Seq(Matrices) /\ Len(descriptors) \in {2, 3}
        /\ IsContext(descriptors[1]) /\ IsContext(descriptors[2])
        /\ scan # {} => /\ Len(descriptors) = 2 /\ found' = Context!Pending
                        /\ Context!MakeScancontext(scan) \in Matrices /\ CameBack(Context!MakeScancontext(scan))
        /\ scan = {} => Len(descriptors) = 3 /\ CameBack(descriptors[3])
        /\ Context!PlaceIsRecognised'
  BY <1>1 DEF PlaceInv, CameBack
<1> QED BY <1>1, <1>10, <1>11 DEF PlaceInv

\* A place that is come back to a quarter turn on is recognised, with a turn that makes the
\* scans agree: bins, keys, alignment and comparison agree about which way sectors go.
THEOREM PlacesAreRecognised == Context!Spec => []PlaceIsRecognised
<1>1. Context!Init => PlaceInv
  BY PlaceInitial
<1>2. PlaceInv /\ [Context!Next]_Context!vars => PlaceInv'
  <2> SUFFICES ASSUME PlaceInv, [Context!Next]_Context!vars PROVE PlaceInv'
    OBVIOUS
  <2>1. CASE Context!MakeAndSave
    BY <2>1, MakeAndSaveKeepsPlace
  <2>2. CASE Context!DetectLoopClosureID
    BY <2>2, DetectKeepsPlace
  <2>3. CASE UNCHANGED Context!vars
    <3>1. scan' = scan /\ descriptors' = descriptors /\ home' = home /\ found' = found
      BY <2>3 DEF Context!vars
    <3> QED BY <3>1 DEF PlaceInv, CameBack, Context!PlaceIsRecognised
  <2> QED BY <2>1, <2>2, <2>3 DEF Context!Next
<1>3. PlaceInv => PlaceIsRecognised
  BY DEF PlaceInv, PlaceIsRecognised
<1> QED BY <1>1, <1>2, <1>3, PTL DEF Context!Spec
=============================================================================
