----------------------------- MODULE Scans_proof -----------------------------
(***************************************************************************)
(* FAST-LIO puts scans into the map once and in order, and propagates the  *)
(* filter over all time once, for any losses, gaps and any garbage in      *)
(* last_lidar_end_time_, also when the stamps of the lidar are set back;   *)
(* when those of the IMU are, it is said which time is propagated again.   *)
(* The update of the filter uses neighbours of its own scan, as recent as  *)
(* its steps asked for, and hands on state and covariance together.        *)
(* Before all that, give_feature takes every point of a plane into exactly *)
(* one point of the scan.                                                  *)
(***************************************************************************)
EXTENDS MCScans, SequenceTheorems, FiniteSetTheorems, WellFoundedInduction, TLAPS

(* The order of scans.                                                     *)

Scan == [no : Nat, beg : Int, span : {0, ScanLen}, points : {"none", "few", "many"}]

\* The scans that wait were received one after the other, and after the one whose points
\* were undistorted last.
InOrder ==
  /\ lidarBuf \in Seq(Scan)
  /\ \A i \in 1 .. Len(lidarBuf) : cloud.no < lidarBuf[i].no /\ lidarBuf[i].no <= scans
  /\ \A i, j \in 1 .. Len(lidarBuf) : i < j => lidarBuf[i].no < lidarBuf[j].no

\* The scan that was looked at already is the one in front, or the buffer has been cleared
\* since and all that wait are newer.
FrontInv ==
  pushed =>
    /\ meas.scan \in Scan
    /\ cloud.no < meas.scan.no /\ meas.scan.no <= scans
    /\ \A i \in 1 .. Len(lidarBuf) : meas.scan.no <= lidarBuf[i].no

\* What is in the map is no newer than what was undistorted; nothing is, until the IMU has
\* been initialised.
MapInv ==
  /\ registered \in Nat /\ registered <= cloud.no
  /\ needInit => ~tree /\ cloud = NoScan

SyncInv ==
  /\ scans \in Nat
  /\ cloud \in Scan /\ cloud.no <= scans
  /\ pushed \in BOOLEAN /\ needInit \in BOOLEAN /\ tree \in BOOLEAN
  /\ InOrder /\ FrontInv /\ MapInv

-----------------------------------------------------------------------------
LEMMA NoScanIsScan == NoScan \in Scan
BY DEF NoScan, Scan

LEMMA WaitingIsTyped ==
  ASSUME SyncInv
  PROVE  Len(lidarBuf) \in Nat /\ \A i \in 1 .. Len(lidarBuf) : lidarBuf[i] \in Scan /\ lidarBuf[i].no \in Nat
<1>1. lidarBuf \in Seq(Scan)
  BY DEF SyncInv, InOrder
<1>2. Len(lidarBuf) \in Nat /\ \A i \in 1 .. Len(lidarBuf) : lidarBuf[i] \in Scan
  BY <1>1
<1>3. \A scan \in Scan : scan.no \in Nat
  BY DEF Scan
<1> QED
  BY <1>2, <1>3

LEMMA InitOrdered == Init => SyncInv
<1> SUFFICES ASSUME Init PROVE SyncInv
  OBVIOUS
<1>1. cloud \in Scan /\ cloud.no = 0
  BY NoScanIsScan DEF Init, NoScan
<1>2. lidarBuf = <<>> /\ lidarBuf \in Seq(Scan) /\ Len(lidarBuf) = 0
  BY DEF Init
<1>3. InOrder
  BY <1>2 DEF InOrder
<1>4. ~pushed /\ ~tree /\ cloud = NoScan /\ registered = 0 /\ scans = 0
      /\ pushed \in BOOLEAN /\ needInit \in BOOLEAN /\ tree \in BOOLEAN
  BY DEF Init
<1>5. FrontInv
  BY <1>4 DEF FrontInv
<1>6. MapInv
  BY <1>1, <1>4 DEF MapInv
<1> QED
  BY <1>1, <1>3, <1>4, <1>5, <1>6 DEF SyncInv

\* A scan received is newer than all before it, whether or not the buffer is cleared.
LEMMA ScanArrives ==
  ASSUME SyncInv, NEW t \in Int, NEW span \in {0, ScanLen}, NEW points \in {"none", "few", "many"},
         LidarCallback(t, span, points)
  PROVE  SyncInv'
<1> DEFINE scan == [no |-> scans + 1, beg |-> t, span |-> span, points |-> points]
           kept == IF lastLidar # Never /\ t < lastLidar THEN <<>> ELSE lidarBuf
<1>1. scan \in Scan /\ scan.no = scans + 1
  BY DEF Scan, SyncInv
<1>2. lidarBuf' = Append(kept, scan) /\ scans' = scans + 1
  BY DEF LidarCallback, ScanBuffers
<1>3. UNCHANGED <<syncVars, filterVars, mapVars>>
  BY DEF LidarCallback
<1>4. /\ kept \in Seq(Scan)
      /\ \A i \in 1 .. Len(kept) :
           i \in 1 .. Len(lidarBuf) /\ kept[i] = lidarBuf[i]
  BY DEF SyncInv, InOrder
<1> HIDE DEF scan, kept
<1>5. /\ lidarBuf' \in Seq(Scan) /\ Len(lidarBuf') = Len(kept) + 1
      /\ lidarBuf'[Len(kept) + 1] = scan
      /\ \A i \in 1 .. Len(kept) : lidarBuf'[i] = lidarBuf[i] /\ i \in 1 .. Len(lidarBuf)
  BY <1>1, <1>2, <1>4
<1>6. \A i \in 1 .. Len(lidarBuf') :
        \/ i = Len(kept) + 1 /\ lidarBuf'[i].no = scans + 1
        \/ i \in 1 .. Len(kept) /\ i \in 1 .. Len(lidarBuf) /\ lidarBuf'[i] = lidarBuf[i]
  BY <1>1, <1>4, <1>5
<1>7. \A i \in 1 .. Len(lidarBuf) : lidarBuf[i] \in Scan /\ lidarBuf[i].no \in Nat
  BY WaitingIsTyped
<1>8. cloud.no \in Nat /\ cloud' = cloud
  BY <1>3 DEF SyncInv, Scan, filterVars
<1>9. InOrder'
  <2>1. \A i \in 1 .. Len(lidarBuf') : cloud'.no < lidarBuf'[i].no /\ lidarBuf'[i].no <= scans'
    BY <1>2, <1>6, <1>7, <1>8 DEF SyncInv, InOrder
  <2>2. \A i, j \in 1 .. Len(lidarBuf') : i < j => lidarBuf'[i].no < lidarBuf'[j].no
    <3> SUFFICES ASSUME NEW i \in 1 .. Len(lidarBuf'), NEW j \in 1 .. Len(lidarBuf'), i < j
                 PROVE  lidarBuf'[i].no < lidarBuf'[j].no
      OBVIOUS
    <3>1. Len(kept) \in Nat
      BY <1>4
    <3>2. i \in 1 .. Len(kept) /\ i \in 1 .. Len(lidarBuf) /\ lidarBuf'[i] = lidarBuf[i]
      BY <1>5, <1>6, <3>1
    <3>3. CASE j = Len(kept) + 1 /\ lidarBuf'[j].no = scans + 1
      BY <1>7, <3>2, <3>3 DEF SyncInv, InOrder
    <3>4. CASE j \in 1 .. Len(lidarBuf) /\ lidarBuf'[j] = lidarBuf[j]
      BY <3>2, <3>4 DEF SyncInv, InOrder
    <3> QED
      BY <1>6, <3>3, <3>4
  <2> QED
    BY <1>5, <2>1, <2>2 DEF InOrder
<1>10. FrontInv'
  <2> SUFFICES ASSUME pushed
               PROVE  /\ meas.scan \in Scan
                      /\ cloud.no < meas.scan.no /\ meas.scan.no <= scans'
                      /\ \A i \in 1 .. Len(lidarBuf') : meas.scan.no <= lidarBuf'[i].no
    BY <1>3, <1>8 DEF FrontInv, syncVars
  <2>1. meas.scan \in Scan /\ meas.scan.no \in Nat /\ cloud.no < meas.scan.no /\ meas.scan.no <= scans
    BY DEF SyncInv, FrontInv, Scan
  <2>2. scans \in Nat /\ \A i \in 1 .. Len(lidarBuf) : meas.scan.no <= lidarBuf[i].no
    BY DEF SyncInv, FrontInv
  <2>3. meas.scan.no <= scans + 1
    BY <2>1, <2>2
  <2>4. \A i \in 1 .. Len(lidarBuf') : meas.scan.no <= lidarBuf'[i].no
    BY <1>6, <2>2, <2>3
  <2> QED
    BY <1>2, <2>1, <2>3, <2>4
<1> QED
  BY <1>2, <1>3, <1>8, <1>9, <1>10 DEF SyncInv, MapInv, syncVars, filterVars, mapVars

-----------------------------------------------------------------------------
(* The front of the buffer, which both outcomes of sync_packages look at.  *)

LEMMA FrontIsNewer ==
  ASSUME SyncInv, lidarBuf # <<>>
  PROVE  /\ FrontScan \in Scan /\ FrontScan.no \in Nat
         /\ cloud.no < FrontScan.no /\ FrontScan.no <= scans
         /\ \A i \in 1 .. Len(lidarBuf) : FrontScan.no <= lidarBuf[i].no
<1>1. /\ Len(lidarBuf) \in Nat /\ 1 \in 1 .. Len(lidarBuf) /\ Head(lidarBuf) = lidarBuf[1]
      /\ \A i \in 1 .. Len(lidarBuf) : lidarBuf[i] \in Scan /\ lidarBuf[i].no \in Nat
  <2>1. lidarBuf \in Seq(Scan)
    BY DEF SyncInv, InOrder
  <2> QED
    BY <2>1, WaitingIsTyped
<1>2. CASE pushed
  BY <1>2 DEF FrontScan, SyncInv, FrontInv, Scan
<1>3. CASE ~pushed
  <2>1. FrontScan = lidarBuf[1]
    BY <1>1, <1>3 DEF FrontScan
  <2>2. \A i \in 1 .. Len(lidarBuf) : i = 1 \/ 1 < i
    BY <1>1
  <2>3. \A i \in 1 .. Len(lidarBuf) : lidarBuf[1].no <= lidarBuf[i].no
    BY <1>1, <2>2 DEF SyncInv, InOrder
  <2> QED
    BY <1>1, <2>1, <2>3 DEF SyncInv, InOrder
<1> QED
  BY <1>2, <1>3

\* What waits behind the front is newer than it.
LEMMA RestIsNewer ==
  ASSUME SyncInv, lidarBuf # <<>>
  PROVE  /\ Tail(lidarBuf) \in Seq(Scan)
         /\ \A i \in 1 .. Len(Tail(lidarBuf)) :
              /\ FrontScan.no < Tail(lidarBuf)[i].no
              /\ cloud.no < Tail(lidarBuf)[i].no /\ Tail(lidarBuf)[i].no <= scans
         /\ \A i, j \in 1 .. Len(Tail(lidarBuf)) : i < j => Tail(lidarBuf)[i].no < Tail(lidarBuf)[j].no
<1>1. /\ Tail(lidarBuf) \in Seq(Scan) /\ Len(Tail(lidarBuf)) = Len(lidarBuf) - 1 /\ Len(lidarBuf) \in Nat
      /\ \A i \in 1 .. Len(Tail(lidarBuf)) :
           /\ Tail(lidarBuf)[i] = lidarBuf[i + 1] /\ 1 < i + 1
           /\ i + 1 \in 1 .. Len(lidarBuf) /\ 1 \in 1 .. Len(lidarBuf)
  BY DEF SyncInv, InOrder
<1>2. \A i \in 1 .. Len(lidarBuf) : lidarBuf[i] \in Scan /\ lidarBuf[i].no \in Nat
  BY WaitingIsTyped
<1>3. FrontScan.no \in Nat /\ \A i \in 1 .. Len(lidarBuf) : FrontScan.no <= lidarBuf[i].no
  BY FrontIsNewer
<1>4. \A i \in 1 .. Len(Tail(lidarBuf)) : lidarBuf[1].no < lidarBuf[i + 1].no
  BY <1>1 DEF SyncInv, InOrder
<1>5. \A i \in 1 .. Len(Tail(lidarBuf)) : FrontScan.no < Tail(lidarBuf)[i].no
  BY <1>1, <1>2, <1>3, <1>4
<1>6. \A i, j \in 1 .. Len(Tail(lidarBuf)) : i < j => Tail(lidarBuf)[i].no < Tail(lidarBuf)[j].no
  <2> SUFFICES ASSUME NEW i \in 1 .. Len(Tail(lidarBuf)), NEW j \in 1 .. Len(Tail(lidarBuf)), i < j
               PROVE  lidarBuf[i + 1].no < lidarBuf[j + 1].no
    BY <1>1
  <2>1. i + 1 < j + 1 /\ i + 1 \in 1 .. Len(lidarBuf) /\ j + 1 \in 1 .. Len(lidarBuf)
    BY <1>1
  <2> QED
    BY <2>1 DEF SyncInv, InOrder
<1> QED
  BY <1>1, <1>5, <1>6 DEF SyncInv, InOrder

-----------------------------------------------------------------------------
(* timer_callback.                                                         *)

\* A scan that has to wait for its samples.
LEMMA WaitKeeps ==
  ASSUME SyncInv, SyncWaits
  PROVE  SyncInv'
<1>1. lidarBuf # <<>> /\ meas'.scan = FrontScan
  BY DEF SyncWaits
<1>2. UNCHANGED <<bufVars, filterVars, mapVars, scans>> /\ pushed' = TRUE
  BY DEF SyncWaits
<1>3. FrontInv'
  BY <1>1, <1>2, FrontIsNewer DEF FrontInv, bufVars, filterVars
<1> QED
  BY <1>2, <1>3 DEF SyncInv, InOrder, MapInv, bufVars, filterVars, mapVars

\* What ImuProcess leaves in feats_undistort: its own scan, or what was there.
LEMMA ProcessLeaves ==
  ASSUME SyncInv, Process
  PROVE  /\ cloud' \in {cloud, meas'.scan} /\ needInit' \in BOOLEAN
         /\ needInit' => needInit /\ cloud' = cloud
         /\ meas'.imu # <<>> /\ ~needInit => cloud' = meas'.scan
<1>1. CASE NoSamples
  BY <1>1 DEF NoSamples, filterVars, SyncInv
<1>2. CASE ImuInit
  BY <1>2 DEF ImuInit
<1>3. CASE UndistortPcl
  BY <1>3 DEF UndistortPcl, SyncInv
<1> QED
  BY <1>1, <1>2, <1>3 DEF Process

\* A package, whatever becomes of it.
LEMMA PackageKeeps ==
  ASSUME SyncInv, SyncPackage, FirstScan \/ NotRegistered \/ Registered
  PROVE  SyncInv'
<1>1. lidarBuf # <<>> /\ meas'.scan = FrontScan /\ lidarBuf' = Tail(lidarBuf) /\ pushed' = FALSE /\ scans' = scans
  BY DEF SyncPackage
<1>2. FrontScan \in Scan /\ FrontScan.no \in Nat /\ cloud.no < FrontScan.no /\ FrontScan.no <= scans
  BY <1>1, FrontIsNewer
<1>3. cloud \in Scan /\ cloud.no \in Nat
  BY DEF SyncInv, Scan
<1>4. /\ cloud' \in {cloud, FrontScan} /\ needInit' \in BOOLEAN
      /\ needInit' => needInit /\ cloud' = cloud
  <2>1. CASE FirstScan
    BY <2>1 DEF FirstScan, filterVars, SyncInv
  <2>2. CASE NotRegistered \/ Registered
    BY <1>1, <2>2, ProcessLeaves DEF NotRegistered, Registered
  <2> QED
    BY <2>1, <2>2
<1>5. cloud' \in Scan /\ cloud'.no \in Nat /\ cloud.no <= cloud'.no /\ cloud'.no <= scans'
  BY <1>1, <1>2, <1>3, <1>4 DEF SyncInv
<1>6. InOrder'
  <2>1. \A i \in 1 .. Len(lidarBuf') : cloud'.no < lidarBuf'[i].no /\ lidarBuf'[i].no <= scans'
    BY <1>1, <1>4, RestIsNewer
  <2> QED
    BY <1>1, <2>1, RestIsNewer DEF InOrder
<1>7. MapInv' /\ tree' \in BOOLEAN
  <2>1. CASE FirstScan
    BY <1>3, <1>4, <1>5, <2>1 DEF FirstScan, filterVars, MapInv, SyncInv
  <2>2. CASE NotRegistered
    <3>1. registered' \in {registered, cloud'.no} /\ tree' = (tree \/ cloud'.points = "many")
      BY <2>2 DEF NotRegistered
    <3>2. NoScan.points # "many"
      BY DEF NoScan
    <3> QED
      BY <1>3, <1>4, <1>5, <3>1, <3>2 DEF MapInv, SyncInv
  <2>3. CASE Registered
    <3>1. registered' = cloud'.no /\ tree' = tree
      BY <2>3 DEF Registered
    <3> QED
      BY <1>4, <1>5, <3>1 DEF MapInv, SyncInv
  <2> QED
    BY <2>1, <2>2, <2>3
<1> QED
  BY <1>1, <1>4, <1>5, <1>6, <1>7 DEF SyncInv, FrontInv

-----------------------------------------------------------------------------
LEMMA StepKeeps == SyncInv /\ [Next]_vars => SyncInv'
<1> SUFFICES ASSUME SyncInv, [Next]_vars PROVE SyncInv'
  OBVIOUS
<1>1. ASSUME NEW t \in LidarStamps, LidarCallback(t, ScanLen, "many") PROVE SyncInv'
  BY <1>1, ScanArrives DEF LidarStamps
<1>2. ASSUME NEW t \in LidarStamps, NEW points \in {"none", "few", "many"}, LidarCallback(t, 0, points)
      PROVE  SyncInv'
  BY <1>2, ScanArrives DEF LidarStamps
<1>3. ASSUME NEW t, ImuCallback(t) PROVE SyncInv'
  BY <1>3 DEF ImuCallback, SyncInv, InOrder, FrontInv, MapInv, syncVars, filterVars, mapVars
<1>4. CASE TimerCallback
  BY <1>4, WaitKeeps, PackageKeeps DEF TimerCallback
<1>5. CASE UNCHANGED vars
  BY <1>5 DEF vars, bufVars, syncVars, filterVars, mapVars, SyncInv, InOrder, FrontInv, MapInv
<1> QED
  BY <1>1, <1>2, <1>3, <1>4, <1>5 DEF Next

\* The scans that wait, the one in hand, the one undistorted last and the one in the map are
\* in the order in which they were received.
THEOREM ScansInOrder == Spec => []SyncInv
BY InitOrdered, StepKeeps, PTL DEF Spec

\* What goes out as odometry after a package with samples: its own scan.
LEMMA RegistersOwn ==
  ASSUME SyncInv, SyncPackage, Registered, meas'.imu # <<>>
  PROVE  registered' > registered
<1>1. ~needInit
  BY DEF SyncInv, MapInv, Registered
<1>2. cloud' = meas'.scan /\ registered' = cloud'.no
  BY <1>1, ProcessLeaves DEF Registered
<1>3. meas'.scan = FrontScan /\ cloud.no < FrontScan.no /\ FrontScan.no \in Nat
  BY FrontIsNewer DEF SyncPackage
<1> QED
  BY <1>2, <1>3 DEF SyncInv, MapInv, Scan

\* A scan that comes with samples puts its own points into the map, once and in order.
THEOREM ScansRegisteredOnce == Spec => RegisteredOnce
<1>1. SyncInv /\ [Next]_vars => [odom' # odom /\ meas'.imu # <<>> => registered' > registered]_vars
  <2> SUFFICES ASSUME SyncInv, Next, odom' # odom, meas'.imu # <<>> PROVE registered' > registered
    OBVIOUS
  <2>1. ~(\E t \in LidarStamps : LidarCallback(t, ScanLen, "many"))
    BY DEF LidarCallback, mapVars
  <2>2. ~(\E t \in LidarStamps, points \in {"none", "few", "many"} : LidarCallback(t, 0, points))
    BY DEF LidarCallback, mapVars
  <2>3. ~(\E t \in lastImu + 1 .. lastImu + MaxGap : t <= MaxTime /\ ImuCallback(t))
    BY DEF ImuCallback, mapVars
  <2>5. ~(\E t \in Restarts : t < lastImu /\ ImuCallback(t))
    BY DEF ImuCallback, mapVars
  <2>4. SyncPackage /\ Registered
    BY <2>1, <2>2, <2>3, <2>5 DEF Next, TimerCallback, SyncWaits, FirstScan, NotRegistered, mapVars
  <2> QED
    BY <2>4, RegistersOwn
<1> QED
  BY <1>1, ScansInOrder, PTL DEF Spec, RegisteredOnce

-----------------------------------------------------------------------------
(* The time of the filter.                                                 *)

\* Induction over the numbers: every set of them has a least one.
Less == {p \in Nat \X Nat : p[1] < p[2]}

LEMMA LessIsWellFounded == IsWellFoundedOn(Less, Nat)
<1>1. Less = OpToRel(<, Nat)
  BY DEF Less, OpToRel
<1> QED BY <1>1, NatLessThanWellFounded

LEMMA Least ==
  ASSUME NEW T \in SUBSET Nat, T # {}
  PROVE  \E x \in T : \A y \in T : x <= y
<1>1. PICK x \in T : \A y \in T : ~(<<y, x>> \in Less)
  BY LessIsWellFounded, WFMin
<1>2. ASSUME NEW y \in T PROVE x <= y
  <2>1. ~(<<y, x>> \in Less) /\ y \in Nat /\ x \in Nat
    BY <1>1
  <2> QED BY <2>1 DEF Less
<1> QED BY <1>2

\* The stamps of samples grow.
Increasing(s) == \A k, n \in 1 .. Len(s) : k < n => s[k] < s[n]

\* What is propagated over several intervals is what is propagated over all at once.
LEMMA StepsAdd ==
  ASSUME lastEnd \in Int, NEW a \in Int, NEW b \in Int, NEW c \in Int, a <= b, b <= c
  PROVE  /\ Step(a, b) + Step(b, c) = Step(a, c) /\ Step(a, a) = 0
         /\ Step(a, b) \in Int
BY DEF Step

\* What the filter is propagated over is the time from the sample used last, whatever its stamp,
\* to the first of the others and from there to the last.
LEMMA TimeIsSum ==
  ASSUME lastEnd \in Int, filterTime \in Int,
         NEW imu \in Seq(Int), Len(imu) \in Nat \ {0, 1},
         \A k, n \in 2 .. Len(imu) : k < n => imu[k] < imu[n]
  PROVE  TimeAt(imu)[Len(imu)] = filterTime + Step(imu[1], imu[2]) + Step(imu[2], imu[Len(imu)])
<1> DEFINE N == Len(imu)
           Law(h) == h = [k \in 1 .. N |-> IF k = 1 THEN filterTime ELSE h[k - 1] + Step(imu[k - 1], imu[k])]
           Total(k) == filterTime + Step(imu[1], imu[2]) + Step(imu[2], imu[k])
           Sum == [k \in 1 .. N |-> IF k = 1 THEN filterTime ELSE Total(k)]
<1>1. N \in Nat /\ 1 \in 1 .. N /\ 2 \in 2 .. N /\ N \in 2 .. N /\ \A k \in 1 .. N : imu[k] \in Int
  <2>1. \A k \in 1 .. N : imu[k] \in Int
    OBVIOUS
  <2>2. PICK n \in Nat \ {0, 1} : n = N
    OBVIOUS
  <2>3. n >= 2
    BY <2>2
  <2>4. 1 \in 1 .. n /\ 2 \in 2 .. n /\ n \in 2 .. n
    BY <2>3
  <2> QED BY <2>1, <2>2, <2>4
<1>2. \A k, n \in 1 .. N : Step(imu[k], imu[n]) \in Int
  BY <1>1 DEF Step
<1>3. Step(imu[2], imu[2]) = 0
  BY <1>1 DEF Step
<1>4. Total(2) = filterTime + Step(imu[1], imu[2])
  <2>1. Step(imu[1], imu[2]) \in Int
    BY <1>1, <1>2
  <2> QED BY <1>3, <2>1
<1>5. ASSUME NEW k \in 3 .. N PROVE Total(k) = Total(k - 1) + Step(imu[k - 1], imu[k])
  <2>1. k - 1 \in 2 .. N /\ k \in 2 .. N /\ k - 1 < k /\ (k - 1 = 2 \/ 2 < k - 1) /\ k - 1 \in 1 .. N /\ k \in 1 .. N /\ 2 \in 1 .. N
    BY <1>1
  <2>2. imu[2] <= imu[k - 1] /\ imu[k - 1] <= imu[k]
    BY <1>1, <2>1
  <2>3. Step(imu[2], imu[k - 1]) + Step(imu[k - 1], imu[k]) = Step(imu[2], imu[k])
    BY <1>1, <2>1, <2>2, StepsAdd
  <2>4. PICK x \in Int, y \in Int, z \in Int, w \in Int :
          x = Step(imu[2], imu[k - 1]) /\ y = Step(imu[k - 1], imu[k]) /\ z = Step(imu[2], imu[k]) /\ w = Step(imu[1], imu[2])
    BY <1>1, <1>2, <2>1
  <2> QED BY <2>3, <2>4
<1>6. Law(Sum)
  <2> SUFFICES ASSUME NEW k \in 1 .. N
               PROVE  Sum[k] = IF k = 1 THEN filterTime ELSE Sum[k - 1] + Step(imu[k - 1], imu[k])
    OBVIOUS
  <2>1. CASE k = 1
    BY <1>1, <2>1
  <2>2. CASE k = 2
    <3>1. k # 1 /\ k - 1 = 1 /\ 1 \in 1 .. N /\ Sum[k] = Total(2) /\ Sum[k - 1] = filterTime
      BY <1>1, <2>2
    <3> QED BY <1>4, <2>2, <3>1
  <2>3. CASE k # 1 /\ k # 2
    <3>1. k \in 3 .. N /\ k - 1 \in 1 .. N /\ k - 1 # 1
      BY <1>1, <2>3
    <3>2. Sum[k] = Total(k) /\ Sum[k - 1] = Total(k - 1)
      BY <2>3, <3>1
    <3> QED BY <1>5, <2>3, <3>1, <3>2
  <2> QED BY <2>1, <2>2, <2>3
<1> HIDE DEF Sum
<1>7. Law(TimeAt(imu))
  BY <1>6 DEF TimeAt
<1>8. \A k \in 2 .. N : TimeAt(imu)[k] = Total(k)
  <2> DEFINE Bad == {k \in 2 .. N : TimeAt(imu)[k] # Total(k)}
  <2> SUFFICES ASSUME Bad # {} PROVE FALSE
    OBVIOUS
  <2>1. PICK k \in Bad : \A n \in Bad : k <= n
    <3>1. Bad \in SUBSET Nat
      BY <1>1
    <3> QED BY <3>1, Least
  <2>2. k \in 2 .. N /\ k \in 1 .. N /\ k # 1 /\ k - 1 \in 1 .. N /\ TimeAt(imu)[k] # Total(k)
    BY <1>1, <2>1
  <2>3. TimeAt(imu)[k] = TimeAt(imu)[k - 1] + Step(imu[k - 1], imu[k])
    BY <1>7, <2>2
  <2>4. CASE k = 2
    <3>1. TimeAt(imu)[1] = filterTime
      BY <1>1, <1>7
    <3>2. k - 1 = 1
      BY <2>4
    <3> QED BY <1>4, <2>2, <2>3, <2>4, <3>1, <3>2
  <2>5. CASE k # 2
    <3>1. k \in 3 .. N /\ k - 1 \in 2 .. N /\ ~(k <= k - 1)
      BY <2>2, <2>5
    <3>2. TimeAt(imu)[k - 1] = Total(k - 1)
      <4>1. k - 1 \notin Bad
        <5> HIDE DEF Bad
        <5> QED BY <2>1, <3>1
      <4> QED BY <3>1, <4>1
    <3> QED BY <1>5, <2>2, <2>3, <3>1, <3>2
  <2> QED BY <2>4, <2>5
<1> QED BY <1>1, <1>8

\* The samples that wait were received one after the other and, once the filter knows the end
\* of a scan, after that end, unless the stamps were set back.
TimeInv ==
  /\ lastImu \in Nat /\ lastUsed \in Nat /\ lastEnd \in Int /\ filterTime \in Int
  /\ endTime \in Int /\ spanSum \in Nat /\ scanNum \in Nat /\ setBack \in BOOLEAN
  /\ timeBuf \in Seq(Int) /\ Len(lidarBuf) <= Len(timeBuf)
  /\ imuBuf \in Seq(Nat) /\ Increasing(imuBuf)
  /\ \A k \in 1 .. Len(imuBuf) : imuBuf[k] <= lastImu
  /\ firstScan => cloud.no = 0
  /\ cloud.no # 0 => lastUsed <= lastEnd
  /\ cloud.no # 0 /\ ~setBack =>
       /\ lastEnd <= lastImu
       /\ \A k \in 1 .. Len(imuBuf) : lastEnd < imuBuf[k]

LEMMA TimeStarts == Init => TimeInv
<1> SUFFICES ASSUME Init PROVE TimeInv
  OBVIOUS
<1>1. cloud.no = 0
  BY DEF Init, NoScan
<1>2. lastEnd \in Int
  BY SyncAssumption DEF Init
<1>3. /\ timeBuf = <<>> /\ lidarBuf = <<>> /\ imuBuf = <<>>
      /\ Len(timeBuf) = 0 /\ Len(lidarBuf) = 0 /\ Len(imuBuf) = 0
      /\ timeBuf \in Seq(Int) /\ imuBuf \in Seq(Nat)
  BY DEF Init
<1>4. /\ lastImu = 0 /\ lastUsed = 0 /\ filterTime = 0 /\ endTime = 0 /\ spanSum = 0 /\ scanNum = 0
      /\ setBack \in BOOLEAN
  BY DEF Init
<1>5. Increasing(imuBuf) /\ (\A k \in 1 .. Len(imuBuf) : FALSE) /\ Len(lidarBuf) <= Len(timeBuf)
  BY <1>3 DEF Increasing
<1> QED BY <1>1, <1>2, <1>3, <1>4, <1>5 DEF TimeInv

\* The samples up to an end are those in front.
LEMMA TakenInFront ==
  ASSUME NEW end \in Int, imuBuf \in Seq(Nat), imuBuf # <<>>, Increasing(imuBuf)
  PROVE  /\ ImuTaken(end) \in 0 .. Len(imuBuf)
         /\ \A k \in 1 .. ImuTaken(end) : imuBuf[k] <= end
         /\ ImuTaken(end) # 0 => \A k \in ImuTaken(end) + 1 .. Len(imuBuf) : end < imuBuf[k]
<1>1. Len(imuBuf) \in Nat \ {0} /\ Head(imuBuf) = imuBuf[1] /\ \A k \in 1 .. Len(imuBuf) : imuBuf[k] \in Nat
  BY EmptySeq
<1>2. CASE Head(imuBuf) >= end
  BY <1>1, <1>2 DEF ImuTaken
<1>3. CASE ~(Head(imuBuf) >= end)
  <2> DEFINE Prefix(n) == /\ \A k \in 1 .. n : imuBuf[k] <= end
                          /\ n < Len(imuBuf) => imuBuf[n + 1] > end
             Ends == {n \in 1 .. Len(imuBuf) : n < Len(imuBuf) => imuBuf[n + 1] > end}
  <2>1. PICK n \in Ends : \A m \in Ends : n <= m
    <3>1. Len(imuBuf) \in Ends /\ Ends \in SUBSET Nat
      BY <1>1
    <3> QED BY <3>1, Least
  <2>2. ASSUME NEW k \in 1 .. n PROVE imuBuf[k] <= end
    <3>1. CASE k = 1
      BY <1>1, <1>3, <3>1
    <3>2. CASE k # 1
      <4>0. n \in 1 .. Len(imuBuf)
        BY <2>1
      <4>1. k - 1 \in 1 .. Len(imuBuf) /\ k - 1 < n /\ ~(n <= k - 1)
        BY <1>1, <4>0, <3>2
      <4>3. k - 1 \notin Ends
        <5> HIDE DEF Ends
        <5> QED BY <2>1, <4>1
      <4>2. imuBuf[k - 1 + 1] <= end
        <5>1. k - 1 < Len(imuBuf) /\ ~(imuBuf[k - 1 + 1] > end)
          BY <4>0, <4>1, <4>3, <1>1
        <5>2. k - 1 + 1 = k /\ k \in 1 .. Len(imuBuf)
          BY <1>1, <2>1
        <5> QED BY <1>1, <5>1, <5>2
      <4> QED BY <4>2
    <3> QED BY <3>1, <3>2
  <2>3. n \in 1 .. Len(imuBuf) /\ Prefix(n)
    BY <2>1, <2>2
  <2>4. ImuTaken(end) \in 1 .. Len(imuBuf) /\ Prefix(ImuTaken(end))
    BY <1>3, <2>3 DEF ImuTaken
  <2>5. PICK t \in 1 .. Len(imuBuf) : t = ImuTaken(end)
    BY <2>4
  <2>6. \A k \in t + 1 .. Len(imuBuf) : end < imuBuf[k]
    <3> SUFFICES ASSUME NEW k \in t + 1 .. Len(imuBuf) PROVE end < imuBuf[k]
      OBVIOUS
    <3>1. t < Len(imuBuf) /\ imuBuf[t + 1] > end /\ t + 1 \in 1 .. Len(imuBuf) /\ k \in 1 .. Len(imuBuf)
      BY <1>1, <2>4, <2>5
    <3>2. k = t + 1 \/ imuBuf[t + 1] < imuBuf[k]
      BY <3>1 DEF Increasing
    <3> QED BY <1>1, <3>1, <3>2
  <2> QED BY <1>1, <2>4, <2>5, <2>6
<1> QED BY <1>2, <1>3

\* The end of the scan in front is a time.
LEMMA EndIsTime ==
  ASSUME SyncInv, TimeInv, lidarBuf # <<>>
  PROVE  FrontEnd \in Int /\ (PushScan => spanSum' \in Nat /\ scanNum' \in Nat)
<1>1. Head(timeBuf) \in Int
  <2>1. Len(lidarBuf) \in Nat \ {0} /\ timeBuf # <<>>
    BY EmptySeq, WaitingIsTyped DEF TimeInv, SyncInv, InOrder
  <2> QED BY <2>1 DEF TimeInv
<1>2. PICK s \in Scan : s = Head(lidarBuf)
  BY DEF SyncInv, InOrder
<1>3. s.span \in Nat
  BY SyncAssumption DEF Scan
<1>4. MeanSpan \in Int
  <2>1. CASE scanNum = 0
    BY <2>1 DEF MeanSpan
  <2>2. CASE scanNum # 0
    <3>1. scanNum \in Nat \ {0} /\ spanSum + scanNum - 1 \in Int
      BY <2>2 DEF TimeInv
    <3> QED BY <2>2, <3>1 DEF MeanSpan
  <2> QED BY <2>1, <2>2
<1>5. FrontEnd \in Int
  BY <1>1, <1>2, <1>3, <1>4 DEF FrontEnd, TimeInv
<1> QED BY <1>2, <1>3, <1>5 DEF PushScan, TimeInv

\* Samples come one after the other, or begin anew, and the rest of the state is spared.
LEMMA SampleArrives ==
  ASSUME TimeInv, NEW t \in Nat, t # lastImu, ImuCallback(t)
  PROVE  TimeInv'
<1>1. /\ lastImu \in Nat /\ lastImu' = t /\ setBack' = (setBack \/ t < lastImu) /\ setBack \in BOOLEAN
      /\ UNCHANGED <<lidarBuf, timeBuf, syncVars, filterVars, firstScan>>
  BY DEF ImuCallback, TimeInv, mapVars
<1>2. PICK q : q = IF t < lastImu THEN <<>> ELSE imuBuf
  OBVIOUS
<1>3. imuBuf' = Append(q, t)
  BY <1>2 DEF ImuCallback
<1>0. q \in Seq(Nat) /\ (t < lastImu => Len(q) = 0)
  <2>1. <<>> \in Seq(Nat) /\ Len(<<>>) = 0
    BY EmptySeq
  <2> QED BY <1>2, <2>1 DEF TimeInv
<1>4. /\ q \in Seq(Nat) /\ Len(q) \in Nat /\ imuBuf' \in Seq(Nat) /\ Len(imuBuf') = Len(q) + 1
      /\ \A k \in 1 .. Len(q) : imuBuf'[k] = q[k] /\ q[k] \in Nat
      /\ imuBuf'[Len(q) + 1] = t
  BY <1>0, <1>3, AppendProperties
<1>5. \A k \in 1 .. Len(imuBuf') : (k \in 1 .. Len(q) /\ imuBuf'[k] = q[k]) \/ (k = Len(q) + 1 /\ imuBuf'[k] = t)
  BY <1>4
<1>6. /\ lastEnd \in Int
      /\ \A k \in 1 .. Len(q) : q[k] < t
      /\ \A k, n \in 1 .. Len(q) : k < n => q[k] < q[n]
      /\ cloud.no # 0 /\ ~setBack' => lastEnd < t /\ \A k \in 1 .. Len(q) : lastEnd < q[k]
  <2>1. CASE t < lastImu
    <3>1. lastEnd \in Int
      BY DEF TimeInv
    <3>2. Len(q) = 0 /\ setBack'
      BY <1>0, <1>1, <2>1
    <3> QED BY <3>1, <3>2
  <2>2. CASE ~(t < lastImu)
    <3>1. q = imuBuf /\ lastImu < t
      BY <1>1, <1>2, <2>2
    <3>2. /\ lastEnd \in Int
          /\ \A k \in 1 .. Len(q) : q[k] <= lastImu
          /\ \A k, n \in 1 .. Len(q) : k < n => q[k] < q[n]
          /\ cloud.no # 0 /\ ~setBack => lastEnd <= lastImu /\ \A k \in 1 .. Len(q) : lastEnd < q[k]
      BY <3>1 DEF TimeInv, Increasing
    <3> QED BY <1>1, <1>4, <3>1, <3>2
  <2> QED BY <2>1, <2>2
<1>7. Increasing(imuBuf')
  <2> SUFFICES ASSUME NEW k \in 1 .. Len(imuBuf'), NEW n \in 1 .. Len(imuBuf'), k < n
               PROVE  imuBuf'[k] < imuBuf'[n]
    BY DEF Increasing
  <2>1. k \in 1 .. Len(q) /\ imuBuf'[k] = q[k]
    BY <1>4, <1>5
  <2>2. CASE n \in 1 .. Len(q) /\ imuBuf'[n] = q[n]
    BY <1>6, <2>1, <2>2
  <2>3. CASE imuBuf'[n] = t
    BY <1>6, <2>1, <2>3
  <2> QED BY <1>5, <2>2, <2>3
<1>8. /\ \A k \in 1 .. Len(imuBuf') : imuBuf'[k] <= t
      /\ cloud.no # 0 /\ ~setBack' => \A k \in 1 .. Len(imuBuf') : lastEnd < imuBuf'[k]
  <2> SUFFICES ASSUME NEW k \in 1 .. Len(imuBuf')
               PROVE  imuBuf'[k] <= t /\ (cloud.no # 0 /\ ~setBack' => lastEnd < imuBuf'[k])
    OBVIOUS
  <2>1. CASE k \in 1 .. Len(q) /\ imuBuf'[k] = q[k]
    BY <1>4, <1>6, <2>1
  <2>2. CASE imuBuf'[k] = t
    BY <1>6, <2>2
  <2> QED BY <1>5, <2>1, <2>2
<1>9. /\ UNCHANGED <<lastUsed, lastEnd, filterTime, endTime, spanSum, scanNum, cloud, firstScan>>
      /\ setBack' \in BOOLEAN /\ (cloud.no # 0 /\ ~setBack' => lastEnd <= t)
  BY <1>1, <1>6 DEF syncVars, filterVars
<1> QED BY <1>1, <1>4, <1>7, <1>8, <1>9 DEF TimeInv

\* A scan arrives, or waits for its samples, and spares the time of the filter.
LEMMA ScanKeepsTime ==
  ASSUME SyncInv, TimeInv, NEW t \in Int, NEW span, NEW points, LidarCallback(t, span, points)
  PROVE  TimeInv'
<1>1. PICK s : lidarBuf' = Append(ScanBuffers(lastLidar # Never /\ t < lastLidar)[1], s)
  BY DEF LidarCallback
<1>2. timeBuf' = Append(timeBuf, t) /\ timeBuf \in Seq(Int)
  BY DEF LidarCallback, ScanBuffers, TimeInv
<1>3. timeBuf' \in Seq(Int) /\ Len(timeBuf') = Len(timeBuf) + 1 /\ Len(timeBuf) \in Nat
  BY <1>2, AppendProperties
<1>4. lidarBuf \in Seq(Scan) /\ Len(lidarBuf) \in Nat
  BY WaitingIsTyped DEF SyncInv, InOrder
<1>5. PICK q : q = ScanBuffers(lastLidar # Never /\ t < lastLidar)[1]
  OBVIOUS
<1>6. q = <<>> \/ q = lidarBuf
  BY <1>5 DEF ScanBuffers
<1>7. q \in Seq(Scan) /\ Len(q) <= Len(lidarBuf)
  <2>1. CASE q = <<>>
    BY <1>4, <2>1, EmptySeq
  <2>2. CASE q = lidarBuf
    BY <1>4, <2>2
  <2> QED BY <1>6, <2>1, <2>2
<1>8. Len(lidarBuf') = Len(q) + 1
  BY <1>1, <1>5, <1>7, AppendProperties
<1>9. UNCHANGED <<imuBuf, lastImu, syncVars, filterVars, firstScan, setBack>>
  BY DEF LidarCallback, mapVars
<1> QED BY <1>3, <1>4, <1>7, <1>8, <1>9 DEF TimeInv, syncVars, filterVars

LEMMA WaitKeepsTime ==
  ASSUME SyncInv, TimeInv, SyncWaits
  PROVE  TimeInv'
<1>1. /\ UNCHANGED <<bufVars, filterVars, firstScan, setBack>>
      /\ endTime' = FrontEnd /\ PushScan /\ lidarBuf # <<>>
  BY DEF SyncWaits, mapVars
<1>2. endTime' \in Int /\ spanSum' \in Nat /\ scanNum' \in Nat
  BY <1>1, EndIsTime
<1> QED BY <1>1, <1>2 DEF TimeInv, bufVars, filterVars, Increasing

\* What a package leaves in the buffers, and what its samples are: all of them in order, up to
\* the end of the scan; what waits is after the end.
LEMMA PackageTakes ==
  ASSUME SyncInv, TimeInv, SyncPackage
  PROVE  /\ meas'.end \in Int /\ meas'.end <= lastImu /\ endTime' \in Int
         /\ meas'.imu \in Seq(Nat) /\ Increasing(meas'.imu)
         /\ \A k \in 1 .. Len(meas'.imu) :
              /\ meas'.imu[k] <= meas'.end
              /\ cloud.no # 0 /\ ~setBack => lastEnd < meas'.imu[k]
         /\ imuBuf' \in Seq(Nat) /\ Increasing(imuBuf')
         /\ \A k \in 1 .. Len(imuBuf') :
              /\ imuBuf'[k] <= lastImu
              /\ cloud.no # 0 /\ ~setBack => lastEnd < imuBuf'[k]
              /\ meas'.imu # <<>> => meas'.end < imuBuf'[k]
<1>1. /\ lidarBuf # <<>> /\ imuBuf # <<>> /\ lastImu >= FrontEnd /\ endTime' = FrontEnd
      /\ meas'.end = FrontEnd /\ meas'.imu = SubSeq(imuBuf, 1, ImuTaken(FrontEnd))
      /\ imuBuf' = SubSeq(imuBuf, ImuTaken(FrontEnd) + 1, Len(imuBuf))
  BY DEF SyncPackage
<1>2. FrontEnd \in Int /\ lastImu \in Nat /\ FrontEnd <= lastImu
  BY <1>1, EndIsTime DEF TimeInv
<1>3. PICK end \in Int : end = FrontEnd
  BY <1>2
<1>4. PICK n \in 0 .. Len(imuBuf) : n = ImuTaken(end)
  BY <1>1, <1>2, <1>3, TakenInFront DEF TimeInv
<1>5. PICK b \in Seq(Nat) : b = imuBuf
  BY DEF TimeInv
<1>6. /\ \A k \in 1 .. n : b[k] <= end
      /\ n # 0 => \A k \in n + 1 .. Len(b) : end < b[k]
  BY <1>1, <1>3, <1>4, <1>5, TakenInFront DEF TimeInv
<1>7. /\ Len(b) \in Nat /\ n \in 0 .. Len(b) /\ \A k \in 1 .. Len(b) : b[k] \in Nat
      /\ \A k, m \in 1 .. Len(b) : k < m => b[k] < b[m]
      /\ \A k \in 1 .. Len(b) : b[k] <= lastImu
      /\ cloud.no # 0 /\ ~setBack => \A k \in 1 .. Len(b) : lastEnd < b[k]
  BY <1>4, <1>5 DEF TimeInv, Increasing
<1>8. PICK s : s = SubSeq(b, 1, n)
  OBVIOUS
<1>9. PICK r : r = SubSeq(b, n + 1, Len(b))
  OBVIOUS
<1>10. /\ s \in Seq(Nat) /\ Len(s) = n
       /\ \A k \in 1 .. n : s[k] = b[k]
  BY <1>7, <1>8, SubSeqProperties
<1>11. /\ r \in Seq(Nat) /\ Len(r) = Len(b) - n
       /\ \A k \in 1 .. Len(b) - n : r[k] = b[k + n]
  <2>1. /\ n + 1 \in Int /\ Len(b) \in Int /\ \A k \in n + 1 .. Len(b) : b[k] \in Nat
    BY <1>7
  <2>2. /\ r \in Seq(Nat) /\ Len(r) = IF n + 1 <= Len(b) THEN Len(b) - (n + 1) + 1 ELSE 0
        /\ \A k \in 1 .. Len(b) - (n + 1) + 1 : r[k] = b[n + 1 + k - 1]
    BY <1>9, <2>1, SubSeqProperties
  <2>3. Len(r) = Len(b) - n
    BY <1>7, <2>2
  <2>4. ASSUME NEW k \in 1 .. Len(b) - n PROVE r[k] = b[k + n]
    <3>1. k \in 1 .. Len(b) - (n + 1) + 1 /\ n + 1 + k - 1 = k + n
      BY <1>7
    <3> QED BY <2>2, <3>1
  <2> QED BY <2>2, <2>3, <2>4
<1>12. \A k \in 1 .. Len(b) - n : k + n \in n + 1 .. Len(b) /\ k + n \in 1 .. Len(b)
  BY <1>7
<1>13. Increasing(s)
  <2> SUFFICES ASSUME NEW k \in 1 .. n, NEW m \in 1 .. n, k < m PROVE s[k] < s[m]
    BY <1>10 DEF Increasing
  <2>1. k \in 1 .. Len(b) /\ m \in 1 .. Len(b) /\ s[k] = b[k] /\ s[m] = b[m]
    BY <1>7, <1>10
  <2> QED BY <1>7, <2>1
<1>14. Increasing(r)
  <2> SUFFICES ASSUME NEW k \in 1 .. Len(b) - n, NEW m \in 1 .. Len(b) - n, k < m
               PROVE  b[k + n] < b[m + n]
    BY <1>11 DEF Increasing
  <2> QED BY <1>7, <1>12
<1>15. s # <<>> => n # 0
  BY <1>7, <1>10, EmptySeq
<1>16. \A k \in 1 .. Len(s) :
         s[k] <= end /\ (cloud.no # 0 /\ ~setBack => lastEnd < s[k])
  <2> SUFFICES ASSUME NEW k \in 1 .. n
               PROVE  b[k] <= end /\ (cloud.no # 0 /\ ~setBack => lastEnd < b[k])
    BY <1>10
  <2>1. k \in 1 .. Len(b)
    BY <1>7
  <2> QED BY <1>6, <1>7, <2>1
<1>17. \A k \in 1 .. Len(r) :
         /\ r[k] <= lastImu /\ (cloud.no # 0 /\ ~setBack => lastEnd < r[k])
         /\ s # <<>> => end < r[k]
  <2> SUFFICES ASSUME NEW k \in 1 .. Len(b) - n
               PROVE  /\ b[k + n] <= lastImu /\ (cloud.no # 0 /\ ~setBack => lastEnd < b[k + n])
                      /\ s # <<>> => end < b[k + n]
    BY <1>11
  <2>1. k + n \in n + 1 .. Len(b) /\ k + n \in 1 .. Len(b) /\ n < k + n
    BY <1>7, <1>12
  <2> QED BY <1>6, <1>7, <1>15, <2>1
<1>18. /\ meas'.imu = s /\ imuBuf' = r /\ meas'.end = end /\ endTime' = end /\ end <= lastImu
  BY <1>1, <1>2, <1>3, <1>4, <1>5, <1>8, <1>9
<1> QED BY <1>10, <1>11, <1>13, <1>14, <1>16, <1>17, <1>18

\* The filter is taken from the sample used last to the first one of the package, from there to
\* the last one and to the end of the scan.
LEMMA PropagatedIs ==
  ASSUME TimeInv, NEW q \in Seq(Nat), q = meas'.imu, q # <<>>, Increasing(q), meas'.end \in Int
  PROVE  /\ Len(q) \in 1 .. Len(q) /\ q[1] \in Nat /\ q[Len(q)] \in Nat /\ q[1] <= q[Len(q)]
         /\ Propagated = filterTime + Step(lastUsed, q[1]) + Step(q[1], q[Len(q)]) + ToEnd(meas'.end, q[Len(q)])
<1> DEFINE imu == <<lastUsed>> \o q
<1>1. /\ lastUsed \in Nat /\ lastEnd \in Int /\ filterTime \in Int
      /\ Len(q) \in Nat \ {0} /\ \A k \in 1 .. Len(q) : q[k] \in Nat
  <2>1. q # <<>> /\ Len(q) \in Nat /\ \A k \in 1 .. Len(q) : q[k] \in Nat
    OBVIOUS
  <2> QED BY <2>1, EmptySeq DEF TimeInv
<1>2. /\ imu \in Seq(Nat) /\ imu \in Seq(Int) /\ Len(imu) = Len(q) + 1
      /\ \A k \in 1 .. Len(imu) : imu[k] = IF k = 1 THEN lastUsed ELSE q[k - 1]
  <2>1. <<lastUsed>> \in Seq(Nat) /\ Len(<<lastUsed>>) = 1 /\ <<lastUsed>>[1] = lastUsed
    BY <1>1
  <2>2. /\ imu \in Seq(Nat) /\ Len(imu) = 1 + Len(q)
        /\ \A k \in 1 .. 1 + Len(q) : imu[k] = IF k <= 1 THEN <<lastUsed>>[k] ELSE q[k - 1]
    BY <2>1, ConcatProperties
  <2>3. imu \in Seq(Int)
    BY <2>2, SeqMonotonic
  <2>4. \A k \in 1 .. 1 + Len(q) : k <= 1 <=> k = 1
    BY <1>1
  <2> QED BY <1>1, <2>1, <2>2, <2>3, <2>4
<1>3. imu[1] = lastUsed /\ imu[2] = q[1] /\ imu[Len(imu)] = q[Len(q)] /\ Len(imu) \in Nat \ {0, 1}
  <2>1. /\ 1 \in 1 .. Len(imu) /\ 2 \in 1 .. Len(imu) /\ Len(imu) \in 1 .. Len(imu)
        /\ Len(imu) # 1 /\ Len(imu) - 1 = Len(q)
    BY <1>1, <1>2
  <2> QED BY <1>1, <1>2, <2>1
<1>4. ASSUME NEW k \in 2 .. Len(imu), NEW m \in 2 .. Len(imu), k < m PROVE imu[k] < imu[m]
  <2>1. /\ k \in 1 .. Len(imu) /\ m \in 1 .. Len(imu) /\ k # 1 /\ m # 1
        /\ k - 1 \in 1 .. Len(q) /\ m - 1 \in 1 .. Len(q) /\ k - 1 < m - 1
    <3>1. Len(imu) = Len(q) + 1 /\ Len(q) \in Nat
      BY <1>1, <1>2
    <3> QED BY <1>4, <3>1
  <2>2. imu[k] = q[k - 1] /\ imu[m] = q[m - 1]
    BY <1>2, <2>1
  <2> QED BY <2>1, <2>2 DEF Increasing
<1> HIDE DEF imu
<1>5. TimeAt(imu)[Len(imu)] = filterTime + Step(lastUsed, q[1]) + Step(q[1], q[Len(q)])
  BY <1>1, <1>2, <1>3, <1>4, TimeIsSum
<1>6. Propagated = TimeAt(imu)[Len(imu)] + ToEnd(meas'.end, imu[Len(imu)])
  BY DEF Propagated, imu, Last
<1>7. Len(q) \in 1 .. Len(q) /\ q[1] \in Nat /\ q[Len(q)] \in Nat /\ q[1] <= q[Len(q)]
  <2>1. PICK n \in Nat : n = Len(q) /\ n # 0
    BY <1>1
  <2>2. n = 1 \/ 1 < n
    BY <2>1
  <2>3. n \in 1 .. n /\ 1 \in 1 .. n
    BY <2>1
  <2> QED BY <1>1, <2>1, <2>2, <2>3 DEF Increasing
<1> QED BY <1>3, <1>5, <1>6, <1>7

\* What one step propagates, see PropagatesExactly.
Propagates ==
  \/ filterTime' - filterTime = lastEnd' - lastEnd
  \/ setBack /\ Last(meas'.imu) < lastEnd

\* A package propagates from end to end, or leaves the time of the filter as it was.
LEMMA PackageKeepsTime ==
  ASSUME SyncInv, TimeInv, SyncPackage, FirstScan \/ NotRegistered \/ Registered
  PROVE  TimeInv' /\ (cloud.no # 0 => Propagates)
<1> DEFINE s == meas'.imu
           r == imuBuf'
<1>1. /\ meas'.end \in Int /\ meas'.end <= lastImu /\ endTime' \in Int
      /\ s \in Seq(Nat) /\ Increasing(s)
      /\ \A k \in 1 .. Len(s) : s[k] <= meas'.end /\ (cloud.no # 0 /\ ~setBack => lastEnd < s[k])
      /\ r \in Seq(Nat) /\ Increasing(r)
      /\ \A k \in 1 .. Len(r) :
              /\ r[k] <= lastImu /\ (cloud.no # 0 /\ ~setBack => lastEnd < r[k])
              /\ s # <<>> => meas'.end < r[k]
  BY PackageTakes
<1>2. /\ lastImu' = lastImu /\ spanSum' \in Nat /\ scanNum' \in Nat
      /\ timeBuf' = Tail(timeBuf) /\ lidarBuf' = Tail(lidarBuf) /\ lidarBuf # <<>>
      /\ setBack' = (setBack /\ s = <<>>)
  BY EndIsTime DEF SyncPackage
<1>3. timeBuf' \in Seq(Int) /\ Len(lidarBuf') <= Len(timeBuf')
  <2>1. lidarBuf \in Seq(Scan) /\ timeBuf \in Seq(Int) /\ Len(lidarBuf) <= Len(timeBuf)
    BY DEF SyncInv, InOrder, TimeInv
  <2>2. Len(lidarBuf) \in Nat \ {0} /\ Len(timeBuf) \in Nat
    BY <1>2, <2>1, EmptySeq, LenProperties
  <2>3. timeBuf # <<>>
    BY <2>1, <2>2, EmptySeq
  <2>4. PICK t \in Seq(Int) : t = timeBuf
    BY <2>1
  <2>5. PICK l \in Seq(Scan) : l = lidarBuf
    BY <2>1
  <2>6. Tail(t) \in Seq(Int) /\ Len(Tail(t)) = Len(t) - 1 /\ Len(Tail(l)) = Len(l) - 1
    BY <1>2, <2>3, <2>4, <2>5, HeadTailProperties
  <2> QED BY <1>2, <2>1, <2>2, <2>4, <2>5, <2>6
<1>4. /\ lastImu \in Nat /\ lastUsed \in Nat /\ lastEnd \in Int /\ filterTime \in Int /\ setBack \in BOOLEAN
      /\ setBack' \in BOOLEAN
      /\ firstScan => cloud.no = 0
      /\ cloud.no # 0 => lastUsed <= lastEnd
      /\ cloud.no # 0 /\ ~setBack => lastEnd <= lastImu
  BY <1>2 DEF TimeInv
<1> HIDE DEF s, r
<1>5. CASE UNCHANGED filterVars /\ (firstScan \/ s = <<>>) /\ ~firstScan'
  <2>1. UNCHANGED <<lastUsed, lastEnd, filterTime, cloud>> /\ ~firstScan'
    BY <1>5 DEF filterVars
  <2>2. cloud.no # 0 => setBack' = setBack
    BY <1>2, <1>4, <1>5
  <2>3. TimeInv'
    BY <1>1, <1>2, <1>3, <1>4, <2>1, <2>2 DEF TimeInv, r
  <2>4. Propagates
    BY <1>4, <2>1 DEF Propagates
  <2> QED BY <2>3, <2>4
<1>6. s # <<>> => /\ Len(s) \in 1 .. Len(s) /\ s[Len(s)] \in Nat /\ s[Len(s)] <= meas'.end
                  /\ cloud.no # 0 /\ ~setBack => lastEnd < s[Len(s)]
  <2> SUFFICES ASSUME s # <<>>
               PROVE  Len(s) \in 1 .. Len(s) /\ s[Len(s)] \in Nat
    BY <1>1
  <2> QED BY <1>1, EmptySeq
<1>7. CASE ImuInit /\ ~firstScan'
  <2>1. /\ s # <<>> /\ needInit /\ lastUsed' = s[Len(s)] /\ filterTime' = s[Len(s)]
        /\ lastEnd' = lastEnd /\ cloud' = cloud /\ ~firstScan'
    BY <1>7 DEF ImuInit, Last, s
  <2>2. cloud.no = 0
    BY <2>1 DEF SyncInv, MapInv, NoScan
  <2>3. cloud'.no = 0
    BY <2>1, <2>2
  <2>4. /\ lastUsed' \in Nat /\ filterTime' \in Int /\ lastEnd' \in Int
        /\ \A k \in 1 .. Len(r) : r[k] <= lastImu'
    BY <1>1, <1>2, <1>4, <1>6, <2>1
  <2>5. TimeInv'
    BY <1>1, <1>2, <1>3, <1>4, <2>1, <2>3, <2>4 DEF TimeInv, r
  <2> QED BY <2>2, <2>5
<1>8. CASE UndistortPcl /\ ~firstScan'
  <2>1. /\ s # <<>> /\ lastUsed' = s[Len(s)] /\ filterTime' = Propagated /\ lastEnd' = meas'.end
        /\ ~firstScan' /\ ~setBack'
    BY <1>2, <1>8 DEF UndistortPcl, Last, s
  <2>2. PICK a \in Int, x \in Int, e \in Int : a = s[1] /\ x = s[Len(s)] /\ e = meas'.end
    BY <1>1, <2>1, PropagatedIs DEF s
  <2>3. a <= x /\ Propagated = filterTime + Step(lastUsed, a) + Step(a, x) + ToEnd(e, x)
    BY <1>1, <2>1, <2>2, PropagatedIs DEF s
  <2>4. x <= e /\ lastUsed' <= lastEnd'
    BY <1>6, <2>1, <2>2
  <2>5. Step(lastUsed, a) \in Int /\ Step(a, x) \in Int /\ ToEnd(e, x) = e - x
    BY <1>4, <2>2, <2>4 DEF Step, ToEnd
  <2>6. filterTime' \in Int
    BY <1>4, <2>1, <2>2, <2>3, <2>5
  <2>7. ASSUME cloud.no # 0 PROVE Propagates
    <3>1. CASE x < lastEnd
      <4>1. setBack
        BY <1>4, <1>6, <2>1, <2>2, <2>7, <3>1
      <4>2. Last(meas'.imu) = x
        BY <2>2 DEF Last, s
      <4> QED BY <3>1, <4>1, <4>2 DEF Propagates
    <3>2. CASE ~(x < lastEnd)
      <4>1. PICK f \in Int, l \in Int, u \in Int : f = filterTime /\ l = lastEnd /\ u = lastUsed /\ u <= l
        BY <1>4, <2>7
      <4>2. Step(u, a) + Step(a, x) = x - l
        <5>1. CASE a < l
          BY <2>3, <3>2, <4>1, <5>1 DEF Step
        <5>2. CASE ~(a < l)
          BY <2>3, <3>2, <4>1, <5>2 DEF Step
        <5> QED BY <5>1, <5>2
      <4>3. PICK y \in Int, z \in Int : y = Step(u, a) /\ z = Step(a, x)
        BY <2>5, <4>1
      <4>4. filterTime' = f + y + z + (e - x) /\ lastEnd' = e
        BY <2>1, <2>2, <2>3, <2>5, <4>1, <4>3
      <4>5. f + y + z + (e - x) - f = e - l
        BY <4>2, <4>3
      <4> QED BY <4>1, <4>4, <4>5 DEF Propagates
    <3> QED BY <3>1, <3>2
  <2>8. TimeInv'
    BY <1>1, <1>2, <1>3, <1>4, <1>6, <2>1, <2>2, <2>4, <2>6 DEF TimeInv, r
  <2> QED BY <2>7, <2>8
<1>9. \/ UNCHANGED filterVars /\ (firstScan \/ s = <<>>) /\ ~firstScan'
      \/ ImuInit /\ ~firstScan'
      \/ UndistortPcl /\ ~firstScan'
  BY DEF FirstScan, NotRegistered, Registered, Process, NoSamples, s
<1> QED BY <1>5, <1>7, <1>8, <1>9

LEMMA TimeStep ==
  ASSUME SyncInv, TimeInv, [Next]_vars
  PROVE  /\ TimeInv'
         /\ \/ filterTime' = filterTime /\ lastEnd' = lastEnd
            \/ SyncPackage /\ (FirstScan \/ NotRegistered \/ Registered)
<1>1. ASSUME NEW t \in LidarStamps, NEW span, NEW points, LidarCallback(t, span, points)
      PROVE  TimeInv' /\ (filterTime' = filterTime /\ lastEnd' = lastEnd)
  BY <1>1, ScanKeepsTime DEF LidarStamps, LidarCallback, filterVars
<1>2. ASSUME NEW t \in Nat, t # lastImu, ImuCallback(t)
      PROVE  TimeInv' /\ (filterTime' = filterTime /\ lastEnd' = lastEnd)
  BY <1>2, SampleArrives DEF ImuCallback, filterVars
<1>3. CASE SyncWaits
  <2>1. (filterTime' = filterTime /\ lastEnd' = lastEnd)
    BY <1>3 DEF SyncWaits, filterVars
  <2> QED BY <1>3, <2>1, WaitKeepsTime
<1>4. CASE SyncPackage /\ (FirstScan \/ NotRegistered \/ Registered)
  BY <1>4, PackageKeepsTime
<1>5. CASE UNCHANGED vars
  <2>1. /\ lastImu' = lastImu /\ lastUsed' = lastUsed /\ lastEnd' = lastEnd /\ filterTime' = filterTime
        /\ endTime' = endTime /\ spanSum' = spanSum /\ scanNum' = scanNum
        /\ timeBuf' = timeBuf /\ lidarBuf' = lidarBuf /\ imuBuf' = imuBuf /\ cloud' = cloud
        /\ firstScan' = firstScan /\ setBack' = setBack
    BY <1>5 DEF vars, bufVars, syncVars, filterVars, mapVars
  <2>2. TimeInv'
    BY <2>1 DEF TimeInv, Increasing
  <2> QED BY <2>1, <2>2
<1> QED
  <2>1. CASE \E t \in LidarStamps : LidarCallback(t, ScanLen, "many")
    BY <1>1, <2>1
  <2>2. CASE \E t \in LidarStamps, points \in {"none", "few", "many"} : LidarCallback(t, 0, points)
    BY <1>1, <2>2
  <2>3. CASE \E t \in lastImu + 1 .. lastImu + MaxGap : t <= MaxTime /\ ImuCallback(t)
    <3> SUFFICES ASSUME NEW t \in lastImu + 1 .. lastImu + MaxGap, ImuCallback(t)
                 PROVE  TimeInv' /\ (filterTime' = filterTime /\ lastEnd' = lastEnd)
      BY <2>3
    <3>1. lastImu \in Nat /\ MaxGap \in Nat
      BY SyncAssumption DEF TimeInv
    <3> QED BY <1>2, <3>1
  <2>4. CASE \E t \in Restarts : t < lastImu /\ ImuCallback(t)
    <3> SUFFICES ASSUME NEW t \in Restarts, t < lastImu, ImuCallback(t)
                 PROVE  TimeInv' /\ (filterTime' = filterTime /\ lastEnd' = lastEnd)
      BY <2>4
    <3>1. lastImu \in Nat /\ t \in Nat
      BY SyncAssumption DEF TimeInv
    <3> QED BY <1>2, <3>1
  <2> QED BY <1>3, <1>4, <1>5, <2>1, <2>2, <2>3, <2>4 DEF Next, TimerCallback

\* Once a scan has been undistorted, every further one takes the filter from the end of the
\* scan before to its own end: no time is propagated twice and none is left out, whatever was
\* lost or thrown away between them and wherever the stamps were set back to; but for scans
\* that are given samples older than that end only, after the stamps of the IMU were set back.
THEOREM TimeIsPropagatedOnce == Spec => PropagatesExactly
<1>1. SyncInv /\ TimeInv /\ [Next]_vars => [cloud.no # 0 => Propagates]_vars
  <2> SUFFICES ASSUME SyncInv, TimeInv, Next, cloud.no # 0
               PROVE  Propagates
    OBVIOUS
  <2>1. CASE (filterTime' = filterTime /\ lastEnd' = lastEnd)
    BY <2>1 DEF TimeInv, Propagates
  <2> QED BY <2>1, TimeStep, PackageKeepsTime
<1>2. SyncInv /\ TimeInv /\ [Next]_vars => TimeInv'
  BY TimeStep
<1> QED BY <1>1, <1>2, ScansInOrder, TimeStarts, PTL DEF Spec, PropagatesExactly, Propagates

-----------------------------------------------------------------------------
(* The iterated update of the filter.                                      *)

\* The neighbours of a scan under way, the covariance of one under way, and the two facts of
\* one that has ended.
UpdateInv ==
  /\ current \in Nat /\ inserted \in {current, current - 1} /\ moves \in Nat
  /\ iteration \in -1 .. MaxIteration
  /\ converge \in BOOLEAN /\ converged \in Nat
  /\ searched \in [Points -> Nat \X Nat]
  /\ settled \in Nat /\ settled <= moves
  /\ ~Update!Ended => current # inserted
  /\ ~Update!Ended => covariance \in {"propagated", "projected"}
  /\ ~Update!Ended => (covariance = "propagated" <=> moves = 0)
  /\ iteration = -1 => converge
  /\ current # inserted /\ iteration > -1 => \A p \in Points : searched[p][1] = current
  /\ ~Update!Ended /\ ~converge => \A p \in Points : searched[p][2] >= settled
  /\ iteration = MaxIteration - 1 /\ converged = 0 => converge \/ selected = {}
  /\ CovarianceFollowsState

LEMMA UpdateStarts == ASSUME MaxIteration \in Nat PROVE Update!Init => UpdateInv
<1> SUFFICES ASSUME Update!Init PROVE UpdateInv
  OBVIOUS
<1>1. /\ current = 0 /\ inserted = 0 /\ iteration = MaxIteration /\ moves = 0 /\ settled = 0
      /\ converge = FALSE /\ converged = 0
      /\ searched \in [Points -> Nat \X Nat]
  BY DEF Update!Init
<1>2. Update!Ended /\ iteration \in -1 .. MaxIteration /\ iteration # -1 /\ iteration # MaxIteration - 1
  BY <1>1 DEF Update!Ended
<1>3. CovarianceFollowsState
  BY <1>1 DEF CovarianceFollowsState, Update!CovarianceFollowsState
<1>4. ~(current # inserted) /\ inserted \in {current, current - 1} /\ settled <= moves
  BY <1>1
<1> QED BY <1>4, <1>1, <1>2, <1>3 DEF UpdateInv

\* A search is one of this scan and of the present state, and without one the old ones stay.
LEMMA SearchIsRecent ==
  ASSUME UpdateInv, ~Update!Ended, Update!HShareModel, MaxIteration \in Nat
  PROVE  /\ searched' \in [Points -> Nat \X Nat]
         /\ \A p \in Points : searched'[p][1] = current /\ searched'[p][2] >= settled
         /\ converge => \A p \in Points : searched'[p][2] = moves
         /\ ~converge => selected' \subseteq selected
<1>0. /\ current \in Nat /\ moves \in Nat /\ converge \in BOOLEAN /\ searched \in [Points -> Nat \X Nat]
      /\ settled \in Nat /\ settled <= moves
  BY DEF UpdateInv
<1>1. CASE converge
  BY <1>0, <1>1 DEF Update!HShareModel
<1>2. CASE ~converge
  <2>1. iteration \in 0 .. MaxIteration /\ current # inserted
    BY <1>2 DEF UpdateInv
  <2>2. \A p \in Points : searched[p][1] = current /\ searched[p][2] >= settled
    BY <1>2, <2>1 DEF UpdateInv
  <2> QED BY <1>0, <1>2, <2>2 DEF Update!HShareModel
<1> QED BY <1>0, <1>1, <1>2

LEMMA UpdateStep ==
  ASSUME MaxIteration \in Nat, UpdateInv, [Update!Next]_(Update!vars)
  PROVE  UpdateInv'
<1>1. CASE Update!Begin
  BY <1>1 DEF Update!Begin, Update!Ended, UpdateInv, Update!Answers,
     CovarianceFollowsState, Update!CovarianceFollowsState
<1>2. CASE Update!NoEffectivePoints
  <2>1. /\ ~Update!Ended /\ Update!HShareModel /\ selected' = {} /\ iteration' = iteration + 1
        /\ UNCHANGED <<current, converge, converged, moves, covariance, inserted, settled>>
    BY <1>2 DEF Update!NoEffectivePoints
  <2>2. iteration' \in 0 .. MaxIteration
    BY <2>1 DEF UpdateInv, Update!Ended
  <2>3. /\ searched' \in [Points -> Nat \X Nat]
        /\ \A p \in Points : searched'[p][1] = current /\ searched'[p][2] >= settled
    BY <2>1, SearchIsRecent
  <2>4. CovarianceFollowsState'
    BY <2>1, <2>2 DEF UpdateInv, Update!Ended, CovarianceFollowsState, Update!CovarianceFollowsState
  <2> QED BY <2>1, <2>2, <2>3, <2>4 DEF UpdateInv, Update!Ended
<1>3. CASE Update!Step
  <2>1. /\ ~Update!Ended /\ Update!HShareModel /\ selected' # {}
        /\ UNCHANGED <<current, inserted>> /\ moves' = moves + 1
        /\ Update!Converge /\ Update!Finish
    BY <1>3 DEF Update!Step, Update!Move
  <2>2. /\ converge' \in BOOLEAN /\ converged' \in Nat
        /\ settled' \in Nat /\ settled' <= moves'
        /\ ~converge' => settled' = settled
        /\ converged' = 0 /\ iteration = MaxIteration - 2 => converge'
    <3>1. PICK small \in BOOLEAN :
            /\ converged' = IF small THEN converged + 1 ELSE converged
            /\ converge' = (small \/ (converged' = 0 /\ iteration = MaxIteration - 1 - 1))
            /\ settled' = IF small THEN moves' ELSE settled
      BY <2>1 DEF Update!Converge, Update!ConvergeBefore
    <3>2. converged \in Nat /\ settled \in Nat /\ moves \in Nat /\ settled <= moves /\ moves' = moves + 1
      BY <2>1 DEF UpdateInv
    <3>3. iteration = MaxIteration - 2 => iteration = MaxIteration - 1 - 1
      OBVIOUS
    <3>4. converge' \in BOOLEAN /\ (~converge' => ~small) /\ (converged' = 0 /\ iteration = MaxIteration - 2 => converge')
      BY <3>1, <3>3
    <3> QED BY <3>1, <3>2, <3>4
  <2>3. \/ covariance' = "updated" /\ iteration' = MaxIteration
        \/ covariance' = "projected" /\ iteration' = iteration + 1 /\ iteration # MaxIteration - 1
    BY <2>1 DEF Update!Finish, Update!FinishAt
  <2>4. /\ iteration' \in 0 .. MaxIteration
        /\ iteration' = MaxIteration => covariance' = "updated"
        /\ iteration' = MaxIteration - 1 => iteration = MaxIteration - 2
    BY <2>1, <2>3 DEF UpdateInv, Update!Ended
  <2>5. /\ searched' \in [Points -> Nat \X Nat]
        /\ \A p \in Points : searched'[p][1] = current' /\ searched'[p][2] >= settled
    BY <2>1, SearchIsRecent
  <2>6. CovarianceFollowsState'
    BY <2>1, <2>3, <2>4 DEF UpdateInv, Update!Ended, CovarianceFollowsState, Update!CovarianceFollowsState
  <2>7. ~Update!Ended' => covariance' \in {"propagated", "projected"} /\ (covariance' = "propagated" <=> moves' = 0)
    BY <2>1, <2>3 DEF UpdateInv, Update!Ended
  <2> QED BY <2>1, <2>2, <2>4, <2>5, <2>6, <2>7 DEF UpdateInv, Update!Ended
<1>4. CASE Update!MapIncremental \/ UNCHANGED Update!vars
  BY <1>4 DEF Update!MapIncremental, Update!vars, Update!Ended, UpdateInv,
     CovarianceFollowsState, Update!CovarianceFollowsState
<1> QED BY <1>1, <1>2, <1>3, <1>4 DEF Update!Next

\* Every step of the update, for any number of points and of iterations, is computed with
\* neighbours searched for this scan, at the state of the last step within the limits or a
\* later one, and at the present state if it is the last chance and no step was within them.
THEOREM UpdateUsesItsScan ==
  ASSUME MaxIteration \in Nat PROVE Update!Spec => NeighboursAreRecent
<1> DEFINE Recent ==
      /\ moves' > moves => \A p \in Points :
           /\ searched'[p][1] = current /\ searched'[p][2] >= settled
           /\ iteration = MaxIteration - 1 /\ converged = 0 => searched'[p][2] = moves
      /\ inserted' # inserted => \A p \in Points : searched[p][1] = current
<1>1. UpdateInv /\ [Update!Next]_(Update!vars) => [Recent]_(Update!vars)
  <2> SUFFICES ASSUME UpdateInv, Update!Next PROVE Recent
    OBVIOUS
  <2>0. moves \in Nat
    BY DEF UpdateInv
  <2>1. CASE Update!Begin \/ Update!NoEffectivePoints
    BY <2>0, <2>1 DEF Update!Begin, Update!NoEffectivePoints
  <2>2. CASE Update!Step
    <3>1. ~Update!Ended /\ Update!HShareModel /\ selected' # {} /\ inserted' = inserted
      BY <2>2 DEF Update!Step
    <3>2. iteration = MaxIteration - 1 /\ converged = 0 => converge
      <4> SUFFICES ASSUME iteration = MaxIteration - 1, converged = 0, ~converge PROVE FALSE
        BY DEF UpdateInv
      <4>1. selected = {} /\ selected' \subseteq selected
        BY <3>1, SearchIsRecent DEF UpdateInv
      <4> QED BY <3>1, <4>1
    <3> QED BY <3>1, <3>2, SearchIsRecent
  <2>3. CASE Update!MapIncremental
    <3>1. moves' = moves /\ inserted # current /\ iteration = MaxIteration
      BY <2>3 DEF Update!MapIncremental, Update!Ended
    <3>2. ~(moves' > moves) /\ iteration > -1
      BY <2>0, <3>1
    <3> QED BY <3>1, <3>2 DEF UpdateInv
  <2> QED BY <2>1, <2>2, <2>3 DEF Update!Next
<1> QED BY <1>1, UpdateStarts, UpdateStep, PTL DEF Update!Spec, NeighboursAreRecent, Update!NeighboursAreRecent

\* The covariance handed on is the one computed with the state handed on, unless no point
\* was good for anything: then both are what the propagation left.
THEOREM CovarianceIsOfTheState ==
  ASSUME MaxIteration \in Nat PROVE Update!Spec => []CovarianceFollowsState
<1>1. UpdateInv => CovarianceFollowsState
  BY DEF UpdateInv
<1> QED BY <1>1, UpdateStarts, UpdateStep, PTL DEF Update!Spec

-----------------------------------------------------------------------------
(* Features of a line.  Three loops type the points and a fourth gathers   *)
(* the planes: its entries cover those up to its index, and what the loops *)
(* before it typed is never near.                                          *)

\* The type of point k is one of a plane.
IsPlane(f, k) == f[k] \in Pre!Planes

\* The planes before u are in the entries of s, or from l on in the one that is still open
\* (none if l is -1).
Covered(f, s, l, u) ==
  /\ u \in Nat /\ s \in Seq(Nat \X Nat)
  /\ l = -1 \/ (l \in Nat /\ l < u /\ u - l <= PointFilterNum)
  /\ l # -1 => \A k \in l .. u - 1 : IsPlane(f, k)
  /\ \A m \in 1 .. Len(s) :
       /\ s[m][1] <= s[m][2] /\ s[m][2] - s[m][1] < PointFilterNum
       /\ s[m][2] < u /\ (l # -1 => s[m][2] < l)
       /\ \A k \in s[m][1] .. s[m][2] : IsPlane(f, k)
  /\ \A m \in 2 .. Len(s) : s[m - 1][2] < s[m][1]
  /\ \A k \in 0 .. u - 1 : IsPlane(f, k) =>
       (l # -1 /\ l <= k) \/ \E m \in 1 .. Len(s) : s[m][1] <= k /\ k <= s[m][2]

\* The next point is a plane: it joins the open entry, or opens one.
LEMMA Opens ==
  ASSUME PointFilterNum \in Nat \ {0}, NEW f, NEW s, NEW l, NEW u, Covered(f, s, l, u), l = -1 \/ u - l < PointFilterNum,
         IsPlane(f, u), NEW a, a = IF l = -1 THEN u ELSE l
  PROVE  Covered(f, s, a, u + 1)
<1>1. /\ u \in Nat /\ s \in Seq(Nat \X Nat)
      /\ l = -1 \/ (l \in Nat /\ l < u /\ u - l <= PointFilterNum)
  BY DEF Covered
<1>2. a \in Nat /\ a < u + 1 /\ (u + 1) - a <= PointFilterNum /\ a # -1 /\ a <= u
  <2>1. CASE l = -1
    <3>1. a = u
      BY <2>1
    <3>2. u \in Nat /\ u < u + 1 /\ u # -1 /\ u <= u
      BY <1>1
    <3>3. (u + 1) - u = 1 /\ 1 <= PointFilterNum
      BY <1>1
    <3> QED BY <3>1, <3>2, <3>3
  <2>2. CASE l # -1
    <3>1. a = l /\ l \in Nat /\ l < u /\ u - l < PointFilterNum
      BY <1>1, <2>2
    <3> QED BY <1>1, <3>1
  <2> QED BY <2>1, <2>2
<1>3. ASSUME NEW k \in a .. (u + 1) - 1 PROVE IsPlane(f, k)
  <2>1. CASE k = u
    BY <2>1
  <2>2. CASE k # u
    <3>1. k \in a .. u - 1 /\ l # -1 /\ a = l
      BY <1>1, <1>2, <2>2
    <3> QED BY <3>1 DEF Covered
  <2> QED BY <2>1, <2>2
<1>4. \A m \in 1 .. Len(s) : s[m] \in Nat \X Nat /\ s[m][1] \in Nat /\ s[m][2] \in Nat
  BY <1>1
<1>5. ASSUME NEW m \in 1 .. Len(s)
      PROVE  /\ s[m][1] <= s[m][2] /\ s[m][2] - s[m][1] < PointFilterNum
             /\ s[m][2] < u + 1 /\ (a # -1 => s[m][2] < a)
             /\ \A k \in s[m][1] .. s[m][2] : IsPlane(f, k)
  <2>1. /\ s[m][1] <= s[m][2] /\ s[m][2] - s[m][1] < PointFilterNum
        /\ s[m][2] < u /\ (l # -1 => s[m][2] < l)
        /\ \A k \in s[m][1] .. s[m][2] : IsPlane(f, k)
    BY <1>5 DEF Covered
  <2>2. PICK y \in Nat : y = s[m][2]
    BY <1>4
  <2>3. a = u \/ (l # -1 /\ a = l)
    OBVIOUS
  <2>4. y < u /\ (l # -1 => y < l)
    BY <2>1, <2>2
  <2>5. y < a
    BY <2>3, <2>4
  <2>6. y < u + 1
    BY <1>1, <2>4
  <2> QED BY <2>1, <2>2, <2>5, <2>6
<1>6. ASSUME NEW k \in 0 .. (u + 1) - 1, IsPlane(f, k)
      PROVE  a <= k \/ \E m \in 1 .. Len(s) : s[m][1] <= k /\ k <= s[m][2]
  <2>1. CASE k = u
    BY <1>2, <2>1
  <2>2. CASE k # u
    <3>1. k \in 0 .. u - 1
      BY <1>1, <2>2
    <3>2. (l # -1 /\ l <= k) \/ \E m \in 1 .. Len(s) : s[m][1] <= k /\ k <= s[m][2]
      BY <1>6, <3>1 DEF Covered
    <3> QED BY <3>2
  <2> QED BY <2>1, <2>2
<1>7. \A m \in 2 .. Len(s) : s[m - 1][2] < s[m][1]
  BY DEF Covered
<1>8. u + 1 \in Nat
  BY <1>1
<1>9. a = -1 \/ (a \in Nat /\ a < u + 1 /\ (u + 1) - a <= PointFilterNum)
  BY <1>2
<1>10. a # -1 => \A k \in a .. (u + 1) - 1 : IsPlane(f, k)
  BY <1>3
<1>11. \A m \in 1 .. Len(s) :
         /\ s[m][1] <= s[m][2] /\ s[m][2] - s[m][1] < PointFilterNum
         /\ s[m][2] < u + 1 /\ (a # -1 => s[m][2] < a)
         /\ \A k \in s[m][1] .. s[m][2] : IsPlane(f, k)
  BY <1>5
<1>12. \A k \in 0 .. (u + 1) - 1 : IsPlane(f, k) =>
         (a # -1 /\ a <= k) \/ \E m \in 1 .. Len(s) : s[m][1] <= k /\ k <= s[m][2]
  BY <1>2, <1>6
<1> QED BY ONLY <1>1, <1>7, <1>8, <1>9, <1>10, <1>11, <1>12 DEF Covered

\* The open entry is given out.
LEMMA Closes ==
  ASSUME NEW f, NEW s, NEW l, NEW u, Covered(f, s, l, u), l # -1, NEW t, t = Append(s, <<l, u - 1>>)
  PROVE  Covered(f, t, -1, u)
<1>1. u \in Nat /\ s \in Seq(Nat \X Nat) /\ l \in Nat /\ l < u /\ u - l <= PointFilterNum
  BY DEF Covered
<1>2. PICK n \in Nat : n = Len(s)
  BY <1>1
<1>3. PICK e : e = <<l, u - 1>>
  OBVIOUS
<1>4. e \in Nat \X Nat /\ e[1] = l /\ e[2] = u - 1
  BY <1>1, <1>3
<1>5. t \in Seq(Nat \X Nat) /\ Len(t) = n + 1 /\ t[n + 1] = e /\ \A m \in 1 .. n : t[m] = s[m]
  <2>1. t = Append(s, e)
    BY <1>3
  <2> QED BY <1>1, <1>2, <1>4, <2>1, AppendProperties
<1>6. \A m \in 1 .. n : s[m] \in Nat \X Nat /\ s[m][1] \in Nat /\ s[m][2] \in Nat
  BY <1>1, <1>2
<1>7. ASSUME NEW m \in 1 .. Len(t)
      PROVE  /\ t[m][1] <= t[m][2] /\ t[m][2] - t[m][1] < PointFilterNum /\ t[m][2] < u
             /\ \A k \in t[m][1] .. t[m][2] : IsPlane(f, k)
  <2>1. CASE m = n + 1
    <3>1. \A k \in l .. u - 1 : IsPlane(f, k)
      BY DEF Covered
    <3>2. PointFilterNum \in Int
      BY PointsAssumption DEF Pre!PreAssumption
    <3> QED BY <1>1, <1>4, <1>5, <2>1, <3>1, <3>2
  <2>2. CASE m # n + 1
    <3>1. m \in 1 .. n /\ t[m] = s[m]
      BY <1>2, <1>5, <2>2
    <3>2. /\ s[m][1] <= s[m][2] /\ s[m][2] - s[m][1] < PointFilterNum /\ s[m][2] < u
          /\ \A k \in s[m][1] .. s[m][2] : IsPlane(f, k)
      BY <1>2, <3>1 DEF Covered
    <3> QED BY <3>1, <3>2
  <2> QED BY <2>1, <2>2
<1>8. ASSUME NEW m \in 2 .. Len(t) PROVE t[m - 1][2] < t[m][1]
  <2>1. m - 1 \in 1 .. n /\ t[m - 1] = s[m - 1]
    BY <1>2, <1>5
  <2>2. CASE m = n + 1
    <3>1. s[m - 1][2] < l
      BY <1>2, <2>1 DEF Covered
    <3> QED BY <1>4, <1>5, <2>1, <2>2, <3>1
  <2>3. CASE m # n + 1
    <3>1. m \in 2 .. Len(s) /\ m \in 1 .. n /\ t[m] = s[m]
      BY <1>2, <1>5, <2>3
    <3>2. s[m - 1][2] < s[m][1]
      BY <3>1 DEF Covered
    <3> QED BY <2>1, <3>1, <3>2
  <2> QED BY <2>2, <2>3
<1>9. ASSUME NEW k \in 0 .. u - 1, IsPlane(f, k) PROVE \E m \in 1 .. Len(t) : t[m][1] <= k /\ k <= t[m][2]
  <2>1. CASE l <= k
    <3>1. n + 1 \in 1 .. Len(t) /\ t[n + 1][1] <= k /\ k <= t[n + 1][2]
      BY <1>1, <1>4, <1>5, <2>1
    <3> QED BY <3>1
  <2>2. CASE ~(l <= k)
    <3>1. PICK m \in 1 .. Len(s) : s[m][1] <= k /\ k <= s[m][2]
      BY <1>9, <2>2 DEF Covered
    <3>2. m \in 1 .. Len(t) /\ t[m] = s[m]
      BY <1>2, <1>5
    <3> QED BY <3>1, <3>2
  <2> QED BY <2>1, <2>2
<1> QED BY <1>1, <1>5, <1>7, <1>8, <1>9 DEF Covered

\* The next point is no plane and no entry is open.
LEMMA Skips ==
  ASSUME NEW f, NEW s, NEW u, Covered(f, s, -1, u), ~IsPlane(f, u)
  PROVE  Covered(f, s, -1, u + 1)
<1>1. u \in Nat /\ s \in Seq(Nat \X Nat)
  BY DEF Covered
<1>2. u + 1 \in Nat /\ \A k \in 0 .. (u + 1) - 1 : k = u \/ k \in 0 .. u - 1
  BY <1>1
<1>3. ASSUME NEW m \in 1 .. Len(s)
      PROVE  /\ s[m][1] <= s[m][2] /\ s[m][2] - s[m][1] < PointFilterNum
             /\ s[m][2] < u + 1
             /\ \A k \in s[m][1] .. s[m][2] : IsPlane(f, k)
  <2>1. s[m] \in Nat \X Nat /\ s[m][2] \in Nat
    BY <1>1
  <2>2. /\ s[m][1] <= s[m][2] /\ s[m][2] - s[m][1] < PointFilterNum
        /\ s[m][2] < u
        /\ \A k \in s[m][1] .. s[m][2] : IsPlane(f, k)
    BY DEF Covered
  <2>3. PICK y \in Nat : y = s[m][2]
    BY <2>1
  <2>4. y < u + 1
    BY <1>1, <2>2, <2>3
  <2> QED BY <2>2, <2>3, <2>4
<1>4. \A m \in 2 .. Len(s) : s[m - 1][2] < s[m][1]
  BY DEF Covered
<1>5. \A k \in 0 .. (u + 1) - 1 : IsPlane(f, k) => \E m \in 1 .. Len(s) : s[m][1] <= k /\ k <= s[m][2]
  BY <1>2 DEF Covered
<1> QED BY <1>1, <1>2, <1>3, <1>4, <1>5 DEF Covered

\* A line is being looked at, or was.
OnLine == stage \in {"planes", "edges", "small", "surf"} \/ (stage = "done" /\ ftype # <<>>)

\* Before the features are extracted nothing has a type.
MessageInv ==
  /\ stage \in {"message", "features", "planes", "edges", "small", "surf", "done"}
  /\ IsFiniteSet(DOMAIN message)
  /\ stage \in {"message", "features"} => ftype = <<>>
  /\ stage \notin {"surf", "done"} => surf = <<>> /\ corn = <<>> /\ lastSurface = -1

\* What has a type is no near point.
TypedInv ==
  OnLine =>
    /\ Pre!Length \in Nat /\ DOMAIN message = 0 .. Pre!Length - 1 /\ DOMAIN ftype = 0 .. Pre!Length - 1
    /\ point \in Nat
    /\ \A k \in 0 .. Pre!Length - 1 : ftype[k] # "Nor" => ~Pre!near(k)

\* The planes up to the index of the last loop are in its entries.
SurfInv ==
  OnLine /\ stage \in {"surf", "done"} =>
    LET u == IF stage = "surf" THEN point ELSE Pre!Length IN
    /\ u <= Pre!Length
    /\ Covered(ftype, surf, lastSurface, u)
    /\ lastSurface = -1 \/ u - lastSurface < PointFilterNum
    /\ corn \in Seq(0 .. Pre!Length - 1)
    /\ \A m \in 1 .. Len(corn) : ~Pre!near(corn[m])

FeaturesInv == MessageInv /\ TypedInv /\ SurfInv

\* A message is a function on finitely many indices.
LEMMA MessageIs == Pre!Init => FeaturesInv
<1> SUFFICES ASSUME Pre!Init PROVE FeaturesInv
  OBVIOUS
<1>1. stage \in {"message", "features"} /\ ftype = <<>> /\ surf = <<>> /\ corn = <<>> /\ lastSurface = -1
  BY DEF Pre!Init
<1>2. DOMAIN message = 0 .. ScanPoints - 1 \/ DOMAIN message = 0 .. LinePoints - 1
  <2>1. message \in Pre!ScanClouds \/ message \in Pre!TurnClouds \/ message \in Pre!LineClouds
    BY DEF Pre!Init
  <2>2. CASE message \in Pre!ScanClouds
    BY <2>2 DEF Pre!ScanClouds
  <2>3. CASE message \in Pre!TurnClouds
    BY <2>3 DEF Pre!TurnClouds, Pre!Point
  <2>4. CASE message \in Pre!LineClouds
    BY <2>4 DEF Pre!LineClouds
  <2> QED BY <2>1, <2>2, <2>3, <2>4
<1>3. \A n \in Nat : IsFiniteSet(0 .. n - 1)
  BY FS_Interval
<1>4. IsFiniteSet(DOMAIN message)
  BY <1>2, <1>3, PointsAssumption DEF Pre!PreAssumption
<1> QED BY <1>1, <1>4 DEF FeaturesInv, MessageInv, TypedInv, SurfInv, OnLine

\* The cardinality of the modules.
LEMMA SizeIs ==
  ASSUME NEW S, IsFiniteSet(S)
  PROVE  Pre!Cardinality(S) = Cardinality(S) /\ Pre!Cardinality(S) \in Nat
<1>1. Pre!Cardinality(S) = Cardinality(S)
  BY DEF Pre!Cardinality, Cardinality
<1> QED BY <1>1, FS_CardinalityType

\* A scan that is only thinned has no features.
LEMMA ThinKeeps == FeaturesInv /\ Pre!Thin => FeaturesInv'
<1> SUFFICES ASSUME FeaturesInv, Pre!Thin PROVE FeaturesInv'
  OBVIOUS
<1>1. stage = "message" /\ stage' = "done" /\ ftype' = ftype /\ message' = message
  BY DEF Pre!Thin
<1>2. ftype' = <<>>
  BY <1>1 DEF FeaturesInv, MessageInv
<1> QED BY <1>1, <1>2 DEF FeaturesInv, MessageInv, TypedInv, SurfInv, OnLine

\* The indices of a line.
LEMMA LineIs ==
  ASSUME FeaturesInv
  PROVE  Len(Pre!Line(message)) \in Nat
<1>1. IsFiniteSet(DOMAIN message)
  BY DEF FeaturesInv, MessageInv
<1>2. ASSUME NEW ks \in SUBSET DOMAIN message PROVE Len(Pre!Kept(message, ks)) \in Nat
  <2>1. PICK n \in Nat : n = Pre!Cardinality(ks)
    BY <1>1, FS_Subset, SizeIs
  <2>2. PICK c : c = Pre!Kept(message, ks)
    OBVIOUS
  <2>3. c = [k \in 1 .. n |-> message[Pre!Nth(ks, k)]]
    BY <2>1, <2>2 DEF Pre!Kept
  <2>4. Len(c) = n
    BY <2>3
  <2> QED BY <2>1, <2>2, <2>4
<1>3. Pre!AviaNew(message, Pre!AviaValid(message)) \in SUBSET DOMAIN message
  BY DEF Pre!AviaNew, Pre!AviaValid
<1>4. {k \in DOMAIN message : Pre!Far(message[k])} \in SUBSET DOMAIN message /\ DOMAIN message \ {0} \in SUBSET DOMAIN message
  OBVIOUS
<1>5. \/ Pre!Line(message) = Pre!Kept(message, Pre!AviaNew(message, Pre!AviaValid(message)))
      \/ Pre!Line(message) = Pre!Kept(message, {k \in DOMAIN message : Pre!Far(message[k])})
      \/ Pre!Line(message) = Pre!Kept(message, DOMAIN message \ {0})
  BY DEF Pre!Line, Pre!AviaLine, Pre!OustLine, Pre!VelodyneLine
<1> QED BY <1>2, <1>3, <1>4, <1>5

\* The first point that is not near, or the end of the line.
LEMMA FirstFarIs ==
  Pre!Length \in Nat /\ DOMAIN message = 0 .. Pre!Length - 1
    => /\ Pre!FirstFar \in 0 .. Pre!Length
       /\ \A k \in 0 .. Pre!Length - 1 : k < Pre!FirstFar => Pre!near(k)
<1> DEFINE n == Pre!Length
           FF(k) == ~Pre!near(k) /\ \A j \in 0 .. k - 1 : Pre!near(j)
<1> SUFFICES ASSUME n \in Nat, DOMAIN message = 0 .. n - 1
             PROVE  /\ Pre!FirstFar \in 0 .. n
                    /\ \A k \in 0 .. n - 1 : k < Pre!FirstFar => Pre!near(k)
  OBVIOUS
<1>1. n \in Nat /\ DOMAIN message = 0 .. n - 1
  OBVIOUS
<1>2. CASE \E k \in DOMAIN message : ~Pre!near(k)
  <2> DEFINE S == {k \in 0 .. n - 1 : ~Pre!near(k)}
  <2>1. S # {} /\ S \in SUBSET Nat
    BY <1>1, <1>2
  <2>2. PICK k \in S : \A j \in S : k <= j
    <3> HIDE DEF S
    <3> QED BY <2>1, Least
  <2>3. k \in DOMAIN message /\ FF(k)
    BY <1>1, <2>2
  <2>4. Pre!FirstFar = CHOOSE x \in DOMAIN message : FF(x)
    BY <1>2 DEF Pre!FirstFar
  <2>5. Pre!FirstFar \in DOMAIN message /\ FF(Pre!FirstFar)
    <3> HIDE DEF FF
    <3> QED BY <2>3, <2>4
  <2>6. PICK x \in 0 .. n - 1 : x = Pre!FirstFar /\ \A j \in 0 .. x - 1 : Pre!near(j)
    BY <1>1, <2>5
  <2>7. \A j \in 0 .. n - 1 : j < x => j \in 0 .. x - 1
    OBVIOUS
  <2> HIDE DEF n
  <2>8. x \in 0 .. n /\ \A j \in 0 .. n - 1 : j < x => Pre!near(j)
    BY <1>1, <2>6, <2>7
  <2> QED BY <2>6, <2>8 DEF n
<1>3. CASE ~\E k \in DOMAIN message : ~Pre!near(k)
  <2>1. Pre!FirstFar = n
    BY <1>3 DEF Pre!FirstFar
  <2> QED BY <1>1, <1>3, <2>1
<1> QED BY <1>2, <1>3

\* give_feature starts on a line without types.
LEMMA GiveFeatureKeeps == FeaturesInv /\ Pre!GiveFeature => FeaturesInv'
<1> SUFFICES ASSUME FeaturesInv, Pre!GiveFeature PROVE FeaturesInv'
  OBVIOUS
<1>1. PICK n \in Nat : n = Len(Pre!Line(message))
  BY LineIs
<1>2. /\ stage = "features" /\ stage' = "planes" /\ point' = Pre!FirstFar'
      /\ DOMAIN message' = 0 .. n - 1
      /\ ftype' = [k \in DOMAIN message' |-> "Nor"]
      /\ UNCHANGED <<lastSurface, surf, corn>>
  BY <1>1 DEF Pre!GiveFeature, Pre!Enter
<1>3. IsFiniteSet(DOMAIN message') /\ Cardinality(DOMAIN message') = n
  BY <1>2, FS_Interval
<1>4. Pre!Length' = n
  <2>1. Pre!Cardinality(DOMAIN message') = n
    BY <1>3, SizeIs
  <2> QED BY <2>1 DEF Pre!Length, Pre!Size
<1>5. OnLine'
  BY <1>2 DEF OnLine
<1>6. /\ DOMAIN message' = 0 .. Pre!Length' - 1 /\ DOMAIN ftype' = 0 .. Pre!Length' - 1 /\ Pre!Length' \in Nat
      /\ \A k \in 0 .. Pre!Length' - 1 : ftype'[k] # "Nor" => ~Pre!near(k)'
  BY <1>2, <1>4
<1>7. Pre!FirstFar' \in Nat
  <2>1. (Pre!Length \in Nat /\ DOMAIN message = 0 .. Pre!Length - 1 => Pre!FirstFar \in 0 .. Pre!Length)'
    BY FirstFarIs, PTL
  <2>2. DOMAIN message' = 0 .. Pre!Length' - 1 /\ Pre!Length' \in Nat
    BY <1>2, <1>4
  <2> QED BY <2>1, <2>2
<1>8. TypedInv'
  BY <1>2, <1>5, <1>6, <1>7 DEF TypedInv
<1>9. MessageInv'
  BY <1>2, <1>3 DEF FeaturesInv, MessageInv
<1>10. SurfInv'
  BY <1>2 DEF SurfInv
<1> QED BY <1>8, <1>9, <1>10 DEF FeaturesInv

\* A loop that goes on or hands over to the next but the last.
LEMMA LoopKeeps ==
  ASSUME FeaturesInv, stage \in {"planes", "edges", "small"}, stage' \in {"planes", "edges", "small"},
         UNCHANGED <<message, lastSurface, surf, corn>>,
         point' \in Nat, DOMAIN ftype' = DOMAIN ftype,
         \A k \in 0 .. Pre!Length - 1 : ftype'[k] # "Nor" => ~Pre!near(k)
  PROVE  FeaturesInv'
<1>1. Pre!Length' = Pre!Length /\ \A k : Pre!near(k)' = Pre!near(k)
  BY DEF Pre!Length, Pre!Size, Pre!near, Pre!Far
<1>2. OnLine /\ OnLine'
  BY DEF OnLine
<1>3. TypedInv'
  BY <1>1, <1>2 DEF FeaturesInv, TypedInv
<1>4. MessageInv'
  BY DEF FeaturesInv, MessageInv
<1>5. SurfInv'
  BY DEF SurfInv
<1> QED BY <1>3, <1>4, <1>5 DEF FeaturesInv

\* A group that is a plane ends before the next near point.
LEMMA PlaneIsFar ==
  ASSUME FeaturesInv, OnLine, point < Pre!Length, ~Pre!near(point), NEW j \in Pre!PlaneJudge
  PROVE  /\ j.nex \in Nat /\ j.nex >= point
         /\ j.plane => \A k \in 0 .. Pre!Length - 1 : point <= k /\ k <= j.nex => ~Pre!near(k)
<1> DEFINE n == Pre!Length
           S == {k \in point .. n - 1 : Pre!near(k)}
           Low(k) == \A x \in S : k <= x
<1>1. n \in Nat /\ point \in Nat /\ GroupSize \in Nat
  BY PointsAssumption DEF FeaturesInv, TypedInv, Pre!PreAssumption
<1>2. CASE S = {}
  <2>1. j \in [plane : BOOLEAN, nex : point + GroupSize .. n - 1] \cup [plane : BOOLEAN, nex : {n}]
    BY <1>2 DEF Pre!PlaneJudge
  <2>2. j.nex \in Nat /\ j.nex >= point
    BY <1>1, <2>1
  <2>3. \A k \in 0 .. n - 1 : point <= k => ~Pre!near(k)
    BY <1>1, <1>2
  <2> QED BY <2>2, <2>3
<1>3. CASE S # {}
  <2>1. PICK f \in S : f = (CHOOSE k \in S : Low(k)) /\ Low(f)
    <3>1. S \in SUBSET Nat
      BY <1>1
    <3>2. \E k \in S : Low(k)
      <4> HIDE DEF S
      <4> QED BY <1>3, <3>1, Least
    <3> HIDE DEF S, Low
    <3> QED BY <3>2
  <2>2. j \in [plane : BOOLEAN, nex : point + GroupSize .. f - 1] \cup {[plane |-> FALSE, nex |-> f]}
    BY <1>3, <2>1 DEF Pre!PlaneJudge
  <2>3. f \in Nat /\ f \in point .. n - 1
    BY <1>1, <2>1
  <2>4. j.nex \in Nat /\ j.nex >= point /\ (j.plane => j.nex < f)
    BY <1>1, <2>2, <2>3
  <2>5. \A k \in 0 .. n - 1 : point <= k /\ k < f => ~Pre!near(k)
    <3> SUFFICES ASSUME NEW k \in 0 .. n - 1, point <= k, k < f, Pre!near(k) PROVE FALSE
      OBVIOUS
    <3>1. k \in S
      BY <1>1
    <3>2. f <= k
      BY <2>1, <3>1
    <3> QED BY <1>1, <2>3, <3>2
  <2> QED BY <1>1, <2>3, <2>4, <2>5
<1> QED BY <1>2, <1>3

\* The loop over the groups types no near point.
LEMMA FindPlanesKeeps == FeaturesInv /\ Pre!FindPlanes => FeaturesInv'
<1> SUFFICES ASSUME FeaturesInv, Pre!FindPlanes PROVE FeaturesInv'
  OBVIOUS
<1>1. stage = "planes" /\ UNCHANGED <<message, lastSurface, surf, corn>>
  BY DEF Pre!FindPlanes
<1>2. OnLine /\ TypedInv
  BY <1>1 DEF OnLine, FeaturesInv
<1>3. /\ Pre!Length \in Nat /\ point \in Nat /\ DOMAIN ftype = 0 .. Pre!Length - 1
      /\ \A k \in 0 .. Pre!Length - 1 : ftype[k] # "Nor" => ~Pre!near(k)
  BY <1>2 DEF TypedInv
<1>4. GroupSize \in Nat
  BY PointsAssumption DEF Pre!PreAssumption
<1>5. CASE point >= Pre!Length - GroupSize
  <2>1. stage' = "edges" /\ point' = Pre!FirstFar + 3 /\ ftype' = ftype
    BY <1>1, <1>5 DEF Pre!FindPlanes, Pre!Enter
  <2>2. DOMAIN message = 0 .. Pre!Length - 1
    BY <1>2 DEF TypedInv
  <2>3. Pre!FirstFar \in 0 .. Pre!Length
    BY <1>3, <2>2, FirstFarIs
  <2>4. point' \in Nat
    BY <1>3, <2>1, <2>3
  <2> QED BY <1>1, <1>3, <2>1, <2>4, LoopKeeps
<1>6. CASE ~(point >= Pre!Length - GroupSize) /\ Pre!near(point)
  <2>1. stage' = stage /\ point' = point + 1 /\ ftype' = ftype
    BY <1>1, <1>6 DEF Pre!FindPlanes
  <2> QED BY <1>1, <1>3, <2>1, LoopKeeps
<1>7. CASE ~(point >= Pre!Length - GroupSize) /\ ~Pre!near(point)
  <2>1. PICK j \in Pre!PlaneJudge :
          /\ stage' = stage
          /\ point' = IF j.plane THEN j.nex ELSE j.nex + 1
          /\ IF j.plane
             THEN \E first \in IF lastPlane THEN {"Edge_Plane", "Real_Plane"} ELSE {"Poss_Plane"} :
                    ftype' = Pre!Marked(j.nex, first)
             ELSE ftype' = ftype
    BY <1>1, <1>7 DEF Pre!FindPlanes
  <2>2. point < Pre!Length
    BY <1>3, <1>4, <1>7
  <2>3. /\ j.nex \in Nat /\ j.nex >= point
        /\ j.plane => \A k \in 0 .. Pre!Length - 1 : point <= k /\ k <= j.nex => ~Pre!near(k)
    BY <1>2, <1>7, <2>2, PlaneIsFar
  <2>4. point' \in Nat
    BY <2>1, <2>3
  <2>5. DOMAIN ftype' = DOMAIN ftype /\ \A k \in 0 .. Pre!Length - 1 : ftype'[k] # "Nor" => ~Pre!near(k)
    <3>1. CASE j.plane
      <4>1. PICK first : ftype' = Pre!Marked(j.nex, first)
        BY <2>1, <3>1
      <4>2. ftype' = [k \in DOMAIN ftype |-> IF k = point THEN first
                                             ELSE IF k = j.nex THEN "Poss_Plane"
                                             ELSE IF point < k /\ k < j.nex THEN "Real_Plane" ELSE ftype[k]]
        BY <4>1 DEF Pre!Marked
      <4>3. ASSUME NEW k \in 0 .. Pre!Length - 1, ftype'[k] # "Nor" PROVE ~Pre!near(k)
        <5>1. CASE k = point
          BY <1>7, <5>1
        <5>2. CASE k # point /\ point <= k /\ k <= j.nex
          BY <2>3, <3>1, <5>2
        <5>3. CASE k # point /\ ~(point <= k /\ k <= j.nex)
          <6>1. k # j.nex /\ ~(point < k /\ k < j.nex)
            BY <1>3, <2>2, <2>3, <5>3
          <6>2. ftype'[k] = ftype[k]
            BY <1>3, <4>2, <5>3, <6>1
          <6> QED BY <1>3, <4>3, <6>2
        <5> QED BY <5>1, <5>2, <5>3
      <4> QED BY <4>2, <4>3
    <3>2. CASE ~j.plane
      BY <1>3, <2>1, <3>2
    <3> QED BY <3>1, <3>2
  <2> QED BY <1>1, <2>1, <2>4, <2>5, LoopKeeps
<1> QED BY <1>5, <1>6, <1>7

\* Neither does the loop over jumps and wires.
LEMMA FindEdgesKeeps == FeaturesInv /\ Pre!FindEdges => FeaturesInv'
<1> SUFFICES ASSUME FeaturesInv, Pre!FindEdges PROVE FeaturesInv'
  OBVIOUS
<1>1. stage = "edges" /\ UNCHANGED <<message, lastSurface, surf, corn>>
  BY DEF Pre!FindEdges
<1>2. OnLine /\ TypedInv
  BY <1>1 DEF OnLine, FeaturesInv
<1>3. /\ Pre!Length \in Nat /\ point \in Nat /\ DOMAIN ftype = 0 .. Pre!Length - 1
      /\ \A k \in 0 .. Pre!Length - 1 : ftype[k] # "Nor" => ~Pre!near(k)
  BY <1>2 DEF TypedInv
<1>4. CASE point >= Pre!Length - 3
  <2>1. stage' = "small" /\ point' = Pre!FirstFar + 1 /\ ftype' = ftype
    BY <1>1, <1>4 DEF Pre!FindEdges, Pre!Enter
  <2>2. DOMAIN message = 0 .. Pre!Length - 1
    BY <1>2 DEF TypedInv
  <2>3. Pre!FirstFar \in 0 .. Pre!Length
    BY <1>3, <2>2, FirstFarIs
  <2>4. point' \in Nat
    BY <1>3, <2>1, <2>3
  <2> QED BY <1>1, <1>3, <2>1, <2>4, LoopKeeps
<1>5. CASE ~(point >= Pre!Length - 3)
  <2>1. /\ stage' = stage /\ point' = point + 1
        /\ \/ ftype' = ftype
           \/ ~Pre!near(point) /\ \E e \in {"Edge_Jump", "Wire"} : ftype' = [ftype EXCEPT ![point] = e]
    BY <1>1, <1>5 DEF Pre!FindEdges
  <2>2. DOMAIN ftype' = DOMAIN ftype /\ \A k \in 0 .. Pre!Length - 1 : ftype'[k] # "Nor" => ~Pre!near(k)
    BY <1>3, <2>1
  <2> QED BY <1>1, <1>3, <2>1, <2>2, LoopKeeps
<1> QED BY <1>4, <1>5

\* At the start of the last loop no plane lies behind, for all points behind are near.
LEMMA SurfStarts ==
  ASSUME FeaturesInv, stage = "small", stage' = "surf", point' = Pre!FirstFar,
         UNCHANGED <<message, ftype, lastSurface, surf, corn>>
  PROVE  FeaturesInv'
<1>1. Pre!Length' = Pre!Length /\ \A k : Pre!near(k)' = Pre!near(k)
  BY DEF Pre!Length, Pre!Size, Pre!near, Pre!Far
<1>2. OnLine /\ OnLine' /\ TypedInv
  BY DEF OnLine, FeaturesInv
<1>3. /\ Pre!Length \in Nat /\ DOMAIN message = 0 .. Pre!Length - 1 /\ DOMAIN ftype = 0 .. Pre!Length - 1
      /\ \A k \in 0 .. Pre!Length - 1 : ftype[k] # "Nor" => ~Pre!near(k)
  BY <1>2 DEF TypedInv
<1>4. PICK u \in 0 .. Pre!Length : u = Pre!FirstFar /\ \A k \in 0 .. Pre!Length - 1 : k < u => Pre!near(k)
  BY <1>3, FirstFarIs
<1>5. \A k \in 0 .. u - 1 : ~IsPlane(ftype, k)
  <2> SUFFICES ASSUME NEW k \in 0 .. u - 1 PROVE ~IsPlane(ftype, k)
    OBVIOUS
  <2>1. k \in 0 .. Pre!Length - 1 /\ k < u
    BY <1>3, <1>4
  <2>2. ftype[k] = "Nor"
    BY <1>3, <1>4, <2>1
  <2> QED BY <2>2 DEF IsPlane, Pre!Planes
<1>6. surf = <<>> /\ corn = <<>> /\ lastSurface = -1
  BY DEF FeaturesInv, MessageInv
<1>7. <<>> \in Seq(Nat \X Nat) /\ <<>> \in Seq(0 .. Pre!Length - 1) /\ Len(<<>>) = 0
  OBVIOUS
<1>8. Covered(ftype, <<>>, -1, u)
  BY <1>3, <1>5, <1>7 DEF Covered
<1>9. TypedInv'
  <2>1. point' \in Nat
    BY <1>3, <1>4
  <2> QED BY <1>1, <1>2, <2>1 DEF TypedInv
<1>10. MessageInv'
  BY DEF FeaturesInv, MessageInv
<1>11. SurfInv'
  <2>1. /\ u <= Pre!Length'
        /\ Covered(ftype', surf', lastSurface', u)
        /\ lastSurface' = -1
        /\ corn' \in Seq(0 .. Pre!Length' - 1)
        /\ corn' = <<>>
    BY <1>1, <1>3, <1>4, <1>6, <1>7, <1>8
  <2>2. point' = u /\ stage' = "surf"
    BY <1>4
  <2>3. (\A m \in 1 .. Len(corn) : ~Pre!near(corn[m]))'
    BY <1>7, <2>1
  <2> QED BY <2>1, <2>2, <2>3 DEF SurfInv
<1> QED BY <1>9, <1>10, <1>11 DEF FeaturesInv

\* Nor the loop over three points; it hands over to the last loop.
LEMMA FindSmallPlanesKeeps == FeaturesInv /\ Pre!FindSmallPlanes => FeaturesInv'
<1> SUFFICES ASSUME FeaturesInv, Pre!FindSmallPlanes PROVE FeaturesInv'
  OBVIOUS
<1>1. stage = "small" /\ UNCHANGED <<message, lastSurface, surf, corn>>
  BY DEF Pre!FindSmallPlanes
<1>2. OnLine /\ TypedInv
  BY <1>1 DEF OnLine, FeaturesInv
<1>3. /\ Pre!Length \in Nat /\ point \in Nat /\ DOMAIN ftype = 0 .. Pre!Length - 1
      /\ \A k \in 0 .. Pre!Length - 1 : ftype[k] # "Nor" => ~Pre!near(k)
  BY <1>2 DEF TypedInv
<1>4. CASE point >= Pre!Length - 1
  <2>1. stage' = "surf" /\ point' = Pre!FirstFar /\ ftype' = ftype
    BY <1>1, <1>4 DEF Pre!FindSmallPlanes, Pre!Enter
  <2> QED BY <1>1, <2>1, SurfStarts
<1>5. CASE ~(point >= Pre!Length - 1)
  <2>1. /\ stage' = stage /\ point' = point + 1
        /\ \/ ftype' = ftype
           \/ /\ \A k \in point - 1 .. point + 1 : ~Pre!near(k)
              /\ ftype' = [k \in DOMAIN ftype |-> IF k \in point - 1 .. point + 1 /\ ftype[k] = "Nor"
                                                    THEN "Real_Plane" ELSE ftype[k]]
    BY <1>1, <1>5 DEF Pre!FindSmallPlanes
  <2>2. DOMAIN ftype' = DOMAIN ftype /\ \A k \in 0 .. Pre!Length - 1 : ftype'[k] # "Nor" => ~Pre!near(k)
    BY <1>3, <2>1
  <2> QED BY <1>1, <1>3, <2>1, <2>2, LoopKeeps
<1> QED BY <1>4, <1>5

\* The last loop takes the next point into the entries.
LEMMA TakeFeaturesKeeps == FeaturesInv /\ Pre!TakeFeatures => FeaturesInv'
<1> SUFFICES ASSUME FeaturesInv, Pre!TakeFeatures PROVE FeaturesInv'
  OBVIOUS
<1>1. stage = "surf" /\ point' = point + 1 /\ UNCHANGED <<message, ftype>>
  BY DEF Pre!TakeFeatures
<1>2. OnLine /\ TypedInv /\ SurfInv
  BY <1>1 DEF OnLine, FeaturesInv
<1>3. PICK n \in Nat, u \in Nat :
        /\ n = Pre!Length /\ DOMAIN ftype = 0 .. n - 1 /\ DOMAIN message = 0 .. n - 1 /\ u = point /\ u <= n
        /\ \A k \in 0 .. n - 1 : ftype[k] # "Nor" => ~Pre!near(k)
  BY <1>1, <1>2 DEF TypedInv, SurfInv
<1>4. /\ Covered(ftype, surf, lastSurface, u)
      /\ lastSurface = -1 \/ u - lastSurface < PointFilterNum
      /\ corn \in Seq(0 .. n - 1)
      /\ \A m \in 1 .. Len(corn) : ~Pre!near(corn[m])
  BY <1>1, <1>2, <1>3 DEF SurfInv
<1>5. Pre!Length' = n /\ \A k : Pre!near(k)' = Pre!near(k)
  BY <1>1, <1>3 DEF Pre!Length, Pre!Size, Pre!near, Pre!Far
<1>6. PointFilterNum \in Nat \ {0}
  BY PointsAssumption DEF Pre!PreAssumption
<1>7. point' \in Nat /\ point' = u + 1
  BY <1>1, <1>3
<1>8. MessageInv' \/ stage' \notin {"surf", "done"}
  BY <1>1 DEF FeaturesInv, MessageInv
<1>9. TypedInv'
  BY <1>1, <1>3, <1>5, <1>7 DEF TypedInv
<1>10. CASE u >= n
  <2>1. stage' = "done" /\ UNCHANGED <<lastSurface, surf, corn>>
    BY <1>1, <1>3, <1>10 DEF Pre!TakeFeatures
  <2>2. u = n
    BY <1>3, <1>10
  <2>3. SurfInv'
    BY <1>1, <1>3, <1>4, <1>5, <2>1, <2>2 DEF SurfInv
  <2> QED BY <1>8, <1>9, <2>1, <2>3 DEF FeaturesInv
<1>11. CASE u < n
  <2> DEFINE a == IF lastSurface = -1 THEN u ELSE lastSurface
  <2>1. /\ stage' = "surf"
        /\ IF ftype[u] \in Pre!Planes
           THEN /\ UNCHANGED corn
                /\ IF u = a + PointFilterNum - 1
                   THEN lastSurface' = -1 /\ surf' = Append(surf, <<a, u>>)
                   ELSE lastSurface' = a /\ UNCHANGED surf
           ELSE /\ lastSurface' = -1
                /\ corn' = IF ftype[u] \in {"Edge_Jump", "Edge_Plane"} THEN Append(corn, u) ELSE corn
                /\ IF lastSurface # -1 THEN surf' = Append(surf, <<lastSurface, u - 1>>) ELSE UNCHANGED surf
    BY <1>1, <1>3, <1>11 DEF Pre!TakeFeatures, Pre!Push
  <2>2. corn' \in Seq(0 .. n - 1) /\ \A m \in 1 .. Len(corn') : ~Pre!near(corn'[m])
    <3>1. CASE corn' = corn
      BY <1>4, <3>1
    <3>2. CASE corn' = Append(corn, u) /\ ftype[u] # "Nor"
      <4>1. u \in 0 .. n - 1 /\ ~Pre!near(u)
        BY <1>3, <1>11, <3>2
      <4>2. /\ corn' \in Seq(0 .. n - 1) /\ Len(corn') = Len(corn) + 1 /\ corn'[Len(corn) + 1] = u
            /\ \A m \in 1 .. Len(corn) : corn'[m] = corn[m]
        BY <1>4, <3>2, <4>1, AppendProperties
      <4>3. ASSUME NEW m \in 1 .. Len(corn') PROVE ~Pre!near(corn'[m])
        <5>1. Len(corn) \in Nat
          BY <1>4
        <5>2. m = Len(corn) + 1 \/ m \in 1 .. Len(corn)
          BY <4>2, <5>1
        <5> QED BY <1>4, <4>1, <4>2, <5>2
      <4> QED BY <4>2, <4>3
    <3> QED BY <2>1, <3>1, <3>2
  <2>3. Covered(ftype, surf', lastSurface', u + 1) /\ (lastSurface' = -1 \/ (u + 1) - lastSurface' < PointFilterNum)
    <3>1. CASE ftype[u] \in Pre!Planes
      <4>1. Covered(ftype, surf, a, u + 1)
        BY <1>4, <1>6, <3>1, Opens DEF IsPlane
      <4>2. a \in Nat /\ a < u + 1 /\ (u + 1) - a <= PointFilterNum /\ a # -1
        <5>1. CASE lastSurface = -1
          <6>1. a = u /\ (u + 1) - u = 1 /\ 1 <= PointFilterNum
            BY <1>6, <5>1
          <6>2. u < u + 1 /\ u # -1
            OBVIOUS
          <6> HIDE DEF a
          <6> QED BY <6>1, <6>2
        <5>2. CASE lastSurface # -1
          <6>1. lastSurface \in Nat /\ lastSurface < u
            BY <1>4, <5>2 DEF Covered
          <6>2. u - lastSurface < PointFilterNum /\ a = lastSurface
            BY <1>4, <5>2
          <6> HIDE DEF a
          <6> QED BY <1>6, <6>1, <6>2
        <5> QED BY <5>1, <5>2
      <4> HIDE DEF a
      <4>3. CASE u = a + PointFilterNum - 1
        <5>1. lastSurface' = -1 /\ surf' = Append(surf, <<a, u>>)
          BY <2>1, <3>1, <4>3
        <5>2. (u + 1) - 1 = u
          OBVIOUS
        <5>3. surf' = Append(surf, <<a, (u + 1) - 1>>)
          BY <5>1, <5>2
        <5>4. Covered(ftype, surf', -1, u + 1)
          BY <4>1, <4>2, <5>3, Closes
        <5> QED BY <5>1, <5>4
      <4>4. CASE u # a + PointFilterNum - 1
        <5>1. lastSurface' = a /\ surf' = surf
          BY <2>1, <3>1, <4>4
        <5>2. (u + 1) - a < PointFilterNum
          BY <1>6, <4>2, <4>4
        <5> QED BY <4>1, <5>1, <5>2
      <4> QED BY <4>3, <4>4
    <3>2. CASE ftype[u] \notin Pre!Planes
      <4>1. ~IsPlane(ftype, u)
        BY <3>2 DEF IsPlane
      <4>2. Covered(ftype, surf', -1, u)
        <5>1. CASE lastSurface = -1
          <6>1. surf' = surf
            BY <2>1, <3>2, <5>1
          <6> QED BY <1>4, <5>1, <6>1
        <5>2. CASE lastSurface # -1
          <6>1. surf' = Append(surf, <<lastSurface, u - 1>>)
            BY <2>1, <3>2, <5>2
          <6> QED BY <1>4, <5>2, <6>1, Closes
        <5> QED BY <5>1, <5>2
      <4>3. lastSurface' = -1
        BY <2>1, <3>2
      <4> QED BY <4>1, <4>2, <4>3, Skips
    <3> QED BY <3>1, <3>2
  <2>4. SurfInv'
    <3>1. u + 1 <= n /\ stage' = "surf" /\ point' = u + 1
      BY <1>3, <1>7, <1>11, <2>1
    <3>2. (\A m \in 1 .. Len(corn) : ~Pre!near(corn[m]))'
      BY <1>1, <2>2 DEF Pre!near, Pre!Far
    <3> HIDE DEF a
    <3> QED BY <1>1, <1>5, <2>2, <2>3, <3>1, <3>2 DEF SurfInv
  <2>5. stage' = "surf"
    BY <2>1
  <2> QED BY <1>8, <1>9, <2>4, <2>5 DEF FeaturesInv
<1> QED BY <1>3, <1>10, <1>11

\* Every step of Preprocess.
LEMMA FeaturesStep == FeaturesInv /\ [Pre!Next]_Pre!vars => FeaturesInv'
<1> SUFFICES ASSUME FeaturesInv, [Pre!Next]_Pre!vars PROVE FeaturesInv'
  OBVIOUS
<1>1. CASE UNCHANGED Pre!vars
  <2>1. UNCHANGED <<stage, message, ftype, point, lastSurface, surf, corn>>
    BY <1>1 DEF Pre!vars
  <2>2. Pre!Length' = Pre!Length /\ \A k : Pre!near(k)' = Pre!near(k)
    BY <2>1 DEF Pre!Length, Pre!Size, Pre!near, Pre!Far
  <2>3. OnLine' = OnLine
    BY <2>1 DEF OnLine
  <2>4. MessageInv' /\ TypedInv'
    BY <2>1, <2>2, <2>3 DEF FeaturesInv, MessageInv, TypedInv
  <2>5. SurfInv'
    BY <2>1, <2>2, <2>3 DEF FeaturesInv, SurfInv
  <2> QED BY <2>4, <2>5 DEF FeaturesInv
<1> QED
  BY <1>1, ThinKeeps, GiveFeatureKeeps, FindPlanesKeeps, FindEdgesKeeps, FindSmallPlanesKeeps, TakeFeaturesKeeps DEF Pre!Next

\* When the last loop ends, what is covered is what EveryPlaneCounts says.
LEMMA FeaturesCountPlanes == FeaturesInv => EveryPlaneCounts
<1> SUFFICES ASSUME FeaturesInv, stage = "done", ftype # <<>> PROVE EveryPlaneCounts
  BY DEF EveryPlaneCounts, Pre!EveryPlaneCounts
<1>1. OnLine /\ TypedInv /\ SurfInv
  BY DEF FeaturesInv, OnLine
<1>2. PICK n \in Nat :
        /\ n = Pre!Length /\ DOMAIN ftype = 0 .. n - 1
        /\ \A k \in 0 .. n - 1 : ftype[k] # "Nor" => ~Pre!near(k)
  BY <1>1 DEF TypedInv
<1>3. /\ Covered(ftype, surf, lastSurface, n)
      /\ lastSurface = -1 \/ n - lastSurface < PointFilterNum
      /\ corn \in Seq(0 .. n - 1)
      /\ \A m \in 1 .. Len(corn) : ~Pre!near(corn[m])
  BY <1>1, <1>2 DEF SurfInv
<1>4. PointFilterNum \in Nat \ {0}
  BY PointsAssumption DEF Pre!PreAssumption
<1>5. /\ surf \in Seq(Nat \X Nat)
      /\ lastSurface = -1 \/ (lastSurface \in Nat /\ lastSurface < n)
      /\ lastSurface # -1 => \A k \in lastSurface .. n - 1 : IsPlane(ftype, k)
      /\ \A m \in 1 .. Len(surf) :
           /\ surf[m][1] <= surf[m][2] /\ surf[m][2] - surf[m][1] < PointFilterNum /\ surf[m][2] < n
           /\ \A k \in surf[m][1] .. surf[m][2] : IsPlane(ftype, k)
      /\ \A m \in 2 .. Len(surf) : surf[m - 1][2] < surf[m][1]
      /\ \A k \in 0 .. n - 1 : IsPlane(ftype, k) =>
           (lastSurface # -1 /\ lastSurface <= k) \/ \E m \in 1 .. Len(surf) : surf[m][1] <= k /\ k <= surf[m][2]
  BY <1>3 DEF Covered
<1>6. \A m \in 1 .. Len(surf) : surf[m] \in Nat \X Nat /\ surf[m][1] \in Nat /\ surf[m][2] \in Nat
  BY <1>5
<1> DEFINE left == IF lastSurface = -1 THEN {} ELSE lastSurface .. Pre!Length - 1
           range(m) == surf[m][1] .. surf[m][2]
<1>7. ASSUME NEW a \in Nat, NEW b \in Nat, a <= b, b - a < PointFilterNum
      PROVE  Pre!Cardinality(a .. b) \in 1 .. PointFilterNum
  <2>1. IsFiniteSet(a .. b) /\ Cardinality(a .. b) = b - a + 1
    BY <1>7, FS_Interval
  <2>2. Pre!Cardinality(a .. b) = b - a + 1
    BY <2>1, SizeIs
  <2> QED BY <1>4, <1>7, <2>2
<1>8. \A k : IsPlane(ftype, k) => ftype[k] \in Pre!Planes /\ ftype[k] # "Nor"
  BY DEF IsPlane, Pre!Planes
<1>9. ASSUME NEW m \in DOMAIN surf
      PROVE  /\ Pre!Cardinality(range(m)) \in 1 .. PointFilterNum
             /\ \A k \in range(m) : ~Pre!near(k) /\ ftype[k] \in Pre!Planes
             /\ m > 1 => surf[m - 1][2] < surf[m][1]
  <2>1. m \in 1 .. Len(surf) /\ (m > 1 => m \in 2 .. Len(surf))
    BY <1>5
  <2>2. PICK a \in Nat, b \in Nat : a = surf[m][1] /\ b = surf[m][2] /\ a <= b /\ b - a < PointFilterNum /\ b < n
    BY <1>5, <1>6, <2>1
  <2>3. \A k \in a .. b : IsPlane(ftype, k) /\ k \in 0 .. n - 1
    <3>1. \A k \in surf[m][1] .. surf[m][2] : IsPlane(ftype, k)
      BY <1>5, <2>1
    <3>2. \A k \in a .. b : k \in 0 .. n - 1
      BY <2>2
    <3> QED BY <2>2, <3>1, <3>2
  <2>4. Pre!Cardinality(a .. b) \in 1 .. PointFilterNum
    BY <1>7, <2>2
  <2>5. \A k \in a .. b : ~Pre!near(k) /\ ftype[k] \in Pre!Planes
    BY <1>2, <1>8, <2>3
  <2> QED BY <1>5, <2>1, <2>2, <2>4, <2>5
<1>10. {k \in DOMAIN ftype : ftype[k] \in Pre!Planes} = left \cup UNION {range(m) : m \in DOMAIN surf}
  <2>1. ASSUME NEW k \in DOMAIN ftype, ftype[k] \in Pre!Planes PROVE k \in left \cup UNION {range(m) : m \in DOMAIN surf}
    <3>1. k \in 0 .. n - 1 /\ IsPlane(ftype, k)
      BY <1>2, <2>1 DEF IsPlane
    <3>2. CASE lastSurface # -1 /\ lastSurface <= k
      BY <1>2, <1>5, <3>1, <3>2
    <3>3. CASE \E m \in 1 .. Len(surf) : surf[m][1] <= k /\ k <= surf[m][2]
      <4>1. PICK m \in 1 .. Len(surf) : surf[m][1] <= k /\ k <= surf[m][2]
        BY <3>3
      <4>2. m \in DOMAIN surf /\ k \in range(m)
        BY <1>5, <1>6, <3>1, <4>1
      <4> QED BY <4>2
    <3> QED BY <1>5, <3>1, <3>2, <3>3
  <2>2. ASSUME NEW k \in left PROVE k \in DOMAIN ftype /\ ftype[k] \in Pre!Planes
    <3>1. lastSurface # -1 /\ k \in lastSurface .. n - 1
      BY <1>2, <2>2
    <3>2. IsPlane(ftype, k) /\ k \in 0 .. n - 1
      BY <1>5, <3>1
    <3> QED BY <1>2, <1>8, <3>2
  <2>3. ASSUME NEW m \in DOMAIN surf, NEW k \in range(m) PROVE k \in DOMAIN ftype /\ ftype[k] \in Pre!Planes
    <3>1. m \in 1 .. Len(surf)
      BY <1>5
    <3>2. k \in 0 .. n - 1
      BY <1>5, <1>6, <2>3, <3>1
    <3> QED BY <1>2, <1>9, <3>2
  <2> HIDE DEF left, range
  <2> QED BY <2>1, <2>2, <2>3
<1>11. Pre!Cardinality(left) < PointFilterNum
  <2>1. CASE lastSurface = -1
    <3>1. left = {}
      BY <2>1
    <3>2. Pre!Cardinality({}) = 0
      BY FS_EmptySet, SizeIs
    <3>3. 0 < PointFilterNum
      BY <1>4
    <3> HIDE DEF left
    <3> QED BY <3>1, <3>2, <3>3
  <2>2. CASE lastSurface # -1
    <3>1. PICK a \in Nat : a = lastSurface /\ a < n /\ n - a < PointFilterNum
      BY <1>3, <1>5, <2>2
    <3>2. left = a .. n - 1
      BY <1>2, <2>2, <3>1
    <3>3. IsFiniteSet(a .. n - 1) /\ Cardinality(a .. n - 1) = (n - 1) - a + 1
      BY <3>1, FS_Interval
    <3>4. Pre!Cardinality(a .. n - 1) = (n - 1) - a + 1
      BY <3>3, SizeIs
    <3> QED BY <1>4, <3>1, <3>2, <3>4
  <2> QED BY <2>1, <2>2
<1>12. \A m \in DOMAIN corn : ~Pre!near(corn[m])
  BY <1>3
<1> HIDE DEF left, range
<1> QED
  BY <1>9, <1>10, <1>11, <1>12 DEF EveryPlaneCounts, Pre!EveryPlaneCounts, left, range

\* Whatever the geometry, every point of a plane goes into exactly one point of the scan, for
\* every length of line and group and every number of points to filter.
THEOREM EveryPlaneIsTaken == Pre!Spec => []EveryPlaneCounts
BY MessageIs, FeaturesStep, FeaturesCountPlanes, PTL DEF Pre!Spec

==============================================================================
