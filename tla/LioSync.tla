------------------------------- MODULE LioSync -------------------------------
(***************************************************************************)
(* FAST-LIO: laserMapping.cpp pairs scans with IMU samples and, scan by    *)
(* scan, ImuProcess propagates the filter to the end of the scan and the   *)
(* node registers its points and publishes.  One thread spins, so every    *)
(* callback is a step; what interleaves is the arrival of the messages.    *)
(*                                                                         *)
(* Time is in ticks; an IMU sample is its stamp; a scan is its number,     *)
(* stamp, span (the offset of its last point) and how many points it has.  *)
(***************************************************************************)
EXTENDS Integers, Sequences

CONSTANTS
  ScanLen,       \* ticks of a full scan
  MaxGap,        \* ticks from an IMU sample to the next one received
  LoopBack,      \* the stamps of the lidar may be set back
  Restarts,      \* stamps that the IMU may be set back to
  LastEnds,      \* what last_lidar_end_time_, which nothing initialises, may hold
  MaxIniCount,   \* MAX_INI_COUNT
  Never,         \* no time, no scan
  MaxTime,       \* bound: stamps
  MaxSkip,       \* bound: ticks between two scans
  MaxWaiting,    \* bound: scans in the buffer
  MaxScan        \* bound: scans

ASSUME SyncAssumption ==
  /\ {ScanLen, MaxGap, MaxTime} \subseteq Nat \ {0} /\ {MaxIniCount, MaxScan, MaxSkip, MaxWaiting} \subseteq Nat
  /\ LastEnds \cup Restarts \subseteq Nat /\ LoopBack \in BOOLEAN

VARIABLES
  lidarBuf, timeBuf, imuBuf,    \* lidar_buffer, time_buffer, imu_buffer
  lastLidar, lastImu,           \* last_timestamp_lidar, last_timestamp_imu
  pushed, endTime,              \* lidar_pushed, lidar_end_time
  spanSum, scanNum,             \* scan_num, and the sum of the spans: the quotient
                                \* is lidar_mean_scantime
  meas,                         \* Measures: scan, beg, end, imu
  firstScan,                    \* flg_first_scan
  needInit, initNum,            \* imu_need_init_, init_iter_num
  lastUsed, lastEnd,            \* last_imu_, last_lidar_end_time_
  filterTime,                   \* the time the filter has been propagated to
  cloud,                        \* feats_undistort: the scan whose points it holds
  tree,                         \* the map has been built
  registered,                   \* the last scan whose points were put into the map
  odom,                         \* last odometry: its stamp and its scan
  scans,                        \* history: scans received
  setBack                       \* history: the samples that wait came after one that was set back

bufVars    == <<lidarBuf, timeBuf, imuBuf, lastLidar, lastImu>>
syncVars   == <<pushed, endTime, spanSum, scanNum, meas>>
filterVars == <<needInit, initNum, lastUsed, lastEnd, filterTime, cloud>>
mapVars    == <<firstScan, tree, registered, odom>>
vars == <<bufVars, syncVars, filterVars, mapVars, scans, setBack>>

NoScan    == [no |-> 0, beg |-> 0, span |-> 0, points |-> "none"]
NoPackage == [scan |-> NoScan, beg |-> 0, end |-> 0, imu |-> <<>>]

Init ==
  /\ lidarBuf = <<>> /\ timeBuf = <<>> /\ imuBuf = <<>>
  /\ lastLidar = Never /\ lastImu = 0
  /\ pushed = FALSE /\ endTime = 0 /\ spanSum = 0 /\ scanNum = 0
  /\ meas = NoPackage
  /\ firstScan = TRUE
  /\ needInit = TRUE /\ initNum = 1
  /\ lastUsed = 0 /\ lastEnd \in LastEnds /\ filterTime = 0
  /\ cloud = NoScan /\ tree = FALSE /\ registered = 0
  /\ odom = Never
  /\ scans = 0 /\ setBack = FALSE

-----------------------------------------------------------------------------
(* The subscriptions.                                                      *)

\* A scan older than the one before clears the buffer of the scans.
ScanBuffers(back) == IF back THEN <<<<>>, timeBuf>> ELSE <<lidarBuf, timeBuf>>

\* livox_pcl_cbk and standard_pcl_cbk.
LidarCallback(t, span, points) ==
  LET back == lastLidar # Never /\ t < lastLidar
      scan == [no |-> scans + 1, beg |-> t, span |-> span, points |-> points]
  IN
  /\ scans < MaxScan /\ Len(lidarBuf) < MaxWaiting
  /\ scans' = scans + 1
  /\ lidarBuf' = Append(ScanBuffers(back)[1], scan)
  /\ timeBuf' = Append(ScanBuffers(back)[2], t)
  /\ lastLidar' = t
  /\ UNCHANGED <<imuBuf, lastImu, syncVars, filterVars, mapVars, setBack>>

\* Samples may be lost on the way: the queue of the subscription holds ten.  A
\* sample older than the one before clears the buffer of the samples.
ImuCallback(t) ==
  /\ imuBuf' = Append(IF t < lastImu THEN <<>> ELSE imuBuf, t)
  /\ lastImu' = t
  /\ setBack' = (setBack \/ t < lastImu)
  /\ UNCHANGED <<lidarBuf, timeBuf, lastLidar, syncVars, filterVars, mapVars, scans>>

-----------------------------------------------------------------------------
(* sync_packages.                                                          *)

\* A scan with too few points, or too short a one, is taken to last as long as
\* the others on average.
Short(scan) == scan.points # "many" \/ 2 * scan.span * scanNum < spanSum

\* The average, in whole ticks.
MeanSpan == IF scanNum = 0 THEN 0 ELSE (spanSum + scanNum - 1) \div scanNum

\* The scan in front, looked at once: its end, and the average of the spans.
FrontEnd ==
  IF pushed THEN endTime
  ELSE Head(timeBuf) + IF Short(Head(lidarBuf)) THEN MeanSpan ELSE Head(lidarBuf).span

PushScan ==
  IF pushed \/ Short(Head(lidarBuf)) THEN UNCHANGED <<spanSum, scanNum>>
  ELSE /\ scanNum' = scanNum + 1
       /\ spanSum' = spanSum + Head(lidarBuf).span

FrontScan == IF pushed THEN meas.scan ELSE Head(lidarBuf)
FrontBeg  == IF pushed THEN meas.beg ELSE Head(timeBuf)

\* How many samples the loop takes: those in front up to the end of the scan, but
\* none if the first one is at the end.
ImuTaken(end) ==
  IF Head(imuBuf) >= end THEN 0
  ELSE CHOOSE n \in 1 .. Len(imuBuf) :
         /\ \A k \in 1 .. n : imuBuf[k] <= end
         /\ n < Len(imuBuf) => imuBuf[n + 1] > end

\* The scan is looked at, but the IMU is not far enough yet.
SyncWaits ==
  /\ lidarBuf # <<>> /\ imuBuf # <<>>
  /\ ~pushed /\ lastImu < FrontEnd
  /\ PushScan
  /\ endTime' = FrontEnd
  /\ meas' = [scan |-> FrontScan, beg |-> FrontBeg, end |-> FrontEnd, imu |-> meas.imu]
  /\ pushed' = TRUE
  /\ UNCHANGED <<bufVars, filterVars, mapVars, scans, setBack>>

\* A package is complete.
SyncPackage ==
  /\ lidarBuf # <<>> /\ imuBuf # <<>>
  /\ lastImu >= FrontEnd
  /\ PushScan
  /\ endTime' = FrontEnd
  /\ meas' = [scan |-> FrontScan, beg |-> FrontBeg, end |-> FrontEnd,
              imu |-> SubSeq(imuBuf, 1, ImuTaken(FrontEnd))]
  /\ imuBuf' = SubSeq(imuBuf, ImuTaken(FrontEnd) + 1, Len(imuBuf))
  /\ lidarBuf' = Tail(lidarBuf) /\ timeBuf' = Tail(timeBuf)
  /\ pushed' = FALSE
  /\ setBack' = (setBack /\ meas'.imu = <<>>)
  /\ UNCHANGED <<lastLidar, lastImu, scans>>

-----------------------------------------------------------------------------
(* ImuProcess::Process, on the package in meas'.                           *)

\* Without samples it returns at once, with the points of the scan before.
NoSamples ==
  /\ meas'.imu = <<>>
  /\ UNCHANGED filterVars

Last(imu) == imu[Len(imu)]

ImuInit ==
  /\ meas'.imu # <<>> /\ needInit
  /\ initNum' = initNum + Len(meas'.imu)
  /\ needInit' = (initNum' <= MaxIniCount)
  /\ lastUsed' = Last(meas'.imu)
  /\ filterTime' = Last(meas'.imu)
  /\ UNCHANGED <<lastEnd, cloud>>

\* Variant: each interval counts from its own sample.
StepFromSample(head, tail) == IF tail < lastEnd THEN 0 ELSE tail - head

\* The time propagated from one sample to the next: what lies before the end
\* of the last scan has been propagated already.
Step(head, tail) ==
  IF tail < lastEnd THEN 0
  ELSE tail - IF head < lastEnd THEN lastEnd ELSE head

\* The last interval counts forward, whichever of the two ends is later.
ToEnd(end, imuEnd) == IF end > imuEnd THEN end - imuEnd ELSE imuEnd - end

\* The time of the filter at each sample, from one to the next.
TimeAt(imu) ==
  LET time[k \in 1 .. Len(imu)] ==
        IF k = 1 THEN filterTime ELSE time[k - 1] + Step(imu[k - 1], imu[k])
  IN time

Propagated ==
  LET imu == <<lastUsed>> \o meas'.imu
  IN TimeAt(imu)[Len(imu)] + ToEnd(meas'.end, Last(imu))

\* Variant: a scan without points leaves those of the scan before.
UndistortPclKeeps ==
  /\ meas'.imu # <<>> /\ ~needInit
  /\ filterTime' = Propagated
  /\ lastUsed' = Last(meas'.imu)
  /\ lastEnd' = meas'.end
  /\ cloud' = IF meas'.scan.points = "none" THEN cloud ELSE meas'.scan
  /\ UNCHANGED <<needInit, initNum>>

UndistortPcl ==
  /\ meas'.imu # <<>> /\ ~needInit
  /\ filterTime' = Propagated
  /\ lastUsed' = Last(meas'.imu)
  /\ lastEnd' = meas'.end
  /\ cloud' = meas'.scan
  /\ UNCHANGED <<needInit, initNum>>

Process == NoSamples \/ ImuInit \/ UndistortPcl

-----------------------------------------------------------------------------
(* timer_callback, after the package.                                      *)

\* The first package only sets first_lidar_time.
FirstScan ==
  /\ firstScan /\ firstScan' = FALSE
  /\ UNCHANGED <<filterVars, tree, registered, odom>>

\* Nothing to register, too few points, or the first scan of the map.
NotRegistered ==
  /\ ~firstScan /\ Process
  /\ ~tree \/ cloud'.points # "many"
  /\ tree' = (tree \/ cloud'.points = "many")
  /\ registered' = IF tree' # tree THEN cloud'.no ELSE registered
  /\ UNCHANGED <<firstScan, odom>>

Registered ==
  /\ ~firstScan /\ Process
  /\ tree /\ cloud'.points = "many"
  /\ registered' = cloud'.no
  /\ odom' = [stamp |-> endTime', scan |-> meas'.scan.no]
  /\ UNCHANGED <<firstScan, tree>>

TimerCallback == SyncWaits \/ (SyncPackage /\ (FirstScan \/ NotRegistered \/ Registered))

LidarStamps ==
  {t \in 0 .. MaxTime - ScanLen :
     \/ LoopBack
     \/ lastLidar = Never /\ t <= MaxSkip
     \/ lastLidar # Never /\ t \in lastLidar + ScanLen .. lastLidar + ScanLen + MaxSkip}

Next ==
  \/ \E t \in LidarStamps : LidarCallback(t, ScanLen, "many")
  \/ \E t \in LidarStamps, points \in {"none", "few", "many"} :
        LidarCallback(t, 0, points)
  \/ \E t \in lastImu + 1 .. lastImu + MaxGap : t <= MaxTime /\ ImuCallback(t)
  \/ \E t \in Restarts : t < lastImu /\ ImuCallback(t)
  \/ TimerCallback

Spec == Init /\ [][Next]_vars

-----------------------------------------------------------------------------
(* Properties.                                                             *)

\* A scan is processed with the stamp of its own message.  laserMapping.cpp:291
\* says that the buffer is cleared when the stamps are set back.
ScanHasItsTime == meas.beg = meas.scan.beg

\* From the first scan whose end the filter knows, every scan propagates it by
\* exactly the time between their ends, over lost samples and skipped scans:
\* no interval is counted twice and none left out.  Not so if the stamps of the IMU
\* were set back and the samples of a scan all lie before the end of the scan before:
\* then the time from the last sample to that end is propagated a second time.
PropagatesExactly ==
  [][cloud.no # 0 =>
       \/ filterTime' - filterTime = lastEnd' - lastEnd
       \/ setBack /\ Last(meas'.imu) < lastEnd]_vars

\* A scan that comes with samples puts its own points into the map, once and in
\* order: a scan without points, or one that is skipped, does not bring back those
\* of the scan before.  One without samples does; see NoSamples.
RegisteredOnce ==
  [][odom' # odom /\ meas'.imu # <<>> => registered' > registered]_vars

=============================================================================
