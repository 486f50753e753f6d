------------------------------ MODULE ImuPipe ------------------------------
(***************************************************************************)
(* The IMU path of livox_ros_driver2, and the life of its DriverNode: the  *)
(* constructor sets up the source of data and starts the threads, the      *)
(* SDK's thread appends samples to a list per lidar and raises a           *)
(* semaphore, the IMU poll thread drains the lists and publishes, the      *)
(* destructor asks for the end and joins.  The lists are guarded by a      *)
(* mutex each, so an operation on one is a step; the semaphore is read     *)
(* without its own.                                                        *)
(***************************************************************************)
EXTENDS Integers, Sequences

CONSTANTS
  NumLidars,     \* lidar_count_
  Sample,        \* what a sample holds
  NoSample,      \* no sample
  MaxBacklog     \* bound: samples in a list; the code has none

Indices == 0 .. NumLidars - 1

VARIABLES
  lds,           \* "none" registered, "failed" to initialise, or "ready"
  known,         \* lidars of the configuration file, which have an index
  sampling,      \* lidars with connect_state = kConnectStateSampling
  list,          \* imu_data of each lidar
  count,         \* count_ of imu_semaphore_
  sdk,           \* the SDK's thread in StorageImuData, and the lidar it serves
  poll,          \* ImuDataPollThread: place, lidar of the loop, local imu_data
  out,           \* last message, with its lidar
  exit,          \* request_exit_
  main           \* the thread that makes and destroys the DriverNode

vars == <<lds, known, sampling, list, count, sdk, poll, out, exit, main>>

Init ==
  /\ lds = "none" /\ known = {} /\ sampling = {}
  /\ list = [l \in Indices |-> <<>>]
  /\ count = 0
  /\ sdk = [pc |-> "idle", lidar |-> 0]
  /\ poll = [pc |-> "none", lidar |-> 0, sample |-> NoSample]
  /\ out = <<>>
  /\ exit = FALSE /\ main = "constructing"

-----------------------------------------------------------------------------
(* Construction.                                                           *)

\* InitLdsLidar: no summary or no SDK is a failure; a config file that cannot
\* be parsed only leaves no lidar known, and one without an index is passed by.
InitLdsLidar ==
  \/ lds' = "failed" /\ known' = {}
  \/ lds' = "ready" /\ known' \in SUBSET Indices

\* The constructor goes on, and starts the threads, whatever came of that.
Construct ==
  /\ main = "constructing"
  /\ main' = "running"
  /\ \/ UNCHANGED <<lds, known>>       \* invalid data_src
     \/ InitLdsLidar
  /\ poll' = [poll EXCEPT !.pc = "start"]
  /\ UNCHANGED <<sampling, list, count, sdk, out, exit>>

\* The last configuration key of a lidar is acknowledged (LidarConfig).
BecomeSampling(l) ==
  /\ l \in known \ sampling
  /\ sampling' = sampling \cup {l}
  /\ UNCHANGED <<lds, known, list, count, sdk, poll, out, exit, main>>

-----------------------------------------------------------------------------
(* The SDK's thread.                                                       *)

\* StorageImuData up to the push; a lidar without an index is none of ours.
StorageImuData(l, s) ==
  /\ sdk.pc = "idle" /\ lds = "ready" /\ l \in known
  /\ Len(list[l]) < MaxBacklog
  /\ list' = [list EXCEPT ![l] = Append(@, s)]
  /\ sdk' = [pc |-> "empty", lidar |-> l]
  /\ UNCHANGED <<lds, known, sampling, count, poll, out, exit, main>>

\* Variant: a signal for the first sample of a list only.
CheckEmptyFirst ==
  /\ sdk.pc = "empty"
  /\ sdk' = [sdk EXCEPT !.pc = IF Len(list[sdk.lidar]) = 1 THEN "count" ELSE "idle"]
  /\ UNCHANGED <<lds, known, sampling, list, count, poll, out, exit, main>>

CheckEmpty ==
  /\ sdk.pc = "empty"
  /\ sdk' = [sdk EXCEPT !.pc = IF list[sdk.lidar] = <<>> THEN "idle" ELSE "count"]
  /\ UNCHANGED <<lds, known, sampling, list, count, poll, out, exit, main>>

ReadCount ==
  /\ sdk.pc = "count"
  /\ sdk' = [sdk EXCEPT !.pc = IF count <= 0 THEN "signal" ELSE "idle"]
  /\ UNCHANGED <<lds, known, sampling, list, count, poll, out, exit, main>>

Signal ==
  /\ sdk.pc = "signal"
  /\ count' = count + 1
  /\ sdk' = [sdk EXCEPT !.pc = "idle"]
  /\ UNCHANGED <<lds, known, sampling, list, poll, out, exit, main>>

-----------------------------------------------------------------------------
(* The poll thread.                                                        *)

pollKeeps == <<lds, known, sampling, sdk, exit, main>>

\* DistributeImuData returns without a wait if nothing is registered or the end is asked for.
DistributeImuData ==
  /\ poll.pc = "start"
  /\ poll' = [poll EXCEPT !.pc = IF lds = "none" \/ exit THEN "future" ELSE "wait"]
  /\ UNCHANGED <<pollKeeps, list, count, out>>

Wait ==
  /\ poll.pc = "wait" /\ count > 0
  /\ count' = count - 1
  /\ poll' = [poll EXCEPT !.pc = "lidar", !.lidar = 0]
  /\ UNCHANGED <<pollKeeps, list, out>>

\* The loop over the lidars, and that of PollingLidarImuData within.
VisitLidar ==
  /\ poll.pc = "lidar"
  /\ poll' = IF poll.lidar = NumLidars THEN [poll EXCEPT !.pc = "future"]
             ELSE IF poll.lidar \in sampling /\ ~exit /\ list[poll.lidar] # <<>> THEN [poll EXCEPT !.pc = "pop"]
             ELSE [poll EXCEPT !.lidar = @ + 1]
  /\ UNCHANGED <<pollKeeps, list, count, out>>

\* Variant: the newest sample first.
PopNewest ==
  /\ poll.pc = "pop"
  /\ poll' = [poll EXCEPT !.pc = "publish", !.sample = list[poll.lidar][Len(list[poll.lidar])]]
  /\ list' = [list EXCEPT ![poll.lidar] = SubSeq(@, 1, Len(@) - 1)]
  /\ UNCHANGED <<pollKeeps, count, out>>

Pop ==
  /\ poll.pc = "pop"
  /\ poll' = [poll EXCEPT !.pc = "publish", !.sample = Head(list[poll.lidar])]
  /\ list' = [list EXCEPT ![poll.lidar] = Tail(@)]
  /\ UNCHANGED <<pollKeeps, count, out>>

\* PublishImuData; the publisher is made at its first use.
PublishImuData ==
  /\ poll.pc = "publish"
  /\ out' = <<poll.lidar, poll.sample>>
  /\ poll' = [poll EXCEPT !.pc = "lidar", !.sample = NoSample]
  /\ UNCHANGED <<pollKeeps, list, count>>

FutureWait ==
  /\ poll.pc = "future"
  /\ poll' = [poll EXCEPT !.pc = IF main \in {"join", "joined"} THEN "done" ELSE "start"]
  /\ UNCHANGED <<pollKeeps, list, count, out>>

-----------------------------------------------------------------------------
(* The destructor.                                                         *)

\* lds_->RequestExit() goes through a null pointer if nothing was registered.
RequestExit ==
  /\ main = "running"
  /\ IF lds = "none" THEN main' = "crashed" /\ UNCHANGED exit
     ELSE main' = "setValue" /\ exit' = TRUE
  /\ UNCHANGED <<lds, known, sampling, list, count, sdk, poll, out>>

SetValue ==
  /\ main = "setValue"
  /\ main' = "join"
  /\ UNCHANGED <<lds, known, sampling, list, count, sdk, poll, out, exit>>

Join ==
  /\ main = "join" /\ poll.pc = "done"
  /\ main' = "joined"
  /\ UNCHANGED <<lds, known, sampling, list, count, sdk, poll, out, exit>>

-----------------------------------------------------------------------------
Arrive == \E l \in Indices, s \in Sample : StorageImuData(l, s)
Push   == CheckEmpty \/ ReadCount \/ Signal
ImuDataPollThread ==
  DistributeImuData \/ Wait \/ VisitLidar \/ Pop \/ PublishImuData \/ FutureWait

Next ==
  /\ main # "crashed"
  /\ \/ Construct \/ RequestExit \/ SetValue \/ Join
     \/ \E l \in Indices : BecomeSampling(l)
     \/ Arrive \/ Push \/ ImuDataPollThread

\* The threads run; the lidars may fall silent, and nobody need ask for the end.
Fairness == WF_vars(Push) /\ WF_vars(ImuDataPollThread)

Spec == Init /\ [][Next]_vars /\ Fairness

-----------------------------------------------------------------------------
(* Properties.                                                             *)

Channel == INSTANCE PointChannel
  WITH Lidars <- Indices, Packet <- Sample, EmptyPacket <- {}, Capacity <- MaxBacklog + 1,
       pending <- [l \in Indices |->
         (IF poll.pc = "publish" /\ poll.lidar = l THEN <<poll.sample>> ELSE <<>>) \o list[l]]

\* Per lidar the samples are published in the order in which the SDK brought
\* them, each once: a list is a FIFO although the thread tests, pops and
\* publishes in three steps.
SamplesInOrder == Channel!Spec

\* Assumption on speed: the poll thread comes to the end of its passes.
KeepsUp == []<>(poll.pc \in {"none", "start", "wait", "future", "done"})

\* A sample of a Sampling lidar, and with it all that gathered before the lidar
\* was Sampling, leaves the list even if no lidar sends again, unless the end
\* is asked for: the test of count_ without its mutex loses no wake-up.
SampleIsPublished ==
  KeepsUp => \A l \in Indices :
    (l \in sampling /\ sdk = [pc |-> "empty", lidar |-> l]) ~> (list[l] = <<>> \/ exit)
=============================================================================
