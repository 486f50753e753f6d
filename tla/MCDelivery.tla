----------------------------- MODULE MCDelivery -----------------------------
(***************************************************************************)
(* The two ways out of livox_ros_driver2 for TLC, with the fairness of     *)
(* their threads: frames of points through rings, samples of the IMU       *)
(* through lists.  They share no lock, so every behaviour runs one of      *)
(* them.                                                                   *)
(***************************************************************************)
EXTENDS PointPipe

CONSTANTS Sample, NoSample, MaxBacklog

VARIABLES
  part,                                                                  \* the one that runs
  lds, known, imuSampling, list, imuCount, sdk, poll, imuOut, imuExit, main   \* ImuPipe

Imu == INSTANCE ImuPipe
  WITH sampling <- imuSampling, count <- imuCount, out <- imuOut, exit <- imuExit

imuVars == <<lds, known, imuSampling, list, imuCount, sdk, poll, imuOut, imuExit, main>>

AllInit == part \in {"points", "imu"} /\ Init /\ Imu!Init

AllNext ==
  /\ UNCHANGED part
  /\ \/ part = "points" /\ Next /\ UNCHANGED imuVars
     \/ part = "imu" /\ Imu!Next /\ UNCHANGED vars

\* The fairness of PointPipe and of ImuPipe, whose threads run in their own
\* behaviours.
AllSpec ==
  /\ AllInit /\ [][AllNext]_<<part, vars, imuVars>>
  /\ WF_vars(part = "points" /\ Push)
  /\ WF_vars(part = "points" /\ PointCloudDataPollThread)
  /\ WF_vars(part = "points" /\ Destroy)
  /\ WF_imuVars(part = "imu" /\ Imu!Push)
  /\ WF_imuVars(part = "imu" /\ Imu!ImuDataPollThread)

-----------------------------------------------------------------------------
\* Per lidar the samples are published in order, each once.
SamplesInOrder == Imu!SamplesInOrder

\* A sample of a Sampling lidar is not left in its list.
SampleIsPublished == Imu!SampleIsPublished
=============================================================================
