------------------------------ MODULE OdomToFcu ------------------------------
(***************************************************************************)
(* fastlio_to_fcu.cpp: from the odometry of FAST-LIO, its corrections by   *)
(* map_localizer (ICP) and sc_pgo_node, and the detected ring, to the      *)
(* state for the flight controller.  One thread spins, so a callback is    *)
(* one step; what interleaves is the arrival of the messages.              *)
(*                                                                         *)
(* One axis stands for the three: a pose is a coordinate in centimetres,   *)
(* a transform a shift, a twist a speed in cm/s.  Smoothing rounds down.   *)
(***************************************************************************)
EXTENDS Integers

CONSTANTS
  Poses,         \* coordinates in the messages of the three odometries
  Speeds,        \* speeds in the messages of FAST-LIO
  Detections,    \* the ring as seen from the drone
  Nothing,       \* a value not received yet
  MaxShifts      \* bound: corrections received

ASSUME FcuAssumption ==
  /\ Poses \subseteq Int /\ Speeds \subseteq Nat /\ Detections \subseteq Int /\ Nothing \notin Int
  /\ MaxShifts \in Nat

Abs(x)         == IF x < 0 THEN -x ELSE x
Smooth(old, new, percent) == (percent * new + (100 - percent) * old) \div 100

MaxSpeed         == 500
StationarySpeed  == 5
StationaryFrames == 5
MaxJump(count)   == IF count >= StationaryFrames THEN 15 ELSE 100
InWorldBounds(x) == 510 <= x /\ x <= 690     \* wf_x_min_, wf_x_max_

VARIABLES
  raw,             \* raw_odom_
  pgoShift,        \* T_correction_, of the static T_smooth
  icpShift,        \* T_icp_correction_
  lastPose,        \* last_valid_pose_
  lastSpeed,       \* last_valid_twist_
  count,           \* stationary_cnt_; more than StationaryFrames are one
  ring, fresh,     \* latest_ring_; received within RING_TIMEOUT
  ringEma,         \* ring_ema_
  imu,             \* has_imu_
  shifts,          \* history: corrections received
  odomPose,        \* last message on /fcu/odom_pose
  state            \* last message on /fcu/state

inputs  == <<raw, pgoShift, icpShift, shifts, ring, fresh, imu>>
filters == <<lastPose, lastSpeed, count, ringEma>>
outputs == <<odomPose, state>>
vars    == <<inputs, filters, outputs>>

Init ==
  /\ raw = Nothing /\ pgoShift = Nothing /\ icpShift = Nothing
  /\ lastPose = Nothing /\ lastSpeed = Nothing /\ count = 0
  /\ ring = Nothing /\ fresh = FALSE /\ ringEma = 0
  /\ imu = FALSE /\ shifts = 0
  /\ odomPose = Nothing /\ state = Nothing

ImuCallback ==
  /\ imu' = TRUE
  /\ UNCHANGED <<raw, pgoShift, icpShift, shifts, ring, fresh, filters, outputs>>

RingCallback(d) ==
  /\ ring' = d /\ fresh' = TRUE
  /\ UNCHANGED <<raw, pgoShift, icpShift, shifts, imu, filters, outputs>>

\* A second passes without a detection.
RingTimeout ==
  /\ fresh' = FALSE
  /\ UNCHANGED <<raw, pgoShift, icpShift, shifts, ring, imu, filters, outputs>>

\* The shift from the latest raw pose to the optimised one; below 10 cm it is
\* ignored, above 50 cm it is a loop closure and weighs more.
PgoCallback(p) ==
  /\ raw # Nothing /\ shifts < MaxShifts
  /\ shifts' = shifts + 1
  /\ LET shift == p - raw IN
       pgoShift' = IF Abs(shift) < 10 THEN pgoShift
                   ELSE IF pgoShift = Nothing THEN shift
                   ELSE Smooth(pgoShift, shift, IF Abs(shift) > 50 THEN 50 ELSE 15)
  /\ UNCHANGED <<raw, icpShift, ring, fresh, imu, filters, outputs>>

LocalizedCallback(p) ==
  /\ raw # Nothing /\ shifts < MaxShifts
  /\ shifts' = shifts + 1
  /\ LET shift == p - raw IN
       icpShift' = IF icpShift = Nothing THEN shift ELSE Smooth(icpShift, shift, 50)
  /\ UNCHANGED <<raw, pgoShift, ring, fresh, imu, filters, outputs>>

\* The ICP correction if there is one, else that of the pose graph, else none.
Corrected(p) ==
  IF icpShift # Nothing THEN p + icpShift
  ELSE IF pgoShift # Nothing THEN p + pgoShift
  ELSE p

\* The velocity watchdog: an impossible speed is replaced by the last valid one.
Watched(v) == IF lastSpeed # Nothing /\ v > MaxSpeed THEN lastSpeed ELSE v

\* The position watchdog: a jump leaves the last valid pose in place.
Accepted(p, cnt) ==
  IF lastPose # Nothing /\ Abs(p - lastPose) > MaxJump(cnt) THEN lastPose ELSE p

\* Variant: the bounds are not looked at.
RingFilteredAnywhere(p) ==
  IF ring # Nothing /\ fresh THEN Smooth(ringEma, p + ring, 30) ELSE ringEma

\* The ring in the world frame: a fresh detection, transformed with this pose,
\* is averaged in if it lies within the bounds.
RingFiltered(p) ==
  IF ring # Nothing /\ fresh /\ InWorldBounds(p + ring)
  THEN Smooth(ringEma, p + ring, 30)
  ELSE ringEma

\* Variant: a rejected pose is remembered as the last valid one.
OdomCallbackRemembers(p, v) ==
  LET speed == Watched(v)
      cnt   == IF speed >= StationarySpeed THEN 0
               ELSE IF count < StationaryFrames THEN count + 1 ELSE count
      pose  == Accepted(Corrected(p), cnt)
  IN
  /\ raw' = p
  /\ lastSpeed' = speed
  /\ count' = cnt
  /\ lastPose' = Corrected(p)
  /\ ringEma' = RingFiltered(pose)
  /\ odomPose' = pose
  /\ state' = [pose |-> raw', speed |-> speed, ring |-> ringEma', imu |-> imu]
  /\ UNCHANGED <<pgoShift, icpShift, shifts, ring, fresh, imu>>

\* odom_callback and processAndPublish.
OdomCallback(p, v) ==
  LET speed == Watched(v)
      cnt   == IF speed >= StationarySpeed THEN 0
               ELSE IF count < StationaryFrames THEN count + 1 ELSE count
      pose  == Accepted(Corrected(p), cnt)
  IN
  /\ raw' = p
  /\ lastSpeed' = speed
  /\ count' = cnt
  /\ lastPose' = pose
  /\ ringEma' = RingFiltered(pose)
  /\ odomPose' = pose
  /\ state' = [pose |-> raw', speed |-> speed, ring |-> ringEma', imu |-> imu]
  /\ UNCHANGED <<pgoShift, icpShift, shifts, ring, fresh, imu>>

Next ==
  \/ ImuCallback
  \/ RingTimeout
  \/ \E d \in Detections : RingCallback(d)
  \/ \E p \in Poses : PgoCallback(p) \/ LocalizedCallback(p)
  \/ \E p \in Poses, v \in Speeds : OdomCallback(p, v)

Spec == Init /\ [][Next]_vars

-----------------------------------------------------------------------------
(* Properties.                                                             *)

\* However the corrections jump, and whichever of them is in use, the pose on
\* /fcu/odom_pose moves by no more than a metre from one message to the next,
\* and by no more than 15 cm once five messages in a row were stationary.
NoJump ==
  [][odomPose # Nothing => Abs(odomPose' - odomPose) <= MaxJump(count')]_vars

\* The averaged ring starts at the origin, outside the bounds, but once it is
\* inside them no message takes it out again.
RingStaysInBounds == [][InWorldBounds(ringEma) => InWorldBounds(ringEma')]_vars
=============================================================================
