------------------------------ MODULE MCDriver ------------------------------
(***************************************************************************)
(* What livox_ros_driver2 does before points are handed on, for TLC:       *)
(* frames are cut from packets, the config file is read, the lidars are    *)
(* told their configuration and answer.  None of these changes state under *)
(* another, so every behaviour runs one of them.                           *)
(***************************************************************************)
EXTENDS LidarConfig

CONSTANTS
  Lidars, Settings,
  Files, Ips, NoIp, NumDevices,
  l1

VARIABLES
  part,                                                                \* the one that runs
  setting, now, heard, queue, syncFlag, tPc, packet, handlers, clouds, buffer, lastPub, frame, quit,  \* PubHandler
  file, lds, cache, config, mounting, sent                             \* DriverParams

-----------------------------------------------------------------------------
(* Settings: one lidar of two is synchronised and packets get lost; both   *)
(* are synchronised and heard in every tick, over several intervals.       *)

Mixed ==
  [synced |-> {2}, ticksPerMs |-> 1, intervalMs |-> 2, mayLose |-> TRUE, maxQueue |-> 1, maxTime |-> 3]
AllSynced ==
  [synced |-> {1, 2}, ticksPerMs |-> 2, intervalMs |-> 3, mayLose |-> FALSE, maxQueue |-> 2, maxTime |-> 20]
BothSettings == {Mixed, AllSynced}

(* Config files: up to three lines for three ips and two devices.  A line  *)
(* may lack an ip, choose points of 16 bits, and give a mounting.          *)

LineKeys ==
  {[k \in {"pcl_data_type"} |-> 2],
   [k \in {"pcl_data_type", "extrinsic_parameter"} |-> IF k = "pcl_data_type" THEN 2 ELSE -15],
   [k \in {"dual_emit_en", "extrinsic_parameter"} |-> IF k = "dual_emit_en" THEN 255 ELSE 7]}
Line == [ip : Ips \cup {NoIp}, keys : LineKeys]
FileSet == [opened : BOOLEAN, array : BOOLEAN, lines : UNION {[1 .. n -> Line] : n \in {0, 2, 3}}]
ListedFiles == {f \in FileSet : ~f.opened \/ ~f.array => f.lines = <<>>}

-----------------------------------------------------------------------------
(* A lidar of the file with two keys, two others, two indices.             *)

OneListed == [l \in {l1} |-> {"DataType", "ScanPattern"}]

-----------------------------------------------------------------------------
Frames == INSTANCE PubHandler
Params == INSTANCE DriverParams WITH index <- cache

ASSUME FramesAssumption == Frames!LidarAssumption /\ Frames!SettingAssumption
ASSUME FilesAssumption == \A f \in Files : Params!File(f)

framesVars == <<setting, now, heard, queue, syncFlag, tPc, packet, handlers, clouds, buffer, lastPub, frame, quit>>
paramsVars == <<file, lds, cache, config, mounting, sent>>

NoFile == [opened |-> FALSE, array |-> FALSE, lines |-> <<>>]

AllInit ==
  /\ part \in {"frames", "params", "answers"}
  /\ Frames!Init /\ Params!Init /\ Init
  /\ part # "frames" => setting = Mixed /\ now = 1
  /\ part # "params" => file = NoFile
  /\ part # "answers" => iLidar = l1

AllNext ==
  /\ UNCHANGED part
  /\ \/ part = "frames" /\ Frames!Next /\ UNCHANGED <<paramsVars, vars>>
     \/ part = "params" /\ Params!Next /\ UNCHANGED <<framesVars, vars>>
     \/ part = "answers" /\ Next /\ UNCHANGED <<framesVars, paramsVars>>

AllSpec == AllInit /\ [][AllNext]_<<part, framesVars, paramsVars, vars>>

-----------------------------------------------------------------------------
\* While all lidars are synchronised and no packet is lost, frames end where the
\* millisecond divides by the interval.
FramesAligned == Frames!FramesAligned

\* From a frame and its offsets the stamps of its points can be told.
OffsetsRebuildTimes == Frames!OffsetsRebuildTimes

\* Each lidar's points come out in order, whole, each once.
ImplementsChannel == Frames!ImplementsChannel

\* The mounting of a lidar is what the lidar itself was told.
MountingIsShared == Params!MountingIsShared
=============================================================================
