---------------------------- MODULE DriverParams ----------------------------
(***************************************************************************)
(* What livox_ros_driver2 makes of its config file: the lines for each     *)
(* lidar become the livox_config of its device, the mounting its process   *)
(* thread applies to points, and the values sent to the lidar when it      *)
(* appears.  LidarConfig models the answers to those requests; here only   *)
(* the values matter.                                                      *)
(*                                                                         *)
(* A line gives an ip, or none, and a value for some keys.  The mounting   *)
(* stands for the six extrinsic parameters by one length in millimetres.   *)
(***************************************************************************)
EXTENDS Integers, Sequences

CONSTANTS
  Files,         \* the config files to check, see File
  Ips,           \* the lidars on the network
  NoIp,          \* a line without "ip"
  NumDevices     \* kMaxSourceLidar

Keys == {"pcl_data_type", "pattern_mode", "blind_spot_set", "dual_emit_en"}

File(f) ==
  /\ f.opened \in BOOLEAN        \* the file exists and is JSON with a lidar type
  /\ f.array \in BOOLEAN         \* it has an array lidar_configs
  /\ Len(f.lines) \in Nat
  /\ \A i \in 1 .. Len(f.lines) :
       /\ f.lines[i].ip \in Ips \cup {NoIp}
       /\ \A k \in DOMAIN f.lines[i].keys :
            k \in Keys \cup {"extrinsic_parameter"} /\ f.lines[i].keys[k] \in Int

VARIABLES
  file,          \* the file named by user_config_path
  lds,           \* "new", "failed" or "ready"
  index,         \* map_index_: ip -> index
  config,        \* livox_config: index -> values, with the ip as its handle
  mounting,      \* lidar_extrinsics_: ip -> length, in the unit of the points
  sent           \* ip -> the values last sent to it

vars == <<file, lds, index, config, mounting, sent>>

None == <<>>     \* the function with an empty domain

\* Static storage: zeros, and no handle.
ZeroConfig == [ip |-> NoIp, keys |-> [k \in Keys |-> 0], extrinsic |-> 0]

Init ==
  /\ file \in Files
  /\ lds = "new"
  /\ index = None
  /\ config = [i \in 0 .. NumDevices - 1 |-> ZeroConfig]
  /\ mounting = None
  /\ sent = None

-----------------------------------------------------------------------------
(* Parsing.                                                                *)

\* static_cast<int8_t>, and uint8_t stored in an int8_t
Int8(v) == ((v + 128) % 256) - 128

Given(line, k) == k \in DOMAIN line.keys

\* One line of ParseUserConfigs: every key is cut to 8 bits, also the blind spot
\* whose field has 32; an absent one is -1, an absent mounting 0.
UserConfig(line) ==
  [ip |-> line.ip,
   keys |-> [k \in Keys |-> IF Given(line, k) THEN Int8(line.keys[k]) ELSE -1],
   extrinsic |-> IF Given(line, "extrinsic_parameter") THEN line.keys["extrinsic_parameter"] ELSE 0]

\* Parse: a file without the array gives no configuration, a line without an ip is skipped.
Parse(f) ==
  LET configs[k \in 0 .. Len(f.lines)] ==
        IF k = 0 \/ ~f.array THEN <<>>
        ELSE IF f.lines[k].ip = NoIp THEN configs[k - 1]
        ELSE Append(configs[k - 1], UserConfig(f.lines[k]))
  IN  configs[Len(f.lines)]

-----------------------------------------------------------------------------
(* InitLdsLidar.                                                           *)

Put(f, x, v) == [y \in DOMAIN f \cup {x} |-> IF y = x THEN v ELSE f[y]]

\* GetFreeIndex: the index of an ip known already, else the first free one, if any.
HasIndex(ix, ip) == ip \in DOMAIN ix
Taken(ix) == {ix[ip] : ip \in DOMAIN ix}
Free(ix) == (0 .. NumDevices - 1) \ Taken(ix)
FreeIndex(ix, ip) == IF HasIndex(ix, ip) THEN ix[ip] ELSE CHOOSE i \in Free(ix) : \A j \in Free(ix) : i <= j

\* C++ division, which rounds to zero
Tenth(n) == IF n >= 0 THEN n \div 10 ELSE -((-n) \div 10)

\* The mounting for points of 16 bits, whose unit is a centimetre.
Mounting(c) == IF c.keys["pcl_data_type"] = 2 THEN Tenth(c.extrinsic) ELSE c.extrinsic

\* Variant: the mounting is noted before the lidar has an index.
FillFirst(state, c) ==
  LET noted == [state EXCEPT !.mounting = Put(@, c.ip, Mounting(c))] IN
  IF ~HasIndex(state.index, c.ip) /\ Free(state.index) = {} THEN noted
  ELSE [noted EXCEPT !.index = Put(@, c.ip, FreeIndex(state.index, c.ip)),
                     !.config[FreeIndex(state.index, c.ip)] = c]

\* One pass of the loop over the configurations: a lidar without an index is passed over.
Fill(state, c) ==
  IF ~HasIndex(state.index, c.ip) /\ Free(state.index) = {} THEN state
  ELSE [index    |-> Put(state.index, c.ip, FreeIndex(state.index, c.ip)),
        config   |-> [state.config EXCEPT ![FreeIndex(state.index, c.ip)] = c],
        mounting |-> Put(state.mounting, c.ip, Mounting(c))]

Filled(cs) ==
  LET start == [index |-> index, config |-> config, mounting |-> mounting]
      after[n \in 0 .. Len(cs)] == IF n = 0 THEN start ELSE Fill(after[n - 1], cs[n])
  IN  after[Len(cs)]

\* ParseSummaryConfig, InitLivoxLidar and Start: a file that cannot be read or an
\* SDK that does not start is a failure, configurations that cannot be parsed are not.
InitLdsLidar ==
  /\ lds = "new"
  /\ \/ lds' = "failed" /\ UNCHANGED <<index, config, mounting>>
     \/ /\ file.opened
        /\ lds' \in {"failed", "ready"}
        /\ LET after == Filled(Parse(file)) IN
             index' = after.index /\ config' = after.config /\ mounting' = after.mounting
  /\ UNCHANGED <<file, sent>>

-----------------------------------------------------------------------------
(* LidarInfoChangeCallback.                                                *)

\* Keys that are not -1 are sent, dual emit as a Boolean; the mounting goes to
\* the handle of the configuration.
Values(c) ==
  [keys |-> [k \in {j \in Keys : c.keys[j] # -1} |->
               IF k = "dual_emit_en" THEN (IF c.keys[k] = 0 THEN 0 ELSE 1) ELSE c.keys[k]],
   attitude |-> c.extrinsic, attitudeTo |-> c.ip]

\* A lidar without an index gets one, if there is one, and no configuration
\* until it appears again.
LidarInfoChange(ip) ==
  /\ lds = "ready"
  /\ IF HasIndex(index, ip)
     THEN sent' = Put(sent, ip, Values(config[index[ip]])) /\ UNCHANGED index
     ELSE /\ UNCHANGED sent
          /\ IF Free(index) = {} THEN UNCHANGED index
             ELSE index' = Put(index, ip, FreeIndex(index, ip))
  /\ UNCHANGED <<file, lds, config, mounting>>

-----------------------------------------------------------------------------
Next == InitLdsLidar \/ \E ip \in Ips : LidarInfoChange(ip)

Spec == Init /\ [][Next]_vars

-----------------------------------------------------------------------------
(* Properties.                                                             *)

\* The line that counts for a lidar: the last of those with its ip.
LastLine(ip) ==
  LET own == {i \in DOMAIN file.lines : file.lines[i].ip = ip}
  IN  file.lines[CHOOSE i \in own : \A j \in own : j <= i]

\* The driver never moves the points of a lidar by a mounting that is not also
\* what it tells the lidar itself, up to the unit, nor keeps one for a lidar
\* without a device: not when an ip is listed twice, nor when more lidars are
\* listed than there are devices, nor when an unlisted lidar takes a device.
MountingIsShared ==
  /\ DOMAIN mounting \subseteq DOMAIN index
  /\ \A ip \in DOMAIN sent :
       IF ip \in DOMAIN mounting
       THEN /\ sent[ip].attitudeTo = ip
            /\ mounting[ip] \in {sent[ip].attitude, Tenth(sent[ip].attitude)}
       ELSE sent[ip].attitudeTo = NoIp /\ sent[ip].attitude = 0

\* src/livox_ros_driver2/README.md:247 gives blind_spot_set a range from 50 cm
\* to 200 cm: a value of that range in the file is the value sent to the lidar.
BlindSpotKept ==
  \A ip \in DOMAIN sent \cap DOMAIN mounting :
    LET line == LastLine(ip) IN
    (Given(line, "blind_spot_set") /\ line.keys["blind_spot_set"] \in 50 .. 200)
      => sent[ip].keys["blind_spot_set"] = line.keys["blind_spot_set"]
=============================================================================
