----------------------------- MODULE LidarConfig -----------------------------
(***************************************************************************)
(* How livox_ros_driver2 configures a lidar and declares it Sampling.      *)
(*                                                                         *)
(* Two threads of the Livox SDK run the callbacks of the driver: one calls *)
(* LidarInfoChangeCallback when a lidar appears (again), the other calls   *)
(* back with the answer of every request.  A lidar has an index of lidars_ *)
(* once CacheIndex registered it.  set_bits has one bit per configuration  *)
(* key that was sent and not yet acknowledged; the acknowledgement that    *)
(* clears the last bit makes the lidar Sampling, and only the points of a  *)
(* Sampling lidar are published (PointPipe).  config_mutex_ guards         *)
(* set_bits; nothing guards the look-up in the index map.                  *)
(*                                                                         *)
(* The SDK is external: it answers each request once, with success, a      *)
(* timeout (response may be null) or an error.                             *)
(***************************************************************************)
EXTENDS Integers, FiniteSets

CONSTANTS
  Handles,       \* the lidars on the network (their IP addresses)
  UserKeys,      \* for each lidar of the config file, the keys it sets (not -1)
  MaxLidars,     \* kMaxSourceLidar, the length of lidars_
  NoAnswer,      \* no callback is running
  MaxInfo        \* bound: info changes in a behaviour

Listed  == DOMAIN UserKeys
KeyOrder == <<"DataType", "ScanPattern", "BlindSpot", "DualEmit">>
Keys    == {"DataType", "ScanPattern", "BlindSpot", "DualEmit"}
Request == Keys \cup {"attitude", "workMode", "imu"}
Status  == {"success", "timeout", "timeoutNull", "error"}
Indices == 0 .. MaxLidars - 1
NoIndex == -1

ASSUME ListAssumption == Listed \subseteq Handles /\ \A h \in Listed : UserKeys[h] \subseteq Keys
ASSUME SizeAssumption == MaxLidars \in Nat /\ MaxInfo \in Nat
ASSUME AnswerAssumption == NoAnswer \notin [lidar : Handles, req : Request, status : Status]

VARIABLES
  index,         \* map_index_: the index of a lidar, or NoIndex
  bits,          \* set_bits of the device at an index
  sampling,      \* its connect_state is kConnectStateSampling
  out,           \* requests of each lidar the SDK has not answered, counted by kind
  iPc, iLidar, iKey,  \* thread of LidarInfoChangeCallback: place, lidar, position in KeyOrder
  resp,          \* the callback of an answer that runs, or NoAnswer
  acked,         \* history: requests of a lidar answered with success
  gaveUp,        \* history: requests whose callback neither took effect nor sent again
  infos          \* info changes so far

infoVars == <<iPc, iLidar, iKey, infos>>
histVars == <<acked, gaveUp>>
vars == <<index, bits, sampling, out, infoVars, resp, histVars>>

\* livox_config of a device: an index taken by an unlisted lidar still has the
\* zeros of static storage, and 0 is not -1.
Config(h) == IF h \in Listed THEN UserKeys[h] ELSE Keys

\* config_mutex_ is held across steps only by the info change callback.
Locked == iPc = "keys"

Registered == {h \in Handles : index[h] # NoIndex}

\* Send a request: the SDK will answer it.
Sent(h, r) == out' = [out EXCEPT ![h][r] = @ + 1]

-----------------------------------------------------------------------------
\* InitLivoxLidar gave the listed lidars the first indices, in the order of
\* the file, while there were any.
Init ==
  /\ index \in [Handles -> Indices \cup {NoIndex}]
  /\ Registered \subseteq Listed
  /\ \A g, h \in Registered : index[g] = index[h] => g = h
  /\ \A h \in Registered : index[h] < Cardinality(Registered)
  /\ Registered = Listed \/ Cardinality(Registered) = MaxLidars
  /\ bits = [i \in Indices |-> {}]
  /\ sampling = [i \in Indices |-> FALSE]
  /\ out = [h \in Handles |-> [r \in Request |-> 0]]
  /\ iPc = "idle" /\ iLidar \in Handles /\ iKey = 1
  /\ resp = NoAnswer
  /\ acked = [h \in Handles |-> {}]
  /\ gaveUp = [h \in Handles |-> {}]
  /\ infos = 0

-----------------------------------------------------------------------------
(* LidarInfoChangeCallback.                                                *)

LidarInfoChange(h) ==
  /\ iPc = "idle"
  /\ infos < MaxInfo
  /\ infos' = infos + 1
  /\ iLidar' = h
  /\ iKey' = 1
  /\ iPc' = IF index[h] = NoIndex THEN "getFreeIndex" ELSE "keys"
  /\ UNCHANGED <<index, bits, sampling, out, resp, histVars>>

\* An unlisted lidar takes the first free index, or is left alone for want of one.
GetFreeIndex ==
  LET free == Indices \ {index[h] : h \in Handles} IN
  /\ iPc = "getFreeIndex"
  /\ \/ /\ free = {}
        /\ iPc' = "idle"
        /\ UNCHANGED index
     \/ \E i \in free :
          /\ \A j \in free : i <= j
          /\ index' = [index EXCEPT ![iLidar] = i]
          /\ iPc' = "workMode"
  /\ UNCHANGED <<bits, sampling, out, iLidar, iKey, infos, resp, histVars>>

\* Under config_mutex_: each configured key in turn, its bit and its request.
SetKey ==
  LET k == KeyOrder[iKey] IN
  /\ iPc = "keys"
  /\ iKey <= 4
  /\ iKey' = iKey + 1
  /\ IF k \in Config(iLidar)
     THEN /\ bits' = [bits EXCEPT ![index[iLidar]] = @ \cup {k}]
          /\ Sent(iLidar, k)
     ELSE UNCHANGED <<bits, out>>
  /\ UNCHANGED <<index, sampling, iPc, iLidar, infos, resp, histVars>>

Unlock ==
  /\ iPc = "keys"
  /\ iKey = 5
  /\ iPc' = "attitude"
  /\ UNCHANGED <<index, bits, sampling, out, iLidar, iKey, infos, resp, histVars>>

\* The attitude goes to config.handle, which is no lidar if the lidar is unlisted.
SetAttitude ==
  /\ iPc = "attitude"
  /\ IF iLidar \in Listed THEN Sent(iLidar, "attitude") ELSE UNCHANGED out
  /\ iPc' = "workMode"
  /\ UNCHANGED <<index, bits, sampling, iLidar, iKey, infos, resp, histVars>>

SetWorkMode ==
  /\ iPc = "workMode"
  /\ Sent(iLidar, "workMode")
  /\ iPc' = "imu"
  /\ UNCHANGED <<index, bits, sampling, iLidar, iKey, infos, resp, histVars>>

EnableImu ==
  /\ iPc = "imu"
  /\ Sent(iLidar, "imu")
  /\ iPc' = "idle"
  /\ UNCHANGED <<index, bits, sampling, iLidar, iKey, infos, resp, histVars>>

-----------------------------------------------------------------------------
(* The callbacks of the answers.                                           *)

\* The SDK answers a request: it runs its callback with a status.
Answer(h, r, s) ==
  /\ resp = NoAnswer
  /\ out[h][r] > 0
  /\ out' = [out EXCEPT ![h][r] = @ - 1]
  /\ resp' = [lidar |-> h, req |-> r, status |-> s]
  /\ UNCHANGED <<index, bits, sampling, infoVars, histVars>>

answerKeeps == <<index, infoVars>>
Done == resp' = NoAnswer
Acknowledge == acked' = [acked EXCEPT ![resp.lidar] = @ \cup {resp.req}]
GiveUp == gaveUp' = [gaveUp EXCEPT ![resp.lidar] = @ \cup {resp.req}]

\* GetIndex reads the map without index_mutex_: while GetFreeIndex inserts in
\* it, the search may miss what is there.  The work mode's callback looks nothing up.
NotFound ==
  /\ resp # NoAnswer
  /\ resp.req # "workMode"
  /\ index[resp.lidar] = NoIndex \/ iPc = "getFreeIndex"
  /\ Done /\ GiveUp
  /\ UNCHANGED <<answerKeeps, bits, sampling, out, acked>>

Found == resp # NoAnswer /\ (resp.req # "workMode" => index[resp.lidar] # NoIndex)

\* Variant: the callback clears its bit without config_mutex_.
KeyAckedUnlocked ==
  /\ Found /\ resp.req \in Keys /\ resp.status = "success"
  /\ LET i == index[resp.lidar]
         left == bits[i] \ {resp.req}
     IN /\ bits' = [bits EXCEPT ![i] = left]
        /\ sampling' = [sampling EXCEPT ![i] = @ \/ left = {}]
  /\ Done /\ Acknowledge
  /\ UNCHANGED <<answerKeeps, out, gaveUp>>

\* Variant: the callback looks at set_bits before it clears its bit.
KeyAckedEarly ==
  /\ Found /\ resp.req \in Keys /\ resp.status = "success"
  /\ ~Locked
  /\ LET i == index[resp.lidar] IN
     /\ bits' = [bits EXCEPT ![i] = @ \ {resp.req}]
     /\ sampling' = [sampling EXCEPT ![i] = @ \/ bits[i] = {}]
  /\ Done /\ Acknowledge
  /\ UNCHANGED <<answerKeeps, out, gaveUp>>

\* Success of a configuration key: one critical section.
KeyAcked ==
  /\ Found /\ resp.req \in Keys /\ resp.status = "success"
  /\ ~Locked
  /\ LET i == index[resp.lidar]
         left == bits[i] \ {resp.req}
     IN /\ bits' = [bits EXCEPT ![i] = left]
        /\ sampling' = [sampling EXCEPT ![i] = @ \/ left = {}]
  /\ Done /\ Acknowledge
  /\ UNCHANGED <<answerKeeps, out, gaveUp>>

OtherAcked ==
  /\ Found /\ resp.req \notin Keys /\ resp.status = "success"
  /\ Done /\ Acknowledge
  /\ UNCHANGED <<answerKeeps, bits, sampling, out, gaveUp>>

\* What is sent again: everything on a timeout, but the IMU request only if the
\* response is not null; the work mode on any failure.
Retries(r, s) ==
  \/ r = "workMode" /\ s # "success"
  \/ r = "imu" /\ s = "timeout"
  \/ r \in Keys \cup {"attitude"} /\ s \in {"timeout", "timeoutNull"}

\* Variant: a timed-out key is logged and not sent again.
RetryNoKeys ==
  /\ Found /\ Retries(resp.req, resp.status)
  /\ IF resp.req \in Keys THEN UNCHANGED out ELSE Sent(resp.lidar, resp.req)
  /\ Done
  /\ UNCHANGED <<answerKeeps, bits, sampling, histVars>>

\* Variant: a work mode that failed is not set again.
RetryNoWorkMode ==
  /\ Found /\ Retries(resp.req, resp.status)
  /\ IF resp.req = "workMode" THEN UNCHANGED out ELSE Sent(resp.lidar, resp.req)
  /\ Done
  /\ UNCHANGED <<answerKeeps, bits, sampling, histVars>>

\* The work mode's callback sleeps a second first.
Retry ==
  /\ Found /\ Retries(resp.req, resp.status)
  /\ Sent(resp.lidar, resp.req)
  /\ Done
  /\ UNCHANGED <<answerKeeps, bits, sampling, histVars>>

\* Any other failure is only logged.
Fail ==
  /\ Found /\ resp.status # "success" /\ ~Retries(resp.req, resp.status)
  /\ Done /\ GiveUp
  /\ UNCHANGED <<answerKeeps, bits, sampling, out, acked>>

-----------------------------------------------------------------------------
InfoThread ==
  \/ GetFreeIndex \/ SetKey \/ Unlock
  \/ SetAttitude \/ SetWorkMode \/ EnableImu

Callback == NotFound \/ KeyAcked \/ OtherAcked \/ Retry \/ Fail

Next ==
  \/ \E h \in Handles : LidarInfoChange(h)
  \/ InfoThread
  \/ \E h \in Handles, r \in Request, s \in Status : Answer(h, r, s)
  \/ Callback

Spec == Init /\ [][Next]_vars

\* The callbacks run to their end, and a key or a work mode that is sent again
\* and again is answered with success at last; the other requests need not be.
FairSpec ==
  /\ Spec
  /\ WF_vars(InfoThread) /\ WF_vars(Callback)
  /\ \A h \in Handles : SF_vars(Answer(h, "workMode", "success"))
  /\ \A h \in Listed : \A k \in UserKeys[h] : SF_vars(Answer(h, k, "success"))

-----------------------------------------------------------------------------
(* Properties.                                                             *)

Answers == [lidar : Handles, req : Request, status : Status]

\* Every variable has its type, and a lidar whose keys are being sent has an index.
TypeOK ==
  /\ index \in [Handles -> Indices \cup {NoIndex}]
  /\ bits \in [Indices -> SUBSET Keys]
  /\ sampling \in [Indices -> BOOLEAN]
  /\ out \in [Handles -> [Request -> Nat]]
  /\ iPc \in {"idle", "getFreeIndex", "keys", "attitude", "workMode", "imu"}
  /\ iLidar \in Handles
  /\ iKey \in 1 .. 5
  /\ resp \in Answers \cup {NoAnswer}
  /\ acked \in [Handles -> SUBSET Request]
  /\ gaveUp \in [Handles -> SUBSET Request]
  /\ infos \in 0 .. MaxInfo
  /\ iPc = "keys" => index[iLidar] # NoIndex

\* No lidar is declared Sampling before it acknowledged every key configured
\* for it, although its answers run beside the callback that sets the bits one
\* by one, and beside the answers of the other lidars.
SamplingMeansConfigured ==
  \A h \in Registered : sampling[index[h]] => Config(h) \subseteq acked[h]

\* A request is in the SDK's hands or its callback is running.
Pending(h, r) ==
  out[h][r] > 0 \/ (resp # NoAnswer /\ resp.lidar = h /\ resp.req = r)

\* A bit is never left set for nobody: its key is still asked for, or a
\* callback gave up on it (a refusal, or a look-up that missed).
NoKeyForgotten ==
  \A h \in Registered : \A k \in bits[index[h]] : Pending(h, k) \/ k \in gaveUp[h]

\* Once its configuration is sent a lidar becomes Sampling, however often its
\* answers time out, unless a callback gives up on one of the keys.
ConfiguredBecomesSampling ==
  \A h \in Listed :
    (UserKeys[h] # {} /\ [](gaveUp[h] \cap Keys = {}))
      => ((iPc = "keys" /\ iLidar = h) ~> (index[h] # NoIndex /\ sampling[index[h]]))

\* Every registered lidar that shows up is at last in normal work mode, also
\* if it refuses at first, and one that is unlisted too.
ReachesNormalMode ==
  \A h \in Handles : (iPc = "imu" /\ iLidar = h) ~> ("workMode" \in acked[h])
=============================================================================
