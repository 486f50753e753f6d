------------------------------ MODULE PubHandler ------------------------------
(***************************************************************************)
(* PubHandler of livox_ros_driver2: the SDK thread queues raw packets, the *)
(* process thread appends their points to the cloud of their lidar and     *)
(* cuts the clouds into frames.  How a frame is cut depends on the last    *)
(* packet received from any lidar: with synchronised timestamps a lidar's  *)
(* cloud is cut by its own stamps, at the milliseconds that divide by the  *)
(* interval; without, all clouds are cut together by the host's clock.     *)
(*                                                                         *)
(* One clock stands for the host and for the lidars synchronised to it.  A *)
(* packet holds one point, or none if its data type is unknown; a point is *)
(* its stamp, so two points of a lidar differ.                             *)
(***************************************************************************)
EXTENDS Integers, SequencesExt

CONSTANTS
  Lidars,        \* handles, in the order of the map of handlers
  Settings       \* the settings to check, see Setting

VARIABLES
  setting,       \* the setting of this behaviour
  now,           \* the clock
  heard,         \* per lidar, the time of its last packet
  queue,         \* raw_packet_queue_
  syncFlag,      \* is_timestamp_sync_
  tPc, packet,   \* process thread: place, packet in hand
  handlers,      \* the lidars that have a handler
  clouds,        \* points_clouds_ of the handlers
  buffer,        \* points_, what the clouds are swapped with
  lastPub,       \* last_pub_time_, 0 until the first no-sync check sets it
  frame,         \* the last frame published: its lidars' entries, in order
  quit           \* is_quit_

threadVars == <<tPc, packet, handlers, clouds, buffer, lastPub, frame>>
vars == <<setting, now, heard, queue, syncFlag, threadVars, quit>>

Setting ==
  [synced : SUBSET Lidars,      \* the lidars whose packets have synchronised timestamps
   ticksPerMs : Nat \ {0},      \* clock ticks in a millisecond
   intervalMs : Nat \ {0, 1},   \* publish_interval_ms_: publish_freq is at most 100 Hz
   mayLose : BOOLEAN,           \* packets may get lost or hold no point
   maxQueue : Nat,              \* bound: packets in raw_packet_queue_
   maxTime : Nat \ {0}]         \* bound: the clock

LidarAssumption   == Lidars \subseteq Nat /\ IsFiniteSet(Lidars)
SettingAssumption == Settings \subseteq Setting

Synced     == setting.synced
TicksPerMs == setting.ticksPerMs
IntervalMs == setting.intervalMs
MayLose    == setting.mayLose

Interval  == IntervalMs * TicksPerMs
Tolerance == Interval - TicksPerMs       \* publish_interval_tolerance_
Ms(t)     == t \div TicksPerMs
Point     == Nat \ {0}

Init ==
  /\ setting \in Settings
  /\ now \in 1 .. Interval
  /\ heard = [l \in Lidars |-> now - 1]
  /\ queue = <<>>
  /\ syncFlag = FALSE
  /\ tPc = "check" /\ packet = <<>>
  /\ handlers = {}
  /\ clouds = [l \in Lidars |-> <<>>]
  /\ buffer = [l \in Lidars |-> <<>>]
  /\ lastPub = 0
  /\ frame = <<>>
  /\ quit = FALSE

-----------------------------------------------------------------------------
(* The world and the SDK thread.                                           *)

\* Every lidar sends a packet in each tick, unless packets get lost.
Tick ==
  /\ now < setting.maxTime
  /\ MayLose \/ \A l \in Lidars : heard[l] = now
  /\ now' = now + 1
  /\ UNCHANGED <<setting, heard, queue, syncFlag, threadVars, quit>>

PointPacket(l) ==
  /\ heard[l] < now
  /\ Len(queue) < setting.maxQueue
  /\ heard' = [heard EXCEPT ![l] = now]
  /\ syncFlag' = (l \in Synced)
  /\ \E points \in {<<now>>} \cup (IF MayLose THEN {<<>>} ELSE {}) :
       queue' = Append(queue, [lidar |-> l, points |-> points])
  /\ UNCHANGED <<setting, now, threadVars, quit>>

\* An IMU packet goes to the IMU callback at once, but it too sets the flag.
ImuPacket(l) ==
  /\ syncFlag' = (l \in Synced)
  /\ UNCHANGED <<setting, now, heard, queue, threadVars, quit>>

-----------------------------------------------------------------------------
(* The process thread.                                                     *)

threadKeeps == <<setting, now, heard, syncFlag, quit>>

Check ==
  /\ tPc = "check"
  /\ tPc' = IF quit THEN "done" ELSE IF queue = <<>> THEN "wait" ELSE "take"
  /\ UNCHANGED <<threadKeeps, queue, packet, handlers, clouds, buffer, lastPub, frame>>

\* wait_for ends by a notification, by itself or after 500 ms.
WaitFor ==
  /\ tPc = "wait"
  /\ tPc' = IF queue = <<>> THEN "check" ELSE "take"
  /\ UNCHANGED <<threadKeeps, queue, packet, handlers, clouds, buffer, lastPub, frame>>

Take ==
  /\ tPc = "take"
  /\ packet' = Head(queue)
  /\ queue' = Tail(queue)
  /\ tPc' = "process"
  /\ UNCHANGED <<threadKeeps, handlers, clouds, buffer, lastPub, frame>>

\* PointCloudProcess: the cloud of the packet's lidar with the packet's points.
Processed == [clouds EXCEPT ![packet.lidar] = @ \o packet.points]

BaseTime(cloud) == IF cloud = <<>> THEN 0 ELSE cloud[1]
RecentTime(cloud) == IF cloud = <<>> THEN 0 ELSE cloud[Len(cloud)]

\* Variant: the entry takes the base time after the cloud was swapped out.
EntryLate(l, cloud) == [lidar |-> l, base |-> BaseTime(<<>>), points |-> cloud]

Entry(l, cloud) == [lidar |-> l, base |-> BaseTime(cloud), points |-> cloud]

\* What offset_time of a point can hold: 2^32 ns, more than two intervals of the
\* lowest publish_freq, 0.5 Hz.
OffsetRange == 2 * Interval

\* InitCustomMsg and FillPointsToCustomMsg: the message made of an entry, whose
\* offsets are cut to 32 bits.
Message(e) ==
  [timebase |-> IF e.points = <<>> THEN 0 ELSE e.base,
   offset   |-> [k \in 1 .. Len(e.points) |-> (e.points[k] - e.base) % OffsetRange]]

\* Variant: the cloud is swapped with the buffer as the last frame left it.
CutStale(ls, cs) ==
  /\ buffer' = [l \in Lidars |-> IF l \in ls THEN cs[l] ELSE buffer[l]]
  /\ clouds' = [l \in Lidars |-> IF l \in ls THEN buffer[l] ELSE cs[l]]

\* The clouds of some lidars are swapped with their cleared buffers.
Cut(ls, cs) ==
  /\ buffer' = [l \in Lidars |-> IF l \in ls THEN cs[l] ELSE buffer[l]]
  /\ clouds' = [l \in Lidars |-> IF l \in ls THEN <<>> ELSE cs[l]]

\* Variant: no tolerance, a whole interval must have passed.
DueStrict(cloud) ==
  /\ Ms(RecentTime(cloud)) % IntervalMs = 0
  /\ Ms(RecentTime(cloud)) # 0
  /\ RecentTime(cloud) - BaseTime(cloud) >= Interval

\* With synchronised stamps a cloud is due in a millisecond that divides by the interval.
Due(cloud) ==
  /\ Ms(RecentTime(cloud)) % IntervalMs = 0
  /\ Ms(RecentTime(cloud)) # 0
  /\ RecentTime(cloud) - BaseTime(cloud) >= Tolerance

SyncTimer(cs) ==
  LET l == packet.lidar IN
  /\ syncFlag
  /\ IF Due(cs[l])
     THEN Cut({l}, cs) /\ frame' = <<Entry(l, cs[l])>>
     ELSE clouds' = cs /\ UNCHANGED <<buffer, frame>>
  /\ UNCHANGED lastPub

\* The handlers with points, in the order of their handles.
InOrder(ls) ==
  [i \in 1 .. Cardinality(ls) |->
     CHOOSE l \in ls : Cardinality({k \in ls : k < l}) = i - 1]

HostTimer(cs) ==
  LET full == {l \in handlers' : cs[l] # <<>>} IN
  /\ ~syncFlag
  /\ IF lastPub = 0
     THEN lastPub' = now /\ clouds' = cs /\ UNCHANGED <<buffer, frame>>
     ELSE IF now - lastPub < Interval
     THEN clouds' = cs /\ UNCHANGED <<lastPub, buffer, frame>>
     ELSE /\ lastPub' = lastPub + Interval
          /\ Cut(handlers', cs)
          /\ frame' = IF full = {} THEN frame   \* an empty frame is not stored
                      ELSE [i \in 1 .. Cardinality(full) |->
                              Entry(InOrder(full)[i], cs[InOrder(full)[i]])]

\* PointCloudProcess and CheckTimer.
Process ==
  /\ tPc = "process"
  /\ handlers' = handlers \cup {packet.lidar}
  /\ SyncTimer(Processed) \/ HostTimer(Processed)
  /\ tPc' = "check"
  /\ packet' = <<>>
  /\ UNCHANGED <<threadKeeps, queue>>

Uninit ==
  /\ ~quit
  /\ quit' = TRUE
  /\ UNCHANGED <<setting, now, heard, queue, syncFlag, threadVars>>

-----------------------------------------------------------------------------
RawDataProcess == Check \/ WaitFor \/ Take \/ Process

Next ==
  \/ Tick
  \/ \E l \in Lidars : PointPacket(l) \/ ImuPacket(l)
  \/ RawDataProcess
  \/ Uninit

Spec == Init /\ [][Next]_vars

-----------------------------------------------------------------------------
(* Properties.                                                             *)

\* The lidars of the last frame, and the points of each.
Shown == [l \in {frame[i].lidar : i \in 1 .. Len(frame)} |->
            LET i == CHOOSE j \in 1 .. Len(frame) : frame[j].lidar = l IN frame[i].points]

\* The points of a lidar still on their way: its cloud, the packet in hand, the queue.
PointsOf(l, q) ==
  FlattenSeq([i \in 1 .. Len(q) |-> IF q[i].lidar = l THEN q[i].points ELSE <<>>])

Pending == [l \in Lidars |->
              clouds[l] \o PointsOf(l, IF packet = <<>> THEN queue ELSE <<packet>> \o queue)]

Channel == INSTANCE FrameChannel WITH pending <- Pending, shown <- Shown

\* Whatever mix of synchronised and unsynchronised lidars sends, each point is
\* published once and in order: the swapped buffers neither lose nor repeat one.
ImplementsChannel == Channel!Spec

\* Whoever adds the offsets of a message to its base time gets the stamps of
\* the points, also when lidars without points were skipped.  This holds of a
\* frame shorter than the 32 bits of an offset, as every frame is while all
\* lidars are synchronised and no packet is lost: when some are not, the host's
\* timer and the stamps may put each other off.
OffsetsRebuildTimes ==
  \A i \in 1 .. Len(frame) :
    LET points == frame[i].points
        msg == Message(frame[i])
        short == points[Len(points)] - points[1] < OffsetRange
    IN  /\ points # <<>>
        /\ short \/ MayLose \/ Synced # Lidars
        /\ short => [k \in 1 .. Len(points) |-> msg.timebase + msg.offset[k]] = points

\* The first point of a frame follows on the millisecond at which the one before ended.
Follows(p) == Ms(p - 1) % IntervalMs = 0

\* While all lidars are synchronised and no packet is lost, a frame that follows
\* on another ends exactly at the next multiple of the interval: frames neither
\* drift nor swallow one another, although the timer only looks at the last
\* point of each packet and allows a millisecond less than the interval.
FramesAligned ==
  \A i \in 1 .. Len(frame) :
    LET p == frame[i].points IN
    (~MayLose /\ Synced = Lidars /\ Follows(p[1]))
      => Ms(p[Len(p)]) = Ms(p[1] - 1) + IntervalMs

=============================================================================
