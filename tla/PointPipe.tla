------------------------------ MODULE PointPipe ------------------------------
(***************************************************************************)
(* The point path of livox_ros_driver2: the thread of PubHandler pushes    *)
(* framed point packets into one ring buffer per lidar and raises a        *)
(* semaphore; the point-cloud poll thread of DriverNode waits for the      *)
(* semaphore, drains the rings and publishes; the destructor of DriverNode *)
(* asks for the end and joins the poll thread.  The rings are guarded by   *)
(* no lock: rd_idx belongs to the poll thread, wr_idx to the pushing one.  *)
(*                                                                         *)
(* Every read or write of a shared word is a step.  A packet is two words, *)
(* its header (base_time, points_num) and its points, so that a reader can *)
(* meet a half-written one.  Order says when the pushing thread's stores   *)
(* become visible to the poll thread: at once ("sc"), later but in program *)
(* order ("tso"), or later and in any order ("arm").  volatile orders      *)
(* nothing between threads and the board is an ARM, so the three are all   *)
(* outcomes of the same source; locking a mutex makes the stores visible.  *)
(***************************************************************************)
EXTENDS Integers, Sequences

CONSTANTS
  NumLidars,     \* lidar_count_: length of lidars_
  Packet,        \* contents of a frame of one lidar
  EmptyPacket,   \* the contents that hold no point
  NoPacket,      \* the content of a slot never written
  QueueSize,     \* slots of a ring (a power of two in the code, so & is %)
  Laps,          \* the index modulus 2^32 is Laps rings long
  Order          \* visibility of the pushing thread's stores

ASSUME SizeAssumption == QueueSize \in Nat \ {0} /\ Laps \in Nat \ {0, 1}
ASSUME LidarAssumption == NumLidars \in Nat
ASSUME PacketAssumption == NoPacket \notin Packet /\ EmptyPacket \subseteq Packet
ASSUME OrderAssumption == Order \in {"sc", "tso", "arm"}

Lidars == 0 .. NumLidars - 1
IdxMod == QueueSize * Laps            \* 2^32 for the uint32_t indices
Idx    == 0 .. IdxMod - 1
Slots  == 0 .. QueueSize - 1
Content == Packet \cup {NoPacket}

VARIABLES
  storage,       \* storage_packet of each ring: "null", "raw" (allocated, indices not reset) or "ready"
  hdr, pts,      \* header and points of each slot of each ring, as the poll thread sees them
  rd, wr,        \* rd_idx and wr_idx of each ring, wr as the poll thread sees it
  count,         \* count_ of pcd_semaphore_
  sampling,      \* connect_state = kConnectStateSampling
  fresh,         \* history: a packet was pushed since the lidar became Sampling
  pPc, pLidar, pPkt,  \* pushing thread: place, lidar and packet of PushLidarData
  pSlot,         \* its local wr_idx of QueuePushAny: the slot it fills
  store,         \* its stores of QueuePushAny that the poll thread cannot see yet
  cPc, cLidar, cHdr, cPts, \* poll thread: place, lidar of the loop, local pkg
  out,           \* the last message published, with its lidar
  exit,          \* request_exit_
  promise,       \* exit_signal_ has its value
  mPc            \* the thread that destroys the DriverNode

ringVars == <<storage, hdr, pts, rd, wr>>
prodVars == <<pPc, pLidar, pPkt, pSlot, store>>
consVars == <<cPc, cLidar, cHdr, cPts, out>>
mainVars == <<exit, promise, mPc>>
vars == <<ringVars, count, sampling, fresh, prodVars, consVars, mainVars>>

-----------------------------------------------------------------------------
(* The ring buffer (ldq.cpp).                                              *)

Inc(i)  == (i + 1) % IdxMod
Slot(i) == i % QueueSize

\* QueueUsedSize with the rd and wr the caller sees.
Used(r, w) == (w - r) % IdxMod

QueueIsFull(r, w)  == Used(r, w) > QueueSize - 1
QueueIsEmpty(r, w) == r = w

\* wr_idx as the thread that writes it sees it.
OwnWr == IF "wr" \in store THEN Inc(wr[pLidar]) ELSE wr[pLidar]

-----------------------------------------------------------------------------
Init ==
  /\ storage = [l \in Lidars |-> "null"]
  /\ hdr = [l \in Lidars |-> [k \in Slots |-> NoPacket]]
  /\ pts = [l \in Lidars |-> [k \in Slots |-> NoPacket]]
  /\ rd = [l \in Lidars |-> 0]
  /\ wr = [l \in Lidars |-> 0]
  /\ count = 0
  /\ sampling = [l \in Lidars |-> FALSE]
  /\ fresh = [l \in Lidars |-> FALSE]
  /\ pPc = "idle" /\ pLidar = 0 /\ pPkt = NoPacket /\ pSlot = 0 /\ store = {}
  /\ cPc = "start" /\ cLidar = 0 /\ cHdr = NoPacket /\ cPts = NoPacket
  /\ out = <<>>
  /\ exit = FALSE /\ promise = FALSE /\ mPc = "running"

-----------------------------------------------------------------------------
(* The pushing thread.  A frame is a sequence of packets of any lidars;    *)
(* the thread took packet_mutex_ since its last push, so its earlier       *)
(* stores are visible.                                                     *)

StoragePointData(l, p) ==
  /\ pPc = "idle"
  /\ store = {}
  /\ pLidar' = l
  /\ pPkt' = p
  /\ pPc' = IF storage[l] = "null" THEN "alloc" ELSE "checkFull"
  /\ UNCHANGED <<ringVars, count, sampling, fresh, pSlot, store, consVars, mainVars>>

\* InitQueue makes the storage visible before it resets the indices.
InitQueueStorage ==
  /\ pPc = "alloc"
  /\ storage' = [storage EXCEPT ![pLidar] = "raw"]
  /\ pPc' = "initIdx"
  /\ UNCHANGED <<hdr, pts, rd, wr, count, sampling, fresh, pLidar, pPkt, pSlot, store,
                 consVars, mainVars>>

InitQueueIndices ==
  /\ pPc = "initIdx"
  /\ storage' = [storage EXCEPT ![pLidar] = "ready"]
  /\ rd' = [rd EXCEPT ![pLidar] = 0]
  /\ wr' = [wr EXCEPT ![pLidar] = 0]
  /\ pPc' = "checkFull"
  /\ UNCHANGED <<hdr, pts, count, sampling, fresh, pLidar, pPkt, pSlot, store,
                 consVars, mainVars>>

\* Variant: a push that finds the ring full leaves the semaphore alone.
DropPacketQuietly ==
  /\ pPc = "checkFull"
  /\ QueueIsFull(rd[pLidar], wr[pLidar])
  /\ pPc' = "idle"
  /\ UNCHANGED <<ringVars, count, sampling, fresh, pLidar, pPkt, pSlot, store,
                 consVars, mainVars>>

\* A full ring keeps what it holds and drops the new packet.
DropPacket ==
  /\ pPc = "checkFull"
  /\ QueueIsFull(rd[pLidar], wr[pLidar])
  /\ pPc' = "readCount"
  /\ UNCHANGED <<ringVars, count, sampling, fresh, pLidar, pPkt, pSlot, store,
                 consVars, mainVars>>

\* QueuePushAny issues its stores: header, points, wr_idx.
QueuePushAny ==
  /\ pPc = "checkFull"
  /\ ~QueueIsFull(rd[pLidar], wr[pLidar])
  /\ pSlot' = Slot(wr[pLidar])
  /\ store' = {"hdr", "pts", "wr"}
  /\ pPc' = "checkEmpty"
  /\ UNCHANGED <<ringVars, count, sampling, fresh, pLidar, pPkt, consVars, mainVars>>

\* Variant: wr_idx is advanced before the slot is filled.
VisibleUnordered(s, before) ==
  /\ s \in store
  /\ store' = store \ {s}
  /\ UNCHANGED <<storage, rd, count, sampling, pPc, pLidar, pPkt, pSlot,
                 consVars, mainVars>>

\* A store of QueuePushAny becomes visible, in program order but on ARM.
Visible(s, before) ==
  /\ s \in store
  /\ Order = "arm" \/ store \cap before = {}
  /\ store' = store \ {s}
  /\ UNCHANGED <<storage, rd, count, sampling, pPc, pLidar, pPkt, pSlot,
                 consVars, mainVars>>

HdrVisible ==
  /\ Visible("hdr", {})
  /\ hdr' = [hdr EXCEPT ![pLidar][pSlot] = pPkt]
  /\ UNCHANGED <<pts, wr, fresh>>

PtsVisible ==
  /\ Visible("pts", {"hdr"})
  /\ pts' = [pts EXCEPT ![pLidar][pSlot] = pPkt]
  /\ UNCHANGED <<hdr, wr, fresh>>

WrVisible ==
  /\ Visible("wr", {"hdr", "pts"})
  /\ wr' = [wr EXCEPT ![pLidar] = Inc(@)]
  /\ fresh' = [fresh EXCEPT ![pLidar] = sampling[pLidar]]
  /\ UNCHANGED <<hdr, pts>>

\* Variant: the push does not look at the semaphore when the ring was empty.
CheckEmptyQuietly ==
  /\ pPc = "checkEmpty"
  /\ Order = "sc" => store = {}
  /\ pPc' = IF Used(rd[pLidar], OwnWr) <= 1 THEN "idle" ELSE "readCount"
  /\ UNCHANGED <<ringVars, count, sampling, fresh, pLidar, pPkt, pSlot, store,
                 consVars, mainVars>>

CheckEmpty ==
  /\ pPc = "checkEmpty"
  /\ Order = "sc" => store = {}
  /\ pPc' = IF QueueIsEmpty(rd[pLidar], OwnWr) THEN "idle" ELSE "readCount"
  /\ UNCHANGED <<ringVars, count, sampling, fresh, pLidar, pPkt, pSlot, store,
                 consVars, mainVars>>

\* GetCount takes no lock.
ReadCount ==
  /\ pPc = "readCount"
  /\ pPc' = IF count <= 0 THEN "signal" ELSE "idle"
  /\ UNCHANGED <<ringVars, count, sampling, fresh, pLidar, pPkt, pSlot, store,
                 consVars, mainVars>>

\* Signal locks the semaphore's mutex: the stores before it are visible.
Signal ==
  /\ pPc = "signal"
  /\ store = {}
  /\ count' = count + 1
  /\ pPc' = "idle"
  /\ UNCHANGED <<ringVars, sampling, fresh, pLidar, pPkt, pSlot, store,
                 consVars, mainVars>>

-----------------------------------------------------------------------------
(* The point-cloud poll thread.                                            *)

consKeeps == <<storage, hdr, pts, wr, sampling, fresh, prodVars, mainVars>>

\* The early return of DistributePointCloudData leaves the wait out.
DistributePointCloudData ==
  /\ cPc = "start"
  /\ cPc' = IF exit THEN "future" ELSE "wait"
  /\ UNCHANGED <<consKeeps, rd, count, cLidar, cHdr, cPts, out>>

Wait ==
  /\ cPc = "wait"
  /\ count > 0
  /\ count' = count - 1
  /\ cLidar' = 0
  /\ cPc' = "lidar"
  /\ UNCHANGED <<consKeeps, rd, cHdr, cPts, out>>

\* The loop over the lidars passes by those that are not Sampling or have no ring.
VisitLidar ==
  /\ cPc = "lidar"
  /\ cLidar < NumLidars
  /\ IF sampling[cLidar] /\ storage[cLidar] # "null"
     THEN cPc' = "poll" /\ UNCHANGED cLidar
     ELSE cPc' = "lidar" /\ cLidar' = cLidar + 1
  /\ UNCHANGED <<consKeeps, rd, count, cHdr, cPts, out>>

\* Variant: the pass takes its wake-up, and all later ones, when it ends.
EndOfPassResets ==
  /\ cPc = "lidar"
  /\ cLidar = NumLidars
  /\ cPc' = "future"
  /\ count' = 0
  /\ UNCHANGED <<consKeeps, rd, cLidar, cHdr, cPts, out>>

EndOfPass ==
  /\ cPc = "lidar"
  /\ cLidar = NumLidars
  /\ cPc' = "future"
  /\ UNCHANGED <<consKeeps, rd, count, cLidar, cHdr, cPts, out>>

\* Outer loop of PollingLidarPointCloudData.
Poll ==
  /\ cPc = "poll"
  /\ IF exit \/ QueueIsEmpty(rd[cLidar], wr[cLidar])
     THEN cPc' = "lidar" /\ cLidar' = cLidar + 1
     ELSE cPc' = "drain" /\ UNCHANGED cLidar
  /\ UNCHANGED <<consKeeps, rd, count, cHdr, cPts, out>>

\* Loop of PublishCustomPointcloud, which does not look at the exit request.
Drain ==
  /\ cPc = "drain"
  /\ cPc' = IF QueueIsEmpty(rd[cLidar], wr[cLidar]) THEN "poll" ELSE "readHdr"
  /\ UNCHANGED <<consKeeps, rd, count, cLidar, cHdr, cPts, out>>

\* QueuePrePop copies the header, then the points.
ReadHdr ==
  /\ cPc = "readHdr"
  /\ cHdr' = hdr[cLidar][Slot(rd[cLidar])]
  /\ cPc' = "readPts"
  /\ UNCHANGED <<consKeeps, rd, count, cLidar, cPts, out>>

ReadPts ==
  /\ cPc = "readPts"
  /\ cPts' = pts[cLidar][Slot(rd[cLidar])]
  /\ cPc' = "popUpdate"
  /\ UNCHANGED <<consKeeps, rd, count, cLidar, cHdr, out>>

\* Variant: popping empties the ring.
QueuePopUpdateAll ==
  /\ cPc = "popUpdate"
  /\ rd' = [rd EXCEPT ![cLidar] = wr[cLidar]]
  /\ cPc' = "publish"
  /\ UNCHANGED <<consKeeps, count, cLidar, cHdr, cPts, out>>

QueuePopUpdate ==
  /\ cPc = "popUpdate"
  /\ rd' = [rd EXCEPT ![cLidar] = Inc(@)]
  /\ cPc' = "publish"
  /\ UNCHANGED <<consKeeps, count, cLidar, cHdr, cPts, out>>

\* A packet read half from one frame and half from another is no packet.
Whole(h, p) == IF h = p THEN p ELSE NoPacket

Publish ==
  /\ cPc = "publish"
  /\ cPc' = "drain"
  /\ out' = IF cPts \in EmptyPacket THEN out ELSE <<cLidar, Whole(cHdr, cPts)>>
  /\ UNCHANGED <<consKeeps, rd, count, cLidar, cHdr, cPts>>

\* The poll loop of the thread ends once the promise has its value.
FutureWait ==
  /\ cPc = "future"
  /\ cPc' = IF promise THEN "done" ELSE "start"
  /\ UNCHANGED <<consKeeps, rd, count, cLidar, cHdr, cPts, out>>

-----------------------------------------------------------------------------
(* The destructor of DriverNode, and the configuration of the lidars.      *)

mainKeeps == <<ringVars, count, sampling, fresh, prodVars, consVars>>

RequestExit ==
  /\ mPc = "running"
  /\ exit' = TRUE
  /\ mPc' = "setValue"
  /\ UNCHANGED <<mainKeeps, promise>>

SetValue ==
  /\ mPc = "setValue"
  /\ promise' = TRUE
  /\ mPc' = "join"
  /\ UNCHANGED <<mainKeeps, exit>>

Join ==
  /\ mPc = "join"
  /\ cPc = "done"
  /\ mPc' = "joined"
  /\ UNCHANGED <<mainKeeps, exit, promise>>

\* The last configuration key of a lidar is acknowledged (LidarConfig).
BecomeSampling(l) ==
  /\ ~sampling[l]
  /\ sampling' = [sampling EXCEPT ![l] = TRUE]
  /\ UNCHANGED <<ringVars, count, fresh, prodVars, consVars, mainVars>>

-----------------------------------------------------------------------------
Push ==
  \/ InitQueueStorage \/ InitQueueIndices
  \/ DropPacket \/ QueuePushAny
  \/ HdrVisible \/ PtsVisible \/ WrVisible
  \/ CheckEmpty \/ ReadCount \/ Signal

PointCloudDataPollThread ==
  \/ DistributePointCloudData \/ Wait
  \/ VisitLidar \/ EndOfPass \/ Poll \/ Drain
  \/ ReadHdr \/ ReadPts \/ QueuePopUpdate \/ Publish
  \/ FutureWait

Destroy == SetValue \/ Join

Arrive == \E l \in Lidars, p \in Packet : StoragePointData(l, p)

Next ==
  \/ Arrive
  \/ Push
  \/ PointCloudDataPollThread
  \/ RequestExit \/ Destroy
  \/ \E l \in Lidars : BecomeSampling(l)

Spec == Init /\ [][Next]_vars

\* The threads run; the lidars may fall silent and nobody need ask for the end.
FairSpec ==
  Spec /\ WF_vars(Push) /\ WF_vars(PointCloudDataPollThread) /\ WF_vars(Destroy)

-----------------------------------------------------------------------------
(* Properties.                                                             *)

Places ==
  [push |-> {"idle", "alloc", "initIdx", "checkFull", "checkEmpty", "readCount", "signal"},
   poll |-> {"start", "wait", "lidar", "poll", "drain", "readHdr", "readPts",
             "popUpdate", "publish", "future", "done"},
   main |-> {"running", "setValue", "join", "joined"}]

\* Every variable has its type; the poll thread's loop index ends at lidar_count_.
TypeOK ==
  /\ storage \in [Lidars -> {"null", "raw", "ready"}]
  /\ hdr \in [Lidars -> [Slots -> Content]]
  /\ pts \in [Lidars -> [Slots -> Content]]
  /\ rd \in [Lidars -> Idx]
  /\ wr \in [Lidars -> Idx]
  /\ count \in Nat
  /\ sampling \in [Lidars -> BOOLEAN]
  /\ fresh \in [Lidars -> BOOLEAN]
  /\ pPc \in Places.push
  /\ pLidar \in Lidars \cup {0}
  /\ pPkt \in Content
  /\ pSlot \in Slots
  /\ store \subseteq {"hdr", "pts", "wr"}
  /\ cPc \in Places.poll
  /\ cLidar \in 0 .. NumLidars
  /\ cHdr \in Content
  /\ cPts \in Content
  /\ out \in {<<>>} \cup (Lidars \X Content)
  /\ exit \in BOOLEAN
  /\ promise \in BOOLEAN
  /\ mPc \in Places.main

\* The producer of a frame looks at the semaphore without its lock and then
\* signals, yet the count never exceeds one, so a pass of the poll thread is
\* never followed by a second one over rings that nobody filled since.
SemaphoreBinary == count <= 1

\* The number of used slots, computed modulo 2^32 from two indices that two
\* threads advance, never exceeds the ring, also when the indices wrap.
NoOverrun == \A l \in Lidars : Used(rd[l], wr[l]) <= QueueSize

\* While the poll thread copies a slot the pushing thread has no store to that
\* slot under way: the copy without a lock is safe where stores keep their order.
NoSlotRace ==
  (/\ Order # "arm"
   /\ store \cap {"hdr", "pts"} # {}
   /\ cPc \in {"readHdr", "readPts", "popUpdate"}
   /\ cLidar = pLidar) => Slot(rd[cLidar]) # pSlot

\* The poll thread never publishes the header of one frame with the points of
\* another, or a slot never written.  On a machine that reorders stores this is
\* not so: nothing in ldq.cpp orders the copy before wr_idx++.
NoTornPacket ==
  (Order # "arm" /\ cPc = "publish") => cHdr = cPts /\ cPts \in Packet

\* The poll thread never sleeps over a packet that was pushed while its lidar
\* was Sampling: GetCount without the lock cannot lose the wake-up, as long as
\* the store of wr_idx is visible before count_ is read.
NoLostWakeup ==
  (Order = "sc" /\ ~exit /\ cPc = "wait" /\ count = 0 /\ pPc = "idle" /\ store = {})
    => \A l \in Lidars :
         sampling[l] /\ fresh[l] => QueueIsEmpty(rd[l], wr[l])

\* The frames a lidar's channel holds: the popped one, then the ring's, oldest first.
Inflight(l) ==
  IF cPc = "publish" /\ cLidar = l THEN <<Whole(cHdr, cPts)>> ELSE <<>>

InRing(l) ==
  [i \in 1 .. Used(rd[l], wr[l]) |->
     LET k == Slot(rd[l] + i - 1) IN Whole(hdr[l][k], pts[l][k])]

Channel == INSTANCE PointChannel
  WITH pending <- [l \in Lidars |-> Inflight(l) \o InRing(l)],
       Capacity <- QueueSize + 1

\* The two unlocked threads together are a bounded FIFO of whole frames per lidar.
ImplementsChannel == Channel!Spec

\* Assumption on speed: the poll thread comes to the end of its passes, so no
\* lidar refills its ring for ever faster than the thread drains it.
KeepsUp == []<>(cPc \in {"start", "wait", "future", "done"})

\* A packet pushed while its lidar was Sampling leaves the ring even if no lidar
\* ever sends again, unless the end is requested: again as long as the store of
\* wr_idx is visible before count_ is read.  Where it may come later the poll thread
\* takes the wake-up, finds the ring still empty and sleeps over the packet.
PushedIsDelivered ==
  Order = "sc" /\ KeepsUp => \A l \in Lidars :
    (sampling[l] /\ fresh[l] /\ ~QueueIsEmpty(rd[l], wr[l]))
      ~> (QueueIsEmpty(rd[l], wr[l]) \/ exit)

\* Some lidar goes on sending, be its packets pushed or dropped.
Streaming == []<>(pPc = "checkFull")

\* While a lidar sends, the destructor's join returns: also a push that finds its
\* ring full raises the semaphore the poll thread may be waiting for.
ShutdownCompletes == KeepsUp /\ Streaming => (exit ~> (mPc = "joined"))
=============================================================================
