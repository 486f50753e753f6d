--------------------------- MODULE PointPipe_proof ---------------------------
(***************************************************************************)
(* The safety properties of PointPipe and its refinement of PointChannel,  *)
(* for every number of lidars, every ring size and every width of the      *)
(* indices.                                                                *)
(***************************************************************************)
EXTENDS PointPipe, SequenceTheorems, TLAPS

\* Arithmetic of the wrapping indices.
LEMMA ModFacts == IdxMod \in Nat /\ IdxMod > QueueSize /\ QueueSize \in Nat /\ QueueSize > 0
<1>1. QueueSize \in Nat /\ QueueSize >= 1 /\ Laps \in Nat /\ Laps >= 2
  BY SizeAssumption
<1>2. QueueSize * Laps >= QueueSize * 2
  BY <1>1
<1>3. QueueSize * Laps \in Nat
  BY <1>1
<1> QED BY <1>1, <1>2, <1>3 DEF IdxMod

LEMMA IncFact ==
  ASSUME NEW i \in Idx
  PROVE  Inc(i) \in Idx /\ Inc(i) = IF i = IdxMod - 1 THEN 0 ELSE i + 1
BY ModFacts DEF Idx, Inc

LEMMA UsedFact ==
  ASSUME NEW r \in Idx, NEW w \in Idx
  PROVE  /\ Used(r, w) \in Nat
         /\ Used(r, w) = IF w >= r THEN w - r ELSE w - r + IdxMod
BY ModFacts DEF Idx, Used

LEMMA SlotFact ==
  ASSUME NEW i \in Idx
  PROVE  Slot(i) \in Slots
BY ModFacts DEF Idx, Slot, Slots

LEMMA NoMultipleBelow ==
  ASSUME NEW s \in Nat \ {0}, NEW m \in Int, s * m > 0
  PROVE  s * m >= s
<1>1. m >= 1
  <2>1. SUFFICES ASSUME m <= 0 PROVE FALSE
    OBVIOUS
  <2>2. s * m <= 0
    BY <2>1
  <2> QED BY <2>2
<1>2. s * m = s + s * (m - 1)
  OBVIOUS
<1>3. s * (m - 1) >= 0
  BY <1>1
<1> QED BY <1>2, <1>3

\* Two indices less than a ring apart have different slots.
LEMMA SlotApart ==
  ASSUME NEW i \in Idx, NEW j \in Idx, Used(i, j) # 0, Used(i, j) < QueueSize
  PROVE  Slot(i) # Slot(j)
<1> DEFINE d == Used(i, j)
           qi == i \div QueueSize
           qj == j \div QueueSize
<1>1. QueueSize \in Nat \ {0} /\ Laps \in Nat /\ i \in Int /\ j \in Int
  BY SizeAssumption, ModFacts DEF Idx
<1>2. i = QueueSize * qi + Slot(i) /\ qi \in Int
  BY <1>1 DEF Slot
<1>3. j = QueueSize * qj + Slot(j) /\ qj \in Int
  BY <1>1 DEF Slot
<1>4. d \in Nat /\ (d = j - i \/ d = j - i + IdxMod)
  BY UsedFact
<1> SUFFICES ASSUME Slot(i) = Slot(j) PROVE FALSE
  OBVIOUS
<1>5. j - i = QueueSize * qj - QueueSize * qi
  <2> HIDE DEF qi, qj
  <2>1. Slot(i) \in Int
    BY SlotFact, ModFacts DEF Slots
  <2> QED BY <1>1, <1>2, <1>3, <2>1
<1>6. j - i = QueueSize * (qj - qi)
  <2> HIDE DEF qi, qj
  <2> QED BY <1>1, <1>2, <1>3, <1>5
<1>7. CASE d = j - i
  <2> HIDE DEF d, qi, qj
  <2>1. QueueSize * (qj - qi) > 0
    BY <1>4, <1>6, <1>7 DEF d
  <2>2. QueueSize * (qj - qi) >= QueueSize
    BY <1>1, <1>2, <1>3, <2>1, NoMultipleBelow
  <2> QED BY <1>1, <1>6, <1>7, <2>2 DEF d
<1>8. CASE d = j - i + IdxMod
  <2> HIDE DEF d, qi, qj
  <2>1. d = QueueSize * (qj - qi + Laps)
    BY <1>1, <1>2, <1>3, <1>6, <1>8 DEF IdxMod
  <2>2. QueueSize * (qj - qi + Laps) > 0
    BY <2>1, <1>4 DEF d
  <2>3. QueueSize * (qj - qi + Laps) >= QueueSize
    BY <1>1, <1>2, <1>3, <2>2, NoMultipleBelow
  <2> QED BY <1>1, <1>4, <2>1, <2>3 DEF d
<1> QED BY <1>4, <1>7, <1>8
-----------------------------------------------------------------------------
(* Types.                                                                  *)

InLoop == {"poll", "drain", "readHdr", "readPts", "popUpdate", "publish"}

\* Both threads work on a lidar that exists.
LidarInv ==
  /\ (pPc # "idle" \/ store # {}) => pLidar \in Lidars /\ pPkt \in Packet
  /\ cPc \in InLoop => cLidar \in Lidars

TypeInv == TypeOK /\ LidarInv

LEMMA TypeInvariant == Spec => []TypeInv
<1>1. Init => TypeInv
  <2>1. 0 \in Idx /\ 0 \in Slots /\ 0 \in 0 .. NumLidars
    BY ModFacts, LidarAssumption DEF Idx, Slots
  <2>2. Init => TypeOK
    <3> SUFFICES ASSUME Init PROVE TypeOK
      OBVIOUS
    <3>1. /\ storage \in [Lidars -> {"null", "raw", "ready"}]
          /\ hdr \in [Lidars -> [Slots -> Content]]
          /\ pts \in [Lidars -> [Slots -> Content]]
      BY DEF Init, Content
    <3>2. rd \in [Lidars -> Idx] /\ wr \in [Lidars -> Idx]
      BY <2>1 DEF Init
    <3>3. sampling \in [Lidars -> BOOLEAN] /\ fresh \in [Lidars -> BOOLEAN]
      BY DEF Init
    <3>4. out \in {<<>>} \cup (Lidars \X Content)
      BY DEF Init
    <3> QED BY <2>1, <3>1, <3>2, <3>3, <3>4 DEF Init, TypeOK, Places, Content
  <2>3. Init => LidarInv
    BY DEF Init, LidarInv, InLoop
  <2> QED BY <2>2, <2>3 DEF TypeInv
<1>2. TypeInv /\ [Next]_vars => TypeInv'
  <2> SUFFICES ASSUME TypeInv, [Next]_vars PROVE TypeInv'
    OBVIOUS
  <2> USE ModFacts, LidarAssumption, PacketAssumption
      DEF TypeInv, LidarInv, TypeOK, InLoop, ringVars, prodVars, consVars, mainVars, mainKeeps, consKeeps
  <2>1. ASSUME NEW l \in Lidars, NEW p \in Packet, StoragePointData(l, p) PROVE TypeInv'
    BY <2>1 DEF StoragePointData, Places, Content
  <2>2. CASE InitQueueStorage
    BY <2>2 DEF InitQueueStorage, Places, Content, Lidars, Whole
  <2>3. CASE InitQueueIndices
    <3>1. 0 \in Idx
      BY DEF Idx
    <3> QED BY <2>3, <3>1 DEF InitQueueIndices, Places
  <2>4. CASE DropPacket
    BY <2>4 DEF DropPacket, Places, Content, Lidars, Whole
  <2>5. CASE QueuePushAny
    BY <2>5, SlotFact DEF QueuePushAny, Places
  <2>6. CASE HdrVisible
    BY <2>6 DEF HdrVisible, Visible, Places, Content, Lidars, Whole
  <2>7. CASE PtsVisible
    BY <2>7 DEF PtsVisible, Visible, Places, Content, Lidars, Whole
  <2>8. CASE WrVisible
    BY <2>8, IncFact DEF WrVisible, Visible
  <2>9. CASE CheckEmpty
    BY <2>9 DEF CheckEmpty, Places, Content, Lidars, Whole
  <2>10. CASE ReadCount
    BY <2>10 DEF ReadCount, Places, Content, Lidars, Whole
  <2>11. CASE Signal
    BY <2>11 DEF Signal, Places, Content, Lidars, Whole
  <2>12. CASE DistributePointCloudData
    BY <2>12 DEF DistributePointCloudData, Places, Content, Lidars, Whole
  <2>13. CASE Wait
    BY <2>13 DEF Wait, Places, Content, Lidars, Whole
  <2>14. CASE VisitLidar
    BY <2>14 DEF VisitLidar, Places, Content, Lidars, Whole
  <2>15. CASE EndOfPass
    BY <2>15 DEF EndOfPass, Places, Content, Lidars, Whole
  <2>16. CASE Poll
    BY <2>16 DEF Poll, Places, Content, Lidars, Whole
  <2>17. CASE Drain
    BY <2>17 DEF Drain, Places, Content, Lidars, Whole
  <2>18. CASE ReadHdr
    BY <2>18, SlotFact DEF ReadHdr, Places
  <2>19. CASE ReadPts
    BY <2>19, SlotFact DEF ReadPts, Places
  <2>20. CASE QueuePopUpdate
    BY <2>20, IncFact DEF QueuePopUpdate, Places
  <2>21. CASE Publish
    BY <2>21 DEF Publish, Places, Content, Lidars, Whole
  <2>22. CASE FutureWait
    BY <2>22 DEF FutureWait, Places, Content, Lidars, Whole
  <2>23. CASE RequestExit
    BY <2>23 DEF RequestExit, Places, Content, Lidars, Whole
  <2>24. CASE SetValue
    BY <2>24 DEF SetValue, Places, Content, Lidars, Whole
  <2>25. CASE Join
    BY <2>25 DEF Join, Places, Content, Lidars, Whole
  <2>26. ASSUME NEW l \in Lidars, BecomeSampling(l) PROVE TypeInv'
    BY <2>26 DEF BecomeSampling, Places, Content, Lidars, Whole
  <2>27. CASE UNCHANGED vars
    BY <2>27 DEF vars, Places, Content, Lidars, Whole
  <2> QED
    BY <2>1, <2>2, <2>3, <2>4, <2>5, <2>6, <2>7, <2>8, <2>9, <2>10, <2>11, <2>12, <2>13, <2>14, <2>15, <2>16, <2>17, <2>18, <2>19, <2>20, <2>21, <2>22, <2>23, <2>24, <2>25, <2>26, <2>27
    DEF Next, Arrive, Push, PointCloudDataPollThread, Destroy
<1> QED BY <1>1, <1>2, PTL DEF Spec

\* Every reachable state has the declared types, the loop index of the poll
\* thread and the wrapping indices of the rings included.
THEOREM TypeCorrect == Spec => []TypeOK
BY TypeInvariant, PTL DEF TypeInv

-----------------------------------------------------------------------------
(* The rings.                                                              *)

\* Advancing one index changes the distance of two by one.
LEMMA UsedStep ==
  ASSUME NEW r \in Idx, NEW w \in Idx
  PROVE  /\ Used(r, w) < QueueSize => Used(r, Inc(w)) = Used(r, w) + 1
         /\ r # w => Used(Inc(r), w) = Used(r, w) - 1
         /\ Used(r, w) = 0 <=> r = w
<1>1. Inc(r) \in Idx /\ Inc(w) \in Idx
  BY IncFact
<1>2. /\ Inc(r) = IF r = IdxMod - 1 THEN 0 ELSE r + 1
      /\ Inc(w) = IF w = IdxMod - 1 THEN 0 ELSE w + 1
  BY IncFact
<1>3. Used(r, w) = IF w >= r THEN w - r ELSE w - r + IdxMod
  BY UsedFact
<1>4. Used(r, Inc(w)) = IF Inc(w) >= r THEN Inc(w) - r ELSE Inc(w) - r + IdxMod
  BY <1>1, UsedFact
<1>5. Used(Inc(r), w) = IF w >= Inc(r) THEN w - Inc(r) ELSE w - Inc(r) + IdxMod
  BY <1>1, UsedFact
<1> QED BY <1>1, <1>2, <1>3, <1>4, <1>5, ModFacts DEF Idx

\* The indices of a ring, whatever the order of the stores: the slots in use
\* are at most all of them, and while wr_idx is about to advance there is room.
RingInv ==
  /\ \A l \in Lidars : Used(rd[l], wr[l]) <= QueueSize
  /\ \A l \in Lidars : storage[l] # "ready" => rd[l] = 0 /\ wr[l] = 0
  /\ pPc = "alloc" => storage[pLidar] = "null"
  /\ pPc = "initIdx" => storage[pLidar] = "raw"
  /\ \A l \in Lidars : storage[l] = "raw" => pPc = "initIdx" /\ pLidar = l
  /\ (pPc \in {"checkFull", "checkEmpty", "readCount", "signal"} \/ store # {})
       => storage[pLidar] = "ready"
  /\ pPc \in {"alloc", "initIdx", "checkFull"} => store = {}
  /\ "wr" \in store => /\ Used(rd[pLidar], wr[pLidar]) < QueueSize
                       /\ pSlot = Slot(wr[pLidar])
  /\ cPc \in {"readHdr", "readPts", "popUpdate"} => rd[cLidar] # wr[cLidar]

LEMMA RingInvariant == Spec => []RingInv
<1>1. Init => RingInv
  <2>1. 0 \in Idx /\ Used(0, 0) = 0
    BY ModFacts, UsedFact DEF Idx
  <2> QED BY <2>1, ModFacts DEF Init, RingInv
<1>2. TypeInv /\ RingInv /\ [Next]_vars => RingInv'
  <2> SUFFICES ASSUME TypeInv, RingInv, [Next]_vars PROVE RingInv'
    OBVIOUS
  <2> USE ModFacts, LidarAssumption
      DEF TypeInv, LidarInv, TypeOK, RingInv, InLoop, ringVars, prodVars, consVars, mainVars, mainKeeps, consKeeps
  <2>1. ASSUME NEW l \in Lidars, NEW p \in Packet, StoragePointData(l, p) PROVE RingInv'
    BY <2>1 DEF StoragePointData
  <2>2. CASE InitQueueStorage
    BY <2>2 DEF InitQueueStorage
  <2>3. CASE InitQueueIndices
    <3>1. rd' = rd /\ wr' = wr
      BY <2>3 DEF InitQueueIndices
    <3> QED BY <2>3, <3>1 DEF InitQueueIndices
  <2>4. CASE DropPacket
    BY <2>4 DEF DropPacket
  <2>5. CASE QueuePushAny
    <3>1. Used(rd[pLidar], wr[pLidar]) < QueueSize
      BY <2>5, UsedFact DEF QueuePushAny, QueueIsFull
    <3> QED BY <2>5, <3>1 DEF QueuePushAny
  <2>6. CASE HdrVisible
    BY <2>6 DEF HdrVisible, Visible
  <2>7. CASE PtsVisible
    BY <2>7 DEF PtsVisible, Visible
  <2>8. CASE WrVisible
    <3>1. Used(rd[pLidar], wr'[pLidar]) = Used(rd[pLidar], wr[pLidar]) + 1
      BY <2>8, UsedStep DEF WrVisible, Visible
    <3>2. cPc \in {"readHdr", "readPts", "popUpdate"} => rd[cLidar] # wr'[cLidar]
      <4>1. rd[pLidar] # wr'[pLidar]
        BY <2>8, <3>1, UsedStep, UsedFact, IncFact DEF WrVisible, Visible
      <4> QED BY <2>8, <4>1 DEF WrVisible, Visible
    <3>3. ASSUME NEW l \in Lidars PROVE Used(rd[l], wr'[l]) <= QueueSize
      <4>1. CASE l = pLidar
        BY <2>8, <3>1, <4>1, UsedFact DEF WrVisible, Visible
      <4>2. CASE l # pLidar
        BY <2>8, <4>2 DEF WrVisible, Visible
      <4> QED BY <4>1, <4>2
    <3> QED BY <2>8, <3>2, <3>3 DEF WrVisible, Visible
  <2>9. CASE CheckEmpty
    BY <2>9 DEF CheckEmpty
  <2>10. CASE ReadCount
    BY <2>10 DEF ReadCount
  <2>11. CASE Signal
    BY <2>11 DEF Signal
  <2>12. CASE DistributePointCloudData
    BY <2>12 DEF DistributePointCloudData
  <2>13. CASE Wait
    BY <2>13 DEF Wait
  <2>14. CASE VisitLidar
    BY <2>14 DEF VisitLidar
  <2>15. CASE EndOfPass
    BY <2>15 DEF EndOfPass
  <2>16. CASE Poll
    BY <2>16 DEF Poll
  <2>17. CASE Drain
    BY <2>17 DEF Drain, QueueIsEmpty
  <2>18. CASE ReadHdr
    BY <2>18 DEF ReadHdr
  <2>19. CASE ReadPts
    BY <2>19 DEF ReadPts
  <2>20. CASE QueuePopUpdate
    <3>1. /\ cLidar \in Lidars
          /\ Used(rd'[cLidar], wr[cLidar]) = Used(rd[cLidar], wr[cLidar]) - 1
      BY <2>20, UsedStep DEF QueuePopUpdate
    <3>2. ASSUME NEW l \in Lidars PROVE Used(rd'[l], wr[l]) <= Used(rd[l], wr[l])
      <4>1. CASE l = cLidar
        BY <3>1, <4>1, UsedFact
      <4>2. CASE l # cLidar
        BY <2>20, <4>2, UsedFact DEF QueuePopUpdate
      <4> QED BY <4>1, <4>2
    <3>3. ASSUME NEW l \in Lidars
          PROVE  rd'[l] \in Idx /\ Used(rd[l], wr[l]) \in Nat /\ Used(rd'[l], wr[l]) \in Nat
      BY <2>20, IncFact, UsedFact DEF QueuePopUpdate
    <3>4. /\ "wr" \in store => Used(rd'[pLidar], wr[pLidar]) < QueueSize
          /\ \A l \in Lidars : Used(rd'[l], wr[l]) <= QueueSize
      BY <3>2, <3>3
    <3>5. storage[cLidar] = "ready"
      BY <2>20 DEF QueuePopUpdate
    <3> QED BY <2>20, <3>4, <3>5 DEF QueuePopUpdate
  <2>21. CASE Publish
    BY <2>21 DEF Publish
  <2>22. CASE FutureWait
    BY <2>22 DEF FutureWait
  <2>23. CASE RequestExit
    BY <2>23 DEF RequestExit
  <2>24. CASE SetValue
    BY <2>24 DEF SetValue
  <2>25. CASE Join
    BY <2>25 DEF Join
  <2>26. ASSUME NEW l \in Lidars, BecomeSampling(l) PROVE RingInv'
    BY <2>26 DEF BecomeSampling
  <2>27. CASE UNCHANGED vars
    BY <2>27 DEF vars
  <2> QED
    BY <2>1, <2>2, <2>3, <2>4, <2>5, <2>6, <2>7, <2>8, <2>9, <2>10, <2>11, <2>12, <2>13, <2>14, <2>15, <2>16, <2>17, <2>18, <2>19, <2>20, <2>21, <2>22, <2>23, <2>24, <2>25, <2>26, <2>27
    DEF Next, Arrive, Push, PointCloudDataPollThread, Destroy
<1> QED BY <1>1, <1>2, TypeInvariant, PTL DEF Spec

\* The number of used slots that two unsynchronised threads compute from their
\* wrapping indices never exceeds the ring, for every ring size and index width
\* and also where the stores are reordered.
THEOREM RingNeverOverrun == Spec => []NoOverrun
BY RingInvariant, PTL DEF RingInv, NoOverrun

-----------------------------------------------------------------------------
(* The semaphore.                                                          *)

\* Only the pushing thread raises the count, and it saw zero before it did.
SemInv == count <= 1 /\ (pPc = "signal" => count = 0)

\* GetCount reads the count without the lock, and yet the semaphore is binary:
\* a burst of pushes never leaves the poll thread more than one pass to make.
THEOREM SemaphoreIsBinary == Spec => []SemaphoreBinary
<1>1. Init => SemInv
  BY DEF Init, SemInv
<1>2. TypeInv /\ SemInv /\ [Next]_vars => SemInv'
  <2> SUFFICES ASSUME TypeInv, SemInv, [Next]_vars PROVE SemInv'
    OBVIOUS
  <2> USE DEF TypeInv, TypeOK, SemInv, ringVars, prodVars, consVars, mainVars, mainKeeps, consKeeps
  <2>1. ASSUME NEW l \in Lidars, NEW p \in Packet, StoragePointData(l, p) PROVE SemInv'
    BY <2>1 DEF StoragePointData
  <2>2. CASE InitQueueStorage
    BY <2>2 DEF InitQueueStorage
  <2>3. CASE InitQueueIndices
    BY <2>3 DEF InitQueueIndices
  <2>4. CASE DropPacket
    BY <2>4 DEF DropPacket
  <2>5. CASE QueuePushAny
    BY <2>5 DEF QueuePushAny
  <2>6. CASE HdrVisible
    BY <2>6 DEF HdrVisible, Visible
  <2>7. CASE PtsVisible
    BY <2>7 DEF PtsVisible, Visible
  <2>8. CASE WrVisible
    BY <2>8 DEF WrVisible, Visible
  <2>9. CASE CheckEmpty
    BY <2>9 DEF CheckEmpty
  <2>10. CASE ReadCount
    BY <2>10 DEF ReadCount
  <2>11. CASE Signal
    BY <2>11 DEF Signal
  <2>12. CASE DistributePointCloudData
    BY <2>12 DEF DistributePointCloudData
  <2>13. CASE Wait
    BY <2>13 DEF Wait
  <2>14. CASE VisitLidar
    BY <2>14 DEF VisitLidar
  <2>15. CASE EndOfPass
    BY <2>15 DEF EndOfPass
  <2>16. CASE Poll
    BY <2>16 DEF Poll
  <2>17. CASE Drain
    BY <2>17 DEF Drain
  <2>18. CASE ReadHdr
    BY <2>18 DEF ReadHdr
  <2>19. CASE ReadPts
    BY <2>19 DEF ReadPts
  <2>20. CASE QueuePopUpdate
    BY <2>20 DEF QueuePopUpdate
  <2>21. CASE Publish
    BY <2>21 DEF Publish
  <2>22. CASE FutureWait
    BY <2>22 DEF FutureWait
  <2>23. CASE RequestExit
    BY <2>23 DEF RequestExit
  <2>24. CASE SetValue
    BY <2>24 DEF SetValue
  <2>25. CASE Join
    BY <2>25 DEF Join
  <2>26. ASSUME NEW l \in Lidars, BecomeSampling(l) PROVE SemInv'
    BY <2>26 DEF BecomeSampling
  <2>27. CASE UNCHANGED vars
    BY <2>27 DEF vars
  <2> QED
    BY <2>1, <2>2, <2>3, <2>4, <2>5, <2>6, <2>7, <2>8, <2>9, <2>10, <2>11, <2>12, <2>13, <2>14, <2>15, <2>16, <2>17, <2>18, <2>19, <2>20, <2>21, <2>22, <2>23, <2>24, <2>25, <2>26, <2>27
    DEF Next, Arrive, Push, PointCloudDataPollThread, Destroy
<1>3. SemInv => SemaphoreBinary
  BY DEF SemInv, SemaphoreBinary
<1> QED BY <1>1, <1>2, <1>3, TypeInvariant, PTL DEF Spec

\* A packet in the ring of a Sampling lidar, pushed since it is Sampling, has
\* somebody who will come for it: a raised count, the pushing thread on its way
\* to raise it, or the poll thread in a pass that has not left that lidar.
Attended(l) ==
  \/ count > 0
  \/ pPc = "signal"
  \/ pLidar = l /\ pPc \in {"checkEmpty", "readCount"}
  \/ cPc \in InLoop \cup {"lidar"} /\ cLidar <= l

WakeInv ==
  /\ \A l \in Lidars : fresh[l] => storage[l] = "ready" /\ sampling[l]
  /\ Order = "sc" => /\ store # {} => pPc = "checkEmpty"
                     /\ ~exit => \A l \in Lidars :
                          sampling[l] /\ fresh[l] /\ rd[l] # wr[l] => Attended(l)

\* Where stores are visible at once, the poll thread never sleeps over a packet
\* pushed for a Sampling lidar.
THEOREM WakeupNeverLost == Spec => []NoLostWakeup
<1>1. Init => WakeInv
  BY DEF Init, WakeInv
<1>2. TypeInv /\ RingInv /\ WakeInv /\ [Next]_vars => WakeInv'
  <2> SUFFICES ASSUME TypeInv, RingInv, WakeInv, [Next]_vars PROVE WakeInv'
    OBVIOUS
  <2> USE DEF TypeInv, LidarInv, TypeOK, WakeInv, Attended, InLoop,
              ringVars, prodVars, consVars, mainVars, mainKeeps, consKeeps
  <2>1. ASSUME NEW l \in Lidars, NEW p \in Packet, StoragePointData(l, p) PROVE WakeInv'
    BY <2>1 DEF StoragePointData
  <2>2. CASE InitQueueStorage
    BY <2>2 DEF InitQueueStorage, RingInv
  <2>3. CASE InitQueueIndices
    <3>1. rd' = rd /\ wr' = wr
      BY <2>3 DEF InitQueueIndices, RingInv
    <3> QED BY <2>3, <3>1 DEF InitQueueIndices
  <2>4. CASE DropPacket
    BY <2>4 DEF DropPacket
  <2>5. CASE QueuePushAny
    BY <2>5 DEF QueuePushAny, RingInv
  <2>6. CASE HdrVisible
    BY <2>6 DEF HdrVisible, Visible
  <2>7. CASE PtsVisible
    BY <2>7 DEF PtsVisible, Visible
  <2>8. CASE WrVisible
    BY <2>8 DEF WrVisible, Visible, RingInv
  <2>9. CASE CheckEmpty
    BY <2>9 DEF CheckEmpty, QueueIsEmpty, OwnWr
  <2>10. CASE ReadCount
    BY <2>10 DEF ReadCount
  <2>11. CASE Signal
    BY <2>11 DEF Signal
  <2>12. CASE DistributePointCloudData
    BY <2>12 DEF DistributePointCloudData
  <2>13. CASE Wait
    BY <2>13, LidarAssumption DEF Wait, Lidars
  <2>14. CASE VisitLidar
    BY <2>14 DEF VisitLidar, Lidars
  <2>15. CASE EndOfPass
    BY <2>15, LidarAssumption DEF EndOfPass, Lidars
  <2>16. CASE Poll
    BY <2>16 DEF Poll, QueueIsEmpty, Lidars
  <2>17. CASE Drain
    BY <2>17 DEF Drain
  <2>18. CASE ReadHdr
    BY <2>18 DEF ReadHdr
  <2>19. CASE ReadPts
    BY <2>19 DEF ReadPts
  <2>20. CASE QueuePopUpdate
    BY <2>20, RingInvariant DEF QueuePopUpdate, RingInv
  <2>21. CASE Publish
    BY <2>21 DEF Publish
  <2>22. CASE FutureWait
    BY <2>22 DEF FutureWait
  <2>23. CASE RequestExit
    BY <2>23 DEF RequestExit
  <2>24. CASE SetValue
    BY <2>24 DEF SetValue
  <2>25. CASE Join
    BY <2>25 DEF Join
  <2>26. ASSUME NEW l \in Lidars, BecomeSampling(l) PROVE WakeInv'
    BY <2>26 DEF BecomeSampling
  <2>27. CASE UNCHANGED vars
    BY <2>27 DEF vars
  <2> QED
    BY <2>1, <2>2, <2>3, <2>4, <2>5, <2>6, <2>7, <2>8, <2>9, <2>10, <2>11, <2>12, <2>13, <2>14, <2>15, <2>16, <2>17, <2>18, <2>19, <2>20, <2>21, <2>22, <2>23, <2>24, <2>25, <2>26, <2>27
    DEF Next, Arrive, Push, PointCloudDataPollThread, Destroy
<1>3. WakeInv => NoLostWakeup
  BY DEF WakeInv, NoLostWakeup, Attended, InLoop, QueueIsEmpty
<1> QED BY <1>1, <1>2, <1>3, TypeInvariant, RingInvariant, PTL DEF Spec

-----------------------------------------------------------------------------
(* The contents of the slots, where stores keep their order.               *)

\* A slot in use other than that of index r is not the slot of index w.
LEMMA LiveSlot ==
  ASSUME NEW r \in Idx, NEW w \in Idx, NEW j \in Idx,
         Used(r, j) < Used(r, w), Used(r, w) < QueueSize
  PROVE  Slot(j) # Slot(w)
<1>1. Used(j, w) # 0 /\ Used(j, w) < QueueSize
  <2>1. /\ Used(r, w) = IF w >= r THEN w - r ELSE w - r + IdxMod
        /\ Used(r, j) = IF j >= r THEN j - r ELSE j - r + IdxMod
        /\ Used(j, w) = IF w >= j THEN w - j ELSE w - j + IdxMod
    BY UsedFact
  <2> QED BY <2>1, ModFacts DEF Idx
<1> QED BY <1>1, SlotApart

\* The index after the last used slot, and the first used slot once it is freed.
LEMMA LiveStep ==
  ASSUME NEW r \in Idx, NEW w \in Idx, NEW j \in Idx
  PROVE  /\ Used(r, w) < QueueSize /\ Used(r, j) < Used(r, Inc(w))
              => j = w \/ Used(r, j) < Used(r, w)
         /\ r # w /\ Used(r, w) <= QueueSize /\ Used(Inc(r), j) < Used(Inc(r), w)
              => Used(r, j) < Used(r, w)
         /\ r # w => Used(r, r) < Used(r, w)
<1>1. Inc(r) \in Idx /\ Inc(r) = IF r = IdxMod - 1 THEN 0 ELSE r + 1
  BY IncFact
<1>2. /\ Used(r, w) = IF w >= r THEN w - r ELSE w - r + IdxMod
      /\ Used(r, j) = IF j >= r THEN j - r ELSE j - r + IdxMod
      /\ Used(r, r) = 0
  BY UsedFact, ModFacts DEF Idx
<1>3. /\ Used(Inc(r), j) = IF j >= Inc(r) THEN j - Inc(r) ELSE j - Inc(r) + IdxMod
      /\ Used(Inc(r), w) = IF w >= Inc(r) THEN w - Inc(r) ELSE w - Inc(r) + IdxMod
  BY <1>1, UsedFact
<1>4. Used(r, w) < QueueSize => Used(r, Inc(w)) = Used(r, w) + 1
  BY UsedStep
<1> QED BY <1>1, <1>2, <1>3, <1>4, ModFacts DEF Idx

WholeSlot(l, k) == hdr[l][k] = pts[l][k] /\ pts[l][k] \in Packet

\* The slots in use hold whole packets, the slot about to be used fills up in
\* order, and the poll thread's copy is that of the oldest slot in use.
DataInv ==
  Order # "arm" =>
    /\ "pts" \in store => "wr" \in store
    /\ "hdr" \in store => "pts" \in store
    /\ "wr" \in store /\ "hdr" \notin store => hdr[pLidar][pSlot] = pPkt
    /\ "wr" \in store /\ "pts" \notin store => pts[pLidar][pSlot] = pPkt
    /\ \A l \in Lidars, j \in Idx :
         Used(rd[l], j) < Used(rd[l], wr[l]) => WholeSlot(l, Slot(j))
    /\ cPc \in {"readPts", "popUpdate"} => cHdr = hdr[cLidar][Slot(rd[cLidar])]
    /\ cPc = "popUpdate" => cPts = pts[cLidar][Slot(rd[cLidar])]
    /\ cPc = "publish" => cHdr = cPts /\ cPts \in Packet

\* A store to a slot spares the slots in use.
LEMMA StoreSpares ==
  ASSUME TypeInv, RingInv, "wr" \in store, NEW l \in Lidars, NEW j \in Idx,
         Used(rd[l], j) < Used(rd[l], wr[l])
  PROVE  l = pLidar => Slot(j) # pSlot
BY LiveSlot DEF TypeInv, TypeOK, RingInv

LEMMA DataInvariant == Spec => []DataInv
<1>1. Init => DataInv
  <2>1. 0 \in Idx /\ Used(0, 0) = 0
    BY ModFacts, UsedFact DEF Idx
  <2>2. \A j \in Idx : ~(Used(0, j) < 0)
    BY <2>1, UsedFact
  <2> QED BY <2>1, <2>2 DEF Init, DataInv
<1>2. TypeInv /\ RingInv /\ DataInv /\ [Next]_vars => DataInv'
  <2> SUFFICES ASSUME TypeInv, RingInv, DataInv, [Next]_vars PROVE DataInv'
    OBVIOUS
  <2> USE DEF TypeInv, LidarInv, TypeOK, DataInv, InLoop,
              ringVars, prodVars, consVars, mainVars, mainKeeps, consKeeps
  <2>1. ASSUME NEW l \in Lidars, NEW p \in Packet, StoragePointData(l, p) PROVE DataInv'
    BY <2>1 DEF StoragePointData, WholeSlot, RingInv
  <2>2. CASE InitQueueStorage
    BY <2>2 DEF InitQueueStorage, WholeSlot
  <2>3. CASE InitQueueIndices
    <3>1. rd' = rd /\ wr' = wr
      BY <2>3 DEF InitQueueIndices, RingInv
    <3> QED BY <2>3, <3>1 DEF InitQueueIndices, WholeSlot
  <2>4. CASE DropPacket
    BY <2>4 DEF DropPacket, WholeSlot
  <2>5. CASE QueuePushAny
    BY <2>5 DEF QueuePushAny, WholeSlot, RingInv
  <2>6. CASE HdrVisible
    <3> SUFFICES ASSUME Order # "arm" PROVE DataInv'
      OBVIOUS
    <3>1. "wr" \in store /\ pLidar \in Lidars /\ pPkt \in Packet /\ pSlot \in Slots
      BY <2>6 DEF HdrVisible, Visible
    <3>2. ASSUME NEW l \in Lidars, NEW j \in Idx, Used(rd[l], j) < Used(rd[l], wr[l])
          PROVE  hdr'[l][Slot(j)] = hdr[l][Slot(j)]
      BY <2>6, <3>1, <3>2, StoreSpares, SlotFact DEF HdrVisible
    <3>3. \A l \in Lidars, j \in Idx :
            Used(rd[l], j) < Used(rd[l], wr[l]) => WholeSlot(l, Slot(j))'
      BY <2>6, <3>2 DEF HdrVisible, Visible, WholeSlot
    <3>4. cPc \in {"readHdr", "readPts", "popUpdate"} =>
            hdr'[cLidar][Slot(rd[cLidar])] = hdr[cLidar][Slot(rd[cLidar])]
      BY <3>2, LiveStep DEF RingInv
    <3>5. hdr'[pLidar][pSlot] = pPkt
      BY <2>6, <3>1 DEF HdrVisible
    <3> QED BY <2>6, <3>1, <3>3, <3>4, <3>5 DEF HdrVisible, Visible
  <2>7. CASE PtsVisible
    <3> SUFFICES ASSUME Order # "arm" PROVE DataInv'
      OBVIOUS
    <3>1. "wr" \in store /\ pLidar \in Lidars /\ pPkt \in Packet /\ pSlot \in Slots
      BY <2>7 DEF PtsVisible, Visible
    <3>2. ASSUME NEW l \in Lidars, NEW j \in Idx, Used(rd[l], j) < Used(rd[l], wr[l])
          PROVE  pts'[l][Slot(j)] = pts[l][Slot(j)]
      BY <2>7, <3>1, <3>2, StoreSpares, SlotFact DEF PtsVisible
    <3>3. \A l \in Lidars, j \in Idx :
            Used(rd[l], j) < Used(rd[l], wr[l]) => WholeSlot(l, Slot(j))'
      BY <2>7, <3>2 DEF PtsVisible, Visible, WholeSlot
    <3>4. cPc \in {"readHdr", "readPts", "popUpdate"} =>
            pts'[cLidar][Slot(rd[cLidar])] = pts[cLidar][Slot(rd[cLidar])]
      BY <3>2, LiveStep DEF RingInv
    <3>5. pts'[pLidar][pSlot] = pPkt
      BY <2>7, <3>1 DEF PtsVisible
    <3> QED BY <2>7, <3>1, <3>3, <3>4, <3>5 DEF PtsVisible, Visible
  <2>8. CASE WrVisible
    <3> SUFFICES ASSUME Order # "arm" PROVE DataInv'
      OBVIOUS
    <3>0. store = {"wr"} /\ store' = {}
      <4>1. "wr" \in store /\ "hdr" \notin store /\ "pts" \notin store /\ store' = store \ {"wr"}
        BY <2>8 DEF WrVisible, Visible
      <4>2. store \subseteq {"hdr", "pts", "wr"}
        OBVIOUS
      <4> QED BY <4>1, <4>2
    <3>1. /\ store = {"wr"} /\ store' = {} /\ pLidar \in Lidars /\ pPkt \in Packet
          /\ pSlot = Slot(wr[pLidar]) /\ Used(rd[pLidar], wr[pLidar]) < QueueSize
      BY <2>8, <3>0 DEF WrVisible, Visible, RingInv
    <3>2. WholeSlot(pLidar, Slot(wr[pLidar]))
      BY <3>1 DEF WholeSlot
    <3>3. ASSUME NEW l \in Lidars, NEW j \in Idx, Used(rd[l], j) < Used(rd[l], wr'[l])
          PROVE  WholeSlot(l, Slot(j))
      <4>1. CASE l = pLidar
        BY <2>8, <3>1, <3>2, <3>3, <4>1, LiveStep DEF WrVisible
      <4>2. CASE l # pLidar
        BY <2>8, <3>3, <4>2 DEF WrVisible
      <4> QED BY <4>1, <4>2
    <3> QED BY <2>8, <3>1, <3>3 DEF WrVisible, Visible, WholeSlot
  <2>9. CASE CheckEmpty
    BY <2>9 DEF CheckEmpty, WholeSlot
  <2>10. CASE ReadCount
    BY <2>10 DEF ReadCount, WholeSlot
  <2>11. CASE Signal
    BY <2>11 DEF Signal, WholeSlot
  <2>12. CASE DistributePointCloudData
    BY <2>12 DEF DistributePointCloudData, WholeSlot
  <2>13. CASE Wait
    BY <2>13 DEF Wait, WholeSlot
  <2>14. CASE VisitLidar
    BY <2>14 DEF VisitLidar, WholeSlot
  <2>15. CASE EndOfPass
    BY <2>15 DEF EndOfPass, WholeSlot
  <2>16. CASE Poll
    BY <2>16 DEF Poll, WholeSlot
  <2>17. CASE Drain
    BY <2>17 DEF Drain, WholeSlot
  <2>18. CASE ReadHdr
    BY <2>18 DEF ReadHdr, WholeSlot
  <2>19. CASE ReadPts
    BY <2>19 DEF ReadPts, WholeSlot
  <2>20. CASE QueuePopUpdate
    <3> SUFFICES ASSUME Order # "arm" PROVE DataInv'
      OBVIOUS
    <3>1. /\ cLidar \in Lidars /\ rd[cLidar] # wr[cLidar]
          /\ Used(rd[cLidar], wr[cLidar]) <= QueueSize
      BY <2>20 DEF QueuePopUpdate, RingInv
    <3>2. WholeSlot(cLidar, Slot(rd[cLidar]))
      BY <3>1, LiveStep
    <3>3. cHdr = cPts /\ cPts \in Packet
      BY <2>20, <3>2 DEF QueuePopUpdate, WholeSlot
    <3>4. ASSUME NEW l \in Lidars, NEW j \in Idx, Used(rd'[l], j) < Used(rd'[l], wr[l])
          PROVE  WholeSlot(l, Slot(j))
      <4>1. CASE l = cLidar
        BY <2>20, <3>1, <3>4, <4>1, LiveStep DEF QueuePopUpdate
      <4>2. CASE l # cLidar
        BY <2>20, <3>4, <4>2 DEF QueuePopUpdate
      <4> QED BY <4>1, <4>2
    <3> QED BY <2>20, <3>3, <3>4 DEF QueuePopUpdate, WholeSlot
  <2>21. CASE Publish
    BY <2>21 DEF Publish, WholeSlot
  <2>22. CASE FutureWait
    BY <2>22 DEF FutureWait, WholeSlot
  <2>23. CASE RequestExit
    BY <2>23 DEF RequestExit, WholeSlot
  <2>24. CASE SetValue
    BY <2>24 DEF SetValue, WholeSlot
  <2>25. CASE Join
    BY <2>25 DEF Join, WholeSlot
  <2>26. ASSUME NEW l \in Lidars, BecomeSampling(l) PROVE DataInv'
    BY <2>26 DEF BecomeSampling, WholeSlot
  <2>27. CASE UNCHANGED vars
    BY <2>27 DEF vars, WholeSlot
  <2> QED
    BY <2>1, <2>2, <2>3, <2>4, <2>5, <2>6, <2>7, <2>8, <2>9, <2>10, <2>11, <2>12, <2>13, <2>14, <2>15, <2>16, <2>17, <2>18, <2>19, <2>20, <2>21, <2>22, <2>23, <2>24, <2>25, <2>26, <2>27
    DEF Next, Arrive, Push, PointCloudDataPollThread, Destroy
<1> QED BY <1>1, <1>2, TypeInvariant, RingInvariant, PTL DEF Spec

\* Where stores keep their order, the poll thread never publishes half a frame.
THEOREM NeverTorn == Spec => []NoTornPacket
<1>1. DataInv => NoTornPacket
  BY DEF DataInv, NoTornPacket
<1> QED BY <1>1, DataInvariant, PTL

\* Where stores keep their order, no slot is written while it is copied.
THEOREM NoRaceOnSlots == Spec => []NoSlotRace
<1>1. TypeInv /\ RingInv /\ DataInv => NoSlotRace
  <2> SUFFICES ASSUME TypeInv, RingInv, DataInv, Order # "arm",
                      store \cap {"hdr", "pts"} # {},
                      cPc \in {"readHdr", "readPts", "popUpdate"}, cLidar = pLidar
               PROVE  Slot(rd[cLidar]) # pSlot
    BY DEF NoSlotRace
  <2>1. "wr" \in store /\ cLidar \in Lidars /\ rd[cLidar] # wr[cLidar]
    BY DEF DataInv, RingInv, TypeInv, LidarInv, InLoop
  <2>2. rd[cLidar] \in Idx /\ wr[cLidar] \in Idx
    BY <2>1 DEF TypeInv, TypeOK
  <2>3. Used(rd[cLidar], rd[cLidar]) < Used(rd[cLidar], wr[cLidar])
    BY <2>1, <2>2, LiveStep
  <2> QED BY <2>1, <2>2, <2>3, StoreSpares
<1> QED BY <1>1, TypeInvariant, RingInvariant, DataInvariant, PTL

-----------------------------------------------------------------------------
(* The point path implements PointChannel.                                 *)

LEMMA SameRemainder ==
  ASSUME NEW s \in Nat \ {0}, NEW x \in Int, NEW k \in Int
  PROVE  (x + s * k) % s = x % s
<1> DEFINE m == x % s
           n == (x + s * k) % s
           q == x \div s
           p == (x + s * k) \div s
<1>1. x = s * q + m /\ q \in Int /\ m \in 0 .. s - 1
  OBVIOUS
<1>2. x + s * k \in Int
  OBVIOUS
<1>3. x + s * k = s * p + n /\ p \in Int /\ n \in 0 .. s - 1
  BY <1>2
<1> HIDE DEF m, n, p, q
<1>4. n - m = s * (q + k - p) /\ m - n = s * (p - q - k)
  BY <1>1, <1>3
<1>5. q + k - p \in Int /\ p - q - k \in Int
  BY <1>1, <1>3
<1>6. ~(n - m > 0) /\ ~(m - n > 0)
  <2>1. n - m < s /\ m - n < s
    BY <1>1, <1>3
  <2>2. ASSUME n - m > 0 PROVE FALSE
    BY <1>4, <1>5, <2>1, <2>2, NoMultipleBelow
  <2>3. ASSUME m - n > 0 PROVE FALSE
    BY <1>4, <1>5, <2>1, <2>3, NoMultipleBelow
  <2> QED BY <2>2, <2>3
<1>7. n = m
  BY <1>1, <1>3, <1>6
<1> QED BY <1>7 DEF m, n

\* The slot of an index that ran over the modulus is that of the wrapped one.
LEMMA SlotWraps ==
  ASSUME NEW x \in Int
  PROVE  Slot(x - IdxMod) = Slot(x) /\ Slot(x) \in Slots
<1>1. QueueSize \in Nat \ {0} /\ Laps \in Nat /\ -Laps \in Int
  BY SizeAssumption
<1>2. x - IdxMod = x + QueueSize * (-Laps)
  BY <1>1 DEF IdxMod
<1>3. (x + QueueSize * (-Laps)) % QueueSize = x % QueueSize
  BY <1>1, SameRemainder
<1>4. x % QueueSize \in 0 .. QueueSize - 1
  BY <1>1
<1> QED BY <1>2, <1>3, <1>4 DEF Slot, Slots

\* The index n places after r.
LEMMA IndexAfter ==
  ASSUME NEW r \in Idx, NEW n \in Nat, n < IdxMod
  PROVE  \E j \in Idx : Used(r, j) = n /\ Slot(j) = Slot(r + n)
<1> DEFINE j == IF r + n < IdxMod THEN r + n ELSE r + n - IdxMod
<1>1. r \in Nat /\ r < IdxMod /\ IdxMod \in Nat
  BY ModFacts DEF Idx
<1>2. j \in Idx
  BY <1>1 DEF Idx
<1>3. Used(r, j) = n
  BY <1>1, <1>2, UsedFact
<1>4. Slot(j) = Slot(r + n)
  BY <1>1, SlotWraps
<1> QED BY <1>2, <1>3, <1>4

\* What a ring with contents h and p holds between two indices, oldest first.
RingOf(h, p, r, w) ==
  [i \in 1 .. Used(r, w) |-> LET k == Slot(r + i - 1) IN Whole(h[k], p[k])]

LEMMA RingIsSequence ==
  ASSUME NEW h \in [Slots -> Content], NEW p \in [Slots -> Content], NEW r \in Idx, NEW w \in Idx
  PROVE  /\ RingOf(h, p, r, w) \in Seq(Content)
         /\ Len(RingOf(h, p, r, w)) = Used(r, w)
         /\ \A i \in 1 .. Used(r, w) :
              /\ Slot(r + i - 1) \in Slots
              /\ RingOf(h, p, r, w)[i] = Whole(h[Slot(r + i - 1)], p[Slot(r + i - 1)])
<1>1. Used(r, w) \in Nat /\ r \in Nat
  BY UsedFact, ModFacts DEF Idx
<1>2. ASSUME NEW i \in 1 .. Used(r, w)
      PROVE  Slot(r + i - 1) \in Slots /\ Whole(h[Slot(r + i - 1)], p[Slot(r + i - 1)]) \in Content
  <2>1. Slot(r + i - 1) \in Slots
    BY <1>1, SlotWraps
  <2> QED BY <2>1 DEF Whole, Content
<1>3. RingOf(h, p, r, w) \in [1 .. Used(r, w) -> Content]
  BY <1>2 DEF RingOf
<1>4. RingOf(h, p, r, w) \in Seq(Content)
  BY <1>1, <1>3
<1>5. Len(RingOf(h, p, r, w)) = Used(r, w)
  BY <1>1, <1>3, <1>4, LenProperties
<1>6. \A i \in 1 .. Used(r, w) :
        RingOf(h, p, r, w)[i] = Whole(h[Slot(r + i - 1)], p[Slot(r + i - 1)])
  BY DEF RingOf
<1> QED BY <1>2, <1>4, <1>5, <1>6

\* Advancing wr_idx over a slot that was filled appends its frame.
LEMMA RingAppends ==
  ASSUME NEW h \in [Slots -> Content], NEW p \in [Slots -> Content], NEW r \in Idx, NEW w \in Idx,
         Used(r, w) < QueueSize, h[Slot(w)] = p[Slot(w)]
  PROVE  RingOf(h, p, r, Inc(w)) = Append(RingOf(h, p, r, w), p[Slot(w)])
<1> DEFINE s == RingOf(h, p, r, w)
           t == RingOf(h, p, r, Inc(w))
           u == Used(r, w)
           e == p[Slot(w)]
<1>1. Inc(w) \in Idx /\ u \in Nat /\ Used(r, Inc(w)) = u + 1 /\ r \in Nat /\ w \in Nat
  BY IncFact, UsedFact, UsedStep, ModFacts DEF Idx
<1>2. s \in Seq(Content) /\ Len(s) = u
  BY RingIsSequence
<1>3. t \in Seq(Content) /\ Len(t) = u + 1
  BY <1>1, RingIsSequence
<1>4. Slot(r + u) = Slot(w) /\ Slot(w) \in Slots
  <2>1. u = w - r \/ u = w - r + IdxMod
    BY UsedFact
  <2>2. r + u = w \/ (r + u) - IdxMod = w
    <3> HIDE DEF u
    <3> QED BY <1>1, <2>1, ModFacts
  <2>3. r + u \in Int /\ w \in Int
    BY <1>1
  <2>4. Slot((r + u) - IdxMod) = Slot(r + u) /\ Slot(w) \in Slots
    BY <2>3, SlotWraps
  <2> QED BY <2>2, <2>4
<1>5. e \in Content
  BY <1>4
<1>6. ASSUME NEW i \in 1 .. u PROVE t[i] = s[i]
  <2>1. i \in 1 .. Used(r, Inc(w))
    BY <1>1
  <2>2. t[i] = Whole(h[Slot(r + i - 1)], p[Slot(r + i - 1)])
    BY <1>1, <2>1, RingIsSequence
  <2>3. s[i] = Whole(h[Slot(r + i - 1)], p[Slot(r + i - 1)])
    BY RingIsSequence
  <2> QED BY <2>2, <2>3
<1>7. t[u + 1] = e
  <2>1. u + 1 \in 1 .. Used(r, Inc(w)) /\ r + (u + 1) - 1 = r + u
    BY <1>1
  <2>2. t[u + 1] = Whole(h[Slot(r + (u + 1) - 1)], p[Slot(r + (u + 1) - 1)])
    BY <1>1, <2>1, RingIsSequence
  <2> QED BY <1>4, <2>1, <2>2 DEF Whole
<1> HIDE DEF s, t, u, e
<1>8. /\ Append(s, e) \in Seq(Content) /\ Len(Append(s, e)) = u + 1
      /\ \A i \in 1 .. u : Append(s, e)[i] = s[i]
      /\ Append(s, e)[u + 1] = e
  BY <1>1, <1>2, <1>5, AppendProperties
<1>9. \A i \in 1 .. Len(t) : t[i] = Append(s, e)[i]
  BY <1>1, <1>3, <1>6, <1>7, <1>8
<1>10. t = Append(s, e)
  BY <1>3, <1>8, <1>9, SeqEqual
<1> QED BY <1>10 DEF s, t, e

\* Advancing rd_idx drops the oldest frame.
LEMMA RingDrops ==
  ASSUME NEW h \in [Slots -> Content], NEW p \in [Slots -> Content], NEW r \in Idx, NEW w \in Idx,
         r # w
  PROVE  RingOf(h, p, r, w) = <<Whole(h[Slot(r)], p[Slot(r)])>> \o RingOf(h, p, Inc(r), w)
<1> DEFINE s == RingOf(h, p, r, w)
           t == RingOf(h, p, Inc(r), w)
           u == Used(r, w)
           e == Whole(h[Slot(r)], p[Slot(r)])
<1>1. Inc(r) \in Idx /\ u \in Nat /\ u # 0 /\ Used(Inc(r), w) = u - 1 /\ r \in Nat
  BY IncFact, UsedFact, UsedStep, ModFacts DEF Idx
<1>2. s \in Seq(Content) /\ Len(s) = u
  BY RingIsSequence
<1>3. t \in Seq(Content) /\ Len(t) = u - 1
  BY <1>1, RingIsSequence
<1>4. s[1] = e /\ e \in Content
  <2>1. 1 \in 1 .. u /\ r + 1 - 1 = r
    BY <1>1
  <2>2. s[1] = Whole(h[Slot(r + 1 - 1)], p[Slot(r + 1 - 1)]) /\ Slot(r) \in Slots
    BY <2>1, RingIsSequence, SlotFact
  <2> QED BY <2>1, <2>2 DEF Whole, Content
<1>5. ASSUME NEW i \in 2 .. u PROVE s[i] = t[i - 1]
  <2>1. i \in 1 .. u /\ i - 1 \in 1 .. Used(Inc(r), w)
    BY <1>1
  <2>2. s[i] = Whole(h[Slot(r + i - 1)], p[Slot(r + i - 1)])
    BY <2>1, RingIsSequence
  <2>3. t[i - 1] = Whole(h[Slot(Inc(r) + (i - 1) - 1)], p[Slot(Inc(r) + (i - 1) - 1)])
    BY <1>1, <2>1, RingIsSequence
  <2>4. Slot(Inc(r) + (i - 1) - 1) = Slot(r + i - 1)
    <3>1. Inc(r) + (i - 1) - 1 = r + i - 1 \/ Inc(r) + (i - 1) - 1 = (r + i - 1) - IdxMod
      BY <1>1, IncFact, ModFacts DEF Idx
    <3>2. r + i - 1 \in Int
      BY <1>1
    <3> QED BY <3>1, <3>2, SlotWraps
  <2> QED BY <2>2, <2>3, <2>4
<1> HIDE DEF s, t, u, e
<1>6. <<e>> \in Seq(Content) /\ Len(<<e>>) = 1 /\ <<e>>[1] = e
  BY <1>4
<1>7. /\ <<e>> \o t \in Seq(Content) /\ Len(<<e>> \o t) = u
      /\ \A i \in 1 .. u : (<<e>> \o t)[i] = IF i <= 1 THEN e ELSE t[i - 1]
  BY <1>1, <1>3, <1>6, ConcatProperties
<1>8. \A i \in 1 .. Len(s) : s[i] = (<<e>> \o t)[i]
  BY <1>1, <1>2, <1>4, <1>5, <1>7
<1>9. s = <<e>> \o t
  BY <1>2, <1>7, <1>8, SeqEqual
<1> QED BY <1>9 DEF s, t, e

\* Two contents of a ring agree on the slots in use.
AgreeInUse(h, p, g, q, r, w) ==
  \A j \in Idx : Used(r, j) < Used(r, w) => h[Slot(j)] = g[Slot(j)] /\ p[Slot(j)] = q[Slot(j)]

\* What a store leaves in the slots in use, it leaves in the ring.
LEMMA RingKeeps ==
  ASSUME NEW h \in [Slots -> Content], NEW p \in [Slots -> Content],
         NEW g \in [Slots -> Content], NEW q \in [Slots -> Content], NEW r \in Idx, NEW w \in Idx,
         AgreeInUse(h, p, g, q, r, w)
  PROVE  RingOf(h, p, r, w) = RingOf(g, q, r, w)
<1> DEFINE s == RingOf(h, p, r, w)
           t == RingOf(g, q, r, w)
           u == Used(r, w)
<1>1. u \in Nat /\ u < IdxMod /\ r \in Nat /\ IdxMod \in Nat
  <2>1. u \in Nat /\ u = IF w >= r THEN w - r ELSE w - r + IdxMod
    BY UsedFact
  <2> HIDE DEF u
  <2> QED BY <2>1, ModFacts DEF Idx
<1>2. s \in Seq(Content) /\ Len(s) = u /\ t \in Seq(Content) /\ Len(t) = u
  BY RingIsSequence
<1>3. ASSUME NEW i \in 1 .. u
      PROVE  s[i] = t[i]
  <2> DEFINE k == Slot(r + i - 1)
  <2>1. i - 1 \in Nat /\ i - 1 < u /\ r + (i - 1) = r + i - 1
    <3> HIDE DEF u
    <3> QED BY <1>1
  <2>2. \E j \in Idx : Used(r, j) = i - 1 /\ Slot(j) = k
    <3>1. i - 1 < IdxMod
      <4> HIDE DEF u
      <4> QED BY <1>1, <2>1
    <3> QED BY <2>1, <3>1, IndexAfter
  <2>3. h[k] = g[k] /\ p[k] = q[k]
    BY <2>1, <2>2 DEF AgreeInUse
  <2>4. s[i] = Whole(h[k], p[k])
    BY RingIsSequence
  <2>5. t[i] = Whole(g[k], q[k])
    BY RingIsSequence
  <2> QED BY <2>3, <2>4, <2>5
<1> HIDE DEF s, t, u
<1>4. s = t
  BY <1>2, <1>3, SeqEqual
<1> QED BY <1>4 DEF s, t

-----------------------------------------------------------------------------
\* The channel of a lidar, with its parts named.
Frames(l) == Inflight(l) \o InRing(l)

LEMMA RingOfState ==
  /\ \A l \in Lidars : InRing(l) = RingOf(hdr[l], pts[l], rd[l], wr[l])
  /\ \A l \in Lidars : InRing(l)' = RingOf(hdr'[l], pts'[l], rd'[l], wr'[l])
BY DEF InRing, RingOf

LEMMA FramesIsSequence ==
  ASSUME TypeInv, NEW l \in Lidars
  PROVE  /\ Inflight(l) \in Seq(Content) /\ Len(Inflight(l)) <= 1
         /\ InRing(l) \in Seq(Content) /\ Len(InRing(l)) = Used(rd[l], wr[l])
         /\ Frames(l) \in Seq(Content) /\ Len(Frames(l)) = Len(Inflight(l)) + Used(rd[l], wr[l])
<1>1. /\ hdr[l] \in [Slots -> Content] /\ pts[l] \in [Slots -> Content]
      /\ rd[l] \in Idx /\ wr[l] \in Idx /\ cHdr \in Content /\ cPts \in Content
  BY DEF TypeInv, TypeOK
<1>2. InRing(l) \in Seq(Content) /\ Len(InRing(l)) = Used(rd[l], wr[l])
  BY <1>1, RingOfState, RingIsSequence
<1>3. Inflight(l) \in Seq(Content) /\ Len(Inflight(l)) <= 1
  <2>1. Whole(cHdr, cPts) \in Content
    BY <1>1 DEF Whole, Content
  <2>2. /\ <<Whole(cHdr, cPts)>> \in Seq(Content) /\ Len(<<Whole(cHdr, cPts)>>) = 1
        /\ <<>> \in Seq(Content) /\ Len(<<>>) = 0
    BY <2>1, EmptySeq
  <2> QED BY <2>2 DEF Inflight
<1> QED BY <1>2, <1>3, ConcatProperties DEF Frames

\* A step that touches neither the rings nor the poll thread's copy.
LEMMA FramesStay ==
  ASSUME NEW l \in Lidars, hdr'[l] = hdr[l], pts'[l] = pts[l], rd'[l] = rd[l], wr'[l] = wr[l],
         Inflight(l)' = Inflight(l)
  PROVE  Frames(l)' = Frames(l)
<1>1. InRing(l)' = InRing(l)
  BY RingOfState
<1> QED BY <1>1 DEF Frames

\* The store of wr_idx puts a frame into the channel.
LEMMA FrameAccepted ==
  ASSUME TypeInv, RingInv, DataInv, Order # "arm", WrVisible, NEW a \in Lidars, a = pLidar
  PROVE  /\ Len(Frames(a)) < QueueSize + 1
         /\ Frames(a)' = Append(Frames(a), pPkt)
         /\ \A l \in Lidars : l # a => Frames(l)' = Frames(l)
<1>1. /\ "wr" \in store /\ "hdr" \notin store /\ "pts" \notin store
      /\ wr' = [wr EXCEPT ![a] = Inc(@)]
      /\ UNCHANGED <<hdr, pts, rd, cPc, cLidar, cHdr, cPts>>
  <2>1. "wr" \in store /\ store \cap {"hdr", "pts"} = {}
    BY DEF WrVisible, Visible
  <2> QED BY <2>1 DEF WrVisible, Visible, consVars
<1>2. /\ pPkt \in Packet /\ Used(rd[a], wr[a]) < QueueSize
      /\ hdr[a][Slot(wr[a])] = pPkt /\ pts[a][Slot(wr[a])] = pPkt
  BY <1>1 DEF TypeInv, LidarInv, RingInv, DataInv
<1>3. /\ hdr[a] \in [Slots -> Content] /\ pts[a] \in [Slots -> Content]
      /\ rd[a] \in Idx /\ wr[a] \in Idx /\ wr'[a] = Inc(wr[a])
      /\ Used(rd[a], wr[a]) \in Nat
  BY <1>1, <1>2, UsedFact DEF TypeInv, TypeOK
<1>4. InRing(a)' = Append(InRing(a), pPkt)
  <2>1. RingOf(hdr[a], pts[a], rd[a], Inc(wr[a]))
          = Append(RingOf(hdr[a], pts[a], rd[a], wr[a]), pts[a][Slot(wr[a])])
    <3>1. PICK h \in [Slots -> Content], p \in [Slots -> Content], r \in Idx, w \in Idx :
            h = hdr[a] /\ p = pts[a] /\ r = rd[a] /\ w = wr[a]
      BY <1>3
    <3>2. Used(r, w) < QueueSize /\ h[Slot(w)] = p[Slot(w)]
      BY <1>2, <3>1
    <3>3. RingOf(h, p, r, Inc(w)) = Append(RingOf(h, p, r, w), p[Slot(w)])
      BY <3>2, RingAppends
    <3> QED BY <3>1, <3>3
  <2>2. InRing(a)' = RingOf(hdr[a], pts[a], rd[a], Inc(wr[a]))
    BY <1>1, <1>3, RingOfState
  <2> QED BY <1>2, <2>1, <2>2, RingOfState
<1>5. \A l \in Lidars : Inflight(l)' = Inflight(l)
  BY <1>1 DEF Inflight
<1>6. Frames(a)' = Append(Frames(a), pPkt)
  <2>1. /\ Inflight(a) \in Seq(Content) /\ InRing(a) \in Seq(Content)
        /\ pPkt \in Content /\ <<pPkt>> \in Seq(Content) /\ Frames(a) \in Seq(Content)
    BY <1>2, FramesIsSequence DEF Content
  <2>2. /\ Append(InRing(a), pPkt) = InRing(a) \o <<pPkt>>
        /\ Append(Frames(a), pPkt) = Frames(a) \o <<pPkt>>
    BY <2>1, AppendIsConcat
  <2>3. (Inflight(a) \o InRing(a)) \o <<pPkt>> = Inflight(a) \o (InRing(a) \o <<pPkt>>)
    BY <2>1, ConcatAssociative
  <2>4. Frames(a)' = Inflight(a)' \o InRing(a)'
    BY DEF Frames
  <2> QED BY <1>4, <1>5, <2>2, <2>3, <2>4 DEF Frames
<1>7. Len(Frames(a)) < QueueSize + 1
  BY <1>2, <1>3, FramesIsSequence, ModFacts
<1>8. ASSUME NEW l \in Lidars, l # a PROVE Frames(l)' = Frames(l)
  <2>1. wr'[l] = wr[l]
    BY <1>1, <1>8 DEF TypeInv, TypeOK
  <2> QED BY <1>1, <1>5, <2>1, FramesStay
<1> QED BY <1>6, <1>7, <1>8

\* Popping a frame moves it from the ring to the poll thread's copy.
LEMMA FramePopped ==
  ASSUME TypeInv, RingInv, DataInv, Order # "arm", QueuePopUpdate, NEW l \in Lidars
  PROVE  Frames(l)' = Frames(l)
<1>1. /\ cPc = "popUpdate" /\ cPc' = "publish" /\ rd' = [rd EXCEPT ![cLidar] = Inc(@)]
      /\ UNCHANGED <<hdr, pts, wr, cLidar, cHdr, cPts>>
  BY DEF QueuePopUpdate, consKeeps
<1>2. CASE l = cLidar
  <2>1. /\ hdr[l] \in [Slots -> Content] /\ pts[l] \in [Slots -> Content]
        /\ rd[l] \in Idx /\ wr[l] \in Idx /\ rd'[l] = Inc(rd[l]) /\ rd[l] # wr[l]
    BY <1>1, <1>2 DEF TypeInv, TypeOK, RingInv
  <2>2. cHdr = hdr[l][Slot(rd[l])] /\ cPts = pts[l][Slot(rd[l])]
    BY <1>1, <1>2 DEF DataInv
  <2>3. RingOf(hdr[l], pts[l], rd[l], wr[l])
          = <<Whole(cHdr, cPts)>> \o RingOf(hdr[l], pts[l], Inc(rd[l]), wr[l])
    BY <2>1, <2>2, RingDrops
  <2>4. Inflight(l) = <<>> /\ Inflight(l)' = <<Whole(cHdr, cPts)>>
    BY <1>1, <1>2 DEF Inflight
  <2>5. InRing(l)' = RingOf(hdr[l], pts[l], Inc(rd[l]), wr[l])
    BY <1>1, <2>1, RingOfState
  <2>6. Frames(l) = InRing(l)
    BY <2>4, FramesIsSequence, ConcatEmptySeq DEF Frames
  <2>7. Frames(l)' = Inflight(l)' \o InRing(l)'
    BY DEF Frames
  <2> QED BY <2>3, <2>4, <2>5, <2>6, <2>7, RingOfState
<1>3. CASE l # cLidar
  <2>1. rd'[l] = rd[l]
    BY <1>1, <1>3 DEF TypeInv, TypeOK
  <2>2. Inflight(l)' = Inflight(l)
    BY <1>1, <1>3 DEF Inflight
  <2> QED BY <1>1, <2>1, <2>2, FramesStay
<1> QED BY <1>2, <1>3

\* A store to the slot being filled changes no frame of the channel.
LEMMA FramesSpared ==
  ASSUME TypeInv, RingInv, DataInv, Order # "arm", HdrVisible \/ PtsVisible, NEW l \in Lidars
  PROVE  Frames(l)' = Frames(l)
<1>1. /\ "wr" \in store /\ UNCHANGED <<rd, wr, cPc, cLidar, cHdr, cPts>>
      /\ hdr' = hdr \/ hdr' = [hdr EXCEPT ![pLidar][pSlot] = pPkt]
      /\ pts' = pts \/ pts' = [pts EXCEPT ![pLidar][pSlot] = pPkt]
  BY DEF HdrVisible, PtsVisible, Visible, DataInv, consVars
<1>2. pLidar \in Lidars /\ pPkt \in Content /\ pSlot \in Slots
  BY <1>1 DEF TypeInv, TypeOK, LidarInv
<1>3. /\ hdr[l] \in [Slots -> Content] /\ pts[l] \in [Slots -> Content]
      /\ hdr'[l] \in [Slots -> Content] /\ pts'[l] \in [Slots -> Content]
      /\ rd[l] \in Idx /\ wr[l] \in Idx
  <2>1. hdr \in [Lidars -> [Slots -> Content]] /\ pts \in [Lidars -> [Slots -> Content]]
    BY DEF TypeInv, TypeOK
  <2>2. hdr'[l] = hdr[l] \/ hdr'[l] = [hdr[l] EXCEPT ![pSlot] = pPkt]
    BY <1>1, <2>1
  <2>3. pts'[l] = pts[l] \/ pts'[l] = [pts[l] EXCEPT ![pSlot] = pPkt]
    BY <1>1, <2>1
  <2>4. rd[l] \in Idx /\ wr[l] \in Idx
    BY DEF TypeInv, TypeOK
  <2>5. hdr[l] \in [Slots -> Content] /\ pts[l] \in [Slots -> Content]
    BY <2>1
  <2>6. hdr'[l] \in [Slots -> Content]
    BY <1>2, <2>2, <2>5
  <2>7. pts'[l] \in [Slots -> Content]
    BY <1>2, <2>3, <2>5
  <2> QED BY <2>4, <2>5, <2>6, <2>7
<1>4. ASSUME NEW j \in Idx, Used(rd[l], j) < Used(rd[l], wr[l])
      PROVE  hdr'[l][Slot(j)] = hdr[l][Slot(j)] /\ pts'[l][Slot(j)] = pts[l][Slot(j)]
  <2>1. l = pLidar => Slot(j) # pSlot
    BY <1>1, <1>4, StoreSpares
  <2>2. Slot(j) \in Slots
    BY SlotFact
  <2> QED BY <1>1, <1>2, <2>1, <2>2 DEF TypeInv, TypeOK
<1>5. RingOf(hdr'[l], pts'[l], rd[l], wr[l]) = RingOf(hdr[l], pts[l], rd[l], wr[l])
  <2>1. PICK h \in [Slots -> Content], p \in [Slots -> Content], g \in [Slots -> Content],
             q \in [Slots -> Content], r \in Idx, w \in Idx :
          h = hdr'[l] /\ p = pts'[l] /\ g = hdr[l] /\ q = pts[l] /\ r = rd[l] /\ w = wr[l]
    BY <1>3
  <2>2. AgreeInUse(h, p, g, q, r, w)
    BY <1>4, <2>1 DEF AgreeInUse
  <2>3. RingOf(h, p, r, w) = RingOf(g, q, r, w)
    BY <2>2, RingKeeps
  <2> QED BY <2>1, <2>3
<1>6. InRing(l)' = InRing(l)
  BY <1>1, <1>5, RingOfState
<1>7. Inflight(l)' = Inflight(l)
  BY <1>1 DEF Inflight
<1> QED BY <1>6, <1>7 DEF Frames

\* The frame the poll thread publishes or drops is the oldest one of its lidar.
LEMMA FramePublished ==
  ASSUME TypeInv, DataInv, Order # "arm", Publish, NEW a \in Lidars, a = cLidar
  PROVE  /\ Frames(a) # <<>> /\ Head(Frames(a)) = cPts /\ Frames(a)' = Tail(Frames(a))
         /\ \A l \in Lidars : l # a => Frames(l)' = Frames(l)
         /\ out' = IF cPts \in EmptyPacket THEN out ELSE <<a, cPts>>
<1>1. /\ cPc = "publish" /\ cPc' = "drain" /\ UNCHANGED <<hdr, pts, rd, wr, cLidar, cHdr, cPts>>
      /\ Whole(cHdr, cPts) = cPts /\ cPts \in Content
      /\ out' = IF cPts \in EmptyPacket THEN out ELSE <<a, cPts>>
  BY DEF Publish, consKeeps, DataInv, Whole, Content
<1>2. Inflight(a) = <<cPts>> /\ Inflight(a)' = <<>>
  BY <1>1 DEF Inflight
<1>3. InRing(a)' = InRing(a)
  BY <1>1, RingOfState
<1>4. /\ InRing(a) \in Seq(Content) /\ <<cPts>> \in Seq(Content) /\ Len(<<cPts>>) = 1
      /\ <<cPts>>[1] = cPts /\ Frames(a) = <<cPts>> \o InRing(a)
  BY <1>1, <1>2, FramesIsSequence DEF Frames
<1>5. /\ Frames(a) \in Seq(Content) /\ Len(Frames(a)) = 1 + Len(InRing(a)) /\ Len(InRing(a)) \in Nat
      /\ \A i \in 1 .. 1 + Len(InRing(a)) :
           Frames(a)[i] = IF i <= 1 THEN cPts ELSE InRing(a)[i - 1]
  BY <1>4, ConcatProperties, LenProperties
<1>6. Frames(a) # <<>>
  BY <1>5, EmptySeq
<1>7. Head(Frames(a)) = cPts
  BY <1>5, <1>6
<1>8. Tail(Frames(a)) = InRing(a)
  <2>1. /\ Tail(Frames(a)) \in Seq(Content) /\ Len(Tail(Frames(a))) = Len(InRing(a))
        /\ \A i \in 1 .. Len(InRing(a)) : Tail(Frames(a))[i] = Frames(a)[i + 1]
    BY <1>5, <1>6, HeadTailProperties
  <2>2. \A i \in 1 .. Len(InRing(a)) : Frames(a)[i + 1] = InRing(a)[i]
    BY <1>5
  <2> QED BY <1>4, <2>1, <2>2, SeqEqual
<1>9. Frames(a)' = InRing(a)
  <2>1. Frames(a)' = Inflight(a)' \o InRing(a)'
    BY DEF Frames
  <2> QED BY <1>2, <1>3, <1>4, <2>1, ConcatEmptySeq
<1>10. ASSUME NEW l \in Lidars, l # a PROVE Frames(l)' = Frames(l)
  <2>1. Inflight(l)' = Inflight(l)
    BY <1>1, <1>10 DEF Inflight
  <2> QED BY <1>1, <2>1, FramesStay
<1> QED BY <1>1, <1>6, <1>7, <1>8, <1>9, <1>10
\* The two threads, whose stores keep their order, are a bounded FIFO of whole frames per
\* lidar, for any number of lidars, any size of the rings and across the wrap of the indices:
\* each step of theirs accepts, delivers or discards a frame, or leaves the channel alone.
THEOREM FifoOfWholeFrames ==
  ASSUME Order # "arm"
  PROVE  Spec => ImplementsChannel
<1>1. TypeInv /\ Init => Channel!Init
  <2> SUFFICES ASSUME TypeInv, Init PROVE Channel!Init
    OBVIOUS
  <2>1. out = <<>> /\ cPc # "publish"
    BY DEF Init
  <2>2. ASSUME NEW l \in Lidars PROVE Inflight(l) \o InRing(l) = <<>>
    <3>2. Inflight(l) = <<>> /\ rd[l] = wr[l]
      BY <2>1 DEF Inflight, Init
    <3>3. Used(rd[l], wr[l]) = 0
      BY <3>2, UsedStep DEF TypeInv, TypeOK
    <3>4. Frames(l) \in Seq(Content) /\ Len(Frames(l)) = 0
      BY <3>2, <3>3, FramesIsSequence, EmptySeq
    <3> QED BY <3>4, EmptySeq DEF Frames
  <2> QED BY <2>1, <2>2 DEF Channel!Init
<1>2. TypeInv /\ RingInv /\ DataInv /\ [Next]_vars => [Channel!Next]_(Channel!chanVars)
  <2> SUFFICES ASSUME TypeInv, RingInv, DataInv, [Next]_vars
               PROVE  [Channel!Next]_(Channel!chanVars)
    OBVIOUS
  <2>0. (out' = out /\ \A l \in Lidars : Frames(l)' = Frames(l)) => UNCHANGED Channel!chanVars
    BY DEF Channel!chanVars, Frames
  <2>1. CASE WrVisible
    <3>1. pLidar \in Lidars /\ pPkt \in Packet /\ out' = out
      BY <2>1 DEF WrVisible, Visible, TypeInv, LidarInv, consVars
    <3>2. PICK a \in Lidars : a = pLidar
      BY <3>1
    <3>3. Channel!Accept(a, pPkt)
      BY <2>1, <3>1, <3>2, FrameAccepted DEF Channel!Accept, Frames
    <3> QED BY <3>1, <3>3 DEF Channel!Next
  <2>2. CASE HdrVisible \/ PtsVisible
    BY <2>0, <2>2, FramesSpared DEF HdrVisible, PtsVisible, Visible, consVars
  <2>3. CASE QueuePopUpdate
    BY <2>0, <2>3, FramePopped DEF QueuePopUpdate
  <2>4. CASE Publish
    <3>1. cLidar \in Lidars
      BY <2>4 DEF Publish, TypeInv, LidarInv, InLoop
    <3>2. PICK a \in Lidars : a = cLidar
      BY <3>1
    <3>3. CASE cPts \in EmptyPacket
      <4>1. Channel!Discard(a)
        BY <2>4, <3>2, <3>3, FramePublished DEF Channel!Discard, Frames
      <4> QED BY <4>1 DEF Channel!Next
    <3>4. CASE cPts \notin EmptyPacket
      <4>1. Channel!Deliver(a)
        BY <2>4, <3>2, <3>4, FramePublished DEF Channel!Deliver, Frames
      <4> QED BY <4>1 DEF Channel!Next
    <3> QED BY <3>3, <3>4
  <2> DEFINE Quiet ==
        /\ UNCHANGED <<hdr, pts, rd, wr, out>>
        /\ UNCHANGED <<cPc, cLidar, cHdr, cPts>> \/ (cPc # "publish" /\ cPc' # "publish")
  <2>5. CASE Quiet
    <3>1. ASSUME NEW l \in Lidars PROVE Frames(l)' = Frames(l)
      <4>1. Inflight(l)' = Inflight(l)
        BY <2>5 DEF Inflight
      <4> QED BY <2>5, <4>1, FramesStay
    <3> QED BY <2>0, <2>5, <3>1
  <2>6. CASE Arrive \/ InitQueueStorage \/ InitQueueIndices
    <3>1. InitQueueIndices => rd' = rd /\ wr' = wr
      BY DEF InitQueueIndices, RingInv, TypeInv, LidarInv, TypeOK
    <3>2. Quiet
      BY <2>6, <3>1 DEF Arrive, StoragePointData, InitQueueStorage, InitQueueIndices, ringVars, consVars
    <3> QED BY <2>5, <3>2
  <2>7. CASE DropPacket \/ QueuePushAny \/ CheckEmpty \/ ReadCount \/ Signal
    <3>1. Quiet
      BY <2>7 DEF DropPacket, QueuePushAny, CheckEmpty, ReadCount, Signal, ringVars, consVars
    <3> QED BY <2>5, <3>1
  <2>8. CASE \/ DistributePointCloudData \/ Wait \/ VisitLidar \/ EndOfPass \/ Poll \/ Drain
             \/ ReadHdr \/ ReadPts \/ FutureWait
    <3>1. Quiet
      BY <2>8 DEF DistributePointCloudData, Wait, VisitLidar, EndOfPass, Poll, Drain,
                  ReadHdr, ReadPts, FutureWait, consKeeps
    <3> QED BY <2>5, <3>1
  <2>9. CASE \/ RequestExit \/ Destroy \/ (\E l \in Lidars : BecomeSampling(l)) \/ UNCHANGED vars
    <3>1. Quiet
      BY <2>9 DEF RequestExit, Destroy, SetValue, Join, BecomeSampling, mainKeeps, vars, ringVars, consVars
    <3> QED BY <2>5, <3>1
  <2> QED
    BY <2>1, <2>2, <2>3, <2>4, <2>6, <2>7, <2>8, <2>9 DEF Next, Push, PointCloudDataPollThread
<1> QED BY <1>1, <1>2, TypeInvariant, RingInvariant, DataInvariant, PTL
      DEF Spec, ImplementsChannel, Channel!Spec
=============================================================================
