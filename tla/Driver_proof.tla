---------------------------- MODULE Driver_proof ----------------------------
(***************************************************************************)
(* Proofs about what livox_ros_driver2 does before points are handed on.   *)
(*                                                                         *)
(* LidarConfig, for every network, config file and length of lidars_.  The *)
(* inductive invariant is a conjunction of four parts:                     *)
(*   OwnInv    an index belongs to one lidar, a device whose bits or state *)
(*             were touched belongs to one, and only a lidar without an    *)
(*             index is given one;                                         *)
(*   RoundInv  a key can only be answered while the bits of its round are  *)
(*             being set, or when every configured key has its bit or its  *)
(*             acknowledgement: that is what config_mutex_ is for;         *)
(*   DoneInv   a Sampling lidar has every acknowledgement;                 *)
(*   AskedInv  a bit that is set is asked for, or was given up.            *)
(*                                                                         *)
(* DriverParams, for every config file and number of devices: TablesInv,   *)
(* the tables of indices, configurations and mountings agree, also inside  *)
(* the loops over the lines of the file.                                   *)
(*                                                                         *)
(* PubHandler, for every number of lidars and every setting: FramesInv,    *)
(* the stamps of a lidar rise through its cloud, the packet in hand and    *)
(* the queue (Ordered), and follow one on another while no packet is lost  *)
(* (Whole); a frame was not due before it was cut.  PubHandler implements  *)
(* FrameChannel; HandInv says when there is a packet in hand.              *)
(***************************************************************************)
EXTENDS MCDriver, SequenceTheorems, FiniteSetTheorems, WellFoundedInduction, TLAPS

OwnInv ==
  /\ \A g, h \in Handles : index[g] # NoIndex /\ index[g] = index[h] => g = h
  /\ \A i \in Indices : sampling[i] \/ bits[i] # {} => \E h \in Handles : index[h] = i
  /\ iPc = "getFreeIndex" => index[iLidar] = NoIndex

Covered(h) == Config(h) \subseteq bits[index[h]] \cup acked[h]

RoundInv ==
  /\ \A h \in Handles, k \in Keys : Pending(h, k) =>
       /\ index[h] # NoIndex
       /\ (Locked /\ iLidar = h) \/ Covered(h)
  /\ Locked => \A j \in 1 .. 4 : j < iKey /\ KeyOrder[j] \in Config(iLidar)
       => KeyOrder[j] \in bits[index[iLidar]] \cup acked[iLidar]

DoneInv ==
  \A h \in Handles : index[h] # NoIndex /\ sampling[index[h]] => Config(h) \subseteq acked[h]

AskedInv ==
  \A h \in Handles : index[h] # NoIndex =>
    \A k \in bits[index[h]] : Pending(h, k) \/ k \in gaveUp[h]

-----------------------------------------------------------------------------
\* A lidar's configuration is a set of the four keys, and KeyOrder lists them.
LEMMA KeyFacts ==
  /\ \A h \in Handles : Config(h) \subseteq Keys
  /\ \A j \in 1 .. 4 : KeyOrder[j] \in Keys
  /\ \A k \in Keys : \E j \in 1 .. 4 : KeyOrder[j] = k
  /\ Keys \subseteq Request
<1>1. \A h \in Handles : Config(h) \subseteq Keys
  BY ListAssumption DEF Config
<1>2. \A j \in 1 .. 4 : KeyOrder[j] \in Keys
  BY DEF KeyOrder, Keys
<1>3. \A k \in Keys : \E j \in 1 .. 4 : KeyOrder[j] = k
  <2>1. KeyOrder[1] = "DataType" /\ KeyOrder[2] = "ScanPattern"
        /\ KeyOrder[3] = "BlindSpot" /\ KeyOrder[4] = "DualEmit"
    BY DEF KeyOrder
  <2> QED
    BY <2>1 DEF Keys
<1>4. Keys \subseteq Request
  BY DEF Request
<1> QED
  BY <1>1, <1>2, <1>3, <1>4

\* Sending a request leaves one more of its kind to answer, and the others alone.
LEMMA SentFact ==
  ASSUME TypeOK, NEW h \in Handles, NEW r \in Request, Sent(h, r)
  PROVE  /\ out' \in [Handles -> [Request -> Nat]]
         /\ out'[h][r] > 0
         /\ \A g \in Handles, q \in Request : out'[g][q] >= out[g][q]
         /\ \A g \in Handles, q \in Request : g # h \/ q # r => out'[g][q] = out[g][q]
<1>1. out \in [Handles -> [Request -> Nat]]
  BY DEF TypeOK
<1>2. out' = [out EXCEPT ![h] = [out[h] EXCEPT ![r] = out[h][r] + 1]]
  BY <1>1 DEF Sent
<1> QED
  BY <1>1, <1>2

\* The variables keep their types: no callback touches a device of an
\* unregistered lidar, and no answer comes that was not asked for.
THEOREM TypeCorrect == Spec => []TypeOK
<1>1. Init => TypeOK
  BY SizeAssumption DEF Init, TypeOK, Answers
<1>2. TypeOK /\ [Next]_vars => TypeOK'
  <2> SUFFICES ASSUME TypeOK, [Next]_vars PROVE TypeOK'
    OBVIOUS
  <2> USE KeyFacts, SizeAssumption DEF TypeOK, Answers, infoVars, histVars, answerKeeps
  <2>1. ASSUME NEW h \in Handles, LidarInfoChange(h) PROVE TypeOK'
    BY <2>1 DEF LidarInfoChange
  <2>2. CASE GetFreeIndex
    BY <2>2 DEF GetFreeIndex
  <2>3. CASE SetKey
    <3>1. KeyOrder[iKey] \in Keys
      BY <2>3 DEF SetKey
    <3>2. index[iLidar] \in Indices
      BY <2>3 DEF SetKey
    <3>3. bits' \in [Indices -> SUBSET Keys]
      BY <2>3, <3>1, <3>2 DEF SetKey
    <3>4. out' \in [Handles -> [Request -> Nat]]
      BY <2>3, <3>1, SentFact DEF SetKey
    <3> QED
      BY <2>3, <3>3, <3>4 DEF SetKey
  <2>4. CASE Unlock
    BY <2>4 DEF Unlock
  <2>5. CASE SetAttitude
    <3>1. CASE iLidar \in Listed
      <4>1. "attitude" \in Request
        BY DEF Request
      <4> QED
        BY <2>5, <3>1, <4>1, SentFact DEF SetAttitude
    <3>2. CASE iLidar \notin Listed
      BY <2>5, <3>2 DEF SetAttitude
    <3> QED
      BY <3>1, <3>2
  <2>6. CASE SetWorkMode
    <3>1. "workMode" \in Request
      BY DEF Request
    <3> QED
      BY <2>6, <3>1, SentFact DEF SetWorkMode
  <2>7. CASE EnableImu
    <3>1. "imu" \in Request
      BY DEF Request
    <3> QED
      BY <2>7, <3>1, SentFact DEF EnableImu
  <2>8. ASSUME NEW h \in Handles, NEW r \in Request, NEW s \in Status, Answer(h, r, s)
        PROVE TypeOK'
    BY <2>8 DEF Answer
  <2>9. CASE NotFound
    BY <2>9, AnswerAssumption DEF NotFound, Done, GiveUp
  <2>10. CASE KeyAcked
    BY <2>10, AnswerAssumption DEF KeyAcked, Found, Done, Acknowledge, Request, Keys
  <2>11. CASE OtherAcked
    BY <2>11, AnswerAssumption DEF OtherAcked, Found, Done, Acknowledge
  <2>12. CASE Retry
    <3>1. resp.lidar \in Handles /\ resp.req \in Request
      BY <2>12 DEF Retry, Found
    <3> QED
      BY <2>12, <3>1, SentFact DEF Retry, Done
  <2>13. CASE Fail
    BY <2>13, AnswerAssumption DEF Fail, Found, Done, GiveUp
  <2>14. CASE UNCHANGED vars
    BY <2>14 DEF vars
  <2> QED
    BY <2>1, <2>2, <2>3, <2>4, <2>5, <2>6, <2>7, <2>8, <2>9, <2>10, <2>11, <2>12, <2>13, <2>14
    DEF Next, InfoThread, Callback
<1> QED
  BY <1>1, <1>2, PTL DEF Spec

-----------------------------------------------------------------------------
(* What the steps do to the parts of the invariant.                        *)

\* The indices stay with their lidars.
LEMMA OwnStep ==
  ASSUME TypeOK, TypeOK', OwnInv, [Next]_vars
  PROVE  OwnInv'
<1> USE DEF TypeOK, OwnInv, infoVars, histVars, answerKeeps
<1>1. CASE /\ UNCHANGED <<index, bits, sampling>>
           /\ iPc' # "getFreeIndex" \/ UNCHANGED <<iPc, iLidar>>
  BY <1>1
<1>2. ASSUME NEW h \in Handles, LidarInfoChange(h) PROVE OwnInv'
  BY <1>2 DEF LidarInfoChange
<1>3. CASE GetFreeIndex
  <2>1. CASE UNCHANGED index
    BY <1>3, <2>1 DEF GetFreeIndex
  <2>2. ASSUME NEW i \in Indices \ {index[h] : h \in Handles},
               index' = [index EXCEPT ![iLidar] = i]
        PROVE  OwnInv'
    <3>1. /\ index'[iLidar] = i /\ \A h \in Handles : index[h] # i
          /\ \A h \in Handles : h # iLidar => index'[h] = index[h]
      BY <2>2
    <3>2. bits' = bits /\ sampling' = sampling /\ iPc' # "getFreeIndex"
      BY <1>3, <2>2 DEF GetFreeIndex
    <3>3. index[iLidar] = NoIndex
      BY <1>3 DEF GetFreeIndex
    <3>4. NoIndex \notin Indices
      BY SizeAssumption DEF NoIndex, Indices
    <3>5. ASSUME NEW g \in Handles, NEW h \in Handles,
                 index'[g] # NoIndex, index'[g] = index'[h]
          PROVE  g = h
      <4>1. CASE g = iLidar
        BY <3>1, <3>5, <4>1
      <4>2. CASE h = iLidar
        BY <3>1, <3>5, <4>2
      <4>3. CASE g # iLidar /\ h # iLidar
        BY <3>1, <3>5, <4>3
      <4> QED
        BY <4>1, <4>2, <4>3
    <3>6. ASSUME NEW j \in Indices, sampling'[j] \/ bits'[j] # {}
          PROVE  \E h \in Handles : index'[h] = j
      <4>1. PICK h \in Handles : index[h] = j
        BY <3>2, <3>6
      <4>2. h # iLidar
        BY <3>3, <3>4, <4>1
      <4> QED
        BY <3>1, <4>1, <4>2
    <3> QED
      BY <3>2, <3>5, <3>6
  <2> QED
    BY <1>3, <2>1, <2>2 DEF GetFreeIndex
<1>4. CASE SetKey
  BY <1>4 DEF SetKey
<1>5. CASE KeyAcked
  BY <1>5, AnswerAssumption DEF KeyAcked, Found, Answers, Keys
<1> QED
  BY <1>1, <1>2, <1>3, <1>4, <1>5
  DEF Next, InfoThread, Callback, Unlock, SetAttitude, SetWorkMode, EnableImu,
      Answer, NotFound, OtherAcked, Retry, Fail, vars

\* Bits are set before they are asked for, and an acknowledged key keeps its acknowledgement.
LEMMA RoundStep ==
  ASSUME TypeOK, TypeOK', OwnInv, RoundInv, [Next]_vars
  PROVE  RoundInv'
<1> USE KeyFacts DEF TypeOK, RoundInv, Covered, Pending, Locked, infoVars, histVars, answerKeeps
<1>1. ASSUME NEW h \in Handles, LidarInfoChange(h) PROVE RoundInv'
  BY <1>1 DEF LidarInfoChange
<1>2. CASE GetFreeIndex
  <2>1. ASSUME NEW i \in Indices, index' = [index EXCEPT ![iLidar] = i]
        PROVE  RoundInv'
    <3>1. i # NoIndex
      BY SizeAssumption DEF NoIndex, Indices
    <3>2. index[iLidar] = NoIndex
      BY <1>2 DEF GetFreeIndex, OwnInv
    <3>3. \A k \in Keys : ~Pending(iLidar, k)
      BY <3>2
    <3> QED
      BY <1>2, <2>1, <3>1, <3>3 DEF GetFreeIndex
  <2>2. CASE UNCHANGED index
    BY <1>2, <2>2 DEF GetFreeIndex
  <2> QED
    BY <1>2, <2>1, <2>2 DEF GetFreeIndex
<1>3. CASE SetKey
  <2> DEFINE k == KeyOrder[iKey]
  <2>1. k \in Keys /\ iKey \in 1 .. 4 /\ iKey' = iKey + 1
    BY <1>3 DEF SetKey
  <2>2. CASE k \in Config(iLidar)
    <3>1. /\ bits' = [bits EXCEPT ![index[iLidar]] = @ \cup {k}]
          /\ Sent(iLidar, k)
      BY <1>3, <2>2 DEF SetKey
    <3>2. index[iLidar] \in Indices
      BY <1>3 DEF SetKey
    <3>3. \A h \in Handles, q \in Keys : Pending(h, q)' /\ ~Pending(h, q) => h = iLidar
      BY <1>3, <2>1, <3>1, SentFact DEF SetKey
    <3>4. \A h \in Handles : index[h] # NoIndex => bits[index[h]] \subseteq bits'[index[h]]
      BY <3>1, <3>2
    <3>5. \A h \in Handles : index[h] # NoIndex /\ Covered(h) => Covered(h)'
      BY <1>3, <3>4 DEF SetKey, Config
    <3>6. Locked' /\ iLidar' = iLidar /\ index' = index /\ acked' = acked
      BY <1>3 DEF SetKey
    <3>7. \A j \in 1 .. 4 : j < iKey' /\ KeyOrder[j] \in Config(iLidar)
            => KeyOrder[j] \in bits'[index[iLidar]] \cup acked[iLidar]
      BY <1>3, <2>1, <3>1, <3>2 DEF SetKey
    <3> QED
      BY <1>3, <3>3, <3>5, <3>6, <3>7 DEF SetKey, Config
  <2>3. CASE k \notin Config(iLidar)
    BY <1>3, <2>1, <2>3 DEF SetKey
  <2> QED
    BY <2>2, <2>3
<1>4. CASE Unlock
  <2>1. Covered(iLidar)
    BY <1>4 DEF Unlock
  <2> QED
    BY <1>4, <2>1 DEF Unlock
<1>5. CASE SetAttitude
  BY <1>5, SentFact DEF SetAttitude, Request, Keys
<1>6. CASE SetWorkMode
  BY <1>6, SentFact DEF SetWorkMode, Request, Keys
<1>7. CASE EnableImu
  BY <1>7, SentFact DEF EnableImu, Request, Keys
<1>8. ASSUME NEW h \in Handles, NEW r \in Request, NEW s \in Status, Answer(h, r, s)
      PROVE RoundInv'
  BY <1>8, AnswerAssumption DEF Answer
<1>9. CASE NotFound
  BY <1>9 DEF NotFound, Done, GiveUp
<1>10. CASE KeyAcked
  BY <1>10, AnswerAssumption DEF KeyAcked, Found, Done, Acknowledge, Answers, OwnInv
<1>11. CASE OtherAcked
  BY <1>11, AnswerAssumption DEF OtherAcked, Found, Done, Acknowledge, Answers
<1>12. CASE Retry
  BY <1>12, SentFact, AnswerAssumption DEF Retry, Found, Done, Answers
<1>13. CASE Fail
  BY <1>13 DEF Fail, Found, Done, GiveUp
<1>14. CASE UNCHANGED vars
  BY <1>14 DEF vars
<1> QED
  BY <1>1, <1>2, <1>3, <1>4, <1>5, <1>6, <1>7, <1>8, <1>9, <1>10, <1>11, <1>12, <1>13, <1>14
  DEF Next, InfoThread, Callback

\* The last bit is cleared only when the whole configuration was acknowledged.
LEMMA DoneStep ==
  ASSUME TypeOK, TypeOK', OwnInv, RoundInv, DoneInv, [Next]_vars
  PROVE  DoneInv'
<1> USE DEF TypeOK, DoneInv, infoVars, histVars, answerKeeps
<1>1. CASE UNCHANGED <<index, sampling, acked>>
  BY <1>1
<1>2. CASE GetFreeIndex
  BY <1>2 DEF GetFreeIndex, OwnInv
<1>3. CASE KeyAcked
  BY <1>3, AnswerAssumption DEF KeyAcked, Found, Acknowledge, Answers, OwnInv, RoundInv, Covered, Pending
<1>4. CASE OtherAcked
  BY <1>4, AnswerAssumption DEF OtherAcked, Acknowledge, Answers
<1> QED
  BY <1>1, <1>2, <1>3, <1>4
  DEF Next, InfoThread, Callback, LidarInfoChange, SetKey, Unlock, SetAttitude, SetWorkMode,
      EnableImu, Answer, NotFound, Retry, Fail, vars

\* A request is answered once, and each kind of answer accounts for it.
LEMMA AskedStep ==
  ASSUME TypeOK, TypeOK', OwnInv, AskedInv, [Next]_vars
  PROVE  AskedInv'
<1> USE KeyFacts DEF TypeOK, AskedInv, Pending, infoVars, histVars, answerKeeps
<1>1. ASSUME NEW h \in Handles, LidarInfoChange(h) PROVE AskedInv'
  BY <1>1 DEF LidarInfoChange
<1>2. CASE GetFreeIndex
  BY <1>2 DEF GetFreeIndex, OwnInv
<1>3. CASE SetKey
  BY <1>3, SentFact DEF SetKey, OwnInv
<1>4. CASE Unlock
  BY <1>4 DEF Unlock
<1>5. CASE SetAttitude
  BY <1>5, SentFact DEF SetAttitude, Request, Keys
<1>6. CASE SetWorkMode
  BY <1>6, SentFact DEF SetWorkMode, Request, Keys
<1>7. CASE EnableImu
  BY <1>7, SentFact DEF EnableImu, Request, Keys
<1>8. ASSUME NEW h \in Handles, NEW r \in Request, NEW s \in Status, Answer(h, r, s)
      PROVE AskedInv'
  BY <1>8, AnswerAssumption DEF Answer
<1>9. CASE NotFound
  BY <1>9, AnswerAssumption DEF NotFound, Done, GiveUp, Answers
<1>10. CASE KeyAcked
  BY <1>10, AnswerAssumption DEF KeyAcked, Found, Done, Acknowledge, Answers, OwnInv
<1>11. CASE OtherAcked
  BY <1>11, AnswerAssumption DEF OtherAcked, Found, Done, Acknowledge, Answers
<1>12. CASE Retry
  BY <1>12, SentFact, AnswerAssumption DEF Retry, Found, Done, Answers
<1>13. CASE Fail
  BY <1>13, AnswerAssumption DEF Fail, Found, Done, GiveUp, Answers
<1>14. CASE UNCHANGED vars
  BY <1>14 DEF vars
<1> QED
  BY <1>1, <1>2, <1>3, <1>4, <1>5, <1>6, <1>7, <1>8, <1>9, <1>10, <1>11, <1>12, <1>13, <1>14
  DEF Next, InfoThread, Callback

\* A lidar is Sampling only when every key configured for it was acknowledged.
THEOREM SamplingIsConfigured == Spec => []SamplingMeansConfigured
<1>1. Init => OwnInv /\ RoundInv /\ DoneInv
  BY AnswerAssumption, SizeAssumption
  DEF Init, OwnInv, RoundInv, DoneInv, Registered, Pending, Locked, Request
<1>2. TypeOK /\ TypeOK' /\ OwnInv /\ RoundInv /\ DoneInv /\ [Next]_vars
      => (OwnInv /\ RoundInv /\ DoneInv)'
  BY OwnStep, RoundStep, DoneStep
<1>3. DoneInv => SamplingMeansConfigured
  BY DEF DoneInv, SamplingMeansConfigured, Registered
<1> QED
  BY <1>1, <1>2, <1>3, TypeCorrect, PTL DEF Spec

\* A bit that stays set has a request under way or a callback that gave up.
THEOREM KeysAreAskedFor == Spec => []NoKeyForgotten
<1>1. Init => OwnInv /\ AskedInv
  BY SizeAssumption DEF Init, OwnInv, AskedInv, Registered
<1>2. TypeOK /\ TypeOK' /\ OwnInv /\ AskedInv /\ [Next]_vars => (OwnInv /\ AskedInv)'
  BY OwnStep, AskedStep
<1>3. AskedInv => NoKeyForgotten
  BY DEF AskedInv, NoKeyForgotten, Registered
<1> QED
  BY <1>1, <1>2, <1>3, TypeCorrect, PTL DEF Spec

-----------------------------------------------------------------------------
(* Induction over the lines of a file.                                     *)

\* The order of the numbers, as a relation.
Less == {p \in Nat \X Nat : p[1] < p[2]}

\* The naturals are well-founded, so every set of them has a least element.
LEMMA LessIsWellFounded == IsWellFoundedOn(Less, Nat)
<1>1. Less = OpToRel(<, Nat)
  BY DEF Less, OpToRel
<1> QED BY <1>1, NatLessThanWellFounded

\* A set of numbers that is not empty has a least one.
LEMMA Least ==
  ASSUME NEW T \in SUBSET Nat, T # {}
  PROVE  \E x \in T : \A y \in T : x <= y
<1>1. PICK x \in T : \A y \in T : ~(<<y, x>> \in Less)
  BY LessIsWellFounded, WFMin
<1>2. ASSUME NEW y \in T PROVE x <= y
  <2>1. ~(<<y, x>> \in Less) /\ y \in Nat /\ x \in Nat
    BY <1>1
  <2> QED BY <2>1 DEF Less
<1> QED BY <1>2

\* A function may be defined by a first value and a step.
Steps(N, S, a, G) == N \in Nat /\ a \in S /\ G \in [1 .. N -> [S -> S]]
Follows(h, N, S, a, G) ==
  h \in [0 .. N -> S] /\ h[0] = a /\ \A k \in 1 .. N : h[k] = G[k][h[k - 1]]

\* ... and such a function exists.
LEMMA Recursion ==
  ASSUME NEW N, NEW S, NEW a, NEW G, Steps(N, S, a, G)
  PROVE  \E h : Follows(h, N, S, a, G)
<1> USE DEF Steps
<1> DEFINE Upto(n) == \E h : Follows(h, n, S, a, G)
           Bad == {n \in 0 .. N : ~Upto(n)}
<1> SUFFICES ASSUME Bad # {} PROVE FALSE
  <2>1. N \in 0 .. N
    OBVIOUS
  <2> QED BY <2>1
<1>1. PICK n \in Bad : \A m \in Bad : n <= m
  <2>1. Bad \in SUBSET Nat
    OBVIOUS
  <2> QED BY <2>1, Least
<1>2. CASE n = 0
  <2>1. [k \in 0 .. 0 |-> a] \in [0 .. 0 -> S]
    OBVIOUS
  <2>2. [k \in 0 .. 0 |-> a][0] = a
    OBVIOUS
  <2>3. 1 .. 0 = {}
    OBVIOUS
  <2>4. Upto(0)
    BY <2>1, <2>2, <2>3 DEF Follows
  <2> QED BY <1>1, <1>2, <2>4
<1>3. CASE n # 0
  <2>1. n \in 1 .. N /\ n - 1 \in 0 .. N /\ n - 1 \notin Bad
    <3>1. n \in 1 .. N /\ n - 1 \in 0 .. N /\ ~(n <= n - 1)
      BY <1>3
    <3> HIDE DEF Bad
    <3> QED BY <1>1, <3>1
  <2>2. PICK h \in [0 .. n - 1 -> S] : h[0] = a /\ \A k \in 1 .. n - 1 : h[k] = G[k][h[k - 1]]
    BY <2>1 DEF Follows
  <2> DEFINE g == [k \in 0 .. n |-> IF k = n THEN G[n][h[n - 1]] ELSE h[k]]
  <2>3. h[n - 1] \in S /\ G[n][h[n - 1]] \in S
    BY <2>1, <2>2
  <2>4. \A k \in 0 .. n : k = n \/ (k \in 0 .. n - 1 /\ h[k] \in S)
    BY <2>1, <2>2
  <2>5. g \in [0 .. n -> S]
    BY <2>3, <2>4
  <2>6. g[0] = a /\ g[n] = G[n][h[n - 1]]
    BY <2>1, <2>2
  <2>7. \A k \in 0 .. n - 1 : g[k] = h[k]
    BY <2>1
  <2>8. ASSUME NEW k \in 1 .. n PROVE g[k] = G[k][g[k - 1]]
    <3>1. k - 1 \in 0 .. n - 1 /\ g[k - 1] = h[k - 1]
      BY <2>1, <2>7
    <3>2. CASE k = n
      BY <2>6, <3>1, <3>2
    <3>3. CASE k # n
      <4>1. k \in 1 .. n - 1 /\ k \in 0 .. n - 1
        BY <2>1, <3>3
      <4> QED BY <2>2, <2>7, <3>1, <4>1
    <3> QED BY <3>2, <3>3
  <2> HIDE DEF g
  <2>9. Upto(n)
    BY <2>5, <2>6, <2>8 DEF Follows
  <2> QED BY <1>1, <2>9
<1> QED BY <1>2, <1>3

\* What holds of the first index and passes from each to the next holds of all.
LEMMA Induction ==
  ASSUME NEW N \in Nat, NEW B, 0 \in B, \A k \in 1 .. N : k - 1 \in B => k \in B
  PROVE  \A k \in 0 .. N : k \in B
<1> DEFINE Bad == {k \in 0 .. N : k \notin B}
<1> SUFFICES ASSUME Bad # {} PROVE FALSE
  OBVIOUS
<1>1. PICK k \in Bad : \A m \in Bad : k <= m
  <2>1. Bad \in SUBSET Nat
    OBVIOUS
  <2> QED BY <2>1, Least
<1>2. k \in 1 .. N /\ k - 1 \in 0 .. N /\ ~(k <= k - 1)
  BY <1>1
<1>3. k - 1 \notin Bad
  <2> HIDE DEF Bad
  <2> QED BY <1>1, <1>2
<1> QED BY <1>1, <1>2, <1>3

-----------------------------------------------------------------------------
(* The config file and its tables.                                         *)

\* What the driver keeps of the file: a table is a map from some ips.
AllIps == Ips \cup {NoIp}
Devices == 0 .. NumDevices - 1
Table(S) == UNION {[D -> S] : D \in SUBSET AllIps}
Settled == [ip : AllIps, keys : [Params!Keys -> Int], extrinsic : Int]
Blank(c) == c.ip = NoIp /\ c.extrinsic = 0

\* An index belongs to one lidar; a lidar with a mounting has the configuration it was taken
\* from, and every other device has none.
Consistent(s) ==
  /\ \A a, b \in DOMAIN s.index : s.index[a] = s.index[b] => a = b
  /\ \A a \in DOMAIN s.mounting : a \in DOMAIN s.index
  /\ \A a \in DOMAIN s.index :
       IF a \in DOMAIN s.mounting
       THEN s.config[s.index[a]].ip = a /\ s.mounting[a] = Params!Mounting(s.config[s.index[a]])
       ELSE Blank(s.config[s.index[a]])
  /\ \A i \in Params!Free(s.index) : Blank(s.config[i])
AnyTables == [index : Table(Devices), config : [Devices -> Settled], mounting : Table(Int)]
Tables == {s \in AnyTables : Consistent(s)}

\* Put changes one value.
Changed(g, f, a, v) ==
  DOMAIN g = DOMAIN f \cup {a} /\ g[a] = v /\ \A b \in DOMAIN f : b # a => g[b] = f[b]

\* Put is m[k] = v of a std::map.
LEMMA PutChanges ==
  ASSUME NEW f, NEW a, NEW v
  PROVE  Changed(Params!Put(f, a, v), f, a, v)
BY DEF Changed, Params!Put

\* A table stays one.
LEMMA PutIsTable ==
  ASSUME NEW S, NEW f \in Table(S), NEW a \in AllIps, NEW v \in S
  PROVE  Params!Put(f, a, v) \in Table(S)
<1>1. PICK D \in SUBSET AllIps : f \in [D -> S]
  BY DEF Table
<1>2. Params!Put(f, a, v) = [b \in D \cup {a} |-> IF b = a THEN v ELSE f[b]]
  BY <1>1 DEF Params!Put
<1>3. Params!Put(f, a, v) \in [D \cup {a} -> S] /\ D \cup {a} \in SUBSET AllIps
  BY <1>1, <1>2
<1> QED BY <1>3 DEF Table

\* GetFreeIndex gives a lidar that has no index a free one.
LEMMA FreeIndexIs ==
  ASSUME NumDevices \in Nat, NEW ix, NEW a, a \notin DOMAIN ix, Params!Free(ix) # {}
  PROVE  Params!FreeIndex(ix, a) \in Params!Free(ix)
<1> DEFINE F == Params!Free(ix)
<1>1. F \in SUBSET Nat
  BY DEF Params!Free
<1>2. Params!FreeIndex(ix, a) = CHOOSE i \in F : \A j \in F : i <= j
  BY DEF Params!FreeIndex, Params!HasIndex
<1> HIDE DEF F
<1>3. \E i \in F : \A j \in F : i <= j
  BY <1>1, Least DEF F
<1>4. (CHOOSE i \in F : \A j \in F : i <= j) \in F
  BY <1>3
<1> QED BY <1>2, <1>4 DEF F

\* A lidar that takes an index takes one no other has.
LEMMA IndexIs ==
  ASSUME NumDevices \in Nat, NEW s \in Tables, NEW a \in AllIps, NEW i,
         a \in DOMAIN s.index \/ Params!Free(s.index) # {}, i = Params!FreeIndex(s.index, a)
  PROVE  /\ i \in Devices
         /\ a \in DOMAIN s.index => i = s.index[a]
         /\ a \notin DOMAIN s.index => i \in Params!Free(s.index)
         /\ \A b \in DOMAIN s.index : b # a => s.index[b] # i
<1>1. Consistent(s) /\ s.index \in Table(Devices)
  BY DEF Tables, AnyTables
<1>2. PICK D \in SUBSET AllIps : s.index \in [D -> Devices]
  BY <1>1 DEF Table
<1>3. CASE a \in DOMAIN s.index
  <2>1. i = s.index[a]
    BY <1>3 DEF Params!FreeIndex, Params!HasIndex
  <2> QED BY <1>1, <1>2, <1>3, <2>1 DEF Consistent
<1>4. CASE a \notin DOMAIN s.index
  <2>1. i \in Params!Free(s.index)
    BY <1>4, FreeIndexIs
  <2>2. i \in Devices /\ \A b \in DOMAIN s.index : s.index[b] # i
    BY <2>1 DEF Params!Free, Params!Taken, Devices
  <2> QED BY <1>4, <2>1, <2>2
<1> QED BY <1>3, <1>4

\* One pass of the loop over the configurations.
LEMMA FillIs ==
  ASSUME NumDevices \in Nat, NEW s \in Tables, NEW c \in Settled
  PROVE  Params!Fill(s, c) \in Tables
<1>1. c.ip \in AllIps /\ Params!Mounting(c) \in Int
  BY DEF Settled, Params!Mounting, Params!Tenth
<1>2. s \in AnyTables /\ Consistent(s)
  BY DEF Tables
<1>3. s.index \in Table(Devices) /\ s.config \in [Devices -> Settled] /\ s.mounting \in Table(Int)
  BY <1>2 DEF AnyTables
<1>4. CASE ~Params!HasIndex(s.index, c.ip) /\ Params!Free(s.index) = {}
  BY <1>4 DEF Params!Fill
<1>5. CASE Params!HasIndex(s.index, c.ip) \/ Params!Free(s.index) # {}
  <2>1. PICK i : i = Params!FreeIndex(s.index, c.ip)
    OBVIOUS
  <2>2. /\ i \in Devices
        /\ c.ip \in DOMAIN s.index => i = s.index[c.ip]
        /\ c.ip \notin DOMAIN s.index => i \in Params!Free(s.index)
        /\ \A b \in DOMAIN s.index : b # c.ip => s.index[b] # i
    BY <1>1, <1>5, <2>1, IndexIs DEF Params!HasIndex
  <2>3. PICK ix : ix = Params!Put(s.index, c.ip, i)
    OBVIOUS
  <2>4. /\ ix \in Table(Devices) /\ DOMAIN ix = DOMAIN s.index \cup {c.ip} /\ ix[c.ip] = i
        /\ \A b \in DOMAIN s.index : b # c.ip => ix[b] = s.index[b]
    <3> HIDE DEF Devices
    <3>1. PICK f \in Table(Devices), a \in AllIps : f = s.index /\ a = c.ip
      BY <1>1, <1>3
    <3>2. ix \in Table(Devices)
      BY <2>2, <2>3, <3>1, PutIsTable
    <3>3. Changed(ix, s.index, c.ip, i)
      BY <2>3, PutChanges
    <3> QED BY <3>2, <3>3 DEF Changed
  <2>5. PICK mo : mo = Params!Put(s.mounting, c.ip, Params!Mounting(c))
    OBVIOUS
  <2>6. /\ mo \in Table(Int) /\ DOMAIN mo = DOMAIN s.mounting \cup {c.ip} /\ mo[c.ip] = Params!Mounting(c)
        /\ \A b \in DOMAIN s.mounting : b # c.ip => mo[b] = s.mounting[b]
    <3>1. PICK f \in Table(Int), a \in AllIps, v \in Int : f = s.mounting /\ a = c.ip /\ v = Params!Mounting(c)
      BY <1>1, <1>3
    <3>2. mo \in Table(Int)
      BY <2>5, <3>1, PutIsTable
    <3>3. Changed(mo, s.mounting, c.ip, Params!Mounting(c))
      BY <2>5, PutChanges
    <3> QED BY <3>2, <3>3 DEF Changed
  <2>7. PICK co : co = [s.config EXCEPT ![i] = c]
    OBVIOUS
  <2>8. co \in [Devices -> Settled] /\ co[i] = c /\ \A j \in Devices : j # i => co[j] = s.config[j]
    BY <1>3, <2>2, <2>7
  <2>9. PICK t : t = [index |-> ix, config |-> co, mounting |-> mo]
    OBVIOUS
  <2>10. t \in AnyTables /\ t.index = ix /\ t.config = co /\ t.mounting = mo
    BY <2>4, <2>6, <2>8, <2>9 DEF AnyTables
  <2>11. Params!Fill(s, c) = t
    BY <1>5, <2>1, <2>3, <2>5, <2>7, <2>9 DEF Params!Fill
  <2>12. \A b \in DOMAIN s.index : s.index[b] \in Devices
    BY <1>3 DEF Table
  <2>13. \A a, b \in DOMAIN ix : ix[a] = ix[b] => a = b
    BY <1>2, <2>2, <2>4 DEF Consistent
  <2>14. \A a \in DOMAIN mo : a \in DOMAIN ix
    BY <1>2, <2>4, <2>6 DEF Consistent
  <2>15. ASSUME NEW a \in DOMAIN ix
         PROVE  IF a \in DOMAIN mo THEN co[ix[a]].ip = a /\ mo[a] = Params!Mounting(co[ix[a]]) ELSE Blank(co[ix[a]])
    <3>1. CASE a = c.ip
      BY <2>4, <2>6, <2>8, <3>1
    <3>2. CASE a # c.ip
      <4>1. /\ a \in DOMAIN s.index /\ ix[a] = s.index[a] /\ s.index[a] # i /\ s.index[a] \in Devices
            /\ a \in DOMAIN mo <=> a \in DOMAIN s.mounting
        BY <2>2, <2>4, <2>6, <2>12, <2>15, <3>2
      <4>2. co[ix[a]] = s.config[s.index[a]]
        BY <2>8, <4>1
      <4> QED BY <1>2, <2>6, <3>2, <4>1, <4>2 DEF Consistent
    <3> QED BY <3>1, <3>2
  <2>16. ASSUME NEW j \in Params!Free(ix) PROVE Blank(co[j])
    <3>1. j \in Devices /\ \A a \in DOMAIN ix : ix[a] # j
      BY <2>16 DEF Params!Free, Params!Taken, Devices
    <3>2. j # i
      BY <2>4, <3>1
    <3>3. \A a \in DOMAIN s.index : s.index[a] # j
      BY <2>2, <2>4, <3>1, <3>2
    <3>4. j \in Params!Free(s.index)
      BY <3>1, <3>3 DEF Params!Free, Params!Taken, Devices
    <3> QED BY <1>2, <2>8, <3>1, <3>2, <3>4 DEF Consistent
  <2>17. Consistent(t)
    BY <2>10, <2>13, <2>14, <2>15, <2>16 DEF Consistent
  <2> QED BY <2>10, <2>11, <2>17 DEF Tables
<1> QED BY <1>4, <1>5

\* Every key of a line is a number of 8 bits, and its mounting is a number.
LEMMA UserConfigIs ==
  ASSUME NEW f, Params!File(f), NEW i \in 1 .. Len(f.lines)
  PROVE  Params!UserConfig(f.lines[i]) \in Settled
<1>1. PICK line : line = f.lines[i]
  OBVIOUS
<1>2. line.ip \in AllIps /\ \A k \in DOMAIN line.keys : line.keys[k] \in Int
  BY <1>1 DEF Params!File, AllIps
<1>3. \A k \in Params!Keys : Params!Given(line, k) => Params!Int8(line.keys[k]) \in Int
  BY <1>2 DEF Params!Given, Params!Int8
<1>4. PICK ks : ks = [k \in Params!Keys |-> IF Params!Given(line, k) THEN Params!Int8(line.keys[k]) ELSE -1]
  OBVIOUS
<1>5. ks \in [Params!Keys -> Int]
  BY <1>3, <1>4
<1>6. PICK ex \in Int : ex = IF Params!Given(line, "extrinsic_parameter") THEN line.keys["extrinsic_parameter"] ELSE 0
  BY <1>2 DEF Params!Given
<1>7. Params!UserConfig(line) = [ip |-> line.ip, keys |-> ks, extrinsic |-> ex]
  BY <1>4, <1>6 DEF Params!UserConfig
<1> QED BY <1>1, <1>2, <1>5, <1>7 DEF Settled

\* What is parsed of a file is a list of configurations.
LEMMA ParseIs ==
  ASSUME NEW f, Params!File(f)
  PROVE  Params!Parse(f) \in Seq(Settled)
<1> DEFINE N == Len(f.lines)
           S == Seq(Settled)
           Take(k, s) == IF k = 0 \/ ~f.array THEN <<>>
                         ELSE IF f.lines[k].ip = NoIp THEN s
                         ELSE Append(s, Params!UserConfig(f.lines[k]))
           Law(h) == h = [k \in 0 .. N |-> Take(k, h[k - 1])]
<1>0. N \in Nat
  BY DEF Params!File
<1>1. Params!Parse(f) = (CHOOSE h : Law(h))[N]
  BY DEF Params!Parse
<1>2. ASSUME NEW k \in 1 .. N, NEW s \in S PROVE Take(k, s) \in S
  <2>1. PICK c \in Settled : c = Params!UserConfig(f.lines[k])
    BY UserConfigIs
  <2>2. Append(s, c) \in S /\ <<>> \in S
    OBVIOUS
  <2> QED BY <2>1, <2>2
<1>3. \A s : Take(0, s) = <<>>
  OBVIOUS
<1> HIDE DEF Take
<1>4. \E h : Law(h)
  <2> DEFINE G == [k \in 1 .. N |-> [s \in S |-> Take(k, s)]]
  <2>1. G \in [1 .. N -> [S -> S]]
    BY <1>2
  <2>2. <<>> \in S
    OBVIOUS
  <2>3. PICK h \in [0 .. N -> S] : h[0] = <<>> /\ \A k \in 1 .. N : h[k] = G[k][h[k - 1]]
    <3>1. Steps(N, S, <<>>, G)
      BY <1>0, <2>1, <2>2 DEF Steps
    <3>2. \E h : Follows(h, N, S, <<>>, G)
      BY <3>1, Recursion
    <3> QED BY <3>2 DEF Follows
  <2>4. \A k \in 0 .. N : h[k] = Take(k, h[k - 1])
    <3> SUFFICES ASSUME NEW k \in 0 .. N PROVE h[k] = Take(k, h[k - 1])
      OBVIOUS
    <3>1. CASE k = 0
      BY <1>3, <2>3, <3>1
    <3>2. CASE k # 0
      <4>1. k \in 1 .. N /\ k - 1 \in 0 .. N
        BY <1>0, <3>2
      <4> QED BY <2>3, <4>1
    <3> QED BY <3>1, <3>2
  <2>5. Law(h)
    BY <2>3, <2>4
  <2> QED BY <2>5
<1>5. PICK h : Law(h) /\ Params!Parse(f) = h[N]
  <2>1. Law(CHOOSE h : Law(h))
    BY <1>4
  <2> QED BY <1>1, <2>1
<1>6. \A k \in 0 .. N : h[k] = Take(k, h[k - 1])
  <2> HIDE DEF N
  <2> QED BY <1>5
<1>7. \A k \in 0 .. N : h[k] \in S
  <2> DEFINE B == {k \in Nat : h[k] \in S}
  <2>1. 0 \in B
    <3>1. <<>> \in S /\ 0 \in 0 .. N
      BY <1>0
    <3> QED BY <1>3, <1>6, <3>1
  <2>2. ASSUME NEW k \in 1 .. N, k - 1 \in B PROVE k \in B
    <3>1. k \in 0 .. N /\ k \in Nat /\ h[k - 1] \in S
      BY <1>0, <2>2
    <3> QED BY <1>2, <1>6, <3>1
  <2> HIDE DEF B, N
  <2>3. \A k \in 0 .. N : k \in B
    BY <1>0, <2>1, <2>2, Induction
  <2> QED BY <2>3 DEF B
<1>8. N \in 0 .. N
  BY <1>0
<1> QED BY <1>5, <1>7, <1>8

\* The loop over the configurations leaves the tables consistent.
LEMMA FilledIs ==
  ASSUME NumDevices \in Nat, NEW cs \in Seq(Settled),
         [index |-> cache, config |-> config, mounting |-> mounting] \in Tables
  PROVE  Params!Filled(cs) \in Tables
<1> DEFINE N == Len(cs)
           start == [index |-> cache, config |-> config, mounting |-> mounting]
           Law(h) == h = [k \in 0 .. N |-> IF k = 0 THEN start ELSE Params!Fill(h[k - 1], cs[k])]
<1>0. N \in Nat /\ \A k \in 1 .. N : cs[k] \in Settled
  OBVIOUS
<1>1. Params!Filled(cs) = (CHOOSE h : Law(h))[N]
  BY DEF Params!Filled
<1>2. start \in Tables
  OBVIOUS
<1>3. \A k \in 1 .. N, s \in Tables : Params!Fill(s, cs[k]) \in Tables
  BY <1>0, FillIs
<1> HIDE DEF start
<1>4. \E h : Law(h)
  <2> DEFINE G == [k \in 1 .. N |-> [s \in Tables |-> Params!Fill(s, cs[k])]]
  <2>1. G \in [1 .. N -> [Tables -> Tables]]
    BY <1>3
  <2>2. PICK h \in [0 .. N -> Tables] : h[0] = start /\ \A k \in 1 .. N : h[k] = G[k][h[k - 1]]
    <3>1. Steps(N, Tables, start, G)
      BY <1>0, <1>2, <2>1 DEF Steps
    <3>2. \E h : Follows(h, N, Tables, start, G)
      BY <3>1, Recursion
    <3> QED BY <3>2 DEF Follows
  <2>3. \A k \in 0 .. N : h[k] = IF k = 0 THEN start ELSE Params!Fill(h[k - 1], cs[k])
    <3> SUFFICES ASSUME NEW k \in 0 .. N PROVE h[k] = IF k = 0 THEN start ELSE Params!Fill(h[k - 1], cs[k])
      OBVIOUS
    <3>1. CASE k = 0
      BY <2>2, <3>1
    <3>2. CASE k # 0
      <4>1. k \in 1 .. N /\ k - 1 \in 0 .. N
        BY <1>0, <3>2
      <4> QED BY <2>2, <3>2, <4>1
    <3> QED BY <3>1, <3>2
  <2>4. Law(h)
    BY <2>2, <2>3
  <2> QED BY <2>4
<1>5. PICK h : Law(h) /\ Params!Filled(cs) = h[N]
  <2>1. Law(CHOOSE h : Law(h))
    BY <1>4
  <2> QED BY <1>1, <2>1
<1>6. h[0] = start /\ \A k \in 1 .. N : h[k] = Params!Fill(h[k - 1], cs[k])
  <2>1. 0 \in 0 .. N /\ \A k \in 1 .. N : k \in 0 .. N /\ k # 0
    BY <1>0
  <2> HIDE DEF N
  <2>2. h[0] = IF 0 = 0 THEN start ELSE Params!Fill(h[0 - 1], cs[0])
    BY <1>5, <2>1
  <2>3. \A k \in 1 .. N : h[k] = IF k = 0 THEN start ELSE Params!Fill(h[k - 1], cs[k])
    BY <1>5, <2>1
  <2> QED BY <2>1, <2>2, <2>3
<1>7. \A k \in 0 .. N : h[k] \in Tables
  <2> DEFINE B == {k \in Nat : h[k] \in Tables}
  <2>1. 0 \in B
    BY <1>2, <1>6
  <2>2. ASSUME NEW k \in 1 .. N, k - 1 \in B PROVE k \in B
    <3>1. k \in Nat /\ h[k - 1] \in Tables
      BY <1>0, <2>2
    <3> QED BY <1>3, <1>6, <3>1
  <2> HIDE DEF B, N
  <2>3. \A k \in 0 .. N : k \in B
    BY <1>0, <2>1, <2>2, Induction
  <2> QED BY <2>3 DEF B
<1> QED BY <1>0, <1>5, <1>7

\* The tables are consistent, and a lidar has been told the configuration of its device.
TablesInv ==
  /\ file \in Files
  /\ [index |-> cache, config |-> config, mounting |-> mounting] \in Tables
  /\ lds = "new" => \A a : a \notin DOMAIN sent
  /\ \A a \in DOMAIN sent : a \in DOMAIN cache /\ sent[a] = Params!Values(config[cache[a]])

\* No step of the driver, neither the loops over the file nor the call back of a lidar, puts
\* the tables at odds.
LEMMA TablesStep ==
  ASSUME NumDevices \in Nat, TablesInv, [Params!Next]_Params!vars
  PROVE  TablesInv'
<1>1. CASE Params!InitLdsLidar
  <2>1. lds = "new" /\ UNCHANGED <<file, sent>>
    BY <1>1 DEF Params!InitLdsLidar
  <2>2. \A a : a \notin DOMAIN sent'
    BY <2>1 DEF TablesInv
  <2>3. [index |-> cache', config |-> config', mounting |-> mounting'] \in Tables
    <3>1. CASE UNCHANGED <<cache, config, mounting>>
      BY <3>1 DEF TablesInv
    <3>2. CASE LET after == Params!Filled(Params!Parse(file)) IN
                 cache' = after.index /\ config' = after.config /\ mounting' = after.mounting
      <4>1. Params!Parse(file) \in Seq(Settled)
        BY FilesAssumption, ParseIs DEF TablesInv
      <4>2. PICK s \in Tables : s = Params!Filled(Params!Parse(file))
        BY <4>1, FilledIs DEF TablesInv
      <4>3. s = [index |-> cache', config |-> config', mounting |-> mounting']
        BY <3>2, <4>2 DEF Tables, AnyTables
      <4> QED BY <4>2, <4>3
    <3> QED BY <1>1, <3>1, <3>2 DEF Params!InitLdsLidar
  <2> QED BY <2>1, <2>2, <2>3 DEF TablesInv
<1>2. ASSUME NEW a \in Ips, Params!LidarInfoChange(a) PROVE TablesInv'
  <2>1. lds = "ready" /\ UNCHANGED <<file, lds, config, mounting>>
    BY <1>2 DEF Params!LidarInfoChange
  <2>2. CASE Params!HasIndex(cache, a)
    <3>1. sent' = Params!Put(sent, a, Params!Values(config[cache[a]])) /\ cache' = cache
      BY <1>2, <2>2 DEF Params!LidarInfoChange
    <3>2. Changed(sent', sent, a, Params!Values(config[cache[a]]))
      BY <3>1, PutChanges
    <3>3. a \in DOMAIN cache
      BY <2>2 DEF Params!HasIndex
    <3> QED BY <2>1, <3>1, <3>2, <3>3 DEF TablesInv, Changed
  <2>3. CASE ~Params!HasIndex(cache, a) /\ Params!Free(cache) = {}
    BY <1>2, <2>1, <2>3 DEF Params!LidarInfoChange, TablesInv
  <2>4. CASE ~Params!HasIndex(cache, a) /\ Params!Free(cache) # {}
    <3>1. cache' = Params!Put(cache, a, Params!FreeIndex(cache, a)) /\ sent' = sent
      BY <1>2, <2>4 DEF Params!LidarInfoChange
    <3>2. PICK s \in Tables : s = [index |-> cache, config |-> config, mounting |-> mounting]
      BY DEF TablesInv
    <3>3. PICK t : t = [index |-> cache', config |-> config, mounting |-> mounting]
      OBVIOUS
    <3>4. /\ s.index = cache /\ s.config = config /\ s.mounting = mounting
          /\ t.index = cache' /\ t.config = config /\ t.mounting = mounting
      BY <3>2, <3>3
    <3>5. s \in AnyTables /\ Consistent(s)
      BY DEF Tables
    <3>6. PICK i \in Params!Free(cache) : i = Params!FreeIndex(cache, a)
      BY <2>4, FreeIndexIs DEF Params!HasIndex
    <3>7. i \in Devices /\ \A b \in DOMAIN cache : cache[b] # i
      BY DEF Params!Free, Params!Taken, Devices
    <3>8. Changed(cache', cache, a, i)
      BY <3>1, <3>6, PutChanges
    <3>9. DOMAIN cache' = DOMAIN cache \cup {a} /\ cache'[a] = i /\ a \notin DOMAIN cache
          /\ \A b \in DOMAIN cache : cache'[b] = cache[b]
      BY <2>4, <3>8 DEF Changed, Params!HasIndex
    <3>10. t \in AnyTables
      <4>1. cache \in Table(Devices) /\ a \in AllIps
        BY <3>4, <3>5 DEF AnyTables, AllIps
      <4>2. cache' \in Table(Devices)
        BY <3>1, <3>6, <3>7, <4>1, PutIsTable
      <4> QED BY <3>3, <3>4, <3>5, <4>2 DEF AnyTables
    <3>11. Consistent(t)
      <4>1. \A b, c \in DOMAIN cache' : cache'[b] = cache'[c] => b = c
        BY <3>4, <3>5, <3>7, <3>9 DEF Consistent
      <4>2. \A b \in DOMAIN mounting : b \in DOMAIN cache
        BY <3>4, <3>5 DEF Consistent
      <4>3. ASSUME NEW b \in DOMAIN cache'
            PROVE  IF b \in DOMAIN mounting
                   THEN config[cache'[b]].ip = b /\ mounting[b] = Params!Mounting(config[cache'[b]])
                   ELSE Blank(config[cache'[b]])
        <5>1. CASE b = a
          <6>1. b \notin DOMAIN mounting /\ Blank(config[i])
            BY <3>4, <3>5, <3>9, <4>2, <5>1 DEF Consistent
          <6> QED BY <3>9, <5>1, <6>1
        <5>2. CASE b # a
          BY <3>4, <3>5, <3>9, <4>3, <5>2 DEF Consistent
        <5> QED BY <5>1, <5>2
      <4>4. \A j \in Params!Free(cache') : j \in Params!Free(cache)
        BY <3>9 DEF Params!Free, Params!Taken
      <4>5. \A j \in Params!Free(cache') : Blank(config[j])
        BY <3>4, <3>5, <4>4 DEF Consistent
      <4> QED BY <3>4, <3>9, <4>1, <4>2, <4>3, <4>5 DEF Consistent
    <3>12. \A b \in DOMAIN sent : b \in DOMAIN cache' /\ sent[b] = Params!Values(config[cache'[b]])
      BY <3>9 DEF TablesInv
    <3>13. [index |-> cache', config |-> config', mounting |-> mounting'] \in Tables
      BY <2>1, <3>3, <3>10, <3>11 DEF Tables
    <3> QED BY <2>1, <3>1, <3>12, <3>13 DEF TablesInv
  <2> QED BY <2>2, <2>3, <2>4
<1>3. CASE UNCHANGED Params!vars
  BY <1>3 DEF Params!vars, TablesInv
<1> QED BY <1>1, <1>2, <1>3 DEF Params!Next

\* The tables of a new driver are consistent.
LEMMA TablesStart == ASSUME NumDevices \in Nat PROVE Params!Init => TablesInv
<1> SUFFICES ASSUME Params!Init PROVE TablesInv
  OBVIOUS
<1>1. file \in Files /\ cache = <<>> /\ mounting = <<>> /\ sent = <<>>
      /\ config = [i \in Devices |-> Params!ZeroConfig]
  BY DEF Params!Init, Params!None, Devices
<1>2. DOMAIN cache = {} /\ DOMAIN mounting = {} /\ DOMAIN sent = {}
  BY <1>1
<1>3. cache \in Table(Devices) /\ mounting \in Table(Int)
  <2>1. \A S : <<>> \in [{} -> S]
    OBVIOUS
  <2> QED BY <1>1, <2>1 DEF Table
<1>4. Params!ZeroConfig \in Settled /\ Blank(Params!ZeroConfig)
  BY DEF Params!ZeroConfig, Settled, Blank, AllIps
<1>5. config \in [Devices -> Settled] /\ \A i \in Devices : Blank(config[i])
  BY <1>1, <1>4
<1>6. PICK s : s = [index |-> cache, config |-> config, mounting |-> mounting]
  OBVIOUS
<1>7. s \in AnyTables /\ s.index = cache /\ s.config = config /\ s.mounting = mounting
  BY <1>3, <1>5, <1>6 DEF AnyTables
<1>8. Params!Free(cache) \subseteq Devices
  BY DEF Params!Free, Devices
<1>9. Consistent(s)
  BY <1>2, <1>5, <1>7, <1>8 DEF Consistent
<1>10. s \in Tables
  BY <1>7, <1>9 DEF Tables
<1> QED BY <1>1, <1>2, <1>6, <1>10 DEF TablesInv

\* A lidar was told what its device is configured to, and the mounting came from there.
LEMMA TablesShareMountings == TablesInv => MountingIsShared
<1> SUFFICES ASSUME TablesInv
             PROVE  /\ DOMAIN mounting \subseteq DOMAIN cache
                    /\ \A a \in DOMAIN sent :
                         IF a \in DOMAIN mounting
                         THEN /\ sent[a].attitudeTo = a
                              /\ mounting[a] \in {sent[a].attitude, Params!Tenth(sent[a].attitude)}
                         ELSE sent[a].attitudeTo = NoIp /\ sent[a].attitude = 0
  BY DEF MountingIsShared, Params!MountingIsShared
<1>1. PICK s \in Tables : s = [index |-> cache, config |-> config, mounting |-> mounting]
  BY DEF TablesInv
<1>2. Consistent(s) /\ s.index = cache /\ s.config = config /\ s.mounting = mounting
  BY <1>1 DEF Tables
<1>3. DOMAIN mounting \subseteq DOMAIN cache
  BY <1>2 DEF Consistent
<1>4. ASSUME NEW a \in DOMAIN sent
      PROVE  IF a \in DOMAIN mounting
             THEN /\ sent[a].attitudeTo = a
                  /\ mounting[a] \in {sent[a].attitude, Params!Tenth(sent[a].attitude)}
             ELSE sent[a].attitudeTo = NoIp /\ sent[a].attitude = 0
  <2>1. PICK c : c = config[cache[a]]
    OBVIOUS
  <2>2. a \in DOMAIN cache /\ sent[a] = Params!Values(c)
    BY <2>1 DEF TablesInv
  <2>3. sent[a].attitude = c.extrinsic /\ sent[a].attitudeTo = c.ip
    BY <2>2 DEF Params!Values
  <2>4. CASE a \in DOMAIN mounting
    BY <1>2, <2>1, <2>2, <2>3, <2>4 DEF Consistent, Params!Mounting
  <2>5. CASE a \notin DOMAIN mounting
    BY <1>2, <2>1, <2>2, <2>3, <2>5 DEF Consistent, Blank
  <2> QED BY <2>4, <2>5
<1> QED BY <1>3, <1>4

\* The mounting that turns the points of a lidar is the one the lidar was told, whatever lines
\* a config file has, with repeated ips and lines without one.
THEOREM MountingsAreShared ==
  ASSUME NumDevices \in Nat
  PROVE  Params!Spec => []MountingIsShared
BY TablesStart, TablesStep, TablesShareMountings, PTL DEF Params!Spec

-----------------------------------------------------------------------------
(* When a cloud is due, with t ticks in a millisecond and m milliseconds   *)
(* in an interval.                                                         *)

\* Division and remainder, of numbers the prover finds hard.
LEMMA DivBounds ==
  ASSUME NEW n \in Int, NEW t \in Nat, t > 0
  PROVE  n \div t \in Int /\ t * (n \div t) <= n /\ n < t * (n \div t) + t
OBVIOUS

\* The remainder by the quotient.
LEMMA ModIs ==
  ASSUME NEW n \in Int, NEW t \in Nat, t > 0
  PROVE  n % t = n - t * (n \div t)
OBVIOUS

\* Multiplying keeps the order.
LEMMA Monotone ==
  ASSUME NEW a \in Int, NEW b \in Int, NEW t \in Nat, a <= b
  PROVE  t * a <= t * b
OBVIOUS

\* A quotient is told by its bounds.
LEMMA DivUnique ==
  ASSUME NEW n \in Int, NEW t \in Nat, t > 0, NEW q \in Int, t * q <= n, n < t * q + t
  PROVE  n \div t = q
<1>1. PICK d \in Int : d = n \div t /\ t * d <= n /\ n < t * d + t
  BY DivBounds
<1>2. CASE d < q
  <2>1. t * (d + 1) <= t * q
    BY <1>2, Monotone
  <2> QED BY <1>1, <2>1
<1>3. CASE q < d
  <2>1. t * (q + 1) <= t * d
    BY <1>3, Monotone
  <2> QED BY <1>1, <2>1
<1> QED BY <1>1, <1>2, <1>3

\* A cloud from stamp a is due at stamp b; it is, and was not at any stamp between.
DueAt(t, m, a, b) == (b \div t) % m = 0 /\ b \div t # 0 /\ b - a >= m * t - t
FirstDue(t, m, a, b) == a <= b /\ DueAt(t, m, a, b) /\ \A c \in a .. b - 1 : ~DueAt(t, m, a, c)

\* A number of milliseconds that the interval divides.
LEMMA ModOfMultiple ==
  ASSUME NEW m \in Nat, m > 0, NEW j \in Int
  PROVE  (m * j) % m = 0
<1>1. m * j \in Int /\ m * j <= m * j /\ m * j < m * j + m
  OBVIOUS
<1>2. (m * j) \div m = j
  BY <1>1, DivUnique
<1> QED BY <1>1, <1>2, ModIs

\* And a number the interval divides is one of its multiples.
LEMMA MultipleOfMod ==
  ASSUME NEW m \in Nat, m > 0, NEW n \in Int, n % m = 0
  PROVE  \E j \in Int : n = m * j
<1>1. n \div m \in Int /\ n = m * (n \div m)
  BY DivBounds, ModIs
<1> QED BY <1>1

\* A cloud that follows on the millisecond at which the one before ended is due an interval later.
LEMMA DueIsAligned ==
  ASSUME NEW t \in Nat, t > 0, NEW m \in Nat, m > 1, NEW a \in Nat, a > 0, NEW b \in Int,
         FirstDue(t, m, a, b), ((a - 1) \div t) % m = 0
  PROVE  b \div t = ((a - 1) \div t) + m
<1>1. PICK q \in Int : q = (a - 1) \div t /\ t * q <= a - 1 /\ a - 1 < t * q + t
  BY DivBounds
<1>2. q >= 0
  <2>1. CASE q < 0
    <3>1. t * (q + 1) <= t * 0
      BY <2>1, Monotone
    <3> QED BY <1>1, <3>1
  <2> QED BY <2>1
<1>3. PICK j \in Int : q = m * j
  BY <1>1, MultipleOfMod
<1>4. PICK c \in Int : c = t * (q + m)
  OBVIOUS
<1>5. c \div t = q + m
  <2>1. t * (q + m) <= c /\ c < t * (q + m) + t
    BY <1>4
  <2> QED BY <2>1, DivUnique
<1>6. (q + m) % m = 0
  <2>1. PICK i \in Int : i = j + 1
    OBVIOUS
  <2>2. q + m = m * i
    BY <1>3, <2>1
  <2>3. (m * i) % m = 0
    BY ModOfMultiple
  <2> QED BY <2>2, <2>3
<1>7. c = t * q + m * t /\ t <= m * t
  <2>1. t * 1 <= t * m
    BY Monotone
  <2> QED BY <1>4, <2>1
<1>8. c - a >= m * t - t /\ c >= a
  BY <1>1, <1>7
<1>9. DueAt(t, m, a, c)
  BY <1>2, <1>5, <1>6, <1>8 DEF DueAt
<1>10. b <= c
  <2>1. CASE c < b
    <3>1. c \in a .. b - 1
      BY <1>8, <2>1
    <3> QED BY <1>9, <3>1 DEF FirstDue
  <2> QED BY <2>1
<1>11. b - a >= m * t - t /\ (b \div t) % m = 0
  BY DEF FirstDue, DueAt
<1>12. PICK d \in Int : d = b \div t /\ t * d <= b /\ b < t * d + t
  BY DivBounds
<1>13. d <= q + m
  <2>1. CASE d > q + m
    <3>1. t * (q + m + 1) <= t * d
      BY <2>1, Monotone
    <3>2. t * (q + m + 1) = t * (q + m) + t
      OBVIOUS
    <3> QED BY <1>4, <1>10, <1>12, <3>1, <3>2
  <2> QED BY <2>1
<1>14. d >= q + m - 1
  <2>1. CASE d <= q + m - 2
    <3>1. t * (d + 1) <= t * (q + m - 1)
      BY <2>1, Monotone
    <3>2. t * (d + 1) = t * d + t /\ t * (q + m - 1) = t * q + m * t - t
      OBVIOUS
    <3>3. b >= a + m * t - t
      BY <1>11
    <3> QED BY <1>1, <1>12, <3>1, <3>2, <3>3
  <2> QED BY <2>1
<1>15. d # q + m - 1
  <2>1. CASE d = q + m - 1
    <3>1. PICK i \in Int : d = m * i
      BY <1>11, <1>12, MultipleOfMod
    <3>2. m * i = m * j + m - 1
      BY <1>3, <2>1, <3>1
    <3>3. CASE i <= j
      <4>1. m * i <= m * j
        BY <3>3, Monotone
      <4> QED BY <3>2, <4>1
    <3>4. CASE i > j
      <4>1. m * (j + 1) <= m * i
        BY <3>4, Monotone
      <4>2. m * (j + 1) = m * j + m
        OBVIOUS
      <4> QED BY <3>2, <4>1, <4>2
    <3> QED BY <3>3, <3>4
  <2> QED BY <2>1
<1> QED BY <1>1, <1>12, <1>13, <1>14, <1>15

\* A cloud is due before two intervals have passed.
LEMMA DueIsSoon ==
  ASSUME NEW t \in Nat, t > 0, NEW m \in Nat, m > 0, NEW a \in Nat, a > 0, NEW b \in Int,
         FirstDue(t, m, a, b)
  PROVE  b - a < 2 * (m * t)
<1>1. PICK i \in Nat : i = m * t
  OBVIOUS
<1>2. i >= t
  <2>1. t * 1 <= t * m
    BY Monotone
  <2> QED BY <1>1, <2>1
<1>3. PICK x \in Int : x = a + i - t - 1
  OBVIOUS
<1>4. x >= 0
  BY <1>2, <1>3
<1>5. PICK e \in Int : e = x \div i /\ i * e <= x /\ x < i * e + i
  BY <1>2, DivBounds
<1>6. e >= 0
  <2>1. CASE e < 0
    <3>1. i * (e + 1) <= i * 0
      BY <2>1, Monotone
    <3> QED BY <1>4, <1>5, <3>1
  <2> QED BY <2>1
<1>7. PICK c \in Int : c = i * (e + 1)
  OBVIOUS
<1>8. c = i * e + i
  BY <1>7
<1>9. c - a >= i - t /\ c - a < 2 * i /\ c >= a
  BY <1>2, <1>3, <1>5, <1>8
<1>10. c = t * (m * (e + 1))
  BY <1>1, <1>7
<1>11. PICK f \in Int : f = m * (e + 1)
  OBVIOUS
<1>12. c \div t = f
  <2>1. t * f <= c /\ c < t * f + t
    BY <1>10, <1>11
  <2> QED BY <2>1, DivUnique
<1>13. f % m = 0 /\ f # 0
  <2>1. m * 1 <= m * (e + 1)
    BY <1>6, Monotone
  <2> QED BY <1>11, <2>1, ModOfMultiple
<1>14. DueAt(t, m, a, c)
  BY <1>1, <1>9, <1>12, <1>13 DEF DueAt
<1>15. b <= c
  <2>1. CASE c < b
    <3>1. c \in a .. b - 1
      BY <1>9, <2>1
    <3> QED BY <1>14, <3>1 DEF FirstDue
  <2> QED BY <2>1
<1> QED BY <1>1, <1>9, <1>15

\* A number below the divisor is its own remainder.
LEMMA ModOfSmall ==
  ASSUME NEW n \in Nat, NEW m \in Nat, n < m
  PROVE  n % m = n
OBVIOUS

-----------------------------------------------------------------------------
(* The packets of the lidars and their frames.                             *)

\* Packets hold one point or none.
Packets == {p \in [lidar : Lidars, points : Seq(Frames!Point)] : Len(p.points) <= 1}
Stamped(p) == p.points # <<>>

\* The stamps of a lidar rise through its cloud and the packets that wait in a line.
Rising(c) == \A i, j \in 1 .. Len(c) : i < j => c[i] < c[j]
Ordered(w, cs, h) ==
  /\ w \in Seq(Packets) /\ h \in [Lidars -> Nat] /\ cs \in [Lidars -> Seq(Frames!Point)]
  /\ \A l \in Lidars : Rising(cs[l])
  /\ \A i \in 1 .. Len(w) : Stamped(w[i]) =>
       /\ w[i].points[1] <= h[w[i].lidar]
       /\ \A k \in 1 .. Len(cs[w[i].lidar]) : cs[w[i].lidar][k] < w[i].points[1]
  /\ \A i, j \in 1 .. Len(w) : i < j /\ w[i].lidar = w[j].lidar /\ Stamped(w[i]) /\ Stamped(w[j])
       => w[i].points[1] < w[j].points[1]
  /\ \A l \in Lidars : \A k \in 1 .. Len(cs[l]) : cs[l][k] <= h[l]

\* The stamp of a packet.
LEMMA StampIs ==
  ASSUME NEW p \in Packets
  PROVE  /\ p.lidar \in Lidars /\ p.points \in Seq(Frames!Point)
         /\ Stamped(p) => Len(p.points) = 1 /\ p.points[1] \in Frames!Point
         /\ ~Stamped(p) => p.points = <<>>
<1>1. p.lidar \in Lidars /\ p.points \in Seq(Frames!Point) /\ Len(p.points) <= 1
  BY DEF Packets
<1>2. PICK q \in Seq(Frames!Point) : q = p.points
  BY <1>1
<1>3. Len(q) \in Nat /\ (Len(q) = 0 => q = <<>>) /\ \A i \in 1 .. Len(q) : q[i] \in Frames!Point
  OBVIOUS
<1>4. CASE q = <<>>
  BY <1>1, <1>2, <1>4 DEF Stamped
<1>5. CASE q # <<>>
  <2>1. PICK n \in Nat : n = Len(q) /\ n <= 1 /\ n # 0
    <3>1. Len(q) # 0
      BY <1>3, <1>5, Zenon
    <3> QED BY <1>1, <1>2, <1>3, <3>1
  <2>2. n = 1
    BY <2>1
  <2> QED BY <1>1, <1>2, <1>3, <1>5, <2>1, <2>2 DEF Stamped
<1> QED BY <1>4, <1>5

\* A packet joins the line with the stamp at which its lidar is heard.
LEMMA JoinOrdered ==
  ASSUME NEW w, NEW cs, NEW h, Ordered(w, cs, h), NEW p \in Packets, NEW n \in Nat,
         h[p.lidar] < n, Stamped(p) => p.points[1] = n,
         NEW v, v = Append(w, p), NEW g, g = [h EXCEPT ![p.lidar] = n]
  PROVE  Ordered(v, cs, g)
<1>1. w \in Seq(Packets) /\ h \in [Lidars -> Nat] /\ cs \in [Lidars -> Seq(Frames!Point)]
  BY DEF Ordered
<1>2. /\ v \in Seq(Packets) /\ Len(v) = Len(w) + 1 /\ Len(w) \in Nat
      /\ \A i \in 1 .. Len(w) : v[i] = w[i]
      /\ v[Len(w) + 1] = p
  BY <1>1, AppendProperties
<1>3. \A i \in 1 .. Len(v) : i \in 1 .. Len(w) \/ (i = Len(w) + 1 /\ v[i] = p)
  BY <1>2
<1>4. p.lidar \in Lidars
  BY StampIs
<1>5. g \in [Lidars -> Nat] /\ g[p.lidar] = n /\ \A l \in Lidars : l # p.lidar => g[l] = h[l]
  BY <1>1, <1>4
<1>6. \A l \in Lidars : h[l] \in Nat /\ h[l] <= g[l]
  BY <1>1, <1>5
<1>7. \A i \in 1 .. Len(w) : w[i].lidar \in Lidars /\ (Stamped(w[i]) => w[i].points[1] \in Nat)
  BY <1>1, StampIs DEF Frames!Point
<1>8. \A l \in Lidars : \A k \in 1 .. Len(cs[l]) : cs[l][k] \in Nat
  <2> SUFFICES ASSUME NEW l \in Lidars, NEW k \in 1 .. Len(cs[l]) PROVE cs[l][k] \in Nat
    OBVIOUS
  <2>1. cs[l] \in Seq(Frames!Point)
    BY <1>1
  <2> QED BY <2>1 DEF Frames!Point
<1>9. ASSUME NEW i \in 1 .. Len(v), Stamped(v[i])
      PROVE  /\ v[i].points[1] <= g[v[i].lidar]
             /\ \A k \in 1 .. Len(cs[v[i].lidar]) : cs[v[i].lidar][k] < v[i].points[1]
  <2>1. CASE i \in 1 .. Len(w)
    BY <1>2, <1>6, <1>7, <1>9, <2>1 DEF Ordered
  <2>2. CASE v[i] = p
    <3>1. p.points[1] = n /\ g[p.lidar] = n
      BY <1>5, <1>9, <2>2
    <3>2. \A k \in 1 .. Len(cs[p.lidar]) : cs[p.lidar][k] < n
      BY <1>1, <1>4, <1>8 DEF Ordered
    <3> QED BY <2>2, <3>1, <3>2
  <2> QED BY <1>3, <2>1, <2>2
<1>10. ASSUME NEW i \in 1 .. Len(v), NEW j \in 1 .. Len(v), i < j, v[i].lidar = v[j].lidar, Stamped(v[i]), Stamped(v[j])
       PROVE  v[i].points[1] < v[j].points[1]
  <2>1. i \in 1 .. Len(w) /\ v[i] = w[i]
    BY <1>2, <1>10
  <2>2. CASE j \in 1 .. Len(w)
    BY <1>2, <1>10, <2>1, <2>2 DEF Ordered
  <2>3. CASE v[j] = p
    <3>1. w[i].points[1] <= h[p.lidar] /\ w[i].points[1] \in Nat
      BY <1>7, <1>10, <2>1, <2>3 DEF Ordered
    <3> QED BY <1>1, <1>4, <1>10, <2>1, <2>3, <3>1
  <2> QED BY <1>3, <2>2, <2>3
<1>11. \A l \in Lidars : \A k \in 1 .. Len(cs[l]) : cs[l][k] <= g[l]
  BY <1>1, <1>6, <1>8 DEF Ordered
<1>12. \A l \in Lidars : Rising(cs[l])
  BY DEF Ordered
<1> QED BY <1>1, <1>2, <1>5, <1>9, <1>10, <1>11, <1>12 DEF Ordered

\* What comes after the first of a line.
Rest(w) == [i \in 1 .. Len(w) - 1 |-> w[i + 1]]

\* The rest of a line, item by item.
LEMMA RestIs ==
  ASSUME NEW S, NEW w \in Seq(S), Len(w) >= 1
  PROVE  /\ Rest(w) \in Seq(S) /\ Len(Rest(w)) = Len(w) - 1
         /\ \A i \in 1 .. Len(w) - 1 : Rest(w)[i] = w[i + 1] /\ i + 1 \in 1 .. Len(w)
<1>1. Len(w) - 1 \in Nat /\ \A i \in 1 .. Len(w) - 1 : i + 1 \in 1 .. Len(w)
  OBVIOUS
<1>2. Rest(w) \in [1 .. Len(w) - 1 -> S]
  BY <1>1 DEF Rest
<1>3. Rest(w) \in Seq(S) /\ Len(Rest(w)) = Len(w) - 1
  <2> HIDE DEF Rest
  <2> QED BY <1>1, <1>2
<1> QED BY <1>1, <1>3 DEF Rest

\* The first of the line joins the cloud of its lidar.
LEMMA ProcessOrdered ==
  ASSUME NEW w, NEW cs, NEW h, Ordered(w, cs, h), Len(w) >= 1,
         NEW v, v = Rest(w), NEW ds, ds = [cs EXCEPT ![w[1].lidar] = @ \o w[1].points]
  PROVE  Ordered(v, ds, h)
<1>1. w \in Seq(Packets) /\ h \in [Lidars -> Nat] /\ cs \in [Lidars -> Seq(Frames!Point)]
  BY DEF Ordered
<1>2. PICK p \in Packets : p = w[1] /\ 1 \in 1 .. Len(w)
  BY <1>1
<1>3. PICK l \in Lidars : l = p.lidar
  BY StampIs
<1>4. PICK c \in Seq(Frames!Point) : c = cs[l]
  BY <1>1
<1>5. PICK d : d = c \o p.points
  OBVIOUS
<1>6. ds = [cs EXCEPT ![l] = d]
  BY <1>2, <1>3, <1>4, <1>5
<1>7. /\ d \in Seq(Frames!Point)
      /\ ~Stamped(p) => d = c
      /\ Stamped(p) => /\ Len(d) = Len(c) + 1 /\ d[Len(c) + 1] = p.points[1]
                       /\ \A k \in 1 .. Len(c) : d[k] = c[k]
  <2>1. CASE ~Stamped(p)
    <3>1. d = c
      BY <1>5, <2>1, StampIs
    <3> QED BY <2>1, <3>1
  <2>2. CASE Stamped(p)
    <3>1. PICK q \in Seq(Frames!Point) : q = p.points /\ Len(q) = 1
      BY <2>2, StampIs
    <3>2. d = c \o q /\ d \in Seq(Frames!Point) /\ Len(d) = Len(c) + Len(q)
      BY <1>5, <3>1, ConcatProperties
    <3>3. \A k \in 1 .. Len(c) : d[k] = c[k]
      BY <3>1, <3>2, ConcatProperties
    <3>4. d[Len(c) + 1] = q[1]
      BY <3>1, <3>2, ConcatProperties
    <3> QED BY <2>2, <3>1, <3>2, <3>3, <3>4
  <2> QED BY <2>1, <2>2
<1>8. ds \in [Lidars -> Seq(Frames!Point)] /\ ds[l] = d /\ \A m \in Lidars : m # l => ds[m] = cs[m]
  BY <1>1, <1>6, <1>7
<1>9. /\ v \in Seq(Packets) /\ Len(v) = Len(w) - 1 /\ Len(w) \in Nat
      /\ \A i \in 1 .. Len(v) : v[i] = w[i + 1] /\ i + 1 \in 1 .. Len(w)
  BY <1>1, RestIs
<1>10. /\ \A i \in 1 .. Len(w) : w[i].lidar \in Lidars /\ (Stamped(w[i]) => w[i].points[1] \in Nat)
       /\ \A k \in 1 .. Len(c) : c[k] \in Nat
       /\ Len(c) \in Nat
  BY <1>1, StampIs DEF Frames!Point
<1>11. Rising(c) /\ \A k \in 1 .. Len(c) : c[k] <= h[l]
  BY <1>4 DEF Ordered
<1>12. Stamped(p) => p.points[1] <= h[l] /\ \A k \in 1 .. Len(c) : c[k] < p.points[1]
  BY <1>2, <1>3, <1>4 DEF Ordered
<1>13. \A k \in 1 .. Len(d) : (k \in 1 .. Len(c) /\ d[k] = c[k]) \/ (Stamped(p) /\ k = Len(c) + 1 /\ d[k] = p.points[1])
  BY <1>7, <1>10
<1>14. \A m \in Lidars : Rising(ds[m])
  <2>1. Rising(d)
    BY <1>10, <1>11, <1>12, <1>13 DEF Rising
  <2>2. \A m \in Lidars : Rising(cs[m])
    BY DEF Ordered
  <2> QED BY <1>8, <2>1, <2>2
<1>15. ASSUME NEW i \in 1 .. Len(v), Stamped(v[i])
       PROVE  /\ v[i].points[1] <= h[v[i].lidar]
              /\ \A k \in 1 .. Len(ds[v[i].lidar]) : ds[v[i].lidar][k] < v[i].points[1]
  <2>1. PICK j \in 1 .. Len(w) : j = i + 1 /\ v[i] = w[j] /\ 1 < j
    BY <1>9
  <2>2. /\ w[j].points[1] <= h[w[j].lidar]
        /\ \A k \in 1 .. Len(cs[w[j].lidar]) : cs[w[j].lidar][k] < w[j].points[1]
    BY <1>15, <2>1 DEF Ordered
  <2>3. CASE w[j].lidar = l
    <3>1. Stamped(p) => p.points[1] < w[j].points[1]
      BY <1>2, <1>3, <1>15, <2>1, <2>3 DEF Ordered
    <3>2. \A k \in 1 .. Len(d) : d[k] < w[j].points[1]
      BY <1>4, <1>13, <2>2, <2>3, <3>1
    <3> QED BY <1>8, <2>1, <2>2, <2>3, <3>2
  <2>4. CASE w[j].lidar # l
    <3>1. w[j].lidar \in Lidars /\ ds[w[j].lidar] = cs[w[j].lidar]
      BY <1>8, <1>10, <2>4
    <3> QED BY <2>1, <2>2, <3>1
  <2> QED BY <2>3, <2>4
<1>16. \A i, j \in 1 .. Len(v) : i < j /\ v[i].lidar = v[j].lidar /\ Stamped(v[i]) /\ Stamped(v[j])
         => v[i].points[1] < v[j].points[1]
  <2> SUFFICES ASSUME NEW i \in 1 .. Len(v), NEW j \in 1 .. Len(v), i < j, v[i].lidar = v[j].lidar, Stamped(v[i]), Stamped(v[j])
               PROVE  v[i].points[1] < v[j].points[1]
    OBVIOUS
  <2>1. PICK a \in 1 .. Len(w), b \in 1 .. Len(w) : v[i] = w[a] /\ v[j] = w[b] /\ a < b
    <3>1. i + 1 \in 1 .. Len(w) /\ j + 1 \in 1 .. Len(w) /\ i + 1 < j + 1
      BY <1>9
    <3> QED BY <1>9, <3>1
  <2> QED BY <2>1 DEF Ordered
<1>17. \A m \in Lidars : \A k \in 1 .. Len(ds[m]) : ds[m][k] <= h[m]
  <2>1. \A k \in 1 .. Len(d) : d[k] <= h[l]
    BY <1>11, <1>12, <1>13
  <2>2. \A m \in Lidars : \A k \in 1 .. Len(cs[m]) : cs[m][k] <= h[m]
    BY DEF Ordered
  <2> QED BY <1>8, <2>1, <2>2
<1> QED BY <1>1, <1>8, <1>9, <1>14, <1>15, <1>16, <1>17 DEF Ordered

\* Clouds that are cut are empty.
LEMMA CutOrdered ==
  ASSUME NEW w, NEW cs, NEW h, Ordered(w, cs, h), NEW ls,
         NEW ds, ds = [l \in Lidars |-> IF l \in ls THEN <<>> ELSE cs[l]]
  PROVE  Ordered(w, ds, h)
<1>1. cs \in [Lidars -> Seq(Frames!Point)] /\ w \in Seq(Packets) /\ h \in [Lidars -> Nat]
  BY DEF Ordered
<1>2. <<>> \in Seq(Frames!Point) /\ Len(<<>>) = 0
  OBVIOUS
<1>3. ds \in [Lidars -> Seq(Frames!Point)]
  BY <1>1, <1>2
<1>4. \A l \in Lidars : ds[l] = cs[l] \/ (1 .. Len(ds[l])) = {}
  <2> SUFFICES ASSUME NEW l \in Lidars PROVE ds[l] = cs[l] \/ (1 .. Len(ds[l])) = {}
    OBVIOUS
  <2>1. CASE l \in ls
    <3>1. ds[l] = <<>>
      BY <2>1
    <3> QED BY <1>2, <3>1
  <2> QED BY <2>1
<1>5. \A i \in 1 .. Len(w) : w[i].lidar \in Lidars
  BY <1>1, StampIs
<1> QED BY <1>1, <1>3, <1>4, <1>5 DEF Ordered, Rising

\* While no packet is lost a lidar's stamps follow one on another, and no cloud stays that was
\* due before: t ticks in a millisecond, m milliseconds in an interval.
Follower(w, l, s) == \E j \in 1 .. Len(w) : w[j].lidar = l /\ w[j].points[1] = s + 1
Unbroken(c) == \A k \in 1 .. Len(c) : c[k] = c[1] + k - 1
NotDue(t, m, c, n) == \A k \in 1 .. n : ~DueAt(t, m, c[1], c[k])
Whole(w, cs, h, t, m) ==
  /\ \A i \in 1 .. Len(w) : Stamped(w[i])
  /\ \A i \in 1 .. Len(w) : w[i].points[1] = h[w[i].lidar] \/ Follower(w, w[i].lidar, w[i].points[1])
  /\ \A l \in Lidars : Len(cs[l]) > 0 =>
       cs[l][Len(cs[l])] = h[l] \/ Follower(w, l, cs[l][Len(cs[l])])
  /\ \A l \in Lidars : Unbroken(cs[l]) /\ NotDue(t, m, cs[l], Len(cs[l]))

\* A packet of the tick after its lidar was heard follows on the last.
LEMMA JoinWhole ==
  ASSUME NEW w, NEW cs, NEW h, NEW t, NEW m, Ordered(w, cs, h), Whole(w, cs, h, t, m),
         NEW p \in Packets, Stamped(p), NEW n \in Nat, n = h[p.lidar] + 1, p.points[1] = n,
         NEW v, v = Append(w, p), NEW g, g = [h EXCEPT ![p.lidar] = n]
  PROVE  Whole(v, cs, g, t, m)
<1>1. w \in Seq(Packets) /\ h \in [Lidars -> Nat] /\ cs \in [Lidars -> Seq(Frames!Point)]
  BY DEF Ordered
<1>2. /\ v \in Seq(Packets) /\ Len(v) = Len(w) + 1 /\ Len(w) \in Nat
      /\ \A i \in 1 .. Len(w) : v[i] = w[i] /\ i \in 1 .. Len(v)
      /\ v[Len(w) + 1] = p
  BY <1>1, AppendProperties
<1>3. Len(w) + 1 \in 1 .. Len(v) /\ \A i \in 1 .. Len(v) : i \in 1 .. Len(w) \/ i = Len(w) + 1
  BY <1>2
<1>4. p.lidar \in Lidars
  BY StampIs
<1>5. g[p.lidar] = n /\ \A l \in Lidars : l # p.lidar => g[l] = h[l]
  BY <1>1, <1>4
<1>6. Follower(v, p.lidar, h[p.lidar])
  BY <1>2, <1>3 DEF Follower
<1>7. \A l, s : Follower(w, l, s) => Follower(v, l, s)
  BY <1>2 DEF Follower
<1>8. \A l \in Lidars : \A s : s = h[l] \/ Follower(w, l, s) => s = g[l] \/ Follower(v, l, s)
  BY <1>5, <1>6, <1>7
<1>9. \A i \in 1 .. Len(w) : w[i].lidar \in Lidars
  BY <1>1, StampIs
<1>10. ASSUME NEW i \in 1 .. Len(v)
       PROVE  Stamped(v[i]) /\ (v[i].points[1] = g[v[i].lidar] \/ Follower(v, v[i].lidar, v[i].points[1]))
  <2>1. CASE i \in 1 .. Len(w)
    <3>1. w[i].points[1] = h[w[i].lidar] \/ Follower(w, w[i].lidar, w[i].points[1])
      BY <2>1 DEF Whole
    <3> QED BY <1>2, <1>8, <1>9, <2>1, <3>1 DEF Whole
  <2>2. CASE i = Len(w) + 1
    BY <1>2, <1>5, <2>2
  <2> QED BY <1>3, <2>1, <2>2
<1>11. \A l \in Lidars : Len(cs[l]) > 0 => cs[l][Len(cs[l])] = g[l] \/ Follower(v, l, cs[l][Len(cs[l])])
  BY <1>8 DEF Whole
<1>12. \A l \in Lidars : Unbroken(cs[l]) /\ NotDue(t, m, cs[l], Len(cs[l]))
  BY DEF Whole
<1> QED BY <1>10, <1>11, <1>12 DEF Whole

\* The first of the line w has joined the cloud d of its lidar, v is the rest: if d is due, it
\* was not before; cut, or left when not due, it leaves the clouds whole.
Continued(w, cs, h, t, m, v, d) ==
  /\ d \in Seq(Frames!Point) /\ Len(d) >= 1 /\ Unbroken(d) /\ NotDue(t, m, d, Len(d) - 1)
  /\ \A es : (\A l \in Lidars : \/ Len(es[l]) = 0
                                \/ l # w[1].lidar /\ es[l] = cs[l]
                                \/ l = w[1].lidar /\ es[l] = d /\ ~DueAt(t, m, d[1], d[Len(d)]))
            => Whole(v, es, h, t, m)

\* The first of the line follows on its cloud.
LEMMA ProcessWhole ==
  ASSUME NEW w, NEW cs, NEW h, NEW t, NEW m, Ordered(w, cs, h), Whole(w, cs, h, t, m), Len(w) >= 1,
         NEW v, v = Rest(w), NEW d, d = cs[w[1].lidar] \o w[1].points
  PROVE  Continued(w, cs, h, t, m, v, d)
<1>1. w \in Seq(Packets) /\ h \in [Lidars -> Nat] /\ cs \in [Lidars -> Seq(Frames!Point)]
  BY DEF Ordered
<1>2. PICK p \in Packets : p = w[1] /\ 1 \in 1 .. Len(w)
  BY <1>1
<1>3. PICK l \in Lidars : l = p.lidar
  BY StampIs
<1>4. PICK c \in Seq(Frames!Point) : c = cs[l]
  BY <1>1
<1>5. Stamped(p)
  BY <1>2 DEF Whole
<1>6. PICK s \in Frames!Point : s = p.points[1]
  BY <1>5, StampIs
<1>7. /\ d \in Seq(Frames!Point) /\ Len(d) = Len(c) + 1 /\ Len(c) \in Nat
      /\ \A k \in 1 .. Len(c) : d[k] = c[k]
      /\ d[Len(c) + 1] = s
  <2>1. PICK q \in Seq(Frames!Point) : q = p.points /\ Len(q) = 1
    BY <1>5, StampIs
  <2>0. d = c \o q
    BY <1>2, <1>3, <1>4, <2>1
  <2>2. d = c \o q /\ d \in Seq(Frames!Point) /\ Len(d) = Len(c) + Len(q)
    BY <2>0, ConcatProperties
  <2>3. \A k \in 1 .. Len(c) : d[k] = c[k]
    BY <2>1, <2>2, ConcatProperties
  <2>4. d[Len(c) + 1] = q[1]
    BY <2>1, <2>2, ConcatProperties
  <2> QED BY <1>6, <2>1, <2>2, <2>3, <2>4
<1>8. s \in Nat /\ h[l] \in Nat /\ s <= h[l]
      /\ \A k \in 1 .. Len(c) : c[k] < s /\ c[k] \in Nat
  <2>1. s \in Nat /\ h[l] \in Nat /\ \A k \in 1 .. Len(c) : c[k] \in Nat
    BY <1>1 DEF Frames!Point
  <2> QED BY <1>2, <1>3, <1>4, <1>5, <1>6, <2>1 DEF Ordered
<1>9. /\ \A i \in 1 .. Len(w) : w[i].lidar \in Lidars /\ w[i].points[1] \in Nat /\ Stamped(w[i])
  BY <1>1, StampIs DEF Frames!Point, Whole
<1>10. Len(c) > 0 => s = c[Len(c)] + 1
  <2> SUFFICES ASSUME Len(c) > 0 PROVE s = c[Len(c)] + 1
    OBVIOUS
  <2>1. PICK e \in Nat : e = c[Len(c)] /\ e < s
    BY <1>7, <1>8
  <2>2. e # h[l]
    BY <1>8, <2>1
  <2>3. PICK j \in 1 .. Len(w) : w[j].lidar = l /\ w[j].points[1] = e + 1
    BY <1>4, <2>1, <2>2 DEF Whole, Follower
  <2>4. CASE j = 1
    BY <1>2, <1>6, <2>1, <2>3, <2>4
  <2>5. CASE j # 1
    <3>1. 1 < j
      BY <2>5
    <3>2. s < w[j].points[1]
      BY <1>2, <1>3, <1>6, <1>9, <2>3, <3>1 DEF Ordered
    <3> QED BY <1>8, <2>1, <2>3, <3>2
  <2> QED BY <2>4, <2>5
<1>11. Unbroken(c) /\ NotDue(t, m, c, Len(c))
  BY <1>4 DEF Whole
<1>12. Unbroken(d)
  <2>1. CASE Len(c) = 0
    <3>1. Len(c) + 1 = 1 /\ Len(d) = 1
      BY <1>7, <2>1
    <3>2. d[1] = s
      BY <1>7, <3>1
    <3>3. s = s + 1 - 1 /\ \A k \in 1 .. Len(d) : k = 1
      BY <1>8, <3>1
    <3> QED BY <3>2, <3>3 DEF Unbroken
  <2>2. CASE Len(c) # 0
    <3>1. /\ Len(c) > 0 /\ 1 \in 1 .. Len(c) /\ Len(c) \in 1 .. Len(c)
          /\ \A k \in 1 .. Len(d) : k \in 1 .. Len(c) \/ k = Len(c) + 1
      BY <1>7, <2>2
    <3>2. c[Len(c)] = c[1] + Len(c) - 1 /\ c[1] \in Nat /\ d[1] = c[1]
      BY <1>7, <1>8, <1>11, <3>1 DEF Unbroken
    <3>3. s = c[1] + Len(c)
      BY <1>7, <1>10, <3>1, <3>2
    <3>4. ASSUME NEW k \in 1 .. Len(d) PROVE d[k] = d[1] + k - 1
      <4>1. CASE k \in 1 .. Len(c)
        BY <1>7, <1>11, <3>2, <4>1 DEF Unbroken
      <4>2. CASE k = Len(c) + 1
        <5>1. d[k] = s /\ d[1] = c[1]
          BY <1>7, <3>2, <4>2
        <5>2. s = c[1] + k - 1
          BY <1>7, <1>8, <3>2, <3>3, <4>2
        <5> QED BY <5>1, <5>2
      <4> QED BY <3>1, <4>1, <4>2
    <3> QED BY <3>4 DEF Unbroken
  <2> QED BY <2>1, <2>2
<1>13. NotDue(t, m, d, Len(d) - 1)
  <2> SUFFICES ASSUME NEW k \in 1 .. Len(d) - 1 PROVE ~DueAt(t, m, d[1], d[k])
    BY DEF NotDue
  <2>1. k \in 1 .. Len(c) /\ 1 \in 1 .. Len(c)
    BY <1>7
  <2>2. d[k] = c[k] /\ d[1] = c[1]
    BY <1>7, <2>1
  <2> QED BY <1>11, <2>1, <2>2 DEF NotDue
<1>14. /\ Len(v) = Len(w) - 1 /\ Len(w) \in Nat
       /\ \A i \in 1 .. Len(v) : v[i] = w[i + 1] /\ i + 1 \in 1 .. Len(w)
  BY <1>1, RestIs
<1>15. \A j \in 1 .. Len(w) : j = 1 \/ (j - 1 \in 1 .. Len(v) /\ v[j - 1] = w[j])
  <2> SUFFICES ASSUME NEW j \in 1 .. Len(w), j # 1 PROVE j - 1 \in 1 .. Len(v) /\ v[j - 1] = w[j]
    OBVIOUS
  <2>1. j - 1 \in 1 .. Len(v) /\ (j - 1) + 1 = j
    BY <1>14
  <2>2. v[j - 1] = w[(j - 1) + 1]
    BY <1>14, <2>1
  <2> QED BY <2>1, <2>2
\* A stamp that is not the first of the line has its follower after the first.
<1>16. ASSUME NEW k \in Lidars, NEW e \in Nat, e = h[k] \/ Follower(w, k, e), k = l => s <= e
       PROVE  e = h[k] \/ Follower(v, k, e)
  <2>1. CASE Follower(w, k, e)
    <3>1. PICK j \in 1 .. Len(w) : w[j].lidar = k /\ w[j].points[1] = e + 1
      BY <2>1 DEF Follower
    <3>2. j # 1
      BY <1>2, <1>3, <1>6, <1>8, <1>16, <3>1
    <3> QED BY <1>15, <3>1, <3>2 DEF Follower
  <2> QED BY <1>16, <2>1
<1>17. ASSUME NEW i \in 1 .. Len(v)
       PROVE  Stamped(v[i]) /\ (v[i].points[1] = h[v[i].lidar] \/ Follower(v, v[i].lidar, v[i].points[1]))
  <2>1. PICK j \in 1 .. Len(w) : j = i + 1 /\ v[i] = w[j] /\ 1 < j
    BY <1>14
  <2>2. w[j].points[1] = h[w[j].lidar] \/ Follower(w, w[j].lidar, w[j].points[1])
    BY DEF Whole
  <2>3. w[j].lidar = l => s <= w[j].points[1]
    <3>1. w[j].lidar = l => s < w[j].points[1]
      BY <1>2, <1>3, <1>6, <1>9, <2>1 DEF Ordered
    <3> QED BY <1>8, <1>9, <3>1
  <2> QED BY <1>9, <1>16, <2>1, <2>2, <2>3
<1>18. ASSUME NEW es, \A k \in Lidars : \/ Len(es[k]) = 0
                                        \/ k # l /\ es[k] = cs[k]
                                        \/ k = l /\ es[k] = d /\ ~DueAt(t, m, d[1], d[Len(d)])
       PROVE  Whole(v, es, h, t, m)
  <2>1. ASSUME NEW k \in Lidars
        PROVE  /\ Len(es[k]) > 0 => es[k][Len(es[k])] = h[k] \/ Follower(v, k, es[k][Len(es[k])])
               /\ Unbroken(es[k]) /\ NotDue(t, m, es[k], Len(es[k]))
    <3>1. CASE Len(es[k]) = 0
      <4>1. ~(Len(es[k]) > 0) /\ 1 .. Len(es[k]) = {}
        BY <3>1
      <4> QED BY <4>1 DEF Unbroken, NotDue
    <3>2. CASE k # l /\ es[k] = cs[k]
      <4>1. PICK b \in Seq(Frames!Point) : b = cs[k]
        BY <1>1
      <4>2. Unbroken(b) /\ NotDue(t, m, b, Len(b)) /\ (Len(b) > 0 => b[Len(b)] = h[k] \/ Follower(w, k, b[Len(b)]))
        BY <4>1 DEF Whole
      <4>3. Len(b) > 0 => b[Len(b)] \in Nat
        BY DEF Frames!Point
      <4> QED BY <1>16, <3>2, <4>1, <4>2, <4>3
    <3>3. CASE k = l /\ es[k] = d /\ ~DueAt(t, m, d[1], d[Len(d)])
      <4>1. s = h[l] \/ Follower(v, l, s)
        <5>1. s = h[l] \/ Follower(w, l, s)
          BY <1>2, <1>3, <1>6 DEF Whole
        <5> QED BY <1>8, <1>16, <5>1
      <4>2. d[Len(d)] = s
        BY <1>7
      <4>3. NotDue(t, m, d, Len(d))
        <5>1. \A j \in 1 .. Len(d) : j \in 1 .. Len(d) - 1 \/ j = Len(d)
          BY <1>7
        <5> QED BY <1>13, <3>3, <5>1 DEF NotDue
      <4> QED BY <1>12, <3>3, <4>1, <4>2, <4>3
    <3> QED BY <1>18, <3>1, <3>2, <3>3
  <2> QED BY <1>17, <2>1 DEF Whole
<1>19. w[1].lidar = l
  BY <1>2, <1>3
<1>20. Len(d) >= 1
  BY <1>7
<1> HIDE DEF Whole
<1> QED BY <1>7, <1>12, <1>13, <1>18, <1>19, <1>20 DEF Continued

\* A cloud that is due was not due before.
LEMMA DueIsFirst ==
  ASSUME NEW d \in Seq(Frames!Point), Len(d) >= 1, Unbroken(d), NEW t, NEW m, NotDue(t, m, d, Len(d) - 1),
         DueAt(t, m, d[1], d[Len(d)])
  PROVE  FirstDue(t, m, d[1], d[Len(d)])
<1>1. d[1] \in Nat /\ Len(d) \in Nat /\ d[Len(d)] = d[1] + Len(d) - 1
  BY DEF Frames!Point, Unbroken
<1>2. ASSUME NEW c \in d[1] .. d[Len(d)] - 1 PROVE ~DueAt(t, m, d[1], c)
  <2>1. PICK k \in 1 .. Len(d) - 1 : k = c - d[1] + 1 /\ k \in 1 .. Len(d)
    BY <1>1
  <2>2. d[k] = d[1] + k - 1
    BY <2>1 DEF Unbroken
  <2>3. d[k] = c
    <3>1. c \in Int /\ d[1] \in Int
      BY <1>1
    <3> QED BY <2>1, <2>2, <3>1
  <2> QED BY <2>1, <2>3 DEF NotDue
<1> QED BY <1>1, <1>2 DEF FirstDue

\* In a finite set of numbers there is one with any given number of smaller ones.
LEMMA RankIs ==
  ASSUME NEW ls \in SUBSET Nat, IsFiniteSet(ls), NEW i \in 1 .. Cardinality(ls)
  PROVE  \E l \in ls : Cardinality({k \in ls : k < l}) = i - 1
<1> DEFINE Ranked(s) == \A j \in 1 .. Cardinality(s) : \E l \in s : Cardinality({k \in s : k < l}) = j - 1
           B == {n \in Nat : \A s \in SUBSET Nat : IsFiniteSet(s) /\ Cardinality(s) = n => Ranked(s)}
<1>1. 0 \in B
  OBVIOUS
<1>2. ASSUME NEW n \in Nat, n > 0, n - 1 \in B PROVE n \in B
  <2> SUFFICES ASSUME NEW s \in SUBSET Nat, IsFiniteSet(s), Cardinality(s) = n, NEW j \in 1 .. n
               PROVE  \E l \in s : Cardinality({k \in s : k < l}) = j - 1
    OBVIOUS
  <2>1. s # {}
    BY <1>2, FS_EmptySet
  <2>2. PICK a \in s : \A k \in s : a <= k
    BY <2>1, Least
  <2>3. PICK r \in SUBSET Nat : r = s \ {a}
    OBVIOUS
  <2>4. IsFiniteSet(r) /\ Cardinality(r) = n - 1
    BY <2>3, FS_RemoveElement
  <2>5. CASE j = 1
    <3>1. \A k \in s : ~(k < a)
      BY <2>2
    <3>2. {k \in s : k < a} = {}
      BY <3>1
    <3> QED BY <2>5, <3>2, FS_EmptySet
  <2>6. CASE j # 1
    <3>1. Ranked(r)
      BY <1>2, <2>4
    <3>2. j - 1 \in 1 .. Cardinality(r)
      BY <1>2, <2>4, <2>6
    <3>3. PICK l \in r : Cardinality({k \in r : k < l}) = (j - 1) - 1
      BY <3>1, <3>2
    <3>4. PICK b : b = {k \in r : k < l}
      OBVIOUS
    <3>5. IsFiniteSet(b) /\ a \notin b
      <4>1. b \in SUBSET r
        BY <3>4
      <4> QED BY <2>3, <2>4, <4>1, FS_Subset
    <3>6. {k \in s : k < l} = b \cup {a}
      BY <2>2, <2>3, <3>4
    <3>7. Cardinality(b \cup {a}) = Cardinality(b) + 1
      BY <3>5, FS_AddElement
    <3>8. Cardinality(b) = (j - 1) - 1
      BY <3>3, <3>4
    <3>9. Cardinality(b \cup {a}) = j - 1
      BY <3>7, <3>8
    <3> QED BY <2>3, <3>6, <3>9
  <2> QED BY <2>5, <2>6
<1> HIDE DEF B
<1>3. PICK n \in Nat : n = Cardinality(ls)
  BY FS_CardinalityType
<1>4. \A k \in 1 .. n : k - 1 \in B => k \in B
  BY <1>2
<1>5. \A k \in 0 .. n : k \in B
  BY <1>1, <1>4, Induction
<1>6. n \in B
  BY <1>5
<1>7. Ranked(ls)
  BY <1>3, <1>6 DEF B
<1> QED BY <1>7

\* The lidars of a frame are lidars with points.
LEMMA InOrderIs ==
  ASSUME NEW ls \in SUBSET Lidars, NEW i \in 1 .. Frames!Cardinality(ls)
  PROVE  Frames!InOrder(ls)[i] \in ls
<1>1. Lidars \in SUBSET Nat /\ IsFiniteSet(Lidars)
  <2>1. Lidars \in SUBSET Nat /\ Frames!IsFiniteSet(Lidars)
    BY FramesAssumption DEF Frames!LidarAssumption
  <2>2. Frames!IsFiniteSet(Lidars) <=> IsFiniteSet(Lidars)
    BY DEF Frames!IsFiniteSet, IsFiniteSet
  <2> QED BY <2>1, <2>2
<1>0. ls \in SUBSET Nat /\ IsFiniteSet(ls)
  BY <1>1, FS_Subset
<1>2. \A s : Frames!Cardinality(s) = Cardinality(s)
  BY DEF Frames!Cardinality, Cardinality
<1>3. \E l \in ls : Frames!Cardinality({k \in ls : k < l}) = i - 1
  <2>1. i \in 1 .. Cardinality(ls)
    BY <1>2
  <2>2. \E l \in ls : Cardinality({k \in ls : k < l}) = i - 1
    BY <1>0, <2>1, RankIs
  <2> QED BY <1>2, <2>2
<1>4. (CHOOSE l \in ls : Frames!Cardinality({k \in ls : k < l}) = i - 1) \in ls
  BY <1>3
<1>5. Frames!InOrder(ls)[i] = (CHOOSE l \in ls : Frames!Cardinality({k \in ls : k < l}) = i - 1)
  BY DEF Frames!InOrder
<1> QED BY <1>4, <1>5

\* Entries of a frame.
Entries ==
  {e \in [lidar : Lidars, base : Nat, points : Seq(Frames!Point)] :
     Len(e.points) >= 1 /\ Rising(e.points) /\ e.base = e.points[1]}

\* The entry of a cloud is based on its first stamp.
LEMMA EntryIs ==
  ASSUME NEW l \in Lidars, NEW c \in Seq(Frames!Point), c # <<>>, Rising(c)
  PROVE  Frames!Entry(l, c) \in Entries /\ Frames!Entry(l, c).points = c
<1>1. PICK n \in Nat : n = Len(c) /\ n # 0
  <2>1. Len(c) \in Nat /\ (Len(c) = 0 => c = <<>>)
    OBVIOUS
  <2> QED BY <2>1, Zenon
<1>2. Len(c) >= 1 /\ c[1] \in Nat
  <2>1. n >= 1 /\ 1 \in 1 .. n
    BY <1>1
  <2> QED BY <1>1, <2>1 DEF Frames!Point
<1>3. PICK e : e = [lidar |-> l, base |-> c[1], points |-> c]
  OBVIOUS
<1>4. Frames!Entry(l, c) = e
  BY <1>3 DEF Frames!Entry, Frames!BaseTime
<1>5. e \in [lidar : Lidars, base : Nat, points : Seq(Frames!Point)] /\ e.points = c /\ e.base = c[1]
  BY <1>2, <1>3
<1> QED BY <1>2, <1>4, <1>5 DEF Entries

\* The packet in hand and the queue.
Waiting == IF tPc = "process" THEN [i \in 1 .. Len(queue) + 1 |-> IF i = 1 THEN packet ELSE queue[i - 1]] ELSE queue

\* Besides, the lidars are heard in every tick, their packets set the flag, and a frame was due
\* with its last point.
WholeFrames ==
  /\ Whole(Waiting, clouds, heard, setting.ticksPerMs, setting.intervalMs)
  /\ \A l \in Lidars : heard[l] >= now - 1
  /\ Len(Waiting) > 0 => syncFlag
  /\ \A i \in 1 .. Len(frame) :
       /\ Unbroken(frame[i].points)
       /\ FirstDue(setting.ticksPerMs, setting.intervalMs, frame[i].points[1], frame[i].points[Len(frame[i].points)])

\* The invariant: what waits is ordered, the frame is made of entries, and all is whole while no
\* packet is lost and all lidars are synchronised.
FramesInv ==
  /\ setting \in Settings
  /\ now \in Nat /\ \A l \in Lidars : heard[l] <= now
  /\ queue \in Seq(Packets)
  /\ tPc = "take" => Len(queue) >= 1
  /\ tPc = "process" => packet \in Packets
  /\ handlers \subseteq Lidars
  /\ Ordered(Waiting, clouds, heard)
  /\ frame \in Seq(Entries)
  /\ ~setting.mayLose /\ setting.synced = Lidars => WholeFrames

\* What FramesAssumption says of a setting.
LEMMA SettingIs ==
  ASSUME setting \in Settings
  PROVE  /\ setting.ticksPerMs \in Nat /\ setting.ticksPerMs > 0
         /\ setting.intervalMs \in Nat /\ setting.intervalMs > 1
         /\ setting.synced \subseteq Lidars /\ setting.mayLose \in BOOLEAN
BY FramesAssumption DEF Frames!SettingAssumption, Frames!Setting

\* What is taken stays in the line, in its hand; what is processed leaves it.
LEMMA TakeLine ==
  ASSUME queue \in Seq(Packets), tPc = "take", Len(queue) >= 1,
         packet' = Head(queue), queue' = Tail(queue), tPc' = "process"
  PROVE  Waiting' = Waiting /\ queue' \in Seq(Packets) /\ packet' \in Packets
<1>1. queue' \in Seq(Packets) /\ Len(queue') = Len(queue) - 1 /\ Len(queue) \in Nat
      /\ \A i \in 1 .. Len(queue') : queue'[i] = queue[i + 1]
  OBVIOUS
<1>2. packet' = queue[1] /\ packet' \in Packets
  OBVIOUS
<1>3. Waiting' = [i \in 1 .. Len(queue) |-> IF i = 1 THEN queue[1] ELSE queue'[i - 1]]
  BY <1>1, <1>2 DEF Waiting
<1>4. \A i \in 1 .. Len(queue) : i # 1 => queue'[i - 1] = queue[i]
  <2> SUFFICES ASSUME NEW i \in 1 .. Len(queue), i # 1 PROVE queue'[i - 1] = queue[i]
    OBVIOUS
  <2>1. i - 1 \in 1 .. Len(queue') /\ (i - 1) + 1 = i
    BY <1>1
  <2>2. queue'[i - 1] = queue[(i - 1) + 1]
    BY <1>1, <2>1
  <2> QED BY <2>1, <2>2
<1>5. Waiting' = [i \in 1 .. Len(queue) |-> queue[i]]
  BY <1>3, <1>4
<1>6. Waiting' = queue
  BY <1>1, <1>5
<1> QED BY <1>1, <1>2, <1>6 DEF Waiting

\* The packet in hand is first in the line, the queue is the rest.
LEMMA ProcessLine ==
  ASSUME queue \in Seq(Packets), packet \in Packets, tPc = "process", queue' = queue, tPc' = "check"
  PROVE  /\ Waiting \in Seq(Packets) /\ Len(Waiting) >= 1 /\ Waiting[1] = packet
         /\ Waiting' = Rest(Waiting)
<1> DEFINE n == Len(queue)
<1>1. n \in Nat /\ queue = [i \in 1 .. n |-> queue[i]] /\ \A i \in 1 .. n : queue[i] \in Packets
  OBVIOUS
<1>2. Waiting = [i \in 1 .. n + 1 |-> IF i = 1 THEN packet ELSE queue[i - 1]]
  BY DEF Waiting
<1>3. \A i \in 1 .. n + 1 : i = 1 \/ i - 1 \in 1 .. n
  BY <1>1
<1>4. Waiting \in [1 .. n + 1 -> Packets]
  BY <1>1, <1>2, <1>3
<1>5. n + 1 \in Nat
  BY <1>1
<1> HIDE DEF n
<1>6. Waiting \in Seq(Packets) /\ Len(Waiting) = n + 1
  BY <1>4, <1>5
<1>7. Waiting[1] = packet
  <2>1. 1 \in 1 .. n + 1
    BY <1>1
  <2> QED BY <1>2, <2>1
<1>8. \A i \in 1 .. n : Waiting[i + 1] = queue[i]
  <2> SUFFICES ASSUME NEW i \in 1 .. n PROVE Waiting[i + 1] = queue[i]
    OBVIOUS
  <2>1. i + 1 \in 1 .. n + 1 /\ i + 1 # 1 /\ (i + 1) - 1 = i
    BY <1>1
  <2>2. Waiting[i + 1] = queue[(i + 1) - 1]
    BY <1>2, <2>1
  <2> QED BY <2>1, <2>2
<1>9. Len(Waiting) - 1 = n
  BY <1>1, <1>6
<1>10. Rest(Waiting) = [i \in 1 .. n |-> queue[i]]
  BY <1>8, <1>9 DEF Rest
<1>11. Waiting' = queue
  BY DEF Waiting
<1> QED BY <1>1, <1>6, <1>7, <1>10, <1>11

\* A new packet is last in the line.
LEMMA JoinLine ==
  ASSUME queue \in Seq(Packets), tPc = "process" => packet \in Packets,
         NEW p \in Packets, queue' = Append(queue, p), tPc' = tPc, packet' = packet
  PROVE  Waiting' = Append(Waiting, p) /\ queue' \in Seq(Packets)
<1>1. PICK n \in Nat : n = Len(queue)
  OBVIOUS
<1>2. /\ queue' \in Seq(Packets) /\ Len(queue') = n + 1
      /\ \A i \in 1 .. n : queue'[i] = queue[i]
      /\ queue'[n + 1] = p
  BY <1>1, AppendProperties
<1>3. CASE tPc # "process"
  <2>1. Waiting = queue /\ Waiting' = queue'
    BY <1>3 DEF Waiting
  <2> QED BY <1>2, <2>1
<1>4. CASE tPc = "process"
  <2>1. /\ Waiting = [i \in 1 .. n + 1 |-> IF i = 1 THEN packet ELSE queue[i - 1]]
        /\ Waiting' = [i \in 1 .. n + 2 |-> IF i = 1 THEN packet ELSE queue'[i - 1]]
    BY <1>1, <1>2, <1>4 DEF Waiting
  <2>2. \A i \in 1 .. n + 1 : i = 1 \/ i - 1 \in 1 .. n
    OBVIOUS
  <2>3. \A i \in 1 .. n : queue[i] \in Packets
    BY <1>1
  <2>4. Waiting \in [1 .. n + 1 -> Packets]
    BY <1>4, <2>1, <2>2, <2>3
  <2>5. PICK w \in Seq(Packets) : w = Waiting /\ Len(w) = n + 1
    BY <2>4
  <2>6. PICK v : v = Append(w, p)
    OBVIOUS
  <2>7. /\ v \in Seq(Packets) /\ Len(v) = n + 2
        /\ \A i \in 1 .. n + 1 : v[i] = w[i]
        /\ v[n + 2] = p
    BY <2>5, <2>6, AppendProperties
  <2>8. v = [i \in 1 .. n + 2 |-> v[i]]
    BY <2>7
  <2>9. ASSUME NEW i \in 1 .. n + 2 PROVE v[i] = IF i = 1 THEN packet ELSE queue'[i - 1]
    <3>1. CASE i = n + 2
      <4>1. i # 1 /\ i - 1 = n + 1
        BY <3>1
      <4> QED BY <1>2, <2>7, <3>1, <4>1
    <3>2. CASE i # n + 2
      <4>1. i \in 1 .. n + 1 /\ v[i] = w[i]
        BY <2>7, <3>2
      <4>2. w[i] = IF i = 1 THEN packet ELSE queue[i - 1]
        BY <2>1, <2>5, <4>1
      <4>3. i = 1 \/ queue'[i - 1] = queue[i - 1]
        BY <1>2, <2>2, <4>1
      <4> QED BY <4>1, <4>2, <4>3
    <3> QED BY <3>1, <3>2
  <2>10. v = [i \in 1 .. n + 2 |-> IF i = 1 THEN packet ELSE queue'[i - 1]]
    BY <2>8, <2>9
  <2> QED BY <1>2, <2>1, <2>5, <2>6, <2>10
<1> QED BY <1>3, <1>4

\* Due, in terms of the first and the last stamp of the cloud.
LEMMA DueIs ==
  ASSUME setting \in Settings, NEW c \in Seq(Frames!Point)
  PROVE  Frames!Due(c) <=> Len(c) >= 1 /\ DueAt(setting.ticksPerMs, setting.intervalMs, c[1], c[Len(c)])
<1> DEFINE t == setting.ticksPerMs
           m == setting.intervalMs
<1>1. t \in Nat /\ t > 0 /\ m \in Nat
  BY SettingIs
<1>2. CASE c = <<>>
  <2>1. Frames!RecentTime(c) = 0 /\ Len(c) = 0
    BY <1>2 DEF Frames!RecentTime
  <2>2. 0 \div t = 0
    BY <1>1
  <2>3. Frames!Ms(Frames!RecentTime(c)) = 0
    BY <2>1, <2>2 DEF Frames!Ms, Frames!TicksPerMs
  <2> QED BY <2>1, <2>3 DEF Frames!Due
<1>3. CASE c # <<>>
  <2>1. PICK n \in Nat : n = Len(c) /\ n # 0
    <3>1. Len(c) \in Nat /\ (Len(c) = 0 => c = <<>>)
      OBVIOUS
    <3> QED BY <1>3, <3>1, Zenon
  <2>2. Len(c) >= 1
    BY <2>1
  <2>3. Frames!RecentTime(c) = c[Len(c)] /\ Frames!BaseTime(c) = c[1]
    BY <1>3 DEF Frames!RecentTime, Frames!BaseTime
  <2> QED BY <2>2, <2>3 DEF Frames!Due, DueAt, Frames!Ms, Frames!TicksPerMs, Frames!IntervalMs, Frames!Tolerance, Frames!Interval
<1> QED BY <1>2, <1>3

\* At the start no packet waits and the clouds are empty.
LEMMA FramesStart == Frames!Init => FramesInv
<1> SUFFICES ASSUME Frames!Init PROVE FramesInv
  OBVIOUS
<1>1. setting \in Settings /\ queue = <<>> /\ tPc = "check" /\ handlers = {} /\ frame = <<>>
  BY DEF Frames!Init
<1>2. now \in Nat /\ now >= 1
  <2>1. Frames!Interval \in Nat
    BY <1>1, SettingIs DEF Frames!Interval, Frames!IntervalMs, Frames!TicksPerMs
  <2> QED BY <2>1 DEF Frames!Init
<1>3. heard \in [Lidars -> Nat] /\ \A l \in Lidars : heard[l] = now - 1
  BY <1>2 DEF Frames!Init
<1>4. /\ <<>> \in Seq(Packets) /\ <<>> \in Seq(Entries) /\ <<>> \in Seq(Frames!Point)
      /\ Len(<<>>) = 0 /\ 1 .. 0 = {}
  OBVIOUS
<1>5. Waiting = <<>>
  BY <1>1 DEF Waiting
<1>6. clouds \in [Lidars -> Seq(Frames!Point)] /\ \A l \in Lidars : clouds[l] = <<>>
  BY <1>4 DEF Frames!Init
<1>7. \A l \in Lidars : (1 .. Len(clouds[l])) = {} /\ Len(clouds[l]) = 0
  BY <1>4, <1>6
<1>8. (1 .. Len(Waiting)) = {} /\ Len(Waiting) = 0
  BY <1>4, <1>5
<1>9. Ordered(Waiting, clouds, heard)
  BY <1>3, <1>4, <1>5, <1>6, <1>7, <1>8 DEF Ordered, Rising
<1>10. WholeFrames
  BY <1>1, <1>2, <1>3, <1>4, <1>7, <1>8 DEF WholeFrames, Whole, Unbroken, NotDue
<1> QED BY <1>1, <1>2, <1>3, <1>4, <1>9, <1>10 DEF FramesInv

\* Time goes on when every lidar was heard, or packets get lost.
LEMMA TickKeeps ==
  ASSUME FramesInv, Frames!Tick
  PROVE  FramesInv'
<1>1. /\ now \in Nat /\ now' = now + 1
      /\ UNCHANGED <<setting, heard, queue, syncFlag, tPc, packet, handlers, clouds, frame>>
  BY DEF FramesInv, Frames!Tick, Frames!threadVars
<1>2. Waiting' = Waiting
  BY <1>1 DEF Waiting
<1>3. heard \in [Lidars -> Nat]
  BY DEF FramesInv, Ordered
<1>4. ~setting.mayLose => \A l \in Lidars : heard[l] = now
  BY DEF Frames!Tick, Frames!MayLose
<1>5. ~setting.mayLose /\ setting.synced = Lidars => WholeFrames'
  <2> SUFFICES ASSUME ~setting.mayLose, setting.synced = Lidars PROVE WholeFrames'
    OBVIOUS
  <2>1. WholeFrames
    BY DEF FramesInv
  <2>2. \A l \in Lidars : heard[l] >= now' - 1
    BY <1>1, <1>3, <1>4
  <2> QED BY <1>1, <1>2, <2>1, <2>2 DEF WholeFrames
<1>6. \A l \in Lidars : heard[l] <= now'
  BY <1>1, <1>3 DEF FramesInv
<1> QED BY <1>1, <1>2, <1>5, <1>6 DEF FramesInv

\* A packet of points is stamped after all of its lidar that wait.
LEMMA PointPacketKeeps ==
  ASSUME FramesInv, NEW l \in Lidars, Frames!PointPacket(l)
  PROVE  FramesInv'
<1>1. UNCHANGED <<setting, now, tPc, packet, handlers, clouds, frame>>
  BY DEF Frames!PointPacket, Frames!threadVars
<1>2. now \in Nat /\ heard \in [Lidars -> Nat] /\ heard[l] < now /\ now > 0
  BY DEF FramesInv, Ordered, Frames!PointPacket
<1>3. heard' = [heard EXCEPT ![l] = now]
  BY DEF Frames!PointPacket
<1>4. PICK points \in {<<now>>} \cup (IF setting.mayLose THEN {<<>>} ELSE {}) :
        queue' = Append(queue, [lidar |-> l, points |-> points])
  BY DEF Frames!PointPacket, Frames!MayLose
<1>5. /\ points \in Seq(Frames!Point) /\ Len(points) <= 1
      /\ points # <<>> => points[1] = now
      /\ ~setting.mayLose => points # <<>>
  <2>1. points = <<now>> \/ (points = <<>> /\ setting.mayLose)
    BY <1>4
  <2>2. now \in Frames!Point
    BY <1>2 DEF Frames!Point
  <2>3. <<now>> \in Seq(Frames!Point) /\ Len(<<now>>) = 1 /\ <<now>>[1] = now /\ <<now>> # <<>>
    BY <2>2
  <2>4. <<>> \in Seq(Frames!Point) /\ Len(<<>>) = 0
    OBVIOUS
  <2>5. CASE points = <<now>>
    BY <2>3, <2>5
  <2>6. CASE points = <<>> /\ setting.mayLose
    <3>1. points \in Seq(Frames!Point) /\ Len(points) <= 1
      BY <2>4, <2>6
    <3> QED BY <2>6, <3>1
  <2> QED BY <2>1, <2>5, <2>6
<1>6. PICK p \in Packets : p.lidar = l /\ p.points = points /\ p = [lidar |-> l, points |-> points]
  BY <1>5 DEF Packets
<1>7. queue \in Seq(Packets) /\ (tPc = "process" => packet \in Packets) /\ Ordered(Waiting, clouds, heard)
  BY DEF FramesInv
<1>8. Waiting' = Append(Waiting, p) /\ queue' \in Seq(Packets)
  <2>1. queue' = Append(queue, p)
    BY <1>4, <1>6
  <2> QED BY <1>1, <1>7, <2>1, JoinLine
<1>9. Stamped(p) => p.points[1] = now
  BY <1>5, <1>6 DEF Stamped
<1>10. PICK w, v, g : w = Waiting /\ v = Append(w, p) /\ g = [heard EXCEPT ![p.lidar] = now]
  OBVIOUS
<1>11. Waiting' = v /\ heard' = g
  BY <1>3, <1>6, <1>8, <1>10
<1>12. Ordered(v, clouds, g)
  BY <1>2, <1>6, <1>7, <1>9, <1>10, JoinOrdered
<1>13. Ordered(Waiting, clouds, heard)'
  BY <1>1, <1>11, <1>12
<1>14. \A k \in Lidars : heard'[k] = heard[k] \/ (k = l /\ heard'[k] = now)
  BY <1>2, <1>3
<1>15. \A k \in Lidars : heard'[k] <= now'
  BY <1>1, <1>2, <1>14 DEF FramesInv
<1>16. ~setting.mayLose /\ setting.synced = Lidars => WholeFrames'
  <2> SUFFICES ASSUME ~setting.mayLose, setting.synced = Lidars PROVE WholeFrames'
    OBVIOUS
  <2>1. WholeFrames
    BY DEF FramesInv
  <2>2. Whole(w, clouds, heard, setting.ticksPerMs, setting.intervalMs)
    BY <1>10, <2>1 DEF WholeFrames
  <2>3. now = heard[l] + 1
    BY <1>2, <2>1 DEF WholeFrames
  <2>4. Stamped(p) /\ p.points[1] = now /\ now = heard[p.lidar] + 1
    BY <1>5, <1>6, <1>9, <2>3 DEF Stamped
  <2>5. Whole(v, clouds, g, setting.ticksPerMs, setting.intervalMs)
    BY <1>2, <1>7, <1>10, <2>2, <2>4, JoinWhole
  <2>6. Whole(Waiting, clouds, heard, setting.ticksPerMs, setting.intervalMs)'
    BY <1>1, <1>11, <2>5
  <2>7. syncFlag'
    BY DEF Frames!PointPacket, Frames!Synced
  <2>8. \A k \in Lidars : heard'[k] >= now' - 1
    BY <1>1, <1>2, <1>14, <2>1 DEF WholeFrames
  <2> QED BY <1>1, <2>1, <2>6, <2>7, <2>8 DEF WholeFrames
<1>17. tPc' = "take" => Len(queue') >= 1
  <2>1. Len(queue) \in Nat /\ Len(Append(queue, p)) = Len(queue) + 1
    BY <1>7
  <2> QED BY <1>4, <1>6, <2>1
<1> QED BY <1>1, <1>7, <1>8, <1>13, <1>15, <1>16, <1>17 DEF FramesInv

\* A packet of the IMU sets the flag, which stays set while all lidars are synchronised.
LEMMA ImuPacketKeeps ==
  ASSUME FramesInv, NEW l \in Lidars, Frames!ImuPacket(l)
  PROVE  FramesInv'
<1>1. UNCHANGED <<setting, now, heard, queue, tPc, packet, handlers, clouds, frame>>
  BY DEF Frames!ImuPacket, Frames!threadVars
<1>2. Waiting' = Waiting
  BY <1>1 DEF Waiting
<1>3. setting.synced = Lidars => syncFlag'
  BY DEF Frames!ImuPacket, Frames!Synced
<1>4. WholeFrames /\ setting.synced = Lidars => WholeFrames'
  BY <1>1, <1>2, <1>3 DEF WholeFrames
<1> QED BY <1>1, <1>2, <1>4 DEF FramesInv

\* Check, WaitFor: the thread goes on to take a packet, if there is one.
LEMMA WaitKeeps ==
  ASSUME FramesInv, Frames!Check \/ Frames!WaitFor
  PROVE  FramesInv'
<1>1. /\ UNCHANGED <<setting, now, heard, syncFlag, queue, packet, handlers, clouds, frame>>
      /\ tPc # "process" /\ tPc' # "process"
      /\ tPc' = "take" => queue # <<>>
  BY DEF Frames!Check, Frames!WaitFor, Frames!threadKeeps
<1>2. Waiting' = Waiting
  BY <1>1 DEF Waiting
<1>3. tPc' = "take" => Len(queue) >= 1
  <2>1. queue \in Seq(Packets)
    BY DEF FramesInv
  <2>2. Len(queue) \in Nat /\ (Len(queue) = 0 => queue = <<>>)
    BY <2>1
  <2> QED BY <1>1, <2>2
<1>4. WholeFrames => WholeFrames'
  BY <1>1, <1>2 DEF WholeFrames
<1> QED BY <1>1, <1>2, <1>3, <1>4 DEF FramesInv

\* The packet that is taken stays first in the line.
LEMMA TakeKeeps ==
  ASSUME FramesInv, Frames!Take
  PROVE  FramesInv'
<1>1. /\ UNCHANGED <<setting, now, heard, syncFlag, handlers, clouds, frame>>
      /\ tPc = "take" /\ tPc' = "process" /\ packet' = Head(queue) /\ queue' = Tail(queue)
  BY DEF Frames!Take, Frames!threadKeeps
<1>2. queue \in Seq(Packets) /\ Len(queue) >= 1
  BY <1>1 DEF FramesInv
<1>3. Waiting' = Waiting /\ queue' \in Seq(Packets) /\ packet' \in Packets
  BY <1>1, <1>2, TakeLine
<1>4. WholeFrames => WholeFrames'
  BY <1>1, <1>3 DEF WholeFrames
<1> QED BY <1>1, <1>3, <1>4 DEF FramesInv

\* Stopping changes no cloud and no frame.
LEMMA UninitKeeps ==
  ASSUME FramesInv, Frames!Uninit \/ UNCHANGED Frames!vars
  PROVE  FramesInv'
<1>1. UNCHANGED <<setting, now, heard, queue, syncFlag, tPc, packet, handlers, clouds, frame>>
  BY DEF Frames!Uninit, Frames!vars, Frames!threadVars
<1>2. Waiting' = Waiting
  BY <1>1 DEF Waiting
<1>3. WholeFrames => WholeFrames'
  BY <1>1, <1>2 DEF WholeFrames
<1> QED BY <1>1, <1>2, <1>3 DEF FramesInv

\* A frame of the host's timer: one entry for each lidar whose cloud is not empty.
LEMMA HostFrame ==
  ASSUME NEW cs \in [Lidars -> Seq(Frames!Point)], \A l \in Lidars : Rising(cs[l]),
         NEW full \in SUBSET Lidars, \A l \in full : cs[l] # <<>>, NEW f,
         f = [i \in 1 .. Frames!Cardinality(full) |->
                Frames!Entry(Frames!InOrder(full)[i], cs[Frames!InOrder(full)[i]])]
  PROVE  f \in Seq(Entries)
<1>1. PICK n \in Nat : n = Frames!Cardinality(full)
  <2>1. Lidars \in SUBSET Nat /\ Frames!IsFiniteSet(Lidars)
    BY FramesAssumption DEF Frames!LidarAssumption
  <2>2. Frames!IsFiniteSet(Lidars) <=> IsFiniteSet(Lidars)
    BY DEF Frames!IsFiniteSet, IsFiniteSet
  <2>3. IsFiniteSet(full)
    BY <2>1, <2>2, FS_Subset
  <2>4. Frames!Cardinality(full) = Cardinality(full)
    BY DEF Frames!Cardinality, Cardinality
  <2> QED BY <2>3, <2>4, FS_CardinalityType
<1>2. ASSUME NEW i \in 1 .. n
      PROVE  Frames!Entry(Frames!InOrder(full)[i], cs[Frames!InOrder(full)[i]]) \in Entries
  <2>1. PICK l \in full : l = Frames!InOrder(full)[i]
    BY <1>1, InOrderIs
  <2>2. l \in Lidars /\ cs[l] \in Seq(Frames!Point) /\ cs[l] # <<>> /\ Rising(cs[l])
    OBVIOUS
  <2>3. Frames!Entry(l, cs[l]) \in Entries
    BY <2>2, EntryIs
  <2> QED BY <2>1, <2>3
<1>3. PICK h \in [1 .. n -> Entries] : h = f
  BY <1>1, <1>2
<1>4. h \in Seq(Entries)
  OBVIOUS
<1> QED BY <1>3, <1>4

\* Process: PointCloudProcess and CheckTimer.
LEMMA ProcessKeeps ==
  ASSUME FramesInv, Frames!Process
  PROVE  FramesInv'
<1>1. /\ UNCHANGED <<setting, now, heard, syncFlag, queue>>
      /\ tPc = "process" /\ tPc' = "check" /\ handlers' = handlers \cup {packet.lidar}
      /\ Frames!SyncTimer(Frames!Processed) \/ Frames!HostTimer(Frames!Processed)
  BY DEF Frames!Process, Frames!threadKeeps
<1>2. /\ queue \in Seq(Packets) /\ packet \in Packets /\ handlers \subseteq Lidars
      /\ Ordered(Waiting, clouds, heard) /\ frame \in Seq(Entries) /\ setting \in Settings
  BY <1>1 DEF FramesInv
<1>3. Waiting \in Seq(Packets) /\ Len(Waiting) >= 1 /\ Waiting[1] = packet /\ Waiting' = Rest(Waiting)
  BY <1>1, <1>2, ProcessLine
<1>4. PICK w, v, cs : w = Waiting /\ v = Rest(Waiting) /\ cs = Frames!Processed
  OBVIOUS
<1>5. PICK l \in Lidars : l = packet.lidar
  BY <1>2, StampIs
<1>14. v = Rest(w) /\ Len(w) >= 1 /\ Ordered(w, clouds, heard)
  BY <1>2, <1>3, <1>4
<1>6. Ordered(v, cs, heard)
  <2>1. cs = [clouds EXCEPT ![w[1].lidar] = @ \o w[1].points]
    BY <1>3, <1>4 DEF Frames!Processed
  <2> QED BY <1>2, <1>3, <1>4, <2>1, ProcessOrdered
<1>7. cs \in [Lidars -> Seq(Frames!Point)] /\ \A k \in Lidars : Rising(cs[k])
  BY <1>6 DEF Ordered
<1>8. ASSUME NEW ls, clouds' = [k \in Lidars |-> IF k \in ls THEN <<>> ELSE cs[k]]
      PROVE  Ordered(v, clouds', heard)
  BY <1>6, <1>8, CutOrdered
<1>9. handlers' \subseteq Lidars
  BY <1>1, <1>2, <1>5
<1>10. CASE Frames!SyncTimer(cs) /\ Frames!Due(cs[l])
  <2>1. /\ clouds' = [k \in Lidars |-> IF k \in {l} THEN <<>> ELSE cs[k]]
        /\ frame' = <<Frames!Entry(l, cs[l])>>
    BY <1>5, <1>10 DEF Frames!SyncTimer, Frames!Cut
  <2>2. PICK d \in Seq(Frames!Point) : d = cs[l]
    BY <1>7
  <2>3. Len(d) >= 1 /\ DueAt(setting.ticksPerMs, setting.intervalMs, d[1], d[Len(d)])
    BY <1>2, <1>10, <2>2, DueIs
  <2>4. d # <<>>
    <3>1. Len(<<>>) = 0
      OBVIOUS
    <3> QED BY <2>3, <3>1
  <2>5. PICK e \in Entries : e = Frames!Entry(l, d) /\ e.points = d
    BY <1>7, <2>2, <2>4, EntryIs
  <2>6. frame' = <<e>> /\ frame' \in Seq(Entries) /\ Len(frame') = 1 /\ frame'[1] = e
    BY <2>1, <2>2, <2>5
  <2>7. Ordered(v, clouds', heard)
    BY <1>8, <2>1
  <2>8. ~setting.mayLose /\ setting.synced = Lidars => WholeFrames'
    <3> SUFFICES ASSUME ~setting.mayLose, setting.synced = Lidars PROVE WholeFrames'
      OBVIOUS
    <3>1. WholeFrames
      BY DEF FramesInv
    <3>2. Whole(w, clouds, heard, setting.ticksPerMs, setting.intervalMs)
      BY <1>4, <3>1 DEF WholeFrames
    <3>3. d = clouds[w[1].lidar] \o w[1].points /\ \A k \in Lidars : k # l => cs[k] = clouds[k]
      <4>1. clouds \in [Lidars -> Seq(Frames!Point)]
        BY <1>2 DEF Ordered
      <4>2. cs = [clouds EXCEPT ![l] = clouds[l] \o packet.points]
        BY <1>4, <1>5 DEF Frames!Processed
      <4> QED BY <1>3, <1>4, <1>5, <2>2, <4>1, <4>2
    <3>4. Len(clouds'[l]) = 0 /\ \A k \in Lidars : k # l => clouds'[k] = cs[k]
      BY <2>1
    <3>5. w[1].lidar = l
      BY <1>3, <1>4, <1>5
    <3>6. PICK es : es = clouds'
      OBVIOUS
    <3>7. \A k \in Lidars : \/ Len(es[k]) = 0
                            \/ k # w[1].lidar /\ es[k] = clouds[k]
      BY <3>3, <3>4, <3>5, <3>6
    <3>13. Continued(w, clouds, heard, setting.ticksPerMs, setting.intervalMs, v, d)
      BY <1>14, <3>2, <3>3, ProcessWhole
    <3>8. /\ Unbroken(d) /\ NotDue(setting.ticksPerMs, setting.intervalMs, d, Len(d) - 1)
          /\ Whole(v, es, heard, setting.ticksPerMs, setting.intervalMs)
      BY <3>7, <3>13 DEF Continued
    <3>9. FirstDue(setting.ticksPerMs, setting.intervalMs, d[1], d[Len(d)])
      BY <2>3, <3>8, DueIsFirst
    <3>10. syncFlag
      BY <1>3, <3>1 DEF WholeFrames
    <3>11. Whole(Waiting, clouds, heard, setting.ticksPerMs, setting.intervalMs)'
      BY <1>1, <1>3, <1>4, <3>6, <3>8
    <3>12. \A i \in 1 .. Len(frame') :
             /\ Unbroken(frame'[i].points)
             /\ FirstDue(setting.ticksPerMs, setting.intervalMs, frame'[i].points[1], frame'[i].points[Len(frame'[i].points)])
      BY <2>5, <2>6, <3>8, <3>9
    <3> QED BY <1>1, <3>1, <3>10, <3>11, <3>12 DEF WholeFrames
  <2> QED BY <1>1, <1>2, <1>3, <1>4, <1>9, <2>6, <2>7, <2>8 DEF FramesInv
<1>11. CASE Frames!SyncTimer(cs) /\ ~Frames!Due(cs[l])
  <2>1. clouds' = cs /\ frame' = frame
    BY <1>5, <1>11 DEF Frames!SyncTimer
  <2>2. PICK d \in Seq(Frames!Point) : d = cs[l]
    BY <1>7
  <2>3. ~setting.mayLose /\ setting.synced = Lidars => WholeFrames'
    <3> SUFFICES ASSUME ~setting.mayLose, setting.synced = Lidars PROVE WholeFrames'
      OBVIOUS
    <3>1. WholeFrames
      BY DEF FramesInv
    <3>2. Whole(w, clouds, heard, setting.ticksPerMs, setting.intervalMs)
      BY <1>4, <3>1 DEF WholeFrames
    <3>3. d = clouds[w[1].lidar] \o w[1].points /\ \A k \in Lidars : k # l => cs[k] = clouds[k]
      <4>1. clouds \in [Lidars -> Seq(Frames!Point)]
        BY <1>2 DEF Ordered
      <4>2. cs = [clouds EXCEPT ![l] = clouds[l] \o packet.points]
        BY <1>4, <1>5 DEF Frames!Processed
      <4> QED BY <1>3, <1>4, <1>5, <2>2, <4>1, <4>2
    <3>13. Continued(w, clouds, heard, setting.ticksPerMs, setting.intervalMs, v, d)
      BY <1>14, <3>2, <3>3, ProcessWhole
    <3>4. Len(d) >= 1
      BY <3>13 DEF Continued
    <3>5. ~DueAt(setting.ticksPerMs, setting.intervalMs, d[1], d[Len(d)])
      BY <1>2, <1>11, <2>2, <3>4, DueIs
    <3>6. w[1].lidar = l
      BY <1>3, <1>4, <1>5
    <3>7. \A k \in Lidars : \/ k # w[1].lidar /\ cs[k] = clouds[k]
                            \/ k = w[1].lidar /\ cs[k] = d /\ ~DueAt(setting.ticksPerMs, setting.intervalMs, d[1], d[Len(d)])
      BY <2>2, <3>3, <3>5, <3>6
    <3>8. Whole(v, cs, heard, setting.ticksPerMs, setting.intervalMs)
      BY <3>7, <3>13 DEF Continued
    <3>9. Whole(Waiting, clouds, heard, setting.ticksPerMs, setting.intervalMs)'
      BY <1>1, <1>3, <1>4, <2>1, <3>8
    <3>10. syncFlag
      BY <1>3, <3>1 DEF WholeFrames
    <3> QED BY <1>1, <2>1, <3>1, <3>9, <3>10 DEF WholeFrames
  <2> QED BY <1>1, <1>2, <1>3, <1>4, <1>6, <1>9, <2>1, <2>3 DEF FramesInv
<1>12. CASE Frames!HostTimer(cs)
  <2>1. ~(~setting.mayLose /\ setting.synced = Lidars)
    <3>1. ~syncFlag
      BY <1>12 DEF Frames!HostTimer
    <3>2. WholeFrames => syncFlag
      BY <1>3 DEF WholeFrames
    <3> QED BY <3>1, <3>2 DEF FramesInv
  <2>2. PICK full : full = {k \in handlers' : cs[k] # <<>>}
    OBVIOUS
  <2>3. \/ clouds' = cs /\ frame' = frame
        \/ /\ clouds' = [k \in Lidars |-> IF k \in handlers' THEN <<>> ELSE cs[k]]
           /\ \/ frame' = frame
              \/ frame' = [i \in 1 .. Frames!Cardinality(full) |->
                             Frames!Entry(Frames!InOrder(full)[i], cs[Frames!InOrder(full)[i]])]
    BY <1>12, <2>2 DEF Frames!HostTimer, Frames!Cut
  <2>4. frame' \in Seq(Entries)
    <3>1. full \in SUBSET Lidars /\ \A k \in full : cs[k] # <<>>
      BY <1>9, <2>2
    <3> QED BY <1>2, <1>7, <2>3, <3>1, HostFrame
  <2>5. Ordered(v, clouds', heard)
    BY <1>6, <1>8, <2>3
  <2> QED BY <1>1, <1>2, <1>3, <1>4, <1>9, <2>1, <2>4, <2>5 DEF FramesInv
<1>13. Frames!SyncTimer(cs) \/ Frames!HostTimer(cs)
  BY <1>1, <1>4
<1> QED BY <1>10, <1>11, <1>12, <1>13

\* No step breaks the invariant.
LEMMA FramesStep == FramesInv /\ [Frames!Next]_Frames!vars => FramesInv'
<1> SUFFICES ASSUME FramesInv, [Frames!Next]_Frames!vars PROVE FramesInv'
  OBVIOUS
<1>1. CASE Frames!Tick
  BY <1>1, TickKeeps
<1>2. CASE \E l \in Lidars : Frames!PointPacket(l)
  BY <1>2, PointPacketKeeps
<1>3. CASE \E l \in Lidars : Frames!ImuPacket(l)
  BY <1>3, ImuPacketKeeps
<1>4. CASE Frames!Check \/ Frames!WaitFor
  BY <1>4, WaitKeeps
<1>5. CASE Frames!Take
  BY <1>5, TakeKeeps
<1>6. CASE Frames!Process
  BY <1>6, ProcessKeeps
<1>7. CASE Frames!Uninit \/ UNCHANGED Frames!vars
  BY <1>7, UninitKeeps
<1> QED BY <1>1, <1>2, <1>3, <1>4, <1>5, <1>6, <1>7 DEF Frames!Next, Frames!RawDataProcess

\* A frame that was not due before it ended, and begins where the one before ended, has one
\* interval.
LEMMA FramesAreAlignedThen == FramesInv => FramesAligned
<1> SUFFICES ASSUME FramesInv, NEW i \in 1 .. Len(frame), NEW p, p = frame[i].points,
                    ~setting.mayLose, setting.synced = Lidars, Frames!Follows(p[1])
             PROVE  Frames!Ms(p[Len(p)]) = Frames!Ms(p[1] - 1) + setting.intervalMs
  BY DEF FramesAligned, Frames!FramesAligned, Frames!MayLose, Frames!Synced, Frames!IntervalMs
<1>1. PICK t, m : t = setting.ticksPerMs /\ m = setting.intervalMs /\ t \in Nat /\ t > 0 /\ m \in Nat /\ m > 1
  BY SettingIs DEF FramesInv
<1>2. FirstDue(t, m, p[1], p[Len(p)]) /\ Unbroken(p)
  BY <1>1 DEF FramesInv, WholeFrames
<1>3. PICK q \in Seq(Frames!Point) : q = p /\ Len(q) >= 1
  BY DEF FramesInv, Entries
<1>4. PICK a \in Nat : a = p[1] /\ a > 0
  BY <1>3 DEF Frames!Point
<1>5. PICK b \in Nat : b = p[Len(p)]
  BY <1>3 DEF Frames!Point
<1>6. ((a - 1) \div t) % m = 0
  BY <1>1, <1>4 DEF Frames!Follows, Frames!Ms, Frames!TicksPerMs, Frames!IntervalMs
<1>7. FirstDue(t, m, a, b)
  BY <1>2, <1>4, <1>5
<1>8. b \div t = ((a - 1) \div t) + m
  <2>1. b \in Int /\ a \in Nat /\ a > 0 /\ t \in Nat /\ t > 0 /\ m \in Nat /\ m > 1
    BY <1>1, <1>4
  <2> QED BY <1>6, <1>7, <2>1, DueIsAligned, Zenon
<1> QED BY <1>1, <1>4, <1>5, <1>8 DEF Frames!Ms, Frames!TicksPerMs

\* Offsets are no cut differences: a frame of rising stamps is shorter than their range.
LEMMA TimesAreRebuiltThen == FramesInv => OffsetsRebuildTimes
<1> SUFFICES ASSUME FramesInv, NEW i \in 1 .. Len(frame), NEW p, p = frame[i].points,
                    NEW msg, msg = Frames!Message(frame[i]),
                    NEW short, short <=> p[Len(p)] - p[1] < Frames!OffsetRange
             PROVE  /\ p # <<>>
                    /\ short \/ setting.mayLose \/ setting.synced # Lidars
                    /\ short => [k \in 1 .. Len(p) |-> msg.timebase + msg.offset[k]] = p
  BY DEF OffsetsRebuildTimes, Frames!OffsetsRebuildTimes, Frames!MayLose, Frames!Synced
<1>1. PICK t, m, r : /\ t = setting.ticksPerMs /\ m = setting.intervalMs
                     /\ t \in Nat /\ t > 0 /\ m \in Nat /\ m > 1
                     /\ r = 2 * (m * t) /\ r = Frames!OffsetRange /\ r \in Nat
  <2>1. setting.ticksPerMs \in Nat /\ setting.ticksPerMs > 0 /\ setting.intervalMs \in Nat /\ setting.intervalMs > 1
    BY SettingIs DEF FramesInv
  <2> QED BY <2>1 DEF Frames!OffsetRange, Frames!Interval, Frames!IntervalMs, Frames!TicksPerMs
<1>2. frame[i] \in Entries
  BY DEF FramesInv
<1>3. PICK q \in Seq(Frames!Point) : q = p /\ Len(q) >= 1 /\ Rising(q) /\ frame[i].base = q[1]
  BY <1>2 DEF Entries
<1>4. PICK n \in Nat : n = Len(q) /\ n >= 1 /\ n \in 1 .. n /\ 1 \in 1 .. n
  BY <1>3
<1>5. q = [k \in 1 .. n |-> q[k]] /\ \A k \in 1 .. n : q[k] \in Nat /\ q[k] > 0
  BY <1>4 DEF Frames!Point
<1>6. p # <<>>
  <2>1. Len(<<>>) = 0
    OBVIOUS
  <2> QED BY <1>3, <2>1
<1>7. short \/ setting.mayLose \/ setting.synced # Lidars
  <2> SUFFICES ASSUME ~setting.mayLose, setting.synced = Lidars PROVE short
    OBVIOUS
  <2>1. FirstDue(t, m, q[1], q[n])
    BY <1>1, <1>3, <1>4 DEF FramesInv, WholeFrames
  <2>2. q[n] - q[1] < 2 * (m * t)
    <3>1. PICK a \in Nat, b \in Nat : a = q[1] /\ b = q[n] /\ a > 0
      BY <1>4, <1>5
    <3>2. FirstDue(t, m, a, b) /\ b \in Int /\ m > 0
      BY <1>1, <2>1, <3>1
    <3>3. b - a < 2 * (m * t)
      BY <1>1, <3>1, <3>2, DueIsSoon, Zenon
    <3> QED BY <3>1, <3>3
  <2> QED BY <1>1, <1>3, <1>4, <2>2
<1>8. ASSUME short PROVE [k \in 1 .. Len(p) |-> msg.timebase + msg.offset[k]] = p
  <2>1. msg.timebase = q[1]
    BY <1>3, <1>6 DEF Frames!Message
  <2>2. ASSUME NEW k \in 1 .. n PROVE msg.timebase + msg.offset[k] = q[k]
    <3>1. msg.offset[k] = (q[k] - q[1]) % r
      BY <1>1, <1>3, <1>4 DEF Frames!Message
    <3>2. PICK a \in Nat, b \in Nat, c \in Nat : a = q[1] /\ b = q[n] /\ c = q[k]
      BY <1>4, <1>5
    <3>3. a <= c
      <4>1. 1 < k => a < c
        BY <1>3, <1>4, <3>2 DEF Rising
      <4> QED BY <3>2, <4>1
    <3>4. c <= b
      <4>1. k < n => c < b
        BY <1>3, <1>4, <3>2 DEF Rising
      <4> QED BY <3>2, <4>1
    <3>5. b - a < r
      BY <1>1, <1>3, <1>4, <1>8, <3>2
    <3>6. PICK o \in Nat : o = c - a /\ o < r
      BY <1>1, <3>3, <3>4, <3>5
    <3>7. o % r = o
      BY <1>1, <3>6, ModOfSmall
    <3>8. msg.offset[k] = o
      BY <3>1, <3>2, <3>6, <3>7
    <3>9. msg.timebase = a
      BY <2>1, <3>2
    <3>10. a + o = c
      BY <3>6
    <3> QED BY <3>2, <3>8, <3>9, <3>10
  <2> QED BY <1>3, <1>4, <1>5, <2>2
<1> QED BY <1>6, <1>7, <1>8

\* Frames end exactly at the next multiple of the interval while all lidars are synchronised and
\* no packet is lost, whatever the interval, the ticks of a millisecond and the lidars are.
THEOREM FramesAreAligned == Frames!Spec => []FramesAligned
<1>1. Frames!Init => FramesInv
  BY FramesStart
<1>2. FramesInv /\ [Frames!Next]_Frames!vars => FramesInv'
  BY FramesStep
<1>3. FramesInv => FramesAligned
  BY FramesAreAlignedThen
<1> QED BY <1>1, <1>2, <1>3, PTL DEF Frames!Spec

\* Base time and offsets of a frame give the stamps of its points.
THEOREM TimesAreRebuilt == Frames!Spec => []OffsetsRebuildTimes
<1>1. Frames!Init => FramesInv
  BY FramesStart
<1>2. FramesInv /\ [Frames!Next]_Frames!vars => FramesInv'
  BY FramesStep
<1>3. FramesInv => OffsetsRebuildTimes
  BY TimesAreRebuiltThen
<1> QED BY <1>1, <1>2, <1>3, PTL DEF Frames!Spec

-----------------------------------------------------------------------------
(* PubHandler implements FrameChannel.  What a lidar has pending is its    *)
(* cloud and then its points in the line; PointsOf joins them with a       *)
(* recursive function, whose sums over a longer and a shorter line are     *)
(* compared by induction.                                                  *)

\* What a packet adds to a lidar's points, and the sums of what a line adds.
Of(l, p) == IF p.lidar = l THEN p.points ELSE <<>>
Points == Seq(Frames!Point)
Sums(h, l, w) ==
  h \in [0 .. Len(w) -> Points] /\ h[0] = <<>> /\ \A k \in 1 .. Len(w) : h[k] = h[k - 1] \o Of(l, w[k])

Agree(w, v, m) == m \in Nat /\ m <= Len(w) /\ m <= Len(v) /\ \A k \in 1 .. m : w[k] = v[k]

\* A packet adds points.
LEMMA OfIs ==
  ASSUME NEW l, NEW p \in Packets
  PROVE  Of(l, p) \in Points
<1>1. p.points \in Points /\ <<>> \in Points
  BY StampIs DEF Points
<1> QED BY <1>1 DEF Of

\* Lines that begin alike have the same sums so far.
LEMMA SumsAgree ==
  ASSUME NEW l, NEW w, NEW v, NEW h, NEW g, NEW m,
         Sums(h, l, w), Sums(g, l, v), Agree(w, v, m), Len(w) \in Nat, Len(v) \in Nat
  PROVE  h[m] = g[m]
<1>6. m \in Nat /\ m <= Len(w) /\ m <= Len(v) /\ \A k \in 1 .. m : w[k] = v[k]
  BY DEF Agree
<1> DEFINE B == {k \in 0 .. m : h[k] = g[k]}
<1>1. 0 \in B
  BY <1>6 DEF Sums
<1>2. ASSUME NEW k \in 1 .. m, k - 1 \in B PROVE k \in B
  <2>1. k \in 1 .. Len(w) /\ k \in 1 .. Len(v) /\ w[k] = v[k] /\ h[k - 1] = g[k - 1] /\ k \in 0 .. m
    BY <1>2, <1>6
  <2>2. h[k] = h[k - 1] \o Of(l, w[k]) /\ g[k] = g[k - 1] \o Of(l, v[k])
    BY <2>1 DEF Sums
  <2>3. h[k] = g[k]
    BY <2>1, <2>2
  <2> QED BY <2>1, <2>3
<1> HIDE DEF B
<1>3. \A k \in 0 .. m : k \in B
  BY <1>1, <1>2, <1>6, Induction
<1>4. m \in 0 .. m
  BY <1>6
<1>5. m \in B
  BY <1>3, <1>4
<1> QED BY <1>5 DEF B

\* Every line has sums.
LEMMA SumsExist ==
  ASSUME NEW l, NEW w \in Seq(Packets)
  PROVE  \E h : Sums(h, l, w)
<1>1. PICK N \in Nat : N = Len(w)
  OBVIOUS
<1>2. PICK G : G = [k \in 1 .. N |-> [s \in Points |-> s \o Of(l, w[k])]]
  OBVIOUS
<1>3. \A k \in 1 .. N : Of(l, w[k]) \in Points
  BY <1>1, OfIs
<1>4. ASSUME NEW k \in 1 .. N, NEW s \in Points PROVE s \o Of(l, w[k]) \in Points
  <2>1. PICK t \in Points : t = Of(l, w[k])
    BY <1>3
  <2>2. s \o t \in Points
    BY ConcatProperties DEF Points
  <2> QED BY <2>1, <2>2
<1>5. G \in [1 .. N -> [Points -> Points]]
  BY <1>2, <1>4
<1>6. <<>> \in Points
  BY DEF Points
<1>7. Steps(N, Points, <<>>, G)
  BY <1>5, <1>6 DEF Steps
<1>8. PICK h : Follows(h, N, Points, <<>>, G)
  BY <1>7, Recursion
<1>9. h \in [0 .. N -> Points] /\ h[0] = <<>> /\ \A k \in 1 .. N : h[k] = G[k][h[k - 1]]
  BY <1>8 DEF Follows
<1>10. ASSUME NEW k \in 1 .. N PROVE h[k] = h[k - 1] \o Of(l, w[k])
  <2>1. h[k - 1] \in Points
    <3>1. k - 1 \in 0 .. N
      OBVIOUS
    <3> QED BY <1>9, <3>1
  <2>2. G[k][h[k - 1]] = h[k - 1] \o Of(l, w[k])
    BY <1>2, <2>1
  <2> QED BY <1>9, <2>2
<1> QED BY <1>1, <1>9, <1>10 DEF Sums

\* FlattenSeq joins what the packets add.
LEMMA PointsOfIs ==
  ASSUME NEW l, NEW w \in Seq(Packets)
  PROVE  \E h : Sums(h, l, w) /\ Frames!PointsOf(l, w) = h[Len(w)]
<1>1. PICK h : Sums(h, l, w)
  BY SumsExist
<1>2. PICK N \in Nat : N = Len(w)
  OBVIOUS
<1>3. PICK x : x = [i \in 1 .. N |-> Of(l, w[i])]
  OBVIOUS
<1>4. Len(x) = N /\ \A i \in 1 .. N : x[i] = Of(l, w[i])
  BY <1>3
<1>5. Frames!PointsOf(l, w) = Frames!FlattenSeq(x)
  BY <1>2, <1>3 DEF Frames!PointsOf, Of
<1>6. CASE N = 0
  <2>1. x = <<>> /\ Frames!FlattenSeq(x) = x
    BY <1>3, <1>4, <1>6 DEF Frames!FlattenSeq
  <2>2. h[0] = <<>>
    BY <1>1 DEF Sums
  <2> QED BY <1>1, <1>2, <1>5, <1>6, <2>1, <2>2
<1>7. CASE N # 0
  <2> DEFINE Law(f) == f = [i \in 1 .. N |-> IF i = 1 THEN x[i] ELSE f[i - 1] \o x[i]]
  <2>1. N >= 1 /\ \A i \in 1 .. N : i = 1 \/ i - 1 \in 1 .. N
    BY <1>7
  <2>2. h \in [0 .. N -> Points] /\ h[0] = <<>> /\ \A k \in 1 .. N : h[k] = h[k - 1] \o x[k]
    BY <1>1, <1>2, <1>4 DEF Sums
  <2>3. h[1] = x[1]
    <3>1. 1 \in 1 .. N
      BY <2>1
    <3>2. PICK t \in Points : t = x[1]
      BY <1>2, <1>4, <3>1, OfIs
    <3>3. h[1] = h[1 - 1] \o t
      BY <2>2, <3>1, <3>2
    <3>6. h[1 - 1] = <<>>
      <4>1. 1 - 1 = 0
        OBVIOUS
      <4> QED BY <2>2, <4>1
    <3>4. h[1] = <<>> \o t
      BY <3>3, <3>6
    <3>5. <<>> \o t = t
      BY ConcatEmptySeq DEF Points
    <3> QED BY <3>2, <3>4, <3>5
  <2>4. \E f : Law(f)
    <3>1. PICK f : f = [i \in 1 .. N |-> h[i]]
      OBVIOUS
    <3>2. \A i \in 1 .. N : h[i] = IF i = 1 THEN x[i] ELSE f[i - 1] \o x[i]
      BY <2>1, <2>2, <2>3, <3>1
    <3> QED BY <3>1, <3>2
  <2>5. PICK f : Law(f) /\ Frames!FlattenSeq(x) = f[N]
    <3>1. Len(x) # 0
      BY <1>4, <1>7
    <3>2. Frames!FlattenSeq(x) = (CHOOSE f : Law(f))[N]
      BY <1>4, <3>1 DEF Frames!FlattenSeq
    <3> HIDE DEF Law
    <3> QED BY <2>4, <3>2
  <2>6. \A i \in 1 .. N : f[i] = IF i = 1 THEN x[i] ELSE f[i - 1] \o x[i]
    BY <2>5
  <2> HIDE DEF Law
  <2> DEFINE B == {k \in 0 .. N : k = 0 \/ f[k] = h[k]}
  <2>7. 0 \in B
    OBVIOUS
  <2>8. ASSUME NEW k \in 1 .. N, k - 1 \in B PROVE k \in B
    <3>1. CASE k = 1
      BY <2>3, <2>6, <3>1
    <3>2. CASE k # 1
      <4>1. f[k - 1] = h[k - 1]
        BY <2>8, <3>2
      <4>2. f[k] = f[k - 1] \o x[k]
        BY <2>6, <3>2
      <4>3. h[k] = h[k - 1] \o x[k]
        BY <2>2
      <4>4. f[k] = h[k]
        BY <4>1, <4>2, <4>3
      <4> QED BY <4>4
    <3> QED BY <3>1, <3>2
  <2> HIDE DEF B
  <2>9. \A k \in 0 .. N : k \in B
    BY <2>7, <2>8, Induction
  <2>10. N \in 0 .. N
    OBVIOUS
  <2>11. N \in B
    BY <2>9, <2>10
  <2>12. f[N] = h[N]
    BY <1>7, <2>11 DEF B
  <2> QED BY <1>1, <1>2, <1>5, <2>5, <2>12
<1> QED BY <1>6, <1>7

\* The points in a line are points.
LEMMA PointsOfType ==
  ASSUME NEW l, NEW w \in Seq(Packets)
  PROVE  Frames!PointsOf(l, w) \in Points
<1>1. PICK h : Sums(h, l, w) /\ Frames!PointsOf(l, w) = h[Len(w)]
  BY PointsOfIs
<1>2. Len(w) \in 0 .. Len(w)
  OBVIOUS
<1> QED BY <1>1, <1>2 DEF Sums

\* A packet that joins the line adds its points at the end.
LEMMA PointsOfJoined ==
  ASSUME NEW l, NEW w \in Seq(Packets), NEW p \in Packets, NEW v, v = Append(w, p)
  PROVE  Frames!PointsOf(l, v) = Frames!PointsOf(l, w) \o Of(l, p)
<1>1. PICK N \in Nat : N = Len(w)
  OBVIOUS
<1>2. v \in Seq(Packets) /\ Len(v) = N + 1 /\ (\A i \in 1 .. N : v[i] = w[i]) /\ v[N + 1] = p
  BY <1>1, AppendProperties
<1>3. PICK h : Sums(h, l, w) /\ Frames!PointsOf(l, w) = h[Len(w)]
  BY PointsOfIs
<1>4. PICK g : Sums(g, l, v) /\ Frames!PointsOf(l, v) = g[Len(v)]
  BY <1>2, PointsOfIs
<1>5. N <= Len(w) /\ N <= Len(v) /\ Len(w) \in Nat /\ Len(v) \in Nat /\ \A k \in 1 .. N : w[k] = v[k]
  BY <1>1, <1>2
<1>9. Sums(h, l, w) /\ Sums(g, l, v)
  BY <1>3, <1>4
<1>10. Agree(w, v, N) /\ Len(w) \in Nat /\ Len(v) \in Nat
  BY <1>5 DEF Agree
<1>6. h[N] = g[N]
  BY <1>9, <1>10, SumsAgree
<1>7. g[N + 1] = g[(N + 1) - 1] \o Of(l, v[N + 1])
  <2>1. N + 1 \in 1 .. Len(v)
    BY <1>2
  <2> QED BY <1>4, <2>1 DEF Sums
<1>8. (N + 1) - 1 = N
  OBVIOUS
<1> QED BY <1>1, <1>2, <1>3, <1>4, <1>6, <1>7, <1>8

\* The first of a line comes before the rest.
LEMMA PointsOfFirst ==
  ASSUME NEW l, NEW w \in Seq(Packets), Len(w) >= 1, NEW v, v = Rest(w)
  PROVE  Frames!PointsOf(l, w) = Of(l, w[1]) \o Frames!PointsOf(l, v)
<1>1. v \in Seq(Packets) /\ Len(v) = Len(w) - 1 /\ \A i \in 1 .. Len(w) - 1 : v[i] = w[i + 1] /\ i + 1 \in 1 .. Len(w)
  BY RestIs
<1>2. PICK N \in Nat : N = Len(v) /\ Len(w) = N + 1
  BY <1>1
<1>3. PICK h : Sums(h, l, w) /\ Frames!PointsOf(l, w) = h[N + 1]
  BY <1>2, PointsOfIs
<1>4. PICK g : Sums(g, l, v) /\ Frames!PointsOf(l, v) = g[N]
  BY <1>1, <1>2, PointsOfIs
<1>5. h \in [0 .. N + 1 -> Points] /\ h[0] = <<>> /\ \A k \in 1 .. N + 1 : h[k] = h[k - 1] \o Of(l, w[k])
  BY <1>2, <1>3 DEF Sums
<1>6. g \in [0 .. N -> Points] /\ g[0] = <<>> /\ \A k \in 1 .. N : g[k] = g[k - 1] \o Of(l, v[k])
  BY <1>2, <1>4 DEF Sums
<1>7. PICK e \in Points : e = Of(l, w[1])
  <2>1. w[1] \in Packets
    OBVIOUS
  <2> QED BY <2>1, OfIs
<1> DEFINE B == {k \in 0 .. N : h[k + 1] = e \o g[k]}
<1>8. 0 \in B
  <2>1. h[1] = h[1 - 1] \o e
    <3>1. 1 \in 1 .. N + 1
      OBVIOUS
    <3> QED BY <1>5, <1>7, <3>1
  <2>5. h[1 - 1] = <<>>
    <3>1. 1 - 1 = 0
      OBVIOUS
    <3> QED BY <1>5, <3>1
  <2>2. h[1] = <<>> \o e
    BY <2>1, <2>5
  <2>3. <<>> \o e = e /\ e \o <<>> = e
    BY ConcatEmptySeq DEF Points
  <2>4. h[0 + 1] = e \o g[0]
    BY <1>6, <2>2, <2>3
  <2> QED BY <2>4
<1>9. ASSUME NEW k \in 1 .. N, k - 1 \in B PROVE k \in B
  <2>1. k + 1 \in 1 .. N + 1 /\ (k + 1) - 1 = k /\ (k - 1) + 1 = k /\ k - 1 \in 0 .. N /\ k \in 0 .. N
    OBVIOUS
  <2>2. h[k] = e \o g[k - 1]
    BY <1>9, <2>1
  <2>3. h[k + 1] = h[k] \o Of(l, w[k + 1])
    BY <1>5, <2>1
  <2>4. v[k] = w[k + 1] /\ v[k] \in Packets
    BY <1>1, <1>2
  <2>5. PICK a \in Points, b \in Points : a = g[k - 1] /\ b = Of(l, v[k])
    BY <1>6, <2>1, <2>4, OfIs
  <2>6. (e \o a) \o b = e \o (a \o b)
    BY ConcatAssociative DEF Points
  <2>7. g[k] = a \o b
    BY <1>6, <2>5
  <2>8. h[k + 1] = (e \o a) \o b
    BY <2>2, <2>3, <2>4, <2>5
  <2> QED BY <2>1, <2>6, <2>7, <2>8
<1> HIDE DEF B
<1>10. \A k \in 0 .. N : k \in B
  BY <1>8, <1>9, Induction
<1>11. N \in 0 .. N
  OBVIOUS
<1>12. N \in B
  BY <1>10, <1>11
<1>13. h[N + 1] = e \o g[N]
  BY <1>12 DEF B
<1> QED BY <1>3, <1>4, <1>7, <1>13

\* x is what c holds from u to v.
IsPart(x, c, u, v) == Len(x) = v - u + 1 /\ \A i \in 1 .. v - u + 1 : x[i] = c[u + i - 1]

\* A part of a sequence.
LEMMA PartIs ==
  ASSUME NEW P, NEW c, NEW u \in Int, NEW v \in Int, u <= v + 1, \A i \in u .. v : c[i] \in P
  PROVE  SubSeq(c, u, v) \in Seq(P) /\ IsPart(SubSeq(c, u, v), c, u, v)
<1>1. SubSeq(c, u, v) \in Seq(P)
  BY SubSeqProperties
<1>2. Len(SubSeq(c, u, v)) = IF u <= v THEN v - u + 1 ELSE 0
  BY SubSeqProperties
<1>3. \A i \in 1 .. v - u + 1 : SubSeq(c, u, v)[i] = c[u + i - 1]
  BY SubSeqProperties
<1> QED BY <1>1, <1>2, <1>3 DEF IsPart

\* The two parts of what was joined.
Splits(c, a, b) ==
  /\ Len(c) = Len(a) + Len(b) /\ Len(a) \in Nat /\ Len(b) \in Nat
  /\ SubSeq(c, 1, Len(a)) = a
  /\ SubSeq(c, Len(a) + 1, Len(c)) = b

\* A sequence joined of two is split where the second begins.
LEMMA SplitAt ==
  ASSUME NEW a \in Points, NEW b \in Points, NEW c, c = a \o b
  PROVE  Splits(c, a, b)
<1>1. PICK m \in Nat, r \in Nat : m = Len(a) /\ r = Len(b)
  BY DEF Points
<1>2. c \in Points /\ Len(c) = m + r
  BY <1>1, ConcatProperties DEF Points
<1>3. \A i \in 1 .. m : c[i] = a[i]
  BY <1>1, ConcatProperties DEF Points
<1>4. \A i \in 1 .. r : c[m + i] = b[i]
  <2> SUFFICES ASSUME NEW i \in 1 .. r PROVE c[m + i] = b[i]
    OBVIOUS
  <2>1. m + i \in 1 .. m + r /\ ~(m + i <= m) /\ (m + i) - m = i
    OBVIOUS
  <2> QED BY <1>1, <2>1, ConcatProperties DEF Points
<1>5. ASSUME NEW x \in Points, NEW y \in Points, Len(x) = Len(y), \A i \in 1 .. Len(x) : x[i] = y[i] PROVE x = y
  BY <1>5 DEF Points
<1>6. SubSeq(c, 1, m) = a
  <2> DEFINE x == SubSeq(c, 1, m)
  <2> DEFINE P == Frames!Point
  <2>1. \A i \in 1 .. m : c[i] \in P
    BY <1>2 DEF Points
  <2>4. Points = Seq(P)
    BY DEF Points
  <2> HIDE DEF P
  <2>2. x \in Points /\ Len(x) = m /\ \A i \in 1 .. m : x[i] = c[i]
    <3>1. 1 <= m + 1 /\ 1 \in Int /\ m \in Int
      OBVIOUS
    <3>2. x \in Seq(P) /\ IsPart(x, c, 1, m)
      BY <2>1, <3>1, PartIs
    <3>3. Len(x) = m - 1 + 1 /\ \A i \in 1 .. m - 1 + 1 : x[i] = c[1 + i - 1]
      BY <3>2 DEF IsPart
    <3>5. m - 1 + 1 = m /\ \A i \in 1 .. m : 1 + i - 1 = i
      OBVIOUS
    <3> HIDE DEF x
    <3> QED BY <2>4, <3>2, <3>3, <3>5
  <2> HIDE DEF x
  <2>3. x = a
    BY <1>1, <1>3, <1>5, <2>2
  <2> QED BY <2>3 DEF x
<1>7. SubSeq(c, m + 1, m + r) = b
  <2> DEFINE x == SubSeq(c, m + 1, m + r)
  <2> DEFINE P == Frames!Point
  <2>1. \A i \in m + 1 .. m + r : c[i] \in P
    BY <1>2 DEF Points
  <2>4. Points = Seq(P)
    BY DEF Points
  <2> HIDE DEF P
  <2>2. x \in Points /\ Len(x) = r /\ \A i \in 1 .. r : x[i] = c[m + i]
    <3>1. m + 1 <= (m + r) + 1 /\ m + 1 \in Int /\ m + r \in Int
      OBVIOUS
    <3>2. x \in Seq(P) /\ IsPart(x, c, m + 1, m + r)
      BY <2>1, <3>1, PartIs
    <3>3. Len(x) = (m + r) - (m + 1) + 1 /\ \A i \in 1 .. (m + r) - (m + 1) + 1 : x[i] = c[(m + 1) + i - 1]
      BY <3>2 DEF IsPart
    <3>5. (m + r) - (m + 1) + 1 = r /\ \A i \in 1 .. r : (m + 1) + i - 1 = m + i
      OBVIOUS
    <3> HIDE DEF x
    <3> QED BY <2>4, <3>2, <3>3, <3>5
  <2> HIDE DEF x
  <2>3. x = b
    BY <1>1, <1>4, <1>5, <2>2
  <2> QED BY <2>3 DEF x
<1> QED BY <1>1, <1>2, <1>6, <1>7 DEF Splits

\* Two lidars of a set have different numbers of lidars before them.
LEMMA RankGrows ==
  ASSUME NEW ls \in SUBSET Nat, IsFiniteSet(ls), NEW a \in ls, NEW b \in ls, a < b
  PROVE  Cardinality({k \in ls : k < a}) # Cardinality({k \in ls : k < b})
<1>1. PICK s, t : s = {k \in ls : k < a} /\ t = {k \in ls : k < b}
  OBVIOUS
<1>2. IsFiniteSet(s) /\ IsFiniteSet(t)
  BY <1>1, FS_Subset
<1>3. a \notin s /\ s \cup {a} \subseteq t
  <2>1. ~(a < a) /\ \A k \in ls : k < a => k < b
    OBVIOUS
  <2> QED BY <1>1, <2>1
<1>4. Cardinality(s \cup {a}) = Cardinality(s) + 1 /\ IsFiniteSet(s \cup {a})
  BY <1>2, <1>3, FS_AddElement
<1>5. Cardinality(s \cup {a}) <= Cardinality(t)
  BY <1>2, <1>3, FS_Subset
<1>6. Cardinality(s) \in Nat /\ Cardinality(t) \in Nat
  BY <1>2, FS_CardinalityType
<1> QED BY <1>1, <1>4, <1>5, <1>6

\* Every lidar of the set has its place.
LEMMA InOrderOnto ==
  ASSUME NEW ls \in SUBSET Lidars, NEW l \in ls
  PROVE  \E i \in 1 .. Frames!Cardinality(ls) : Frames!InOrder(ls)[i] = l
<1>1. Lidars \in SUBSET Nat /\ IsFiniteSet(Lidars)
  <2>1. Lidars \in SUBSET Nat /\ Frames!IsFiniteSet(Lidars)
    BY FramesAssumption DEF Frames!LidarAssumption
  <2>2. Frames!IsFiniteSet(Lidars) <=> IsFiniteSet(Lidars)
    BY DEF Frames!IsFiniteSet, IsFiniteSet
  <2> QED BY <2>1, <2>2
<1>2. ls \in SUBSET Nat /\ IsFiniteSet(ls)
  BY <1>1, FS_Subset
<1>3. \A s : Frames!Cardinality(s) = Cardinality(s)
  BY DEF Frames!Cardinality, Cardinality
<1>4. PICK s : s = {k \in ls : k < l}
  OBVIOUS
<1>5. IsFiniteSet(s) /\ s \subseteq ls /\ l \notin s
  BY <1>2, <1>4, FS_Subset
<1>6. PICK i \in Nat : i = Cardinality(s) + 1 /\ i >= 1
  BY <1>5, FS_CardinalityType
<1>7. i \in 1 .. Cardinality(ls)
  <2>1. Cardinality(s \cup {l}) = Cardinality(s) + 1
    BY <1>5, FS_AddElement
  <2>2. Cardinality(s \cup {l}) <= Cardinality(ls) /\ Cardinality(ls) \in Nat
    BY <1>2, <1>5, FS_Subset, FS_CardinalityType
  <2> QED BY <1>6, <2>1, <2>2
<1>8. ASSUME NEW m \in ls, Cardinality({k \in ls : k < m}) = i - 1 PROVE m = l
  <2>1. Cardinality({k \in ls : k < l}) = i - 1
    <3>1. Cardinality(s) \in Nat
      BY <1>5, FS_CardinalityType
    <3> QED BY <1>4, <1>6, <3>1
  <2>2. m \in Nat /\ l \in Nat
    BY <1>2
  <2>3. ~(m < l)
    BY <1>2, <1>8, <2>1, RankGrows
  <2>4. ~(l < m)
    BY <1>2, <1>8, <2>1, RankGrows
  <2> QED BY <2>2, <2>3, <2>4
<1>9. Frames!InOrder(ls)[i] = (CHOOSE m \in ls : Frames!Cardinality({k \in ls : k < m}) = i - 1)
  BY <1>3, <1>7 DEF Frames!InOrder
<1> DEFINE At(m) == Frames!Cardinality({k \in ls : k < m}) = i - 1
<1>10. At(l)
  <2>1. Cardinality(s) \in Nat
    BY <1>5, FS_CardinalityType
  <2> QED BY <1>3, <1>4, <1>6, <2>1
<1>11. \A m \in ls : At(m) => m = l
  BY <1>3, <1>8
<1>12. Frames!InOrder(ls)[i] = CHOOSE m \in ls : At(m)
  BY <1>9
<1> HIDE DEF At
<1>13. (CHOOSE m \in ls : At(m)) = l
  BY <1>10, <1>11
<1> QED BY <1>3, <1>7, <1>12, <1>13

\* A frame with an entry for each of some clouds, and for no other.
MadeOf(f, ls, cs) ==
  /\ \A i \in 1 .. Len(f) : f[i].lidar \in ls /\ f[i].points = cs[f[i].lidar]
  /\ \A l \in ls : \E i \in 1 .. Len(f) : f[i].lidar = l

\* A frame shows the clouds its entries were made of.
LEMMA ShownIs ==
  ASSUME NEW f, frame' = f, NEW cs, NEW ls, MadeOf(f, ls, cs)
  PROVE  Frames!Shown' = [l \in ls |-> cs[l]]
<1>4. /\ \A i \in 1 .. Len(f) : f[i].lidar \in ls /\ f[i].points = cs[f[i].lidar]
      /\ \A l \in ls : \E i \in 1 .. Len(f) : f[i].lidar = l
  BY DEF MadeOf
<1>1. {f[i].lidar : i \in 1 .. Len(f)} = ls
  BY <1>4
<1>2. ASSUME NEW l \in ls PROVE f[CHOOSE j \in 1 .. Len(f) : f[j].lidar = l].points = cs[l]
  <2>1. PICK i : i = CHOOSE j \in 1 .. Len(f) : f[j].lidar = l
    OBVIOUS
  <2>2. i \in 1 .. Len(f) /\ f[i].lidar = l
    BY <1>4, <2>1
  <2> QED BY <1>4, <2>1, <2>2
<1>3. Frames!Shown' = [l \in {f[i].lidar : i \in 1 .. Len(f)} |->
                        f[CHOOSE j \in 1 .. Len(f) : f[j].lidar = l].points]
  BY DEF Frames!Shown
<1>5. Frames!Shown' = [l \in ls |-> f[CHOOSE j \in 1 .. Len(f) : f[j].lidar = l].points]
  BY <1>1, <1>3
<1> QED BY <1>2, <1>5

\* The hand is empty unless a packet is processed.
HandInv == tPc # "process" => packet = <<>>

\* A packet is in hand from Take to Process.
LEMMA HandStep == HandInv /\ [Frames!Next]_Frames!vars => HandInv'
<1> SUFFICES ASSUME HandInv, [Frames!Next]_Frames!vars PROVE HandInv'
  OBVIOUS
<1> QED
  BY DEF HandInv, Frames!Next, Frames!vars, Frames!threadVars, Frames!RawDataProcess, Frames!Tick, Frames!PointPacket,
         Frames!ImuPacket, Frames!Check, Frames!WaitFor, Frames!Take, Frames!Process, Frames!Uninit

\* What is pending: the cloud of the lidar, then what waits in the line.
Pend == [l \in Lidars |-> clouds[l] \o Frames!PointsOf(l, Waiting)]

\* Pending, in terms of the line.
LEMMA PendingIs == FramesInv /\ HandInv => Frames!Pending = Pend
<1> SUFFICES ASSUME FramesInv, HandInv PROVE Frames!Pending = Pend
  OBVIOUS
<1>1. CASE tPc = "process"
  <2>1. packet \in Packets /\ queue \in Seq(Packets)
    BY <1>1 DEF FramesInv
  <2>2. packet # <<>>
    <3>1. "lidar" \in DOMAIN packet
      BY <2>1 DEF Packets
    <3>2. DOMAIN <<>> = {}
      OBVIOUS
    <3> QED BY <3>1, <3>2
  <2>3. PICK n \in Nat : n = Len(queue)
    BY <2>1
  <2>4. PICK v : v = <<packet>> \o queue
    OBVIOUS
  <2>5. v \in Seq(Packets) /\ Len(v) = 1 + n /\ v[1] = packet /\ \A i \in 2 .. n + 1 : v[i] = queue[i - 1]
    <3>0. PICK p \in Packets : p = packet
      BY <2>1
    <3>1. PICK u : u = <<p>>
      OBVIOUS
    <3>8. u \in Seq(Packets) /\ Len(u) = 1 /\ u[1] = packet
      BY <3>0, <3>1
    <3>2. v = u \o queue
      BY <2>4, <3>0, <3>1
    <3>3. v \in Seq(Packets) /\ Len(v) = Len(u) + Len(queue)
          /\ \A i \in 1 .. Len(u) + Len(queue) : v[i] = IF i <= Len(u) THEN u[i] ELSE queue[i - Len(u)]
      BY <2>1, <3>2, <3>8, ConcatProperties
    <3>4. \A i \in 1 .. 1 + n : v[i] = IF i <= 1 THEN u[i] ELSE queue[i - 1]
      BY <2>3, <3>3, <3>8
    <3>5. v[1] = u[1]
      BY <3>4
    <3>6. \A i \in 2 .. n + 1 : i \in 1 .. 1 + n /\ ~(i <= 1)
      OBVIOUS
    <3>7. \A i \in 2 .. n + 1 : v[i] = queue[i - 1]
      BY <3>4, <3>6
    <3> QED BY <2>3, <3>3, <3>5, <3>7, <3>8
  <2>6. Waiting = [i \in 1 .. n + 1 |-> IF i = 1 THEN packet ELSE queue[i - 1]]
    BY <1>1, <2>3 DEF Waiting
  <2>7. v = [i \in 1 .. n + 1 |-> v[i]]
    BY <2>5
  <2>8. \A i \in 1 .. n + 1 : i = 1 \/ i \in 2 .. n + 1
    OBVIOUS
  <2>9. v = Waiting
    BY <2>5, <2>6, <2>7, <2>8
  <2>10. \A l : Frames!PointsOf(l, IF packet = <<>> THEN queue ELSE <<packet>> \o queue) = Frames!PointsOf(l, Waiting)
    BY <2>2, <2>4, <2>9
  <2> QED BY <2>10 DEF Frames!Pending, Pend
<1>2. CASE tPc # "process"
  <2>1. packet = <<>> /\ Waiting = queue
    BY <1>2 DEF HandInv, Waiting
  <2> QED BY <2>1 DEF Frames!Pending, Pend
<1> QED BY <1>1, <1>2

\* What the channel may do with what is pending and shown.
ChannelMoves == [Frames!Channel!Next]_(Frames!Channel!chanVars)

\* What leaves both as they were is no step of the channel.
LEMMA Idles ==
  ASSUME Frames!Pending' = Frames!Pending, Frames!Shown' = Frames!Shown
  PROVE  ChannelMoves
BY DEF ChannelMoves, Frames!Channel!chanVars

\* What the thread and the SDK do without points changes neither.
LEMMA QuietIdles ==
  ASSUME FramesInv, HandInv, FramesInv', HandInv', Frames!Pending = Pend, Frames!Pending' = Pend',
         \/ Frames!Tick \/ (\E l \in Lidars : Frames!ImuPacket(l)) \/ Frames!Check \/ Frames!WaitFor
         \/ Frames!Take \/ Frames!Uninit \/ UNCHANGED Frames!vars
  PROVE  ChannelMoves
<1>1. clouds' = clouds /\ frame' = frame
  BY DEF Frames!Tick, Frames!ImuPacket, Frames!Check, Frames!WaitFor, Frames!Take, Frames!Uninit, Frames!vars,
         Frames!threadVars
<1>2. Waiting' = Waiting
  <2>1. CASE Frames!Take
    <3>1. queue \in Seq(Packets) /\ tPc = "take" /\ Len(queue) >= 1
      BY <2>1 DEF FramesInv, Frames!Take
    <3>2. packet' = Head(queue) /\ queue' = Tail(queue) /\ tPc' = "process"
      BY <2>1 DEF Frames!Take
    <3> QED BY <3>1, <3>2, TakeLine
  <2>2. CASE Frames!Check \/ Frames!WaitFor
    <3>1. tPc # "process" /\ tPc' # "process" /\ queue' = queue
      BY <2>2 DEF Frames!Check, Frames!WaitFor
    <3> QED BY <3>1 DEF Waiting
  <2>3. CASE Frames!Tick \/ (\E l \in Lidars : Frames!ImuPacket(l)) \/ Frames!Uninit \/ UNCHANGED Frames!vars
    <3>1. UNCHANGED <<tPc, packet, queue>>
      BY <2>3 DEF Frames!Tick, Frames!ImuPacket, Frames!Uninit, Frames!vars, Frames!threadVars
    <3> QED BY <3>1 DEF Waiting
  <2> QED BY <2>1, <2>2, <2>3
<1>3. Pend' = Pend
  BY <1>1, <1>2 DEF Pend
<1>4. Frames!Shown' = Frames!Shown
  BY <1>1 DEF Frames!Shown
<1> QED BY <1>3, <1>4, Idles

\* The clouds and the line, without the places of the thread.
LEMMA LineIs ==
  ASSUME FramesInv
  PROVE  /\ Waiting \in Seq(Packets) /\ clouds \in [Lidars -> Points]
         /\ \A l \in Lidars : Frames!PointsOf(l, Waiting) \in Points
<1>1. Waiting \in Seq(Packets) /\ clouds \in [Lidars -> Points]
  BY DEF FramesInv, Ordered, Points
<1> QED BY <1>1, PointsOfType

\* A packet with a point sends it.
LEMMA PointPacketSends ==
  ASSUME FramesInv, HandInv, FramesInv', HandInv', Frames!Pending = Pend, Frames!Pending' = Pend',
         NEW l \in Lidars, Frames!PointPacket(l)
  PROVE  ChannelMoves
<1>1. UNCHANGED <<tPc, packet, clouds, frame>>
  BY DEF Frames!PointPacket, Frames!threadVars
<1>2. now \in Nat /\ now > 0
  <2>1. heard \in [Lidars -> Nat] /\ now \in Nat /\ heard[l] < now
    BY DEF FramesInv, Ordered, Frames!PointPacket
  <2> QED BY <2>1
<1>3. PICK points \in {<<now>>, <<>>} : queue' = Append(queue, [lidar |-> l, points |-> points])
  <2>1. \E points \in {<<now>>} \cup (IF setting.mayLose THEN {<<>>} ELSE {}) :
          queue' = Append(queue, [lidar |-> l, points |-> points])
    BY DEF Frames!PointPacket, Frames!MayLose
  <2> QED BY <2>1
<1>4. now \in Frames!Point /\ <<now>> \in Points /\ <<>> \in Points /\ Len(<<now>>) = 1 /\ Len(<<>>) = 0
  BY <1>2 DEF Frames!Point, Points
<1>5. points \in Points /\ Len(points) <= 1
  <2>1. CASE points = <<now>>
    BY <1>4, <2>1
  <2>2. CASE points = <<>>
    <3>1. Len(points) <= 1
      BY <1>4, <2>2
    <3> QED BY <1>4, <2>2, <3>1
  <2> QED BY <1>3, <2>1, <2>2
<1>6. PICK p \in Packets : p.lidar = l /\ p.points = points /\ p = [lidar |-> l, points |-> points]
  BY <1>5 DEF Packets, Points
<1>7. queue \in Seq(Packets) /\ (tPc = "process" => packet \in Packets)
  BY DEF FramesInv
<1>8. Waiting' = Append(Waiting, p)
  <2>1. queue' = Append(queue, p)
    BY <1>3, <1>6
  <2> QED BY <1>1, <1>7, <2>1, JoinLine
<1>9. PICK w \in Seq(Packets) : w = Waiting
  BY LineIs
<1>20. PICK v : v = Append(w, p)
  OBVIOUS
<1>10. \A k \in Lidars : Frames!PointsOf(k, v) = Frames!PointsOf(k, w) \o Of(k, p)
  BY <1>20, PointsOfJoined
<1>11. Waiting' = v
  BY <1>8, <1>9, <1>20
<1>12. clouds \in [Lidars -> Points] /\ \A k \in Lidars : Frames!PointsOf(k, w) \in Points
  BY <1>9, LineIs
<1>13. ASSUME NEW k \in Lidars PROVE Pend[k] \in Points /\ Pend'[k] = Pend[k] \o Of(k, p)
  <2>1. PICK a \in Points, b \in Points, c \in Points : a = clouds[k] /\ b = Frames!PointsOf(k, w) /\ c = Of(k, p)
    BY <1>12, OfIs
  <2>2. Pend[k] = a \o b
    BY <1>9, <2>1 DEF Pend
  <2>3. Pend'[k] = a \o (b \o c)
    BY <1>1, <1>10, <1>11, <2>1 DEF Pend
  <2>4. (a \o b) \o c = a \o (b \o c)
    BY ConcatAssociative DEF Points
  <2>5. a \o b \in Points
    BY ConcatProperties DEF Points
  <2> QED BY <2>1, <2>2, <2>3, <2>4, <2>5
<1>14. ASSUME NEW s \in Points PROVE s \o <<>> = s
  BY ConcatEmptySeq DEF Points
<1>15. Frames!Shown' = Frames!Shown
  BY <1>1 DEF Frames!Shown
<1>16. Pend = [k \in Lidars |-> Pend[k]] /\ Pend' = [k \in Lidars |-> Pend'[k]]
  BY DEF Pend
<1>17. ASSUME NEW k \in Lidars, k # l PROVE Pend'[k] = Pend[k]
  <2>1. Of(k, p) = <<>>
    BY <1>6, <1>17 DEF Of
  <2> QED BY <1>13, <1>14, <2>1
<1>18. CASE points = <<>>
  <2>1. \A k \in Lidars : Of(k, p) = <<>>
    BY <1>6, <1>18 DEF Of
  <2>2. \A k \in Lidars : Pend'[k] = Pend[k]
    BY <1>13, <1>14, <2>1
  <2>3. Pend' = Pend
    BY <1>16, <2>2
  <2> QED BY <1>15, <2>3, Idles
<1>19. CASE points = <<now>>
  <2>1. Of(l, p) = <<now>>
    BY <1>6, <1>19 DEF Of
  <2>2. PICK s \in Points : s = Pend[l]
    BY <1>13
  <2>3. PICK q : q = Append(s, now)
    OBVIOUS
  <2>4. s \o <<now>> = q
    BY <1>4, <2>3 DEF Points
  <2>5. Pend'[l] = q
    BY <1>13, <2>1, <2>2, <2>4
  <2>6. q # <<>> /\ q[Len(q)] = now
    <3>1. Len(q) = Len(s) + 1 /\ q[Len(s) + 1] = now /\ Len(s) \in Nat
      BY <1>4, <2>3, AppendProperties DEF Points
    <3>2. Len(q) # 0
      BY <3>1
    <3> QED BY <1>4, <3>1, <3>2
  <2>7. Pend' = [Pend EXCEPT ![l] = q]
    BY <1>16, <1>17, <2>5
  <2>8. Frames!Channel!Send(l, now)
    BY <1>15, <2>2, <2>3, <2>7 DEF Frames!Channel!Send
  <2>9. Frames!Channel!Next
    BY <1>4, <2>5, <2>6, <2>8 DEF Frames!Channel!Next
  <2> QED BY <2>9 DEF ChannelMoves
<1> QED BY <1>3, <1>18, <1>19

\* What a lidar has pending, when its packet moves from the hand to its cloud.
LEMMA ProcessedIs ==
  ASSUME FramesInv, Frames!Process, NEW cs, cs = Frames!Processed
  PROVE  /\ cs \in [Lidars -> Points]
         /\ \A k \in Lidars : /\ Frames!PointsOf(k, Waiting') \in Points
                              /\ Pend[k] = cs[k] \o Frames!PointsOf(k, Waiting')
<1>1. tPc = "process" /\ tPc' = "check" /\ queue' = queue
  BY DEF Frames!Process
<1>2. queue \in Seq(Packets) /\ packet \in Packets
  BY <1>1 DEF FramesInv
<1>3. PICK w \in Seq(Packets) : w = Waiting
  BY LineIs
<1>4. Len(w) >= 1 /\ w[1] = packet /\ Waiting' = Rest(w)
  BY <1>1, <1>2, <1>3, ProcessLine
<1>5. PICK v : v = Rest(w)
  OBVIOUS
<1>6. v \in Seq(Packets) /\ Waiting' = v
  BY <1>4, <1>5, RestIs
<1>7. \A k : Frames!PointsOf(k, w) = Of(k, packet) \o Frames!PointsOf(k, v)
  BY <1>4, <1>5, PointsOfFirst
<1>8. \A k : Frames!PointsOf(k, v) \in Points
  BY <1>6, PointsOfType
<1>9. clouds \in [Lidars -> Points]
  BY LineIs
<1>10. cs = [clouds EXCEPT ![packet.lidar] = clouds[packet.lidar] \o packet.points]
  BY DEF Frames!Processed
<1>11. packet.lidar \in Lidars
  BY <1>2, StampIs
<1>12. ASSUME NEW k \in Lidars
       PROVE  cs[k] \in Points /\ Pend[k] = cs[k] \o Frames!PointsOf(k, v)
  <2>1. PICK a \in Points, b \in Points, c \in Points : a = clouds[k] /\ b = Of(k, packet) /\ c = Frames!PointsOf(k, v)
    BY <1>2, <1>8, <1>9, OfIs
  <2>2. cs[k] = a \o b
    <3>1. CASE k = packet.lidar
      <4>1. b = packet.points
        BY <2>1, <3>1 DEF Of
      <4> QED BY <1>9, <1>10, <1>11, <2>1, <3>1, <4>1
    <3>2. CASE k # packet.lidar
      <4>1. b = <<>>
        BY <2>1, <3>2 DEF Of
      <4>2. a \o <<>> = a
        BY ConcatEmptySeq DEF Points
      <4>3. cs[k] = clouds[k]
        BY <1>9, <1>10, <1>11, <3>2
      <4> QED BY <2>1, <4>1, <4>2, <4>3
    <3> QED BY <3>1, <3>2
  <2>3. Pend[k] = a \o (b \o c)
    BY <1>3, <1>7, <2>1 DEF Pend
  <2>4. (a \o b) \o c = a \o (b \o c)
    BY ConcatAssociative DEF Points
  <2>5. a \o b \in Points
    BY ConcatProperties DEF Points
  <2> QED BY <2>1, <2>2, <2>3, <2>4, <2>5
<1>13. cs \in [Lidars -> Points]
  <2>1. cs = [k \in Lidars |-> cs[k]]
    BY <1>9, <1>10
  <2> QED BY <1>12, <2>1
<1> QED BY <1>6, <1>8, <1>12, <1>13

\* Clouds that are cut whole, and shown, are the oldest points of their lidars.
LEMMA CutShows ==
  ASSUME Frames!Pending = Pend, Frames!Pending' = Pend',
         NEW full \in SUBSET Lidars, NEW cs \in [Lidars -> Points], NEW r \in [Lidars -> Points],
         \A k \in full : cs[k] # <<>>,
         \A k \in Lidars : Pend[k] = cs[k] \o r[k],
         Pend' = [k \in Lidars |-> IF k \in full THEN r[k] ELSE Pend[k]],
         Frames!Shown' = [k \in full |-> cs[k]]
  PROVE  ChannelMoves
<1> DEFINE n == [k \in full |-> Len(cs[k])]
<1>1. ASSUME NEW k \in full
      PROVE  /\ Len(cs[k]) \in 1 .. Len(Pend[k])
             /\ SubSeq(Pend[k], 1, Len(cs[k])) = cs[k]
             /\ SubSeq(Pend[k], Len(cs[k]) + 1, Len(Pend[k])) = r[k]
  <2>1. PICK a \in Points, b \in Points : a = cs[k] /\ b = r[k]
    OBVIOUS
  <2>5. PICK c : c = Pend[k] /\ c = a \o b
    BY <2>1
  <2>2. /\ Len(c) = Len(a) + Len(b) /\ Len(a) \in Nat /\ Len(b) \in Nat
        /\ SubSeq(c, 1, Len(a)) = a
        /\ SubSeq(c, Len(a) + 1, Len(c)) = b
    <3>1. Splits(c, a, b)
      BY <2>5, SplitAt
    <3> QED BY <3>1 DEF Splits
  <2>3. Len(a) # 0
    <3>1. Len(a) = 0 => a = <<>>
      BY DEF Points
    <3> QED BY <2>1, <3>1
  <2>4. Len(a) \in 1 .. Len(c)
    BY <2>2, <2>3
  <2> QED BY <2>1, <2>2, <2>4, <2>5
<1>2. DOMAIN Frames!Shown' = full /\ \A k \in full : Frames!Shown'[k] = cs[k]
  OBVIOUS
<1>3. [k \in DOMAIN Frames!Shown' |-> Len(Frames!Shown'[k])] = n
  BY <1>2
<1>4. DOMAIN n = full /\ \A k \in full : n[k] = Len(cs[k])
  OBVIOUS
<1> HIDE DEF n
<1>5. \A k \in DOMAIN n : n[k] \in 1 .. Len(Pend[k])
  BY <1>1, <1>4
<1>6. Frames!Shown' = [k \in DOMAIN n |-> SubSeq(Pend[k], 1, n[k])]
  BY <1>1, <1>4
<1>7. Pend' = [k \in Lidars |-> IF k \in DOMAIN n THEN SubSeq(Pend[k], n[k] + 1, Len(Pend[k])) ELSE Pend[k]]
  BY <1>1, <1>4
<1>8. Frames!Channel!Show(n)
  BY <1>5, <1>6, <1>7 DEF Frames!Channel!Show
<1>9. Frames!Channel!Next
  BY <1>3, <1>8 DEF Frames!Channel!Next
<1> QED BY <1>9 DEF ChannelMoves

\* A frame of either timer shows the oldest points; without a frame nothing is shown.
LEMMA ProcessShows ==
  ASSUME FramesInv, HandInv, Frames!Pending = Pend, Frames!Pending' = Pend', Frames!Process
  PROVE  ChannelMoves
<1>1. PICK cs : cs = Frames!Processed
  OBVIOUS
<1>2. cs \in [Lidars -> Points]
  BY <1>1, ProcessedIs
<1>3. PICK r : r = [k \in Lidars |-> Frames!PointsOf(k, Waiting')]
  OBVIOUS
<1>4. r \in [Lidars -> Points] /\ \A k \in Lidars : Pend[k] = cs[k] \o r[k] /\ r[k] = Frames!PointsOf(k, Waiting')
  BY <1>1, <1>3, ProcessedIs
<1>5. Pend = [k \in Lidars |-> Pend[k]] /\ Pend' = [k \in Lidars |-> clouds'[k] \o r[k]]
  BY <1>4 DEF Pend
<1>6. CASE clouds' = cs /\ frame' = frame
  <2>1. Pend' = Pend
    BY <1>4, <1>5, <1>6
  <2>2. Frames!Shown' = Frames!Shown
    BY <1>6 DEF Frames!Shown
  <2> QED BY <2>1, <2>2, Idles
<1>7. ASSUME NEW ls \in SUBSET Lidars, clouds' = [k \in Lidars |-> IF k \in ls THEN <<>> ELSE cs[k]],
             NEW full, full = {k \in ls : cs[k] # <<>>}
      PROVE  Pend' = [k \in Lidars |-> IF k \in full THEN r[k] ELSE Pend[k]]
  <2>1. ASSUME NEW k \in Lidars PROVE clouds'[k] \o r[k] = IF k \in full THEN r[k] ELSE Pend[k]
    <3>1. <<>> \o r[k] = r[k]
      <4>1. r[k] \in Seq(Frames!Point)
        BY <1>4 DEF Points
      <4> QED BY <4>1, ConcatEmptySeq
    <3>2. CASE k \in full
      <4>1. clouds'[k] = <<>>
        BY <1>7, <3>2
      <4> QED BY <3>1, <3>2, <4>1
    <3>3. CASE k \notin full
      <4>1. clouds'[k] = cs[k]
        BY <1>7, <3>3
      <4> QED BY <1>4, <3>3, <4>1
    <3> QED BY <3>2, <3>3
  <2> QED BY <1>5, <2>1
<1>8. packet \in Packets /\ handlers \subseteq Lidars /\ setting \in Settings
  BY DEF FramesInv, Frames!Process
<1>9. PICK l \in Lidars : l = packet.lidar
  BY <1>8, StampIs
<1>10. handlers' \subseteq Lidars
  BY <1>8, <1>9 DEF Frames!Process
<1>11. CASE Frames!SyncTimer(cs)
  <2>1. CASE ~Frames!Due(cs[l])
    <3>1. clouds' = cs /\ frame' = frame
      BY <1>9, <1>11, <2>1 DEF Frames!SyncTimer
    <3> QED BY <1>6, <3>1
  <2>2. CASE Frames!Due(cs[l])
    <3>1. /\ clouds' = [k \in Lidars |-> IF k \in {l} THEN <<>> ELSE cs[k]]
          /\ frame' = <<Frames!Entry(l, cs[l])>>
      BY <1>9, <1>11, <2>2 DEF Frames!SyncTimer, Frames!Cut
    <3>2. cs[l] # <<>>
      <4>1. PICK d \in Points : d = cs[l]
        BY <1>2
      <4>2. Len(d) >= 1
        BY <1>8, <2>2, <4>1, DueIs DEF Points
      <4>3. Len(<<>>) = 0
        OBVIOUS
      <4> QED BY <4>1, <4>2, <4>3
    <3>3. {l} = {k \in {l} : cs[k] # <<>>}
      BY <3>2
    <3>4. Pend' = [k \in Lidars |-> IF k \in {l} THEN r[k] ELSE Pend[k]]
      BY <1>7, <3>1, <3>3
    <3>5. PICK f : f = <<Frames!Entry(l, cs[l])>>
      OBVIOUS
    <3>6. Frames!Entry(l, cs[l]).lidar = l /\ Frames!Entry(l, cs[l]).points = cs[l]
      BY DEF Frames!Entry
    <3>7. Len(f) = 1 /\ f[1] = Frames!Entry(l, cs[l])
      BY <3>5
    <3>8. MadeOf(f, {l}, cs)
      BY <3>6, <3>7 DEF MadeOf
    <3>9. frame' = f
      BY <3>1, <3>5
    <3>11. Frames!Shown' = [k \in {l} |-> cs[k]]
      BY <3>8, <3>9, ShownIs
    <3>12. \A k \in {l} : cs[k] # <<>>
      BY <3>2
    <3>13. {l} \in SUBSET Lidars /\ \A k \in Lidars : Pend[k] = cs[k] \o r[k]
      BY <1>4
    <3> QED BY <1>2, <1>4, <3>4, <3>11, <3>12, <3>13, CutShows
  <2> QED BY <2>1, <2>2
<1>12. CASE Frames!HostTimer(cs)
  <2>1. PICK full : full = {k \in handlers' : cs[k] # <<>>}
    OBVIOUS
  <2>2. \/ clouds' = cs /\ frame' = frame
        \/ /\ clouds' = [k \in Lidars |-> IF k \in handlers' THEN <<>> ELSE cs[k]]
           /\ \/ full = {} /\ frame' = frame
              \/ full # {} /\ frame' = [i \in 1 .. Frames!Cardinality(full) |->
                                Frames!Entry(Frames!InOrder(full)[i], cs[Frames!InOrder(full)[i]])]
    BY <1>12, <2>1 DEF Frames!HostTimer, Frames!Cut
  <2>3. CASE clouds' = [k \in Lidars |-> IF k \in handlers' THEN <<>> ELSE cs[k]]
    <3>1. Pend' = [k \in Lidars |-> IF k \in full THEN r[k] ELSE Pend[k]]
      BY <1>7, <1>10, <2>1, <2>3
    <3>2. CASE full = {} /\ frame' = frame
      <4>1. Pend' = Pend
        BY <1>5, <3>1, <3>2
      <4>2. Frames!Shown' = Frames!Shown
        BY <3>2 DEF Frames!Shown
      <4> QED BY <4>1, <4>2, Idles
    <3>3. CASE frame' = [i \in 1 .. Frames!Cardinality(full) |->
                           Frames!Entry(Frames!InOrder(full)[i], cs[Frames!InOrder(full)[i]])]
      <4>1. full \in SUBSET Lidars
        BY <1>10, <2>1
      <4>2. PICK m \in Nat : m = Frames!Cardinality(full)
        <5>1. Lidars \in SUBSET Nat /\ Frames!IsFiniteSet(Lidars)
          BY FramesAssumption DEF Frames!LidarAssumption
        <5>2. Frames!IsFiniteSet(Lidars) <=> IsFiniteSet(Lidars)
          BY DEF Frames!IsFiniteSet, IsFiniteSet
        <5>3. IsFiniteSet(full)
          BY <4>1, <5>1, <5>2, FS_Subset
        <5>4. Frames!Cardinality(full) = Cardinality(full)
          BY DEF Frames!Cardinality, Cardinality
        <5> QED BY <5>3, <5>4, FS_CardinalityType
      <4>3. PICK f : f = [i \in 1 .. m |-> Frames!Entry(Frames!InOrder(full)[i], cs[Frames!InOrder(full)[i]])]
        OBVIOUS
      <4>4. frame' = f /\ Len(f) = m
        BY <3>3, <4>2, <4>3
      <4>5. ASSUME NEW i \in 1 .. m PROVE f[i].lidar = Frames!InOrder(full)[i] /\ f[i].points = cs[Frames!InOrder(full)[i]]
        BY <4>3 DEF Frames!Entry
      <4>6. \A i \in 1 .. m : Frames!InOrder(full)[i] \in full
        BY <4>1, <4>2, InOrderIs
      <4>7. \A i \in 1 .. Len(f) : f[i].lidar \in full /\ f[i].points = cs[f[i].lidar]
        BY <4>4, <4>5, <4>6
      <4>8. \A k \in full : \E i \in 1 .. Len(f) : f[i].lidar = k
        <5> SUFFICES ASSUME NEW k \in full PROVE \E i \in 1 .. Len(f) : f[i].lidar = k
          OBVIOUS
        <5>1. PICK i \in 1 .. Frames!Cardinality(full) : Frames!InOrder(full)[i] = k
          BY <4>1, InOrderOnto
        <5> QED BY <4>2, <4>4, <4>5, <5>1
      <4>12. MadeOf(f, full, cs)
        BY <4>7, <4>8 DEF MadeOf
      <4>10. Frames!Shown' = [k \in full |-> cs[k]]
        BY <4>4, <4>12, ShownIs
      <4>11. (\A k \in full : cs[k] # <<>>) /\ \A k \in Lidars : Pend[k] = cs[k] \o r[k]
        BY <1>4, <2>1
      <4> QED BY <1>2, <1>4, <3>1, <4>1, <4>10, <4>11, CutShows
    <3> QED BY <1>4, <1>5, <2>1, <2>2, <2>3, <3>2, <3>3, <1>6
  <2> QED BY <1>6, <2>2, <2>3
<1> QED BY <1>1, <1>11, <1>12 DEF Frames!Process

\* At the start nothing is pending and nothing was shown.
LEMMA ChannelStarts == Frames!Init => Frames!Channel!Init /\ HandInv
<1> SUFFICES ASSUME Frames!Init PROVE Frames!Channel!Init /\ HandInv
  OBVIOUS
<1>1. packet = <<>> /\ queue = <<>> /\ frame = <<>> /\ tPc = "check" /\ clouds = [l \in Lidars |-> <<>>]
  BY DEF Frames!Init
<1>2. HandInv
  BY <1>1 DEF HandInv
<1>3. Frames!Pending = Pend
  BY <1>2, FramesStart, PendingIs
<1>4. ASSUME NEW l \in Lidars PROVE Frames!PointsOf(l, <<>>) = <<>>
  <2>3. PICK w : w = <<>>
    OBVIOUS
  <2>1. w \in Seq(Packets) /\ Len(w) = 0
    BY <2>3
  <2>2. PICK h : Sums(h, l, w) /\ Frames!PointsOf(l, w) = h[Len(w)]
    BY <2>1, PointsOfIs
  <2> QED BY <2>1, <2>2, <2>3 DEF Sums
<1>5. Waiting = <<>>
  BY <1>1 DEF Waiting
<1>6. <<>> \o <<>> = <<>>
  OBVIOUS
<1>7. Frames!Pending = [l \in Lidars |-> <<>>]
  BY <1>1, <1>3, <1>4, <1>5, <1>6 DEF Pend
<1>8. Frames!Shown = [l \in {} |-> <<>>]
  <2>1. Len(frame) = 0 /\ (1 .. 0) = {}
    BY <1>1
  <2>2. {frame[i].lidar : i \in 1 .. Len(frame)} = {}
    BY <2>1
  <2>3. DOMAIN Frames!Shown = {} /\ Frames!Shown = [l \in {} |-> Frames!Shown[l]]
    BY <2>2 DEF Frames!Shown
  <2> QED BY <2>3
<1> QED BY <1>2, <1>7, <1>8 DEF Frames!Channel!Init

\* Every step is a step of the channel, or none.
LEMMA ChannelStep ==
  ASSUME FramesInv, HandInv, FramesInv', HandInv', Frames!Pending = Pend, Frames!Pending' = Pend',
         [Frames!Next]_Frames!vars
  PROVE  ChannelMoves
<1>1. CASE \E l \in Lidars : Frames!PointPacket(l)
  BY <1>1, PointPacketSends
<1>2. CASE Frames!Process
  BY <1>2, ProcessShows
<1>3. CASE \/ Frames!Tick \/ (\E l \in Lidars : Frames!ImuPacket(l)) \/ Frames!Check \/ Frames!WaitFor
           \/ Frames!Take \/ Frames!Uninit \/ UNCHANGED Frames!vars
  BY <1>3, QuietIdles
<1> QED BY <1>1, <1>2, <1>3 DEF Frames!Next, Frames!RawDataProcess

\* PubHandler implements FrameChannel: whatever mix of synchronised and unsynchronised
\* lidars sends, each point is published once and in order, for every number of lidars,
\* packets and settings.
THEOREM PointsKeepOrder == Frames!Spec => ImplementsChannel
<1>1. FramesInv /\ HandInv => Frames!Pending = Pend
  BY PendingIs
<1>2. (FramesInv /\ HandInv => Frames!Pending = Pend)'
  BY <1>1, PTL
<1>3. /\ FramesInv /\ HandInv /\ FramesInv' /\ HandInv' /\ [Frames!Next]_Frames!vars
      => [Frames!Channel!Next]_(Frames!Channel!chanVars)
  BY <1>1, <1>2, ChannelStep DEF ChannelMoves
<1> QED
  BY <1>3, FramesStart, FramesStep, ChannelStarts, HandStep, PTL
  DEF Frames!Spec, ImplementsChannel, Frames!ImplementsChannel, Frames!Channel!Spec
=============================================================================
