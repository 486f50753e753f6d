---------------------------- MODULE Delivery_proof ----------------------------
(***************************************************************************)
(* The samples of the IMU are published per lidar in the order in which    *)
(* they came, each once, for any number of lidars and any backlog: the     *)
(* lists of the driver, with the sample its poll thread holds, are         *)
(* channels.                                                               *)
(***************************************************************************)
EXTENDS MCDelivery, SequenceTheorems, TLAPS

\* Where the poll thread stands.
PollPlaces == {"none", "start", "wait", "lidar", "pop", "publish", "future", "done"}

\* Whoever is about to pop sees a sample, whoever is about to publish holds one.
ImuInv ==
  /\ main = "constructing" => poll.pc = "none"
  /\ list \in [Imu!Indices -> Seq(Sample)]
  /\ \A l \in Imu!Indices : Len(list[l]) <= MaxBacklog
  /\ poll \in [pc : PollPlaces, lidar : Nat, sample : Sample \cup {NoSample}]
  /\ poll.pc = "lidar" => poll.lidar <= NumLidars
  /\ poll.pc = "pop" => poll.lidar \in Imu!Indices /\ list[poll.lidar] # <<>>
  /\ poll.pc = "publish" => poll.lidar \in Imu!Indices /\ poll.sample \in Sample

LEMMA ImuStarts == ASSUME NumLidars \in Nat, MaxBacklog \in Nat PROVE Imu!Init => ImuInv
<1> SUFFICES ASSUME Imu!Init PROVE ImuInv
  OBVIOUS
<1>1. /\ \A l \in Imu!Indices : list[l] = <<>>
      /\ DOMAIN list = Imu!Indices
      /\ list \in [Imu!Indices -> Seq(Sample)]
  BY EmptySeq DEF Imu!Init
<1>2. main = "constructing" /\ poll = [pc |-> "none", lidar |-> 0, sample |-> NoSample]
  BY DEF Imu!Init
<1>3. \A l \in Imu!Indices : Len(list[l]) <= MaxBacklog
  BY <1>1, EmptySeq
<1> QED BY <1>1, <1>2, <1>3 DEF ImuInv, PollPlaces

\* Another thread may lengthen a list, never shorten one, while the poll thread stands.
LEMMA ListsGrow ==
  ASSUME ImuInv, UNCHANGED poll, main' = "constructing" => main = "constructing", list' \in [Imu!Indices -> Seq(Sample)],
         \A l \in Imu!Indices : Len(list'[l]) <= MaxBacklog,
         \A l \in Imu!Indices : list[l] # <<>> => list'[l] # <<>>
  PROVE  ImuInv'
BY DEF ImuInv, PollPlaces

LEMMA ImuStep ==
  ASSUME NumLidars \in Nat, MaxBacklog \in Nat, ImuInv, [Imu!Next]_(Imu!vars)
  PROVE  ImuInv'
<1>1. CASE Imu!Arrive
  <2>1. PICK l \in Imu!Indices, s \in Sample : Imu!StorageImuData(l, s)
    BY <1>1 DEF Imu!Arrive
  <2>2. PICK q : q = Append(list[l], s)
    OBVIOUS
  <2>3. /\ list[l] \in Seq(Sample) /\ Len(list[l]) < MaxBacklog
        /\ list' = [list EXCEPT ![l] = q] /\ poll' = poll /\ main' = main
    BY <2>1, <2>2 DEF Imu!StorageImuData, ImuInv
  <2>4. q \in Seq(Sample) /\ Len(q) = Len(list[l]) + 1 /\ Len(list[l]) \in Nat
    BY <2>2, <2>3, AppendProperties, LenProperties
  <2>5. q # <<>> /\ Len(q) <= MaxBacklog
    BY <2>3, <2>4, EmptySeq
  <2> QED BY <2>3, <2>4, <2>5, ListsGrow DEF ImuInv
<1>2. CASE Imu!Pop
  <2>1. PICK l \in Imu!Indices : l = poll.lidar
    BY <1>2 DEF Imu!Pop, ImuInv
  <2>2. PICK h : h = Head(list[l])
    OBVIOUS
  <2>3. PICK t : t = Tail(list[l])
    OBVIOUS
  <2>4. list[l] \in Seq(Sample) /\ list[l] # <<>> /\ Len(list[l]) <= MaxBacklog
    BY <1>2, <2>1 DEF Imu!Pop, ImuInv
  <2>5. h \in Sample /\ t \in Seq(Sample) /\ Len(t) = Len(list[l]) - 1 /\ Len(list[l]) \in Nat
    BY <2>2, <2>3, <2>4, HeadTailProperties, LenProperties
  <2>6. Len(t) <= MaxBacklog
    BY <2>4, <2>5
  <2>7. /\ poll' = [poll EXCEPT !.pc = "publish", !.sample = h]
        /\ list' = [list EXCEPT ![l] = t] /\ main' = main /\ poll.pc = "pop"
    BY <1>2, <2>1, <2>2, <2>3 DEF Imu!Pop, Imu!pollKeeps
  <2> QED BY <2>1, <2>5, <2>6, <2>7 DEF ImuInv, PollPlaces
<1>3. CASE Imu!VisitLidar
  <2>1. /\ list' = list /\ poll.pc = "lidar" /\ poll.lidar \in 0 .. NumLidars
        /\ main # "constructing" /\ main' = main
    BY <1>3 DEF Imu!VisitLidar, Imu!pollKeeps, ImuInv
  <2>2. CASE poll.lidar = NumLidars
    BY <1>3, <2>1, <2>2 DEF Imu!VisitLidar, ImuInv, PollPlaces
  <2>3. CASE poll.lidar # NumLidars
    <3>1. poll.lidar \in Imu!Indices /\ poll.lidar + 1 \in 0 .. NumLidars
      BY <2>1, <2>3 DEF Imu!Indices
    <3>2. \/ poll' = [poll EXCEPT !.pc = "pop"] /\ list[poll.lidar] # <<>>
          \/ poll' = [poll EXCEPT !.lidar = @ + 1]
      BY <1>3, <2>3 DEF Imu!VisitLidar
    <3>3. CASE poll' = [poll EXCEPT !.pc = "pop"] /\ list[poll.lidar] # <<>>
      BY <2>1, <3>1, <3>3 DEF ImuInv, PollPlaces
    <3>4. CASE poll' = [poll EXCEPT !.lidar = @ + 1]
      <4>1. /\ poll' \in [pc : PollPlaces, lidar : Nat, sample : Sample \cup {NoSample}]
            /\ poll'.pc = "lidar" /\ poll'.lidar = poll.lidar + 1
        BY <2>1, <3>1, <3>4 DEF ImuInv, PollPlaces
      <4> QED BY <2>1, <3>1, <4>1 DEF ImuInv
    <3> QED BY <3>2, <3>3, <3>4
  <2> QED BY <2>2, <2>3
<1>4. CASE Imu!Construct
  BY <1>4 DEF Imu!Construct, ImuInv, PollPlaces
<1>6. CASE Imu!DistributeImuData \/ Imu!FutureWait
  <2>1. /\ list' = list /\ poll.pc \notin {"lidar", "pop", "publish"}
        /\ \E p \in {"future", "wait", "done", "start"} : poll' = [poll EXCEPT !.pc = p]
        /\ main # "constructing" /\ main' = main
    BY <1>6 DEF Imu!DistributeImuData, Imu!FutureWait, Imu!pollKeeps, ImuInv
  <2> QED BY <2>1 DEF ImuInv, PollPlaces
<1>7. CASE Imu!Wait
  <2>1. /\ list' = list /\ poll' = [poll EXCEPT !.pc = "lidar", !.lidar = 0]
        /\ main # "constructing" /\ main' = main
    BY <1>7 DEF Imu!Wait, Imu!pollKeeps, ImuInv
  <2>2. /\ poll' \in [pc : PollPlaces, lidar : Nat, sample : Sample \cup {NoSample}]
        /\ poll'.pc = "lidar" /\ poll'.lidar = 0
    BY <2>1 DEF ImuInv, PollPlaces
  <2> QED BY <2>1, <2>2 DEF ImuInv
<1>8. CASE Imu!PublishImuData
  <2>1. poll.lidar \in 0 .. NumLidars
    BY <1>8 DEF Imu!PublishImuData, ImuInv, Imu!Indices
  <2>2. /\ list' = list /\ poll' = [poll EXCEPT !.pc = "lidar", !.sample = NoSample]
        /\ main # "constructing" /\ main' = main
    BY <1>8 DEF Imu!PublishImuData, Imu!pollKeeps, ImuInv
  <2>3. /\ poll' \in [pc : PollPlaces, lidar : Nat, sample : Sample \cup {NoSample}]
        /\ poll'.pc = "lidar" /\ poll'.lidar = poll.lidar
    BY <2>2 DEF ImuInv, PollPlaces
  <2> QED BY <2>1, <2>2, <2>3 DEF ImuInv
<1>5. CASE \/ Imu!RequestExit \/ Imu!SetValue \/ Imu!Join \/ Imu!Push
           \/ (\E l \in Imu!Indices : Imu!BecomeSampling(l)) \/ UNCHANGED Imu!vars
  <2>1. list' = list /\ poll' = poll /\ (main' = "constructing" => main = "constructing")
    BY <1>5 DEF Imu!RequestExit, Imu!SetValue, Imu!Join, Imu!Push, Imu!CheckEmpty, Imu!ReadCount,
                Imu!Signal, Imu!BecomeSampling, Imu!vars
  <2> QED BY <2>1, ListsGrow DEF ImuInv
<1> QED BY <1>1, <1>2, <1>3, <1>4, <1>5, <1>6, <1>7, <1>8 DEF Imu!Next, Imu!ImuDataPollThread

Held(l) == IF poll.pc = "publish" /\ poll.lidar = l THEN <<poll.sample>> ELSE <<>>

\* A list and the sample that has left it.
LEMMA HeldIs ==
  ASSUME ImuInv, NEW l \in Imu!Indices
  PROVE  /\ list[l] \in Seq(Sample) /\ Held(l) \o list[l] \in Seq(Sample)
         /\ (poll.pc = "publish" /\ poll.lidar = l) \/ Held(l) \o list[l] = list[l]
         /\ poll.pc = "publish" /\ poll.lidar = l =>
              /\ Held(l) \o list[l] # <<>>
              /\ Head(Held(l) \o list[l]) = poll.sample
              /\ Tail(Held(l) \o list[l]) = list[l]
              /\ Len(Held(l) \o list[l]) = Len(list[l]) + 1
<1>1. list[l] \in Seq(Sample)
  BY DEF ImuInv
<1>2. CASE poll.pc = "publish" /\ poll.lidar = l
  <2>1. Held(l) = <<poll.sample>> /\ poll.sample \in Sample
    BY <1>2 DEF Held, ImuInv
  <2>2. PICK q : q = list[l]
    OBVIOUS
  <2>3. /\ <<poll.sample>> \o q \in Seq(Sample)
        /\ <<poll.sample>> \o q # <<>>
        /\ Head(<<poll.sample>> \o q) = poll.sample
        /\ Tail(<<poll.sample>> \o q) = q
        /\ Len(<<poll.sample>> \o q) = Len(q) + 1
    BY <1>1, <2>1, <2>2
  <2> QED BY <1>1, <1>2, <2>1, <2>2, <2>3
<1>3. CASE ~(poll.pc = "publish" /\ poll.lidar = l)
  <2>1. Held(l) = <<>>
    BY <1>3 DEF Held
  <2> QED BY <1>1, <1>3, <2>1
<1> QED BY <1>2, <1>3

LEMMA HeadThenTail ==
  ASSUME NEW S, NEW q \in Seq(S), q # <<>> PROVE <<Head(q)>> \o Tail(q) = q
OBVIOUS

\* The lists, with the sample the poll thread holds, are bounded FIFOs of the lidars.
THEOREM SamplesKeepOrder ==
  ASSUME NumLidars \in Nat, MaxBacklog \in Nat
  PROVE  Imu!Spec => SamplesInOrder
<1>1. Imu!Init => Imu!Channel!Init
  BY DEF Imu!Init, Imu!Channel!Init
<1>2. ImuInv /\ [Imu!Next]_(Imu!vars) => [Imu!Channel!Next]_(Imu!Channel!chanVars)
  <2> SUFFICES ASSUME ImuInv, [Imu!Next]_(Imu!vars)
               PROVE  [Imu!Channel!Next]_(Imu!Channel!chanVars)
    OBVIOUS
  <2> DEFINE Chan == [l \in Imu!Indices |-> Held(l) \o list[l]]
  <2>0. /\ (Chan' = Chan /\ imuOut' = imuOut) => UNCHANGED Imu!Channel!chanVars
        /\ \A l \in Imu!Indices, s \in Sample :
             /\ Len(Chan[l]) < MaxBacklog + 1
             /\ Chan' = [Chan EXCEPT ![l] = Append(@, s)]
             /\ imuOut' = imuOut
             => Imu!Channel!Next
        /\ \A l \in Imu!Indices :
             /\ Chan[l] # <<>>
             /\ Chan' = [Chan EXCEPT ![l] = Tail(@)]
             /\ imuOut' = <<l, Head(Chan[l])>>
             => Imu!Channel!Next
    BY DEF Imu!Channel!chanVars, Imu!Channel!Next, Imu!Channel!Accept, Imu!Channel!Deliver, Held
  <2>1. CASE Imu!Arrive
    <3>1. PICK l \in Imu!Indices, s \in Sample : Imu!StorageImuData(l, s)
      BY <2>1 DEF Imu!Arrive
    <3>2. PICK q : q = Append(list[l], s)
      OBVIOUS
    <3>3. /\ list' = [list EXCEPT ![l] = q] /\ poll' = poll /\ imuOut' = imuOut
          /\ Len(list[l]) < MaxBacklog
      BY <3>1, <3>2 DEF Imu!StorageImuData
    <3>4. \A m \in Imu!Indices : Held(m)' = Held(m)
      BY <3>3 DEF Held
    <3>5. Held(l) \o q = Append(Held(l) \o list[l], s)
      <4>1. Held(l) \in Seq(Sample) /\ list[l] \in Seq(Sample)
        BY DEF Held, ImuInv
      <4> QED BY <3>2, <4>1
    <3>6. Len(Chan[l]) < MaxBacklog + 1
      <4>1. Len(list[l]) \in Nat
        BY HeldIs, LenProperties
      <4> QED BY <3>3, <4>1, HeldIs
    <3>7. Chan' = [Chan EXCEPT ![l] = Append(@, s)]
      <4>1. ASSUME NEW m \in Imu!Indices, m # l PROVE Held(m)' \o list'[m] = Held(m) \o list[m]
        BY <3>3, <3>4, <4>1 DEF ImuInv
      <4>2. Held(l)' \o list'[l] = Append(Held(l) \o list[l], s)
        BY <3>3, <3>4, <3>5 DEF ImuInv
      <4> QED BY <4>1, <4>2
    <3> QED BY <2>0, <3>3, <3>6, <3>7
  <2>2. CASE Imu!Pop
    <3>1. PICK l \in Imu!Indices : l = poll.lidar
      BY <2>2 DEF Imu!Pop, ImuInv
    <3>2. /\ poll.pc = "pop" /\ poll' = [poll EXCEPT !.pc = "publish", !.sample = Head(list[l])]
          /\ list' = [list EXCEPT ![l] = Tail(list[l])] /\ imuOut' = imuOut
      BY <2>2, <3>1 DEF Imu!Pop
    <3>3. list[l] \in Seq(Sample) /\ list[l] # <<>>
      BY <2>2, <3>1 DEF Imu!Pop, ImuInv
    <3>4. PICK h, t : h = Head(list[l]) /\ t = Tail(list[l])
      OBVIOUS
    <3>5. poll'.pc = "publish" /\ poll'.lidar = l /\ poll'.sample = h
      BY <3>1, <3>2, <3>4 DEF ImuInv
    <3>6. Held(l)' = <<h>> /\ Held(l) = <<>>
      BY <3>2, <3>5 DEF Held
    <3>7. ASSUME NEW m \in Imu!Indices PROVE Held(m)' \o list'[m] = Held(m) \o list[m]
      <4>1. CASE m = l
        <5>1. <<h>> \o t = list[l] /\ <<>> \o list[l] = list[l]
          BY <3>3, <3>4, HeadThenTail, ConcatEmptySeq
        <5>2. list'[l] = t
          BY <3>2, <3>4 DEF ImuInv
        <5> QED BY <3>6, <4>1, <5>1, <5>2
      <4>2. CASE m # l
        <5>1. Held(m)' = <<>> /\ Held(m) = <<>>
          BY <3>1, <3>5, <4>2 DEF Held
        <5>2. list'[m] = list[m]
          BY <3>2, <4>2 DEF ImuInv
        <5> QED BY <5>1, <5>2
      <4> QED BY <4>1, <4>2
    <3> QED BY <2>0, <3>2, <3>7
  <2>3. CASE Imu!PublishImuData
    <3>1. PICK l \in Imu!Indices : l = poll.lidar
      BY <2>3 DEF Imu!PublishImuData, ImuInv
    <3>2. /\ poll.pc = "publish" /\ poll'.pc = "lidar" /\ list' = list
          /\ imuOut' = <<l, poll.sample>>
      BY <2>3, <3>1 DEF Imu!PublishImuData, Imu!pollKeeps, ImuInv
    <3>3. /\ Chan[l] # <<>> /\ Head(Chan[l]) = poll.sample /\ Tail(Chan[l]) = list[l]
      BY <3>1, <3>2, HeldIs
    <3>4. ASSUME NEW m \in Imu!Indices, m # l PROVE Held(m)' = Held(m)
      BY <3>1, <3>2, <3>4 DEF Held
    <3>5. Held(l)' = <<>>
      BY <3>2 DEF Held
    <3>6. Held(l)' \o list'[l] = Tail(Chan[l])
      BY <3>2, <3>3, <3>5, HeldIs, ConcatEmptySeq
    <3>7. Chan' = [Chan EXCEPT ![l] = Tail(@)]
      BY <3>2, <3>4, <3>6
    <3> QED BY <2>0, <3>2, <3>3, <3>7
  <2>4. CASE list' = list /\ imuOut' = imuOut /\ poll.pc # "publish" /\ poll'.pc # "publish"
    BY <2>0, <2>4 DEF Held
  <2>5. CASE list' = list /\ imuOut' = imuOut /\ poll' = poll
    BY <2>0, <2>5 DEF Held
  <2>6. CASE Imu!Construct \/ Imu!DistributeImuData \/ Imu!Wait \/ Imu!FutureWait
    <3>1. /\ list' = list /\ imuOut' = imuOut /\ poll.pc # "publish"
          /\ poll'.pc # "publish"
      BY <2>6 DEF Imu!Construct, Imu!DistributeImuData, Imu!Wait, Imu!FutureWait, ImuInv
    <3> QED BY <2>4, <3>1
  <2>7. CASE Imu!VisitLidar
    <3>1. /\ list' = list /\ imuOut' = imuOut /\ poll.pc = "lidar"
          /\ poll'.pc \in {"future", "pop", "lidar"}
      BY <2>7 DEF Imu!VisitLidar, ImuInv
    <3> QED BY <2>4, <3>1
  <2>8. CASE \/ Imu!RequestExit \/ Imu!SetValue \/ Imu!Join \/ Imu!Push
             \/ (\E l \in Imu!Indices : Imu!BecomeSampling(l)) \/ UNCHANGED Imu!vars
    BY <2>5, <2>8 DEF Imu!RequestExit, Imu!SetValue, Imu!Join, Imu!Push, Imu!CheckEmpty,
         Imu!ReadCount, Imu!Signal, Imu!BecomeSampling, Imu!vars
  <2> QED BY <2>1, <2>2, <2>3, <2>6, <2>7, <2>8 DEF Imu!Next, Imu!ImuDataPollThread
<1> QED BY <1>1, <1>2, ImuStarts, ImuStep, PTL DEF Imu!Spec, SamplesInOrder, Imu!SamplesInOrder, Imu!Channel!Spec
===============================================================================
