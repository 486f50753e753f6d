----------------------------- MODULE Serial_proof -----------------------------
(***************************************************************************)
(* Both ends of the serial link.  The parser neither invents nor loses a   *)
(* command, for every alphabet of bytes: its buffer is a suffix of the     *)
(* bytes received, reaches back to the last head, and is at most two bytes *)
(* long.  The threads of the bridge, without a lock of their own, for any  *)
(* number of messages and commands and any positions: frames are written   *)
(* in order, a lock is never undone, a collection holds at most one sample *)
(* from before its start, and the position of a lock lies between the      *)
(* samples it was taken from.                                              *)
(***************************************************************************)
EXTENDS MCSerial, SequenceTheorems, FiniteSetTheorems, WellFoundedInduction, TLAPS

(* The parser of the bytes from the flight controller.                     *)

Suffix ==
  \/ buf = <<>>
  \/ buf = <<last[3]>>
  \/ buf = <<last[2], last[3]>>

\* A head among the last two bytes is in the buffer, unless a frame ended with
\* the last byte (whose tail is no head).
Reaches ==
  /\ last[3] = CmdHead => buf # <<>>
  /\ last[2] = CmdHead /\ last[3] # CmdTail => buf = <<last[2], last[3]>>
  /\ last[2] = CmdHead /\ last[3] = CmdTail
       => buf = <<last[2], last[3]>> \/ (buf = <<>> /\ last[1] = CmdHead)

ParseInv == Suffix /\ Reaches

\* Suffixes of short sequences.
LEMMA DropOfTwo ==
  ASSUME NEW x \in Byte, NEW y \in Byte
  PROVE  SubSeq(<<x, y>>, 2, 2) = <<y>>
<1> DEFINE t == SubSeq(<<x, y>>, 2, 2)
<1>1. <<x, y>> \in Seq(Byte) /\ Len(<<x, y>>) = 2 /\ <<y>> \in Seq(Byte) /\ Len(<<y>>) = 1
  OBVIOUS
<1>2. t \in Seq(Byte) /\ Len(t) = 1 /\ t[1] = y
  BY <1>1, SubSeqProperties
<1>3. \A i \in 1 .. Len(t) : t[i] = <<y>>[i]
  BY <1>2
<1> HIDE DEF t
<1>4. t = <<y>>
  BY <1>1, <1>2, <1>3, SeqEqual
<1> QED
  BY <1>4 DEF t

LEMMA DropOfThree ==
  ASSUME NEW x \in Byte, NEW y \in Byte, NEW z \in Byte
  PROVE  /\ SubSeq(<<x, y, z>>, 2, 3) = <<y, z>>
         /\ SubSeq(<<x, y, z>>, 3, 3) = <<z>>
<1> DEFINE t == SubSeq(<<x, y, z>>, 2, 3)
           u == SubSeq(<<x, y, z>>, 3, 3)
<1>1. /\ <<x, y, z>> \in Seq(Byte) /\ Len(<<x, y, z>>) = 3
      /\ <<y, z>> \in Seq(Byte) /\ Len(<<y, z>>) = 2
      /\ <<z>> \in Seq(Byte) /\ Len(<<z>>) = 1
  OBVIOUS
<1>2. t \in Seq(Byte) /\ Len(t) = 2 /\ t[1] = y /\ t[2] = z
  BY <1>1, SubSeqProperties
<1>3. u \in Seq(Byte) /\ Len(u) = 1 /\ u[1] = z
  BY <1>1, SubSeqProperties
<1>4. (\A i \in 1 .. Len(t) : t[i] = <<y, z>>[i]) /\ \A i \in 1 .. Len(u) : u[i] = <<z>>[i]
  BY <1>2, <1>3
<1> HIDE DEF t, u
<1>5. t = <<y, z>>
  BY <1>1, <1>2, <1>4, SeqEqual
<1>6. u = <<z>>
  BY <1>1, <1>3, <1>4, SeqEqual
<1> QED
  BY <1>5, <1>6 DEF t, u

\* What is dropped before a head, for a buffer of at most two bytes and one more.
LEMMA FromHeadOne ==
  ASSUME NEW x \in Byte
  PROVE  FromHead(<<x>>) =
           IF x = CmdHead THEN <<x>>
           ELSE <<>>
<1> DEFINE s == <<x>>
           P(i) == i \in 1 .. Len(s) /\ s[i] = CmdHead /\ \A j \in 1 .. i - 1 : s[j] # CmdHead
<1>1. Len(s) = 1 /\ s[1] = x
  OBVIOUS
<1>2. CASE x = CmdHead
  <2>1. P(1) /\ \A i : P(i) => i = 1
    BY <1>1, <1>2
  <2>2. (CHOOSE i \in 1 .. Len(s) : s[i] = CmdHead /\ \A j \in 1 .. i - 1 : s[j] # CmdHead) = 1
    BY <2>1
  <2>3. \E i \in 1 .. Len(s) : s[i] = CmdHead
    BY <2>1
  <2>4. FromHead(s) = SubSeq(s, 1, Len(s))
    BY <2>2, <2>3 DEF FromHead
  <2>5. s \in Seq(Byte) /\ <<x>> \in Seq(Byte)
    OBVIOUS
  <2>6. SubSeq(s, 1, Len(s)) = <<x>>
    BY <1>1, <2>5, SubSeqFull
  <2> QED
    BY <1>2, <2>4, <2>6
<1>3. CASE x # CmdHead
  BY <1>1, <1>3 DEF FromHead
<1> QED
  BY <1>2, <1>3

LEMMA FromHeadTwo ==
  ASSUME NEW x \in Byte, NEW y \in Byte
  PROVE  FromHead(<<x, y>>) =
           IF x = CmdHead THEN <<x, y>>
           ELSE IF y = CmdHead THEN <<y>>
           ELSE <<>>
<1> DEFINE s == <<x, y>>
           P(i) == i \in 1 .. Len(s) /\ s[i] = CmdHead /\ \A j \in 1 .. i - 1 : s[j] # CmdHead
<1>1. Len(s) = 2 /\ s[1] = x /\ s[2] = y
  OBVIOUS
<1>2. CASE x = CmdHead
  <2>1. P(1) /\ \A i : P(i) => i = 1
    BY <1>1, <1>2
  <2>2. (CHOOSE i \in 1 .. Len(s) : s[i] = CmdHead /\ \A j \in 1 .. i - 1 : s[j] # CmdHead) = 1
    BY <2>1
  <2>3. \E i \in 1 .. Len(s) : s[i] = CmdHead
    BY <2>1
  <2>4. FromHead(s) = SubSeq(s, 1, Len(s))
    BY <2>2, <2>3 DEF FromHead
  <2>5. s \in Seq(Byte) /\ <<x, y>> \in Seq(Byte)
    OBVIOUS
  <2>6. SubSeq(s, 1, Len(s)) = <<x, y>>
    BY <1>1, <2>5, SubSeqFull
  <2> QED
    BY <1>2, <2>4, <2>6
<1>3. CASE x # CmdHead /\ y = CmdHead
  <2>1. P(2) /\ \A i : P(i) => i = 2
    BY <1>1, <1>3
  <2>2. (CHOOSE i \in 1 .. Len(s) : s[i] = CmdHead /\ \A j \in 1 .. i - 1 : s[j] # CmdHead) = 2
    BY <2>1
  <2>3. \E i \in 1 .. Len(s) : s[i] = CmdHead
    BY <2>1
  <2>4. FromHead(s) = SubSeq(s, 2, Len(s))
    BY <2>2, <2>3 DEF FromHead
  <2>5. s \in Seq(Byte) /\ <<y>> \in Seq(Byte)
    OBVIOUS
  <2>6. SubSeq(s, 2, Len(s)) = <<y>>
    BY <1>1, DropOfTwo
  <2> QED
    BY <1>3, <2>4, <2>6
<1>4. CASE x # CmdHead /\ y # CmdHead
  BY <1>1, <1>4 DEF FromHead
<1> QED
  BY <1>2, <1>3, <1>4

LEMMA FromHeadThree ==
  ASSUME NEW x \in Byte, NEW y \in Byte, NEW z \in Byte
  PROVE  FromHead(<<x, y, z>>) =
           IF x = CmdHead THEN <<x, y, z>>
           ELSE IF y = CmdHead THEN <<y, z>>
           ELSE IF z = CmdHead THEN <<z>>
           ELSE <<>>
<1> DEFINE s == <<x, y, z>>
           P(i) == i \in 1 .. Len(s) /\ s[i] = CmdHead /\ \A j \in 1 .. i - 1 : s[j] # CmdHead
<1>1. Len(s) = 3 /\ s[1] = x /\ s[2] = y /\ s[3] = z
  OBVIOUS
<1>2. CASE x = CmdHead
  <2>1. P(1) /\ \A i : P(i) => i = 1
    BY <1>1, <1>2
  <2>2. (CHOOSE i \in 1 .. Len(s) : s[i] = CmdHead /\ \A j \in 1 .. i - 1 : s[j] # CmdHead) = 1
    BY <2>1
  <2>3. \E i \in 1 .. Len(s) : s[i] = CmdHead
    BY <2>1
  <2>4. FromHead(s) = SubSeq(s, 1, Len(s))
    BY <2>2, <2>3 DEF FromHead
  <2>5. s \in Seq(Byte) /\ <<x, y, z>> \in Seq(Byte)
    OBVIOUS
  <2>6. SubSeq(s, 1, Len(s)) = <<x, y, z>>
    BY <1>1, <2>5, SubSeqFull
  <2> QED
    BY <1>2, <2>4, <2>6
<1>3. CASE x # CmdHead /\ y = CmdHead
  <2>1. P(2) /\ \A i : P(i) => i = 2
    BY <1>1, <1>3
  <2>2. (CHOOSE i \in 1 .. Len(s) : s[i] = CmdHead /\ \A j \in 1 .. i - 1 : s[j] # CmdHead) = 2
    BY <2>1
  <2>3. \E i \in 1 .. Len(s) : s[i] = CmdHead
    BY <2>1
  <2>4. FromHead(s) = SubSeq(s, 2, Len(s))
    BY <2>2, <2>3 DEF FromHead
  <2>5. s \in Seq(Byte) /\ <<y, z>> \in Seq(Byte)
    OBVIOUS
  <2>6. SubSeq(s, 2, Len(s)) = <<y, z>>
    BY <1>1, DropOfThree
  <2> QED
    BY <1>3, <2>4, <2>6
<1>4. CASE x # CmdHead /\ y # CmdHead /\ z = CmdHead
  <2>1. P(3) /\ \A i : P(i) => i = 3
    BY <1>1, <1>4
  <2>2. (CHOOSE i \in 1 .. Len(s) : s[i] = CmdHead /\ \A j \in 1 .. i - 1 : s[j] # CmdHead) = 3
    BY <2>1
  <2>3. \E i \in 1 .. Len(s) : s[i] = CmdHead
    BY <2>1
  <2>4. FromHead(s) = SubSeq(s, 3, Len(s))
    BY <2>2, <2>3 DEF FromHead
  <2>5. s \in Seq(Byte) /\ <<z>> \in Seq(Byte)
    OBVIOUS
  <2>6. SubSeq(s, 3, Len(s)) = <<z>>
    BY <1>1, DropOfThree
  <2> QED
    BY <1>4, <2>4, <2>6
<1>5. CASE x # CmdHead /\ y # CmdHead /\ z # CmdHead
  BY <1>1, <1>5 DEF FromHead
<1> QED
  BY <1>2, <1>3, <1>4, <1>5

\* A byte more.
LEMMA AppendOne ==
  ASSUME NEW x \in Byte, NEW y \in Byte
  PROVE  Append(<<x>>, y) = <<x, y>>
<1> DEFINE t == Append(<<x>>, y)
<1>1. <<x>> \in Seq(Byte) /\ <<x, y>> \in Seq(Byte) /\ Len(<<x>>) = 1 /\ Len(<<x, y>>) = 2
  OBVIOUS
<1>2. t \in Seq(Byte) /\ Len(t) = 2 /\ t[1] = x /\ t[2] = y
  BY <1>1, AppendProperties
<1>3. \A i \in 1 .. 2 : t[i] = <<x, y>>[i]
  BY <1>2
<1> HIDE DEF t
<1>4. t = <<x, y>>
  BY <1>1, <1>2, <1>3, SeqEqual
<1> QED
  BY <1>4 DEF t

LEMMA AppendTwo ==
  ASSUME NEW x \in Byte, NEW y \in Byte, NEW z \in Byte
  PROVE  Append(<<x, y>>, z) = <<x, y, z>>
<1> DEFINE t == Append(<<x, y>>, z)
<1>1. <<x, y>> \in Seq(Byte) /\ <<x, y, z>> \in Seq(Byte) /\ Len(<<x, y>>) = 2 /\ Len(<<x, y, z>>) = 3
  OBVIOUS
<1>2. t \in Seq(Byte) /\ Len(t) = 3 /\ t[1] = x /\ t[2] = y /\ t[3] = z
  BY <1>1, AppendProperties
<1>3. \A i \in 1 .. 3 : t[i] = <<x, y, z>>[i]
  BY <1>2
<1> HIDE DEF t
<1>4. t = <<x, y, z>>
  BY <1>1, <1>2, <1>3, SeqEqual
<1> QED
  BY <1>4 DEF t

\* One byte more: the invariant holds again, and the command is the frame's.
LEMMA ReceiveStep ==
  ASSUME ParserTypeOK, ParseInv, NEW x \in Byte, Receive(x)
  PROVE  ParserTypeOK' /\ ParseInv' /\ NoPhantomCommand' /\ NoCommandLost'
<1> USE ByteAssumption DEF ParseInv, Suffix, Reaches
<1>1. last' = <<last[2], last[3], x>> /\ last'[1] = last[2] /\ last'[2] = last[3] /\ last'[3] = x
      /\ last' \in {<<u, v, w>> : u, v, w \in Byte \cup {NoByte}}
  BY DEF Receive, ParserTypeOK
<1>2. CASE buf = <<>>
  <2>1. Append(buf, x) = <<x>>
    BY <1>2
  <2>2. command' = NoByte /\ buf' = IF x = CmdHead THEN <<x>> ELSE <<>>
    BY <2>1, FromHeadOne DEF Receive, Look
  <2> QED
    BY <1>1, <1>2, <2>2 DEF ParserTypeOK, NoPhantomCommand, NoCommandLost
<1>3. CASE buf = <<last[3]>> /\ buf # <<>>
  <2>1. last[3] \in Byte
    BY <1>3 DEF ParserTypeOK
  <2>2. Append(buf, x) = <<last[3], x>>
    BY <1>3, <2>1, AppendOne
  <2>3. FromHead(Append(buf, x)) = IF last[3] = CmdHead THEN <<last[3], x>>
                                   ELSE IF x = CmdHead THEN <<x>> ELSE <<>>
    BY <2>1, <2>2, FromHeadTwo
  <2>4. command' = NoByte /\ buf' = FromHead(Append(buf, x))
    BY <2>3 DEF Receive, Look
  <2> QED
    BY <1>1, <1>3, <2>1, <2>3, <2>4 DEF ParserTypeOK, NoPhantomCommand, NoCommandLost
<1>4. CASE buf = <<last[2], last[3]>>
  <2>1. last[2] \in Byte /\ last[3] \in Byte
    BY <1>4 DEF ParserTypeOK
  <2>2. Append(buf, x) = <<last[2], last[3], x>>
    BY <1>4, <2>1, AppendTwo
  <2>3. CASE last[2] = CmdHead
    <3>1. FromHead(Append(buf, x)) = <<last[2], last[3], x>>
      <4> HIDE DEF ParseInv, Suffix, Reaches
      <4>1. FromHead(<<last[2], last[3], x>>) = <<last[2], last[3], x>>
        BY <2>1, <2>3, FromHeadThree
      <4> QED
        BY <2>2, <4>1
    <3>2. buf' = IF x = CmdTail THEN <<>> ELSE <<last[3], x>>
      BY <2>3, <3>1 DEF Receive, Look
    <3>3. command' = IF x = CmdTail THEN last[3] ELSE NoByte
      BY <2>3, <3>1 DEF Receive
    <3> QED
      BY <1>1, <1>4, <2>1, <2>3, <3>2, <3>3 DEF ParserTypeOK, NoPhantomCommand, NoCommandLost
  <2>4. CASE last[2] # CmdHead
    <3>1. FromHead(Append(buf, x)) = IF last[3] = CmdHead THEN <<last[3], x>>
                                     ELSE IF x = CmdHead THEN <<x>> ELSE <<>>
      BY <2>1, <2>2, <2>4, FromHeadThree
    <3>2. buf' = FromHead(Append(buf, x)) /\ command' = NoByte
      BY <3>1 DEF Receive, Look
    <3> QED
      BY <1>1, <1>4, <2>1, <2>4, <3>1, <3>2 DEF ParserTypeOK, NoPhantomCommand, NoCommandLost
  <2> QED
    BY <2>3, <2>4
<1> QED
  BY <1>2, <1>3, <1>4

\* The two properties of the link and the types, from one invariant.
LEMMA Parsing == ParserSpec => [](ParserTypeOK /\ ParseInv /\ NoPhantomCommand /\ NoCommandLost)
<1> DEFINE IInv == ParserTypeOK /\ ParseInv /\ NoPhantomCommand /\ NoCommandLost
<1>1. ParserInit => IInv
  BY ByteAssumption DEF ParserInit, ParserTypeOK, ParseInv, Suffix, Reaches, NoPhantomCommand, NoCommandLost
<1>2. IInv /\ [ParserNext]_parserVars => IInv'
  <2>1. ASSUME IInv, ParserNext PROVE IInv'
    BY <2>1, ReceiveStep DEF ParserNext
  <2>2. ASSUME IInv, UNCHANGED parserVars PROVE IInv'
    BY <2>2 DEF parserVars, ParserTypeOK, ParseInv, Suffix, Reaches, NoPhantomCommand, NoCommandLost
  <2> QED
    BY <2>1, <2>2
<1> QED
  BY <1>1, <1>2, PTL DEF ParserSpec

\* The buffer stays shorter than a frame between two bytes.
THEOREM TypeCorrect == ParserSpec => []ParserTypeOK
BY Parsing, PTL

\* No command is put together from pieces of others, and no intact one is
\* missed, whatever noise it follows.
THEOREM OnlyAndEveryCommand == ParserSpec => []CommandsAreExact
BY Parsing, PTL DEF CommandsAreExact

-----------------------------------------------------------------------------
(* The threads of the bridge.                                              *)

Msgs == [no : Nat, ring : Rings \cup {NoRing}]
Frame == [no : Nat, live : BOOLEAN]

\* What the proofs need of the types.
Types ==
  /\ cPc \in {"idle", "collect", "append", "pack", "put"}
  /\ sPc \in {"wait", "write"}
  /\ msg \in Msgs /\ msgs \in Nat /\ msg.no = msgs /\ started \in Nat
  /\ ringBuf \in Seq(Msgs)
  /\ slot \in Frame \cup {NoFrame} /\ frame \in Frame \cup {NoFrame} /\ tried \in Frame
  /\ (sPc = "write") = (frame # NoFrame)

\* The frame written last, the one in hand, the one in the slot and the message
\* of the callback are in this order.
Ordered ==
  /\ tried.no <= msg.no
  /\ frame # NoFrame => tried.no < frame.no /\ frame.no <= msg.no
  /\ slot # NoFrame => tried.no < slot.no /\ slot.no <= msg.no
  /\ frame # NoFrame /\ slot # NoFrame => frame.no < slot.no
  /\ cPc # "idle" => /\ tried.no < msg.no
                     /\ frame # NoFrame => frame.no < msg.no
                     /\ slot # NoFrame => slot.no < msg.no

\* From a frame with a lock on, what follows it on the way to the port has one.
Chained ==
  /\ ~tried.live => /\ frame # NoFrame => ~frame.live
                    /\ slot # NoFrame => ~slot.live
                    /\ cPc = "put" => packed # Unlocked
                    /\ locked # Unlocked
  /\ frame # NoFrame /\ ~frame.live => /\ slot # NoFrame => ~slot.live
                                       /\ cPc = "put" => packed # Unlocked
                                       /\ locked # Unlocked
  /\ slot # NoFrame /\ ~slot.live => /\ cPc = "put" => packed # Unlocked
                                     /\ locked # Unlocked
  /\ cPc = "put" /\ packed # Unlocked => locked # Unlocked

\* A message from before the start that may still be collected is the first such.
Sampled ==
  /\ started <= msgs
  /\ OneStaleSample
  /\ rPc # "clear" /\ cPc \in {"collect", "append"} /\ msg.no <= started =>
       \A i \in 1 .. Len(ringBuf) : ringBuf[i].no > started

BridgeInv == Types /\ Ordered /\ Chained /\ Sampled

\* A sample more.
LEMMA Sample ==
  ASSUME NEW s \in Seq(Msgs), NEW m \in Msgs
  PROVE  /\ Append(s, m) \in Seq(Msgs) /\ Len(Append(s, m)) = Len(s) + 1 /\ Len(s) \in Nat
         /\ \A i \in 1 .. Len(s) : Append(s, m)[i] = s[i]
         /\ Append(s, m)[Len(s) + 1] = m
BY AppendProperties, LenProperties

\* A lock is a triple, never the absent one.
LEMMA LockIsTaken ==
  ASSUME LockRing
  PROVE  locked' # Unlocked
<1>1. DOMAIN locked' = 1 .. 3
  BY DEF LockRing
<1>2. DOMAIN Unlocked = {}
  BY DEF Unlocked
<1>3. 1 \in 1 .. 3
  OBVIOUS
<1> QED
  BY <1>1, <1>2, <1>3

\* Every step keeps the invariant.
LEMMA BridgeStep ==
  ASSUME BridgeInv, Next
  PROVE  BridgeInv'
<1> USE BridgeAssumption, FrameAssumption
    DEF BridgeInv, Types, Msgs, Frame, callbackVars, ringVars, receiverVars, senderVars, history
<1>1. CASE \E r \in Rings \cup {NoRing} : Message(r)
  <2> PICK r \in Rings \cup {NoRing} : Message(r)
    BY <1>1
  <2> USE DEF Message
  <2>1. Types'
    OBVIOUS
  <2>2. Ordered'
    BY DEF Ordered
  <2>3. Chained'
    BY DEF Chained
  <2>4. Sampled'
    <3>1. /\ UNCHANGED <<ringBuf, started, rPc>> /\ cPc = "idle" /\ cPc' = "collect"
          /\ msgs \in Nat /\ started \in Nat /\ msgs' = msgs + 1 /\ msg'.no = msgs + 1
      OBVIOUS
    <3>2. started <= msgs /\ OneStaleSample
      BY DEF Sampled
    <3> HIDE DEF Message, BridgeInv
    <3>3. started' <= msgs' /\ ~(msg'.no <= started')
      BY <3>1, <3>2
    <3>4. OneStaleSample'
      BY <3>1, <3>2 DEF OneStaleSample
    <3> QED
      BY <3>3, <3>4 DEF Sampled
  <2> QED
    BY <2>1, <2>2, <2>3, <2>4
<1>2. CASE CheckCollecting
  <2>1. Types'
    BY <1>2 DEF CheckCollecting
  <2>2. Ordered'
    BY <1>2 DEF CheckCollecting, Ordered
  <2>3. Chained'
    BY <1>2 DEF CheckCollecting, Chained
  <2>4. Sampled'
    BY <1>2 DEF CheckCollecting, Sampled, OneStaleSample
  <2> QED
    BY <2>1, <2>2, <2>3, <2>4
<1>3. CASE Collect
  <2>1. Types'
    BY <1>3, Sample DEF Collect
  <2>2. Ordered'
    BY <1>3 DEF Collect, Ordered
  <2>3. Chained'
    BY <1>3 DEF Collect, Chained
  <2>4. Sampled'
    <3>1. /\ ringBuf' = Append(ringBuf, msg) /\ Len(ringBuf') = Len(ringBuf) + 1 /\ Len(ringBuf) \in Nat
          /\ \A i \in 1 .. Len(ringBuf) : ringBuf'[i] = ringBuf[i]
          /\ ringBuf'[Len(ringBuf) + 1] = msg
      BY <1>3, Sample DEF Collect
    <3>2. /\ cPc = "append" /\ cPc' = "pack"
          /\ UNCHANGED <<msg, msgs, started, rPc>>
      BY <1>3 DEF Collect
    <3>3. ASSUME rPc # "clear", NEW i \in 1 .. Len(ringBuf'), NEW j \in 1 .. Len(ringBuf'),
                 ringBuf'[i].no <= started, ringBuf'[j].no <= started
          PROVE  i = j
      <4>1. CASE i \in 1 .. Len(ringBuf) /\ j \in 1 .. Len(ringBuf)
        BY <3>1, <3>3, <4>1 DEF Sampled, OneStaleSample
      <4>2. ASSUME msg.no <= started, NEW k \in 1 .. Len(ringBuf), ringBuf'[k].no <= started PROVE FALSE
        <5>1. ringBuf[k].no > started
          BY <3>2, <3>3, <4>2 DEF Sampled
        <5>2. ringBuf[k].no \in Nat
          <6>1. ringBuf \in [1 .. Len(ringBuf) -> Msgs]
            BY LenProperties
          <6>2. ringBuf[k] \in Msgs
            BY <6>1
          <6> QED
            BY <6>2
        <5> QED
          BY <3>1, <4>2, <5>1, <5>2
      <4>3. i \in 1 .. Len(ringBuf) \/ i = Len(ringBuf) + 1
        BY <3>1
      <4>4. j \in 1 .. Len(ringBuf) \/ j = Len(ringBuf) + 1
        BY <3>1
      <4> QED
        BY <3>1, <3>3, <4>1, <4>2, <4>3, <4>4
    <3> QED
      BY <3>2, <3>3 DEF Sampled, OneStaleSample
  <2> QED
    BY <2>1, <2>2, <2>3, <2>4
<1>4. CASE Pack
  <2>1. Types'
    BY <1>4 DEF Pack
  <2>2. Ordered'
    BY <1>4 DEF Pack, Ordered
  <2>3. Chained'
    BY <1>4 DEF Pack, Chained
  <2>4. Sampled'
    BY <1>4 DEF Pack, Sampled, OneStaleSample
  <2> QED
    BY <2>1, <2>2, <2>3, <2>4
<1>5. CASE PutFrame
  <2>1. Types'
    BY <1>5 DEF PutFrame
  <2>2. Ordered'
    BY <1>5 DEF PutFrame, Ordered
  <2>3. Chained'
    BY <1>5 DEF PutFrame, Chained
  <2>4. Sampled'
    BY <1>5 DEF PutFrame, Sampled, OneStaleSample
  <2> QED
    BY <2>1, <2>2, <2>3, <2>4
<1>6. CASE StartCollect
  <2>1. Types'
    BY <1>6 DEF StartCollect, Command
  <2>2. Ordered'
    BY <1>6 DEF StartCollect, Command, Ordered
  <2>3. Chained'
    BY <1>6 DEF StartCollect, Command, Chained
  <2>4. Sampled'
    BY <1>6 DEF StartCollect, Command, Sampled, OneStaleSample
  <2> QED
    BY <2>1, <2>2, <2>3, <2>4
<1>7. CASE StopCollect
  <2>1. Types'
    BY <1>7 DEF StopCollect, Command
  <2>2. Ordered'
    BY <1>7 DEF StopCollect, Command, Ordered
  <2>3. Chained'
    BY <1>7 DEF StopCollect, Command, Chained
  <2>4. Sampled'
    BY <1>7 DEF StopCollect, Command, Sampled, OneStaleSample
  <2> QED
    BY <2>1, <2>2, <2>3, <2>4
<1>8. CASE ClearBuffer
  <2>1. Types'
    BY <1>8 DEF ClearBuffer
  <2>2. Ordered'
    BY <1>8 DEF ClearBuffer, Ordered
  <2>3. Chained'
    BY <1>8 DEF ClearBuffer, Chained
  <2>4. Sampled'
    BY <1>8 DEF ClearBuffer, Sampled, OneStaleSample
  <2> QED
    BY <2>1, <2>2, <2>3, <2>4
<1>9. CASE Count
  <2>1. Types'
    BY <1>9 DEF Count
  <2>2. Ordered'
    BY <1>9 DEF Count, Ordered
  <2>3. Chained'
    BY <1>9 DEF Count, Chained
  <2>4. Sampled'
    BY <1>9 DEF Count, Sampled, OneStaleSample
  <2> QED
    BY <2>1, <2>2, <2>3, <2>4
<1>10. CASE Copy
  <2>1. Types'
    BY <1>10 DEF Copy
  <2>2. Ordered'
    BY <1>10 DEF Copy, Ordered
  <2>3. Chained'
    BY <1>10 DEF Copy, Chained
  <2>4. Sampled'
    BY <1>10 DEF Copy, Sampled, OneStaleSample
  <2> QED
    BY <2>1, <2>2, <2>3, <2>4
<1>11. CASE LockRing
  <2>1. Types'
    BY <1>11 DEF LockRing
  <2>2. Ordered'
    BY <1>11 DEF LockRing, Ordered
  <2>3. Chained'
    BY <1>11, LockIsTaken DEF LockRing, Chained
  <2>4. Sampled'
    BY <1>11 DEF LockRing, Sampled, OneStaleSample
  <2> QED
    BY <2>1, <2>2, <2>3, <2>4
<1>12. CASE WaitFrame
  <2>1. Types'
    BY <1>12 DEF WaitFrame
  <2>2. Ordered'
    BY <1>12 DEF WaitFrame, Ordered
  <2>3. Chained'
    BY <1>12 DEF WaitFrame, Chained
  <2>4. Sampled'
    BY <1>12 DEF WaitFrame, Sampled, OneStaleSample
  <2> QED
    BY <2>1, <2>2, <2>3, <2>4
<1>13. CASE Write
  <2>1. Types'
    BY <1>13 DEF Write
  <2>2. Ordered'
    BY <1>13 DEF Write, Ordered
  <2>3. Chained'
    BY <1>13 DEF Write, Chained
  <2>4. Sampled'
    BY <1>13 DEF Write, Sampled, OneStaleSample
  <2> QED
    BY <2>1, <2>2, <2>3, <2>4
<1>14. CASE CloseSerial
  <2>1. Types'
    BY <1>14 DEF CloseSerial
  <2>2. Ordered'
    BY <1>14 DEF CloseSerial, Ordered
  <2>3. Chained'
    BY <1>14 DEF CloseSerial, Chained
  <2>4. Sampled'
    BY <1>14 DEF CloseSerial, Sampled, OneStaleSample
  <2> QED
    BY <2>1, <2>2, <2>3, <2>4
<1> QED
  BY <1>1, <1>2, <1>3, <1>4, <1>5, <1>6, <1>7, <1>8, <1>9, <1>10, <1>11, <1>12, <1>13, <1>14 DEF Next, Callback, Receiver, Sender

\* The invariant, and what a step may not do.
LEMMA BridgeAlways ==
  Spec => [](BridgeInv) /\ [][Next /\ BridgeInv /\ BridgeInv']_vars
<1>1. Init => BridgeInv
  <2>1. Init => Types
    BY BridgeAssumption, FrameAssumption DEF Init, Types, Msgs, Frame
  <2>2. Init => Ordered /\ Chained /\ Sampled
    BY BridgeAssumption, FrameAssumption DEF Init, Ordered, Chained, Sampled, OneStaleSample, Unlocked
  <2> QED
    BY <2>1, <2>2 DEF BridgeInv
<1>2. BridgeInv /\ [Next]_vars => BridgeInv'
  <2>1. ASSUME BridgeInv, UNCHANGED vars PROVE BridgeInv'
    BY <2>1 DEF BridgeInv, Types, Ordered, Chained, Sampled, OneStaleSample, vars,
                callbackVars, ringVars, receiverVars, senderVars, history
  <2> QED
    BY <2>1, BridgeStep
<1> QED
  BY <1>1, <1>2, PTL DEF Spec

\* The frame written is newer than the one before it.
LEMMA WritesNewer ==
  ASSUME BridgeInv, Next, tried' # tried \/ (sPc = "write" /\ sPc' = "wait")
  PROVE  Write /\ tried'.no > tried.no /\ (~tried.live => ~tried'.live)
<1>1. Write
  BY DEF Next, Callback, Receiver, Sender, Message, CheckCollecting, Collect, Pack, PutFrame, StartCollect,
         StopCollect, Command, ClearBuffer, Count, Copy, LockRing, WaitFrame, CloseSerial, senderVars
<1> QED
  BY <1>1 DEF Write, BridgeInv, Types, Ordered, Chained, Frame

\* Frames reach the port in the order of their messages, each at most once.
THEOREM FramesInOrder == Spec => SentInOrder
<1>1. Next /\ BridgeInv /\ BridgeInv' => [tried' # tried \/ (sPc = "write" /\ sPc' = "wait") => tried'.no > tried.no]_vars
  BY WritesNewer
<1> QED
  BY <1>1, BridgeAlways, PTL DEF SentInOrder

\* A locked ring once sent, no frame carries a live one.
THEOREM LockIsKept == Spec => NoFallback
<1>1. Next /\ BridgeInv /\ BridgeInv' => [~tried.live => ~tried'.live]_vars
  BY WritesNewer
<1> QED
  BY <1>1, BridgeAlways, PTL DEF NoFallback

\* A collection holds at most one sample of a message from before its start.
THEOREM StaleAtMostOnce == Spec => []OneStaleSample
<1>1. BridgeInv => OneStaleSample
  BY DEF BridgeInv, Sampled
<1> QED
  BY <1>1, BridgeAlways, PTL

-----------------------------------------------------------------------------
(* The lock and its samples.                                               *)

\* The order of the numbers, as a relation.
Less == {p \in Nat \X Nat : p[1] < p[2]}

\* The naturals are well-founded, so every set of them has a least element.
LEMMA LessIsWellFounded == IsWellFoundedOn(Less, Nat)
<1>1. Less = OpToRel(<, Nat)
  BY DEF Less, OpToRel
<1> QED BY <1>1, NatLessThanWellFounded

\* A set of numbers that is not empty has a least one.
LEMMA Least ==
  ASSUME NEW T \in SUBSET Nat, T # {}
  PROVE  \E x \in T : \A y \in T : x <= y
<1>1. PICK x \in T : \A y \in T : ~(<<y, x>> \in Less)
  BY LessIsWellFounded, WFMin
<1>2. ASSUME NEW y \in T PROVE x <= y
  <2>1. ~(<<y, x>> \in Less) /\ y \in Nat /\ x \in Nat
    BY <1>1
  <2> QED BY <2>1 DEF Less
<1> QED BY <1>2

\* A function may be defined by a first value and a step.
Steps(N, S, a, G) == N \in Nat /\ a \in S /\ G \in [1 .. N -> [S -> S]]
Follows(h, N, S, a, G) ==
  h \in [0 .. N -> S] /\ h[0] = a /\ \A k \in 1 .. N : h[k] = G[k][h[k - 1]]

\* ... and such a function exists.
LEMMA Recursion ==
  ASSUME NEW N, NEW S, NEW a, NEW G, Steps(N, S, a, G)
  PROVE  \E h : Follows(h, N, S, a, G)
<1> USE DEF Steps
<1> DEFINE Upto(e) == \E h : Follows(h, e, S, a, G)
           Bad == {e \in 0 .. N : ~Upto(e)}
<1> SUFFICES ASSUME Bad # {} PROVE FALSE
  <2>1. N \in 0 .. N
    OBVIOUS
  <2> QED BY <2>1
<1>1. PICK e \in Bad : \A m \in Bad : e <= m
  <2>1. Bad \in SUBSET Nat
    OBVIOUS
  <2> QED BY <2>1, Least
<1>2. CASE e = 0
  <2>1. [k \in 0 .. 0 |-> a] \in [0 .. 0 -> S]
    OBVIOUS
  <2>2. [k \in 0 .. 0 |-> a][0] = a
    OBVIOUS
  <2>3. 1 .. 0 = {}
    OBVIOUS
  <2>4. Upto(0)
    BY <2>1, <2>2, <2>3 DEF Follows
  <2> QED BY <1>1, <1>2, <2>4
<1>3. CASE e # 0
  <2>1. e \in 1 .. N /\ e - 1 \in 0 .. N /\ e - 1 \notin Bad
    <3>1. e \in 1 .. N /\ e - 1 \in 0 .. N /\ ~(e <= e - 1)
      BY <1>3
    <3> HIDE DEF Bad
    <3> QED BY <1>1, <3>1
  <2>2. PICK h \in [0 .. e - 1 -> S] : h[0] = a /\ \A k \in 1 .. e - 1 : h[k] = G[k][h[k - 1]]
    BY <2>1 DEF Follows
  <2> DEFINE g == [k \in 0 .. e |-> IF k = e THEN G[e][h[e - 1]] ELSE h[k]]
  <2>3. h[e - 1] \in S /\ G[e][h[e - 1]] \in S
    BY <2>1, <2>2
  <2>4. \A k \in 0 .. e : k = e \/ (k \in 0 .. e - 1 /\ h[k] \in S)
    BY <2>1, <2>2
  <2>5. g \in [0 .. e -> S]
    BY <2>3, <2>4
  <2>6. g[0] = a /\ g[e] = G[e][h[e - 1]]
    BY <2>1, <2>2
  <2>7. \A k \in 0 .. e - 1 : g[k] = h[k]
    BY <2>1
  <2>8. ASSUME NEW k \in 1 .. e PROVE g[k] = G[k][g[k - 1]]
    <3>1. k - 1 \in 0 .. e - 1 /\ g[k - 1] = h[k - 1]
      BY <2>1, <2>7
    <3>2. CASE k = e
      BY <2>6, <3>1, <3>2
    <3>3. CASE k # e
      <4>1. k \in 1 .. e - 1 /\ k \in 0 .. e - 1
        BY <2>1, <3>3
      <4> QED BY <2>2, <2>7, <3>1, <4>1
    <3> QED BY <3>2, <3>3
  <2> HIDE DEF g
  <2>9. Upto(e)
    BY <2>5, <2>6, <2>8 DEF Follows
  <2> QED BY <1>1, <2>9
<1> QED BY <1>2, <1>3

\* What holds of the first index and passes from each to the next holds of all.
LEMMA Induction ==
  ASSUME NEW N \in Nat, NEW B, 0 \in B, \A k \in 1 .. N : k - 1 \in B => k \in B
  PROVE  \A k \in 0 .. N : k \in B
<1> DEFINE Bad == {k \in 0 .. N : k \notin B}
<1> SUFFICES ASSUME Bad # {} PROVE FALSE
  OBVIOUS
<1>1. PICK k \in Bad : \A m \in Bad : k <= m
  <2>1. Bad \in SUBSET Nat
    OBVIOUS
  <2> QED BY <2>1, Least
<1>2. k \in 1 .. N /\ k - 1 \in 0 .. N /\ ~(k <= k - 1)
  BY <1>1
<1>3. k - 1 \notin Bad
  <2> HIDE DEF Bad
  <2> QED BY <1>1, <1>2
<1> QED BY <1>1, <1>2, <1>3

\* Coordinates of a copy.
Values == {vals \in Seq(Int) : Len(vals) >= 1}
\* The least value and the greatest.
IsLeast(vals, i) == \A j \in 1 .. Len(vals) : vals[i] <= vals[j]
IsMost(vals, i) == \A j \in 1 .. Len(vals) : vals[i] >= vals[j]

\* There is a least value ...
LEMMA LeastValue ==
  ASSUME NEW vals \in Values
  PROVE  \E i \in 1 .. Len(vals) : IsLeast(vals, i)
<1>1. PICK N \in Nat : N = Len(vals) /\ N >= 1
  BY DEF Values
<1>2. \A i \in 1 .. N : vals[i] \in Int
  BY <1>1 DEF Values
<1> DEFINE B == {k \in 0 .. N : k = 0 \/ \E i \in 1 .. k : \A j \in 1 .. k : vals[i] <= vals[j]}
<1>3. 0 \in B
  OBVIOUS
<1>4. ASSUME NEW k \in 1 .. N, k - 1 \in B PROVE k \in B
  <2>1. CASE k = 1
    <3>1. 1 \in 1 .. k /\ \A j \in 1 .. k : vals[1] <= vals[j]
      BY <1>2, <2>1
    <3> QED BY <3>1
  <2>2. CASE k # 1
    <3>1. PICK i \in 1 .. k - 1 : \A j \in 1 .. k - 1 : vals[i] <= vals[j]
      BY <1>4, <2>2
    <3>2. PICK a \in Int, b \in Int : a = vals[i] /\ b = vals[k]
      BY <1>2
    <3>3. \A j \in 1 .. k : j = k \/ (j \in 1 .. k - 1 /\ vals[j] \in Int)
      BY <1>2
    <3>4. CASE a <= b
      <4>1. \A j \in 1 .. k : vals[i] <= vals[j]
        BY <3>1, <3>2, <3>3, <3>4
      <4> QED BY <4>1
    <3>5. CASE ~(a <= b)
      <4>1. \A j \in 1 .. k : vals[k] <= vals[j]
        BY <3>1, <3>2, <3>3, <3>5
      <4> QED BY <4>1
    <3> QED BY <3>4, <3>5
  <2> QED BY <2>1, <2>2
<1> HIDE DEF B
<1>5. \A k \in 0 .. N : k \in B
  BY <1>3, <1>4, Induction
<1>6. N \in 0 .. N
  BY <1>1
<1>7. N \in B
  BY <1>5, <1>6
<1> QED BY <1>1, <1>7 DEF B, IsLeast

\* ... and a greatest.
LEMMA MostValue ==
  ASSUME NEW vals \in Values
  PROVE  \E i \in 1 .. Len(vals) : IsMost(vals, i)
<1>1. PICK N \in Nat : N = Len(vals) /\ N >= 1
  BY DEF Values
<1>2. \A i \in 1 .. N : vals[i] \in Int
  BY <1>1 DEF Values
<1>3. PICK neg : neg = [i \in 1 .. N |-> -vals[i]]
  OBVIOUS
<1>4. neg \in [1 .. N -> Int] /\ \A i \in 1 .. N : neg[i] = -vals[i]
  BY <1>2, <1>3
<1>5. neg \in Seq(Int) /\ Len(neg) = N
  BY <1>3, <1>4
<1>6. PICK i \in 1 .. N : \A j \in 1 .. N : neg[i] <= neg[j]
  BY <1>1, <1>5, LeastValue DEF Values, IsLeast
<1>7. \A j \in 1 .. N : vals[i] >= vals[j]
  BY <1>2, <1>4, <1>6
<1> QED BY <1>1, <1>7 DEF IsMost

\* A sum of some values and their number.
IsSum(t, c, vals, kept) ==
  /\ t \in Int /\ c \in Nat
  /\ \A m \in Int : (\A i \in kept : m <= vals[i]) => m * c <= t
  /\ \A m \in Int : (\A i \in kept : m >= vals[i]) => m * c >= t

\* One more value of at least m, or at most m.
LEMMA SumOneMore ==
  ASSUME NEW t \in Int, NEW c \in Nat, NEW m \in Int, NEW v \in Int
  PROVE  /\ m <= v /\ m * c <= t => m * (c + 1) <= t + v
         /\ m >= v /\ m * c >= t => m * (c + 1) >= t + v
<1>1. m * (c + 1) = m * c + m /\ m * c \in Int
  OBVIOUS
<1> QED BY <1>1

\* Total adds up the values that are kept: no matter which they are, bounds of them bound it.
LEMMA TotalIs ==
  ASSUME NEW vals \in Seq(Int), NEW kept, kept \subseteq 1 .. Len(vals)
  PROVE  IsSum(Total(vals, kept), Cardinality(kept), vals, kept)
<1> DEFINE Law(h) == h = [k \in 0 .. Len(vals) |-> IF k = 0 THEN 0 ELSE IF k \in kept THEN h[k - 1] + vals[k] ELSE h[k - 1]]
<1>1. PICK N \in Nat : N = Len(vals)
  OBVIOUS
<1>2. \A i \in 1 .. N : vals[i] \in Int
  BY <1>1
<1>3. \E h : Law(h)
  <2> DEFINE G == [k \in 1 .. N |-> [s \in Int |-> IF k \in kept THEN s + vals[k] ELSE s]]
  <2>1. G \in [1 .. N -> [Int -> Int]]
    BY <1>2
  <2>2. Steps(N, Int, 0, G)
    <3> HIDE DEF G
    <3> QED BY <2>1 DEF Steps
  <2>3. PICK h : Follows(h, N, Int, 0, G)
    <3> HIDE DEF G
    <3> QED BY <2>2, Recursion
  <2>4. h \in [0 .. N -> Int] /\ h[0] = 0 /\ \A k \in 1 .. N : h[k] = G[k][h[k - 1]]
    BY <2>3 DEF Follows
  <2>5. \A k \in 1 .. N : h[k] = IF k \in kept THEN h[k - 1] + vals[k] ELSE h[k - 1]
    <3> SUFFICES ASSUME NEW k \in 1 .. N PROVE h[k] = IF k \in kept THEN h[k - 1] + vals[k] ELSE h[k - 1]
      OBVIOUS
    <3>1. k - 1 \in 0 .. N
      OBVIOUS
    <3>2. h[k - 1] \in Int
      BY <2>4, <3>1
    <3> QED BY <2>4, <3>2
  <2> HIDE DEF G
  <2>6. \A k \in 0 .. N : k # 0 => k \in 1 .. N
    OBVIOUS
  <2>7. h = [k \in 0 .. N |-> h[k]]
    BY <2>4
  <2>8. \A k \in 0 .. N : h[k] = IF k = 0 THEN 0 ELSE IF k \in kept THEN h[k - 1] + vals[k] ELSE h[k - 1]
    BY <2>4, <2>5, <2>6
  <2>9. h = [k \in 0 .. N |-> IF k = 0 THEN 0 ELSE IF k \in kept THEN h[k - 1] + vals[k] ELSE h[k - 1]]
    BY <2>7, <2>8
  <2> QED BY <1>1, <2>9
<1>4. PICK h : Law(h) /\ Total(vals, kept) = h[Len(vals)]
  <2>1. Total(vals, kept) = (CHOOSE h : Law(h))[Len(vals)]
    BY DEF Total
  <2> HIDE DEF Law
  <2> QED BY <1>3, <2>1
<1>13. \A k \in 0 .. N : h[k] = IF k = 0 THEN 0 ELSE IF k \in kept THEN h[k - 1] + vals[k] ELSE h[k - 1]
  BY <1>1, <1>4
<1>5. h[0] = 0 /\ \A k \in 1 .. N : h[k] = IF k \in kept THEN h[k - 1] + vals[k] ELSE h[k - 1]
  <2>1. 0 \in 0 .. N /\ \A k \in 1 .. N : k \in 0 .. N /\ k # 0
    OBVIOUS
  <2> QED BY <1>13, <2>1
<1>14. \A i \in kept : i \in Int /\ 1 <= i /\ i <= N
  BY <1>1
<1> HIDE DEF Law
<1> DEFINE Upto(k) == {i \in kept : i <= k}
           B == {k \in 0 .. N : IsFiniteSet(Upto(k)) /\ IsSum(h[k], Cardinality(Upto(k)), vals, Upto(k))}
<1>6. 0 \in B
  <2>1. Upto(0) = {} /\ 0 \in 0 .. N
    <3>1. \A i \in kept : ~(i <= 0)
      BY <1>14
    <3>2. 0 \in 0 .. N
      OBVIOUS
    <3>3. Upto(0) = {}
      BY <3>1
    <3> HIDE DEF Upto
    <3> QED BY <3>2, <3>3
  <2>2. IsFiniteSet({}) /\ Cardinality({}) = 0
    BY FS_EmptySet
  <2>3. \A m \in Int : m * 0 = 0
    OBVIOUS
  <2>4. IsSum(0, 0, vals, {})
    BY <2>3 DEF IsSum
  <2> QED BY <1>5, <2>1, <2>2, <2>4
<1>7. ASSUME NEW k \in 1 .. N, k - 1 \in B PROVE k \in B
  <2>1. PICK A : A = Upto(k - 1) /\ IsFiniteSet(A)
    BY <1>7
  <2>2. PICK t \in Int, c \in Nat : t = h[k - 1] /\ c = Cardinality(A) /\ IsSum(t, c, vals, A)
    BY <1>7, <2>1 DEF IsSum
  <2>3. k \in 0 .. N /\ vals[k] \in Int
    BY <1>2
  <2>4. CASE k \in kept
    <3>1. Upto(k) = A \cup {k} /\ k \notin A
      <4>1. \A i \in kept : i <= k <=> i <= k - 1 \/ i = k
        BY <1>14
      <4>2. ~(k <= k - 1) /\ k <= k
        OBVIOUS
      <4> QED BY <2>1, <2>4, <4>1, <4>2
    <3>2. IsFiniteSet(A \cup {k}) /\ Cardinality(A \cup {k}) = c + 1
      BY <2>1, <2>2, <3>1, FS_AddElement
    <3>3. h[k] = t + vals[k]
      BY <1>5, <2>2, <2>4
    <3>4. ASSUME NEW m \in Int, \A i \in A \cup {k} : m <= vals[i] PROVE m * (c + 1) <= t + vals[k]
      <4>1. m <= vals[k] /\ m * c <= t
        BY <2>2, <3>4 DEF IsSum
      <4> QED BY <2>3, <4>1, SumOneMore
    <3>5. ASSUME NEW m \in Int, \A i \in A \cup {k} : m >= vals[i] PROVE m * (c + 1) >= t + vals[k]
      <4>1. m >= vals[k] /\ m * c >= t
        BY <2>2, <3>5 DEF IsSum
      <4> QED BY <2>3, <4>1, SumOneMore
    <3>6. IsSum(t + vals[k], c + 1, vals, A \cup {k})
      BY <2>3, <3>4, <3>5 DEF IsSum
    <3> QED BY <2>3, <3>1, <3>2, <3>3, <3>6
  <2>5. CASE k \notin kept
    <3>1. Upto(k) = A
      <4>1. \A i \in kept : i <= k <=> i <= k - 1 \/ i = k
        BY <1>14
      <4> QED BY <2>1, <2>5, <4>1
    <3>2. h[k] = t
      BY <1>5, <2>2, <2>5
    <3> QED BY <2>1, <2>2, <2>3, <3>1, <3>2
  <2> QED BY <2>4, <2>5
<1>8. Upto(N) = kept
  BY <1>14
<1> HIDE DEF B
<1>9. \A k \in 0 .. N : k \in B
  BY <1>6, <1>7, Induction
<1>10. N \in 0 .. N
  OBVIOUS
<1>11. N \in B
  BY <1>9, <1>10
<1>12. IsSum(h[N], Cardinality(Upto(N)), vals, Upto(N))
  BY <1>11 DEF B
<1> QED BY <1>1, <1>4, <1>8, <1>12

\* A mean, as a fraction, lies within some values.
Within(vals, mean) ==
  /\ \E i \in 1 .. Len(vals) : vals[i] * mean[2] <= mean[1]
  /\ \E i \in 1 .. Len(vals) : vals[i] * mean[2] >= mean[1]

\* The mean of the kept values lies between two values.
LEMMA MeanIsWithin ==
  ASSUME NEW vals \in Values
  PROVE  Within(vals, TrimmedMean(vals))
<1>1. PICK K : K = Kept(vals)
  OBVIOUS
<1>2. K \subseteq 1 .. Len(vals)
  BY <1>1 DEF Kept
<1>3. vals \in Seq(Int) /\ \A i \in 1 .. Len(vals) : vals[i] \in Int
  BY DEF Values
<1>4. PICK t \in Int, c \in Nat : t = Total(vals, K) /\ c = Cardinality(K) /\ IsSum(t, c, vals, K)
  BY <1>2, <1>3, TotalIs DEF IsSum
<1>5. TrimmedMean(vals) = <<t, c>>
  BY <1>1, <1>4 DEF TrimmedMean
<1>6. PICK i \in 1 .. Len(vals) : IsLeast(vals, i)
  BY LeastValue
<1>7. vals[i] * c <= t
  BY <1>2, <1>3, <1>4, <1>6 DEF IsSum, IsLeast
<1>8. PICK j \in 1 .. Len(vals) : IsMost(vals, j)
  BY MostValue
<1>9. vals[j] * c >= t
  BY <1>2, <1>3, <1>4, <1>8 DEF IsSum, IsMost
<1> QED BY <1>5, <1>7, <1>9 DEF Within

\* While the receiver copies the samples there are some, and the copies are of numbers; a lock
\* lies within the copies it was made of, until they are thrown away.
Samples == {s \in Seq(Msgs) : \A i \in 1 .. Len(s) : s[i].ring \in Rings}
LockInv ==
  /\ msg \in Msgs /\ ringBuf \in Samples
  /\ cPc = "append" => msg.ring \in Rings
  /\ copies \in Seq(Values)
  /\ n \in Nat
  /\ rPc = "copy" => Len(ringBuf) >= 1 /\ Len(copies) <= 2
  /\ rPc = "lock" => Len(copies) = 3
  /\ TrimmedLockWithin

\* One more sample.
LEMMA SampleIs ==
  ASSUME NEW s \in Samples, NEW m \in Msgs, m.ring \in Rings, NEW t, t = Append(s, m)
  PROVE  t \in Samples /\ Len(t) >= 1
<1>1. t \in Seq(Msgs) /\ Len(t) = Len(s) + 1 /\ Len(s) \in Nat
  BY Sample DEF Samples
<1>2. \A i \in 1 .. Len(t) : (t[i] = s[i] /\ i \in 1 .. Len(s)) \/ t[i] = m
  BY <1>1, Sample DEF Samples
<1>3. \A i \in 1 .. Len(t) : t[i].ring \in Rings
  BY <1>2 DEF Samples
<1>4. t \in Samples
  BY <1>1, <1>3 DEF Samples
<1>5. Len(t) >= 1
  BY <1>1
<1> QED BY <1>4, <1>5

\* A copy of one coordinate.
LEMMA CopyIs ==
  ASSUME NEW s \in Samples, Len(s) >= 1, NEW axis \in 1 .. 3,
         NEW vals, vals = [i \in 1 .. Len(s) |-> s[i].ring[axis]]
  PROVE  vals \in Values
<1>1. PICK N \in Nat : N = Len(s) /\ N >= 1
  BY DEF Samples
<1>2. \A i \in 1 .. N : s[i].ring[axis] \in Int
  BY <1>1, RingAssumption DEF Samples
<1>3. vals \in [1 .. N -> Int]
  BY <1>1, <1>2
<1>4. vals \in Seq(Int) /\ Len(vals) = N
  BY <1>1, <1>3
<1> QED BY <1>1, <1>4 DEF Values

\* At the start there are no copies.
LEMMA LockStart == Init => LockInv
<1> SUFFICES ASSUME Init PROVE LockInv
  OBVIOUS
<1>1. /\ msg = [no |-> 0, ring |-> NoRing] /\ ringBuf = <<>> /\ cPc = "idle" /\ copies = <<>> /\ n = 0
      /\ rPc = "read" /\ locked = Unlocked
  BY DEF Init
<1>2. <<>> \in Seq(Msgs) /\ <<>> \in Seq(Values) /\ Len(<<>>) = 0 /\ 1 .. 0 = {}
  OBVIOUS
<1>3. ringBuf \in Samples
  BY <1>1, <1>2 DEF Samples
<1>4. msg \in Msgs
  BY <1>1 DEF Msgs
<1> QED BY <1>1, <1>2, <1>3, <1>4 DEF LockInv, TrimmedLockWithin

\* Only the receiver empties the buffer, and not between Count and the last Copy.
LEMMA LockStep ==
  ASSUME LockInv, msgs \in Nat, [Next]_vars
  PROVE  LockInv'
<1>1. CASE UNCHANGED <<ringBuf, copies, n, rPc, locked>> /\ msg' \in Msgs /\ (cPc' = "append" => msg'.ring \in Rings)
  BY <1>1 DEF LockInv, TrimmedLockWithin
<1>2. CASE \E r \in Rings \cup {NoRing} : Message(r)
  <2>1. UNCHANGED <<ringBuf, copies, n, rPc, locked>> /\ cPc' = "collect"
    BY <1>2 DEF Message, ringVars, receiverVars
  <2>2. msg' \in Msgs
    BY <1>2 DEF Message, Msgs
  <2> QED BY <1>1, <2>1, <2>2
<1>3. CASE CheckCollecting
  <2>1. UNCHANGED <<msg, ringBuf, copies, n, rPc, locked>> /\ (cPc' = "append" => msg.ring # NoRing)
    BY <1>3 DEF CheckCollecting, ringVars, receiverVars
  <2>2. msg \in Msgs /\ (msg.ring # NoRing => msg.ring \in Rings)
    BY DEF LockInv, Msgs
  <2> QED BY <1>1, <2>1, <2>2
<1>4. CASE Collect
  <2>1. /\ UNCHANGED <<msg, copies, n, rPc, locked>> /\ cPc = "append" /\ cPc' = "pack"
        /\ ringBuf' = Append(ringBuf, msg)
    BY <1>4 DEF Collect, receiverVars
  <2>2. ringBuf' \in Samples /\ Len(ringBuf') >= 1
    BY <2>1, SampleIs DEF LockInv
  <2> QED BY <2>1, <2>2 DEF LockInv, TrimmedLockWithin
<1>5. CASE Pack \/ PutFrame \/ WaitFrame \/ Write \/ CloseSerial \/ UNCHANGED vars
  <2>1. UNCHANGED <<msg, ringBuf, copies, n, rPc, locked>> /\ (cPc' = "append" => cPc = "append")
    BY <1>5 DEF Pack, PutFrame, WaitFrame, Write, CloseSerial, callbackVars, ringVars, receiverVars, vars
  <2> QED BY <1>1, <2>1 DEF LockInv
<1>6. CASE StartCollect \/ StopCollect
  <2>1. /\ UNCHANGED <<msg, ringBuf, copies, n, locked, cPc>>
        /\ rPc = "read" /\ rPc' \in {"clear", "count"}
    BY <1>6 DEF StartCollect, StopCollect, Command, callbackVars
  <2> QED BY <2>1 DEF LockInv, TrimmedLockWithin
<1>7. CASE ClearBuffer
  <2>1. UNCHANGED <<msg, copies, n, locked, cPc>> /\ rPc = "clear" /\ rPc' = "read" /\ ringBuf' = <<>>
    BY <1>7 DEF ClearBuffer, callbackVars
  <2>2. <<>> \in Samples
    <3>1. <<>> \in Seq(Msgs) /\ Len(<<>>) = 0 /\ 1 .. 0 = {}
      OBVIOUS
    <3> QED BY <3>1 DEF Samples
  <2> QED BY <2>1, <2>2 DEF LockInv, TrimmedLockWithin
<1>8. CASE Count
  <2>1. /\ UNCHANGED <<msg, ringBuf, locked, cPc>> /\ rPc' \in {"read", "copy"} /\ n' = Len(ringBuf) /\ copies' = <<>>
        /\ rPc' = "copy" => ringBuf # <<>>
    BY <1>8 DEF Count, callbackVars, ringVars
  <2>2. ringBuf \in Seq(Msgs) /\ Len(ringBuf) \in Nat /\ (Len(ringBuf) = 0 => ringBuf = <<>>)
    BY DEF LockInv, Samples
  <2>3. rPc' = "copy" => Len(ringBuf) >= 1
    BY <2>1, <2>2
  <2>4. <<>> \in Seq(Values) /\ Len(<<>>) = 0
    OBVIOUS
  <2> QED BY <2>1, <2>2, <2>3, <2>4 DEF LockInv, TrimmedLockWithin
<1>9. CASE Copy
  <2>1. PICK vals : /\ UNCHANGED <<msg, ringBuf, n, locked, cPc>> /\ rPc = "copy"
                    /\ vals = [i \in 1 .. Len(ringBuf) |-> ringBuf[i].ring[Len(copies) + 1]]
                    /\ copies' = Append(copies, vals)
                    /\ rPc' = IF Len(copies) + 1 = 3 THEN "lock" ELSE "copy"
    BY <1>9 DEF Copy, callbackVars, ringVars
  <2>2. /\ ringBuf \in Samples /\ Len(ringBuf) >= 1 /\ copies \in Seq(Values) /\ Len(copies) \in Nat /\ Len(copies) <= 2
    BY <2>1 DEF LockInv
  <2>3. Len(copies) + 1 \in 1 .. 3
    BY <2>2
  <2>4. vals \in Values
    BY <2>1, <2>2, <2>3, CopyIs
  <2>5. copies' \in Seq(Values) /\ Len(copies') = Len(copies) + 1
    BY <2>1, <2>2, <2>4, AppendProperties
  <2>6. rPc' = "lock" => Len(copies') = 3
    BY <2>1, <2>2, <2>5
  <2>7. rPc' = "copy" => Len(copies') <= 2
    BY <2>1, <2>2, <2>5
  <2>8. TrimmedLockWithin'
    BY <2>1, <2>2, <2>5, <2>7 DEF TrimmedLockWithin
  <2>9. rPc' \in {"copy", "lock"}
    BY <2>1
  <2> QED BY <2>1, <2>2, <2>5, <2>6, <2>7, <2>8 DEF LockInv
<1>10. CASE LockRing
  <2>1. /\ UNCHANGED <<msg, ringBuf, n, copies, cPc>> /\ rPc = "lock" /\ rPc' = "read"
        /\ n >= MinSamples => locked' = [axis \in 1 .. 3 |-> TrimmedMean(copies[axis])]
    BY <1>10 DEF LockRing, callbackVars
  <2>2. TrimmedLockWithin'
    <3> SUFFICES ASSUME n >= MinSamples, NEW axis \in 1 .. 3
                 PROVE  Within(copies[axis], locked'[axis])
      BY <2>1 DEF TrimmedLockWithin, Within
    <3>1. copies \in Seq(Values) /\ Len(copies) = 3
      BY <2>1 DEF LockInv
    <3>2. copies[axis] \in Values
      BY <3>1
    <3>3. locked'[axis] = TrimmedMean(copies[axis])
      BY <2>1
    <3> QED BY <3>2, <3>3, MeanIsWithin
  <2> QED BY <2>1, <2>2 DEF LockInv
<1> QED BY <1>2, <1>3, <1>4, <1>5, <1>6, <1>7, <1>8, <1>9, <1>10 DEF Next, Callback, Receiver, Sender

\* With enough samples each coordinate of a lock lies between two of the samples it was made of,
\* whatever the callback adds while they are copied axis by axis.
THEOREM LockLiesWithin == Spec => []TrimmedLockWithin
<1>1. Init => LockInv
  BY LockStart
<1>2. LockInv /\ BridgeInv /\ [Next]_vars => LockInv'
  BY LockStep DEF BridgeInv, Types
<1>3. LockInv => TrimmedLockWithin
  BY DEF LockInv
<1> QED BY <1>1, <1>2, <1>3, BridgeAlways, PTL DEF Spec

=============================================================================
