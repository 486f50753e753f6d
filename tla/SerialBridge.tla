----------------------------- MODULE SerialBridge -----------------------------
(***************************************************************************)
(* ros_to_serial.py: three threads of a Python process between /fcu/state  *)
(* and the flight controller.                                              *)
(*                                                                         *)
(*   callback   packs a message into a frame and puts it in a slot         *)
(*   receiver   acts upon the commands of SerialParser: start and stop of  *)
(*              a collection of ring positions, and its mean as the lock   *)
(*   sender     takes the frame from the slot and writes it to the port    *)
(*                                                                         *)
(* Only the slot has a lock.  Every access to another shared field is a    *)
(* step, for the interpreter may switch threads between any two.           *)
(* Positions are in centimetres; a coordinate is <<numerator, divisor>>.   *)
(***************************************************************************)
EXTENDS Integers, Sequences, FiniteSets, TLC

CONSTANTS
  Rings,         \* ring_world of a message, where a ring was seen: <<x, y, z>>
  NoRing,        \* ring_world near the origin: no ring seen yet
  NoFrame,       \* an empty slot
  MinSamples,    \* COLLECT_MIN_SAMPLES
  MaxMsg,        \* bound: messages
  MaxCommand     \* bound: commands

ASSUME BridgeAssumption == MinSamples \in Nat /\ MaxMsg \in Nat /\ MaxCommand \in Nat
ASSUME RingAssumption   == \A r \in Rings : \A axis \in 1 .. 3 : r[axis] \in Int
ASSUME FrameAssumption  == NoFrame \notin [no : Nat, live : BOOLEAN]

Unlocked == <<>>   \* no _locked_ring

VARIABLES
  cPc, msg, packed,               \* callback: place, message, lock it packs
  collecting, ringBuf, locked,    \* _collecting, _ring_buf, _locked_ring
  rPc, n, copies,                 \* receiver: place, n, xs ys zs so far
  slot, sPc, frame,               \* _latest_frame; sender: place, frame
  tried,                          \* the last frame given to ser.write
  open,                           \* the port is open and the loops run
  msgs, commands, started         \* history: messages, commands, the messages
                                  \* before the last start

callbackVars == <<cPc, msg, packed>>
ringVars     == <<collecting, ringBuf, locked>>
receiverVars == <<rPc, n, copies>>
senderVars   == <<slot, sPc, frame, tried>>
history      == <<commands, started>>
vars == <<callbackVars, ringVars, receiverVars, senderVars, open, msgs, history>>

Init ==
  /\ cPc = "idle" /\ msg = [no |-> 0, ring |-> NoRing] /\ packed = Unlocked
  /\ collecting = FALSE /\ ringBuf = <<>> /\ locked = Unlocked
  /\ rPc = "read" /\ n = 0 /\ copies = <<>>
  /\ slot = NoFrame /\ sPc = "wait" /\ frame = NoFrame
  /\ tried = [no |-> 0, live |-> TRUE]
  /\ open = TRUE
  /\ msgs = 0 /\ commands = 0 /\ started = 0

-----------------------------------------------------------------------------
(* The callback.                                                           *)

Message(r) ==
  /\ cPc = "idle" /\ open /\ msgs < MaxMsg
  /\ msgs' = msgs + 1
  /\ msg' = [no |-> msgs + 1, ring |-> r]
  /\ cPc' = "collect"
  /\ UNCHANGED <<packed, ringVars, receiverVars, senderVars, open, history>>

CheckCollecting ==
  /\ cPc = "collect"
  /\ cPc' = IF collecting /\ msg.ring # NoRing THEN "append" ELSE "pack"
  /\ UNCHANGED <<msg, packed, ringVars, receiverVars, senderVars, open, msgs, history>>

Collect ==
  /\ cPc = "append"
  /\ ringBuf' = Append(ringBuf, msg)
  /\ cPc' = "pack"
  /\ UNCHANGED <<msg, packed, collecting, locked, receiverVars, senderVars, open, msgs, history>>

\* The lock is taken if there is one, the message's ring otherwise.
Pack ==
  /\ cPc = "pack"
  /\ packed' = locked
  /\ cPc' = "put"
  /\ UNCHANGED <<msg, ringVars, receiverVars, senderVars, open, msgs, history>>

\* The slot has one place; a frame in it is replaced.  The notification ends a
\* wait, which WaitFrame below may leave at any time.
PutFrame ==
  /\ cPc = "put"
  /\ slot' = [no |-> msg.no, live |-> packed = Unlocked]
  /\ packed' = Unlocked
  /\ cPc' = "idle"
  /\ UNCHANGED <<msg, ringVars, receiverVars, sPc, frame, tried, open, msgs, history>>

-----------------------------------------------------------------------------
(* The receiver.                                                           *)

Command ==
  /\ rPc = "read" /\ open /\ commands < MaxCommand
  /\ commands' = commands + 1

\* Variant: a new collection gives up the lock of the one before.
StartCollectUnlocks ==
  /\ Command
  /\ collecting' = TRUE
  /\ locked' = Unlocked
  /\ rPc' = "clear"
  /\ UNCHANGED <<callbackVars, ringBuf, n, copies, senderVars, open, msgs, started>>

StartCollect ==
  /\ Command
  /\ collecting' = TRUE
  /\ rPc' = "clear"
  /\ UNCHANGED <<callbackVars, ringBuf, locked, n, copies, senderVars, open, msgs, started>>

\* Variant: the samples of the last collection stay.
ClearBufferNot ==
  /\ rPc = "clear"
  /\ started' = msgs
  /\ rPc' = "read"
  /\ UNCHANGED <<callbackVars, ringVars, n, copies, senderVars, open, msgs, commands>>

ClearBuffer ==
  /\ rPc = "clear"
  /\ ringBuf' = <<>>
  /\ started' = msgs
  /\ rPc' = "read"
  /\ UNCHANGED <<callbackVars, collecting, locked, n, copies, senderVars, open, msgs, commands>>

StopCollect ==
  /\ Command
  /\ collecting' = FALSE
  /\ rPc' = "count"
  /\ UNCHANGED <<callbackVars, ringBuf, locked, n, copies, senderVars, open, msgs, started>>

\* A collection without samples leaves everything as it is.
Count ==
  /\ rPc = "count"
  /\ n' = Len(ringBuf)
  /\ copies' = <<>>
  /\ rPc' = IF ringBuf = <<>> THEN "read" ELSE "copy"
  /\ UNCHANGED <<callbackVars, ringVars, senderVars, open, msgs, history>>

\* xs, then ys, then zs, each a copy of the buffer as it is by then.
Copy ==
  /\ rPc = "copy"
  /\ LET axis == Len(copies) + 1 IN
       /\ copies' = Append(copies, [i \in 1 .. Len(ringBuf) |-> ringBuf[i].ring[axis]])
       /\ rPc' = IF axis = 3 THEN "lock" ELSE "copy"
  /\ UNCHANGED <<callbackVars, ringVars, n, senderVars, open, msgs, history>>

\* The sum of the values at some places of a list.
Total(vals, kept) ==
  LET sum[k \in 0 .. Len(vals)] ==
        IF k = 0 THEN 0 ELSE IF k \in kept THEN sum[k - 1] + vals[k] ELSE sum[k - 1]
  IN  sum[Len(vals)]

Distance(a, b) == IF a < b THEN b - a ELSE a - b
Median(vals)   == SortSeq(vals, LAMBDA a, b : a < b)[(n \div 2) + 1]

\* The places of the values within 20 % and 1 cm of the median.
Kept(vals) ==
  LET med == Median(vals)
  IN  {i \in 1 .. Len(vals) : 5 * Distance(vals[i], med) <= Distance(med, 0) + 5}

\* Variant: the sum of the kept values is divided by the number of all.
TrimmedMeanOfAll(vals) == <<Total(vals, Kept(vals)), n>>

\* The mean of the kept values.
TrimmedMean(vals) == <<Total(vals, Kept(vals)), Cardinality(Kept(vals))>>

LockRing ==
  /\ rPc = "lock"
  /\ locked' = [axis \in 1 .. 3 |->
                  IF n >= MinSamples THEN TrimmedMean(copies[axis])
                                     ELSE <<Total(copies[axis], DOMAIN copies[axis]), n>>]
  /\ rPc' = "read"
  /\ UNCHANGED <<callbackVars, collecting, ringBuf, n, copies, senderVars, open, msgs, history>>

-----------------------------------------------------------------------------
(* The sender.                                                             *)

\* Variant: the frame stays in the slot.
WaitFrameKeep ==
  /\ sPc = "wait" /\ open
  /\ frame' = slot
  /\ sPc' = IF slot = NoFrame THEN "wait" ELSE "write"
  /\ UNCHANGED <<callbackVars, ringVars, receiverVars, slot, tried, open, msgs, history>>

\* The wait ends by a notification or after 0.1 s; either way the slot is
\* emptied, under the lock.
WaitFrame ==
  /\ sPc = "wait" /\ open
  /\ frame' = slot /\ slot' = NoFrame
  /\ sPc' = IF slot = NoFrame THEN "wait" ELSE "write"
  /\ UNCHANGED <<callbackVars, ringVars, receiverVars, tried, open, msgs, history>>

\* Variant: the slot is emptied after the write instead of before it.
WriteClears ==
  /\ sPc = "write"
  /\ tried' = frame
  /\ frame' = NoFrame /\ slot' = NoFrame
  /\ sPc' = "wait"
  /\ UNCHANGED <<callbackVars, ringVars, receiverVars, open, msgs, history>>

\* The write is tried once; a failure is logged and the frame is gone.
Write ==
  /\ sPc = "write"
  /\ tried' = frame
  /\ frame' = NoFrame
  /\ sPc' = "wait"
  /\ UNCHANGED <<callbackVars, ringVars, receiverVars, slot, open, msgs, history>>

-----------------------------------------------------------------------------
\* The loops end at their next turn, and no callback is called any more.
CloseSerial ==
  /\ open /\ cPc = "idle"
  /\ open' = FALSE
  /\ UNCHANGED <<callbackVars, ringVars, receiverVars, senderVars, msgs, history>>

Callback == CheckCollecting \/ Collect \/ Pack \/ PutFrame
Receiver == ClearBuffer \/ Count \/ Copy \/ LockRing
Sender   == WaitFrame \/ Write

Next ==
  \/ \E r \in Rings \cup {NoRing} : Message(r)
  \/ Callback
  \/ StartCollect \/ StopCollect \/ Receiver
  \/ Sender
  \/ CloseSerial

Spec == Init /\ [][Next]_vars

\* The interpreter gives each of its threads a turn.  Messages and commands
\* need not come.
FairSpec == Spec /\ WF_vars(Callback) /\ WF_vars(Receiver) /\ WF_vars(Sender)

-----------------------------------------------------------------------------
(* Properties.                                                             *)

\* Frames are written in the order of their messages and none is written twice,
\* though the slot is overwritten while the sender writes.
SentInOrder == [][tried' # tried \/ (sPc = "write" /\ sPc' = "wait") => tried'.no > tried.no]_vars

\* Once the flight controller has been sent a locked ring it is sent no live
\* one again, whatever it commands: a frame in the slot or in the sender's hand
\* cannot undo the lock.
NoFallback == [][~tried.live => ~tried'.live]_vars

\* At most one sample of a collection is of a message that arrived before its
\* start: the one whose callback had passed the test of _collecting.
OneStaleSample ==
  rPc # "clear" =>
    \A i, j \in 1 .. Len(ringBuf) :
      ringBuf[i].no <= started /\ ringBuf[j].no <= started => i = j

\* With enough samples the coordinates of a lock lie between those of its
\* samples, although the callback may add one while the receiver copies them
\* axis by axis.  With fewer it is not so: line 268 divides by a count that was
\* read before the copies.
TrimmedLockWithin ==
  n >= MinSamples /\ locked # Unlocked /\ Len(copies) = 3 /\ rPc # "lock" =>
    \A axis \in 1 .. 3 :
      /\ \E i \in 1 .. Len(copies[axis]) : copies[axis][i] * locked[axis][2] <= locked[axis][1]
      /\ \E i \in 1 .. Len(copies[axis]) : copies[axis][i] * locked[axis][2] >= locked[axis][1]

\* The newest message reaches the port whenever the messages pause: its frame is
\* not left behind in the slot, unless the port is closed.
LatestIsSent == []<>(tried.no = msgs \/ ~open)
=============================================================================
