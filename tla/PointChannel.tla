---------------------------- MODULE PointChannel ----------------------------
(***************************************************************************)
(* What the point path of the Livox driver promises to its subscribers:    *)
(* each lidar has a bounded FIFO of whole frames; a frame is published     *)
(* once, in the order of acceptance, or is discarded because it holds no   *)
(* point.  The channel may hold one frame more than the ring buffer: the   *)
(* one the poll thread has popped and not yet published.                   *)
(***************************************************************************)
EXTENDS Integers, Sequences

CONSTANTS
  Lidars,        \* indices of the lidars
  Packet,        \* the frames a lidar can deliver
  EmptyPacket,   \* the frames that hold no point
  Capacity       \* most frames a lidar's channel holds

VARIABLES
  pending,       \* per lidar, the accepted frames not yet published
  out            \* the last frame published, with its lidar; <<>> at first

chanVars == <<pending, out>>

Init ==
  /\ pending = [l \in Lidars |-> <<>>]
  /\ out = <<>>

\* A frame the ring buffer has room for enters the channel.
Accept(l, p) ==
  /\ Len(pending[l]) < Capacity
  /\ pending' = [pending EXCEPT ![l] = Append(@, p)]
  /\ UNCHANGED out

\* The oldest frame of a lidar is published.
Deliver(l) ==
  /\ pending[l] # <<>>
  /\ Head(pending[l]) \notin EmptyPacket
  /\ pending' = [pending EXCEPT ![l] = Tail(@)]
  /\ out' = <<l, Head(pending[l])>>

\* The oldest frame holds no point and is dropped.
Discard(l) ==
  /\ pending[l] # <<>>
  /\ Head(pending[l]) \in EmptyPacket
  /\ pending' = [pending EXCEPT ![l] = Tail(@)]
  /\ UNCHANGED out

Next ==
  \E l \in Lidars :
    \/ \E p \in Packet : Accept(l, p)
    \/ Deliver(l)
    \/ Discard(l)

Spec == Init /\ [][Next]_chanVars
=============================================================================
