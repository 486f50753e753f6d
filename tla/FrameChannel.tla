---------------------------- MODULE FrameChannel ----------------------------
(***************************************************************************)
(* What PubHandler promises: the points of a lidar are published in        *)
(* frames, each point once and in the order of arrival, and a frame        *)
(* carries all points of a lidar up to some point.                         *)
(***************************************************************************)
EXTENDS Integers, Sequences

CONSTANTS
  Lidars,        \* the lidars that send points
  Point          \* the points

VARIABLES
  pending,       \* per lidar, the points that arrived and were not published
  shown          \* the last frame: the points of each lidar it carries

chanVars == <<pending, shown>>

Init ==
  /\ pending = [l \in Lidars |-> <<>>]
  /\ shown = [l \in {} |-> <<>>]

Send(l, p) ==
  /\ pending' = [pending EXCEPT ![l] = Append(@, p)]
  /\ UNCHANGED shown

\* A frame takes the n[l] oldest points of each of its lidars.
Show(n) ==
  /\ \A l \in DOMAIN n : n[l] \in 1 .. Len(pending[l])
  /\ shown' = [l \in DOMAIN n |-> SubSeq(pending[l], 1, n[l])]
  /\ pending' = [l \in Lidars |->
       IF l \in DOMAIN n THEN SubSeq(pending[l], n[l] + 1, Len(pending[l])) ELSE pending[l]]

\* What a step sends or shows is read off its result: there is one way to do each.
Next ==
  \/ \E l \in Lidars :
       LET q == pending'[l] IN
       /\ q # <<>> /\ q[Len(q)] \in Point
       /\ Send(l, q[Len(q)])
  \/ Show([l \in DOMAIN shown' |-> Len(shown'[l])])

Spec == Init /\ [][Next]_chanVars
=============================================================================
