--------------------------- MODULE IteratedUpdate ---------------------------
(***************************************************************************)
(* The update of FAST-LIO with one scan after the other: the iterations of *)
(* update_iterated_dyn_share_modified, each with a call of h_share_model,  *)
(* and the use map_incremental makes of the neighbours that were found.    *)
(*                                                                         *)
(* The state is a number that grows whenever it moves.  What the map       *)
(* answers depends on the state alone: which points have neighbours near   *)
(* enough, and which lie on a plane through those they have; both are open *)
(* after every move.  Nearest_Points and point_selected_surf outlive the   *)
(* scan, dyn_share does not.                                               *)
(***************************************************************************)
EXTENDS Integers, FiniteSets

CONSTANTS
  Points,            \* indices of feats_down_body
  MaxIteration,      \* NUM_MAX_ITERATIONS
  MaxScans           \* bound: scans

VARIABLES
  scan,              \* the scans so far
  iteration,         \* i of the loop; MaxIteration when it has ended
  converge,          \* dyn_share.converge
  converged,         \* t
  moves,             \* the moves of the state in this scan
  covariance,        \* P_: "propagated", "projected" along with a move, or "updated"
  searched,          \* Nearest_Points[p]: the scan and the state it was searched for
  selected,          \* point_selected_surf
  near, plane,       \* what the map answers for the present state
  inserted,          \* the scan whose points are in the map
  settled            \* history: the state after the last step within the limits

vars == <<scan, iteration, converge, converged, moves, covariance, searched, selected, near, plane, inserted, settled>>

Ended == iteration = MaxIteration

Init ==
  /\ scan = 0 /\ inserted = 0
  /\ iteration = MaxIteration
  /\ converge = FALSE /\ converged = 0
  /\ moves = 0 /\ covariance = "propagated"
  /\ searched = [p \in Points |-> <<0, 0>>]
  /\ selected = Points                       \* memset(point_selected_surf, true, ...)
  /\ near = {} /\ plane = {} /\ settled = 0

Answers == near' \in SUBSET Points /\ plane' \in SUBSET Points

-----------------------------------------------------------------------------
\* The next scan was propagated and has enough points; dyn_share is set up anew.
Begin ==
  /\ Ended /\ scan < MaxScans /\ scan = inserted
  /\ scan' = scan + 1
  /\ iteration' = -1
  /\ converge' = TRUE /\ converged' = 0
  /\ moves' = 0 /\ covariance' = "propagated" /\ settled' = 0
  /\ Answers
  /\ UNCHANGED <<searched, selected, inserted>>

\* h_share_model: new neighbours for all points if the last step converged, residuals for
\* those selected points that lie on a plane.
HShareModel ==
  /\ searched' = IF converge THEN [p \in Points |-> <<scan, moves>>] ELSE searched
  /\ selected' = (IF converge THEN near ELSE selected) \cap plane

\* No residual: the iteration is left at once, whatever it is.
NoEffectivePoints ==
  /\ ~Ended /\ HShareModel /\ selected' = {}
  /\ iteration' = iteration + 1
  /\ UNCHANGED <<scan, converge, converged, moves, covariance, near, plane, inserted, settled>>

\* The gain and the step: the covariance propagated is projected along.
Move == moves' = moves + 1 /\ Answers

\* Whether the step was within the limits; if none was, the last but the iteration given
\* asks for a search.
ConvergeBefore(last) ==
  \E small \in BOOLEAN :
    /\ converged' = IF small THEN converged + 1 ELSE converged
    /\ converge' = (small \/ (converged' = 0 /\ iteration = last - 1))
    /\ settled' = IF small THEN moves' ELSE settled
\* ConvergeLate has the bound one too far.
ConvergeLate == ConvergeBefore(MaxIteration)
Converge     == ConvergeBefore(MaxIteration - 1)

\* The second step within the limits and the last one update the covariance.
\* FinishLate has the bound one too far.
FinishAt(last) ==
  IF converged' > 1 \/ iteration = last
  THEN covariance' = "updated" /\ iteration' = MaxIteration
  ELSE covariance' = "projected" /\ iteration' = iteration + 1
FinishLate == FinishAt(MaxIteration)
Finish     == FinishAt(MaxIteration - 1)

Step ==
  /\ ~Ended /\ HShareModel /\ selected' # {}
  /\ Move /\ Converge /\ Finish
  /\ UNCHANGED <<scan, inserted>>

\* map_incremental takes the points near which the map has none, or none closer to the
\* middle of their voxel, by the neighbours that were found; the map is another after it.
MapIncremental ==
  /\ Ended /\ inserted # scan
  /\ inserted' = scan
  /\ UNCHANGED <<scan, iteration, converge, converged, moves, covariance, searched, selected, near, plane, settled>>

Next == Begin \/ NoEffectivePoints \/ Step \/ MapIncremental

Spec == Init /\ [][Next]_vars

-----------------------------------------------------------------------------
\* A step is computed with neighbours that were searched for this scan, none of them left by
\* another scan at the same index, and not before the last step that was within the limits; if
\* no step ever was, the last one is computed with those of the state it starts from.  What is
\* inserted is chosen by neighbours of this scan.  The flag that asks for a search is set in
\* three places, and an iteration without residuals skips two of them.
NeighboursAreRecent ==
  [][/\ moves' > moves => \A p \in Points :
          /\ searched'[p][1] = scan /\ searched'[p][2] >= settled
          /\ iteration = MaxIteration - 1 /\ converged = 0 => searched'[p][2] = moves
     /\ inserted' # inserted => \A p \in Points : searched[p][1] = scan]_vars

\* The state and its covariance are updated together: unless the points ran out on the
\* way, the covariance is updated if the state has moved and stays propagated if not.
CovarianceFollowsState ==
  Ended /\ scan # inserted =>
    /\ covariance = "propagated" <=> moves = 0
    /\ covariance = "projected" => selected = {}
    /\ covariance = "updated" => selected # {}
=============================================================================
