------------------------------- MODULE MCScans -------------------------------
(***************************************************************************)
(* The way of a scan through FAST-LIO for TLC: points are taken from the   *)
(* message, scans and IMU samples are brought together, the filter is      *)
(* updated.  What one hands to the next is open in the next, so every      *)
(* behaviour runs one of them.                                             *)
(***************************************************************************)
EXTENDS LioSync

CONSTANTS
  PointFilterNum, GroupSize, Blind, Turn, LinePoints, ScanPoints,
  Points, MaxIteration, MaxUpdates

VARIABLES
  part,                                                                 \* the one that runs
  handler, stage, message, ftype, point, lastPlane, lastSurface, surf, corn, times,\* Preprocess
  current, iteration, converge, converged, moves, covariance, searched, selected, near, plane, inserted, settled  \* IteratedUpdate

Pre    == INSTANCE Preprocess WITH cloud <- message, i <- point
Update == INSTANCE IteratedUpdate WITH MaxScans <- MaxUpdates, scan <- current

ASSUME PointsAssumption == Pre!PreAssumption

preVars    == <<handler, stage, message, ftype, point, lastPlane, lastSurface, surf, corn, times>>
updateVars == <<current, iteration, converge, converged, moves, covariance, searched, selected, near, plane, inserted, settled>>

\* A message for the behaviours of the other parts.
OneMessage == CHOOSE c \in Pre!TurnClouds : TRUE

AllInit ==
  /\ part \in {"message", "sync", "update"}
  /\ Init /\ Update!Init /\ Pre!Init
  /\ part # "message" => handler = "mid360" /\ message = OneMessage

AllNext ==
  /\ UNCHANGED part
  /\ \/ part = "message" /\ Pre!Next /\ UNCHANGED <<vars, updateVars>>
     \/ part = "sync" /\ Next /\ UNCHANGED <<preVars, updateVars>>
     \/ part = "update" /\ Update!Next /\ UNCHANGED <<vars, preVars>>

AllSpec == AllInit /\ [][AllNext]_<<part, vars, preVars, updateVars>>

-----------------------------------------------------------------------------
\* No plane is lost between the points that are looked at.
EveryPlaneCounts == Pre!EveryPlaneCounts

\* A step of the update uses neighbours of its scan, as recent as the steps asked for.
NeighboursAreRecent == Update!NeighboursAreRecent

\* The covariance handed on belongs to the state handed on.
CovarianceFollowsState == Update!CovarianceFollowsState
=============================================================================
