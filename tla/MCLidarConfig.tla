--------------------------- MODULE MCLidarConfig ---------------------------
(* LidarConfig for TLC with two lidars that may reappear while configured. *)
EXTENDS LidarConfig, TLC

CONSTANT l1

\* A lidar with one key.
OneKey == l1 :> {"BlindSpot"}
=============================================================================
