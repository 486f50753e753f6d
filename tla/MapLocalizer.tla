---------------------------- MODULE MapLocalizer ----------------------------
(***************************************************************************)
(* map_localizer.cpp: each scan FAST-LIO has registered is aligned with a  *)
(* saved map, and the last odometry is published, corrected by what ICP    *)
(* found, with the header of the scan.  Nothing matches the two messages   *)
(* by their stamps (nor does cloudCallback of sc_pgo_node, lines 109-112): *)
(* how far apart they may be depends on the order of the callbacks alone.  *)
(*                                                                         *)
(* FAST-LIO publishes odometry n, then cloud n.  A subscription keeps the  *)
(* last Depth messages.  The executor (external) gathers the subscriptions *)
(* that have a message, then takes one message for each, in the order in   *)
(* which they were created, and runs the callback.  That of a scan takes   *)
(* as long as ICP does; while that of an odometry runs at most one message *)
(* arrives.                                                                *)
(***************************************************************************)
EXTENDS Integers, Sequences

CONSTANTS
  Depth,      \* depth of the two subscriptions (10)
  MaxScans,   \* bound: scans published
  Never       \* no message yet

VARIABLES
  mapReady,    \* map_ready_: the map was loaded, the subscriptions exist
  odoms,       \* number of odometries published; the clouds are level or one behind
  clouds,
  odomQueue, cloudQueue,  \* what the subscriptions hold: numbers of messages
  round,       \* subscriptions whose turn is still to come
  running,     \* a callback runs that is "slow" or "quick", or is nearly "over"; or "none" does
  latest,      \* latest_odom_; Never before has_odom_
  localized    \* last message on /localized_odometry

published == <<odoms, clouds>>
vars == <<mapReady, published, odomQueue, cloudQueue, round, running, latest, localized>>

Init ==
  /\ mapReady \in BOOLEAN
  /\ odoms = 0 /\ clouds = 0
  /\ odomQueue = <<>> /\ cloudQueue = <<>>
  /\ round = {} /\ running = "slow"
  /\ latest = Never /\ localized = Never

Queues     == [odom |-> odomQueue, cloud |-> cloudQueue]
Waiting    == {s \in DOMAIN Queues : Queues[s] # <<>>}

\* The subscriptions in the order of their creation, lines 64 and 67.
TurnSwapped == IF "cloud" \in round THEN "cloud" ELSE "odom"
Turn        == IF "odom" \in round THEN "odom" ELSE "cloud"

\* KEEP_LAST: the oldest message makes room.
Kept(queue, depth, n) ==
  LET longer == Append(queue, n) IN
    IF Len(longer) > depth THEN Tail(longer) ELSE longer
OdomKept(n)  == IF mapReady THEN Kept(odomQueue, Depth, n) ELSE <<>>
CloudKept(n) == IF mapReady THEN Kept(cloudQueue, Depth, n) ELSE <<>>

Passed  == IF running = "quick" THEN "over" ELSE running

PublishOdometry ==
  /\ running \in {"slow", "quick"} /\ odoms = clouds /\ odoms < MaxScans
  /\ odoms' = odoms + 1
  /\ odomQueue' = OdomKept(odoms')
  /\ running' = Passed
  /\ UNCHANGED <<mapReady, clouds, cloudQueue, round, latest, localized>>

PublishCloud ==
  /\ running \in {"slow", "quick"} /\ clouds < odoms
  /\ clouds' = clouds + 1
  /\ cloudQueue' = CloudKept(clouds')
  /\ running' = Passed
  /\ UNCHANGED <<mapReady, odoms, odomQueue, round, latest, localized>>

\* The callback that ran returns; a round that is over is followed by the next.
Return ==
  /\ running # "none" /\ round \cup Waiting # {}
  /\ running' = "none"
  /\ round' = IF round = {} THEN Waiting ELSE round
  /\ UNCHANGED <<mapReady, published, odomQueue, cloudQueue, latest, localized>>

OdomCallback ==
  /\ running = "none" /\ Turn = "odom"
  /\ latest' = Head(odomQueue)
  /\ odomQueue' = Tail(odomQueue)
  /\ round' = round \ {"odom"} /\ running' = "quick"
  /\ UNCHANGED <<mapReady, published, cloudQueue, localized>>

\* Whether the scan has min_scan_points and ICP converges well is open.
CloudCallback(enough, aligned) ==
  /\ running = "none" /\ Turn = "cloud"
  /\ localized' = IF latest = Never \/ ~enough THEN localized
                  ELSE [scan |-> Head(cloudQueue), odom |-> latest, corrected |-> aligned]
  /\ cloudQueue' = Tail(cloudQueue)
  /\ round' = round \ {"cloud"} /\ running' = "slow"
  /\ UNCHANGED <<mapReady, published, odomQueue, latest>>

Next ==
  \/ PublishOdometry \/ PublishCloud \/ Return \/ OdomCallback
  \/ \E enough, aligned \in BOOLEAN : CloudCallback(enough, aligned)

Spec == Init /\ [][Next]_vars

-----------------------------------------------------------------------------
(* The pose that goes out with a scan's header is the scan's own or the    *)
(* next one, never an older, however slow ICP is and however many messages *)
(* are dropped: line 92 takes the latest odometry, line 124 the header.    *)
PairedScan ==
  localized # Never => localized.odom - localized.scan \in 0 .. 1
=============================================================================
