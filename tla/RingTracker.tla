----------------------------- MODULE RingTracker -----------------------------
(***************************************************************************)
(* cloud_filter_node.cpp and shape_detect_node.cpp: a filtered scan joins  *)
(* the frames of the last accumulate_window_ seconds, all are moved to the *)
(* drone's present pose and merged, rings are looked for in what results,  *)
(* and a ring is published once it was seen confirm_frames_ times.  One    *)
(* thread spins: a callback is one step.                                   *)
(*                                                                         *)
(* One axis stands for three, in decimetres.  A cloud is a set of          *)
(* coordinates; how its points cluster and which clusters pass for a ring  *)
(* is any choice among them.  Means are rounded down.                      *)
(***************************************************************************)
EXTENDS Integers, Sequences, FiniteSets, SequencesExt

CONSTANTS
  World,           \* where the points of the world are
  Poses,           \* where the drone may be
  Window,          \* accumulate_window_
  FastWindow,      \* WIN_FAST of merge_buffer
  RoiMin, RoiMax,  \* x_min_ and x_max_ of cloud_filter_node
  WorldMin, WorldMax,  \* world_x_min_ and world_x_max_
  TemporalTol,     \* temporal_tol_
  ConfirmFrames,   \* confirm_frames_
  StaleFrames,     \* stale_frames_
  MaxTime,         \* bound: time
  MaxRings,        \* bound: rings seen in one frame
  NoRing           \* nothing published

VARIABLES
  now,         \* now() of the node
  truth,       \* where the drone is
  pose,        \* latest_pose_, at the origin before the first message
  hasPose,     \* has_pose_
  fast,        \* angular_speed_ > ROT_FAST
  buffer,      \* buffer_: cloud, pose and stamp of the frames; history: whether the pose was true
  tracked,     \* tracked_: centre, hits and misses; history: the sightings, newest last
  merged,      \* last message on /lidox/merged_cloud; history: whether all its poses were true
  ring         \* last message on /lidox/ring_center: the track published

inputs == <<now, truth, pose, hasPose, fast>>
vars   == <<inputs, buffer, tracked, merged, ring>>

Init ==
  /\ now = 0 /\ truth \in Poses
  /\ pose = 0 /\ hasPose = FALSE /\ fast = FALSE
  /\ buffer = <<>> /\ tracked = <<>>
  /\ merged = [cloud |-> {}, base |-> 0, exact |-> TRUE]
  /\ ring = NoRing

\* The drone moves and time passes.
Move ==
  /\ now < MaxTime
  /\ now' = now + 1
  /\ truth' \in Poses
  /\ UNCHANGED <<pose, hasPose, fast, buffer, tracked, merged, ring>>

OnOdom ==
  /\ pose' = truth /\ hasPose' = TRUE
  /\ UNCHANGED <<now, truth, fast, buffer, tracked, merged, ring>>

OnImu ==
  /\ fast' \in BOOLEAN
  /\ UNCHANGED <<now, truth, pose, hasPose, buffer, tracked, merged, ring>>

-----------------------------------------------------------------------------
(* The cloud: filter, window, merge.                                       *)

\* cloud_callback of cloud_filter_node: the box around the drone; the voxel
\* grid and the outlier filter may drop any more of the points.
FilteredClouds == SUBSET {x \in {w - truth : w \in World} : RoiMin <= x /\ x <= RoiMax} \ {{}}

\* The new frame takes the latest pose; from the front, frames older than the
\* window leave.
Pushed(cloud) ==
  LET frames == Append(buffer, [cloud |-> cloud, pose |-> pose, stamp |-> now, exact |-> hasPose /\ pose = truth])
      Young(k) == now - frames[k].stamp <= Window
      first == CHOOSE k \in 1 .. Len(frames) : Young(k) /\ \A j \in 1 .. k - 1 : ~Young(j)
  IN SubSeq(frames, first, Len(frames))

\* Variant: the frames are moved by the inverse shift.
MergeInverse(frames) ==
  LET latest == Last(frames)
      cutoff == latest.stamp - IF fast THEN FastWindow ELSE Window
      Moved(f) == IF hasPose /\ f # latest THEN {x + latest.pose - f.pose : x \in f.cloud} ELSE f.cloud
      used == {f \in Range(frames) : f.stamp >= cutoff}
  IN [cloud |-> UNION {Moved(f) : f \in used}, base |-> latest.pose, exact |-> \A f \in used : f.exact]

\* merge_buffer: the frames since the cutoff, moved to the pose of the latest.
Merge(frames) ==
  LET latest == Last(frames)
      cutoff == latest.stamp - IF fast THEN FastWindow ELSE Window
      Moved(f) == IF hasPose /\ f # latest THEN {x + f.pose - latest.pose : x \in f.cloud} ELSE f.cloud
      used == {f \in Range(frames) : f.stamp >= cutoff}
  IN [cloud |-> UNION {Moved(f) : f \in used}, base |-> latest.pose, exact |-> \A f \in used : f.exact]

\* The box in the world, once there is a pose.
InWorldBox(cloud) ==
  IF hasPose THEN {x \in cloud : WorldMin <= x + pose /\ x + pose <= WorldMax} ELSE cloud

-----------------------------------------------------------------------------
(* Rings: detection, tracks, confirmation.                                 *)

\* The centres detect_and_publish may find in a cloud, cluster after cluster.
Sightings(cloud) == UNION {[1 .. n -> cloud] : n \in 0 .. MaxRings}

Abs(x) == IF x < 0 THEN -x ELSE x

\* The unused centre nearest to a track, 0 if none is near enough.
Nearest(track, centers, used) ==
  LET near == {i \in DOMAIN centers \ used : Abs(track.center - centers[i]) < TemporalTol}
      Dist(i) == Abs(track.center - centers[i])
      Closer(i, j) == Dist(i) <= Dist(j) /\ (Dist(i) = Dist(j) => i <= j)
  IN IF near = {} THEN 0 ELSE CHOOSE i \in near : \A j \in near : Closer(i, j)

\* The tracks take their centres in turn, each centre at most once.
Matches(centers) ==
  LET match[k \in 0 .. Len(tracked)] ==
        IF k = 0 THEN <<>>
        ELSE Append(match[k - 1], Nearest(tracked[k], centers, Range(match[k - 1])))
  IN match[Len(tracked)]

\* Variant: the centre is drawn past the one seen.
SeenOvershoots(track, center) ==
  [track EXCEPT !.center = (-7 * @ + 17 * center) \div 10, !.hits = @ + 1, !.misses = 0, !.seen = Append(@, [at |-> center, ago |-> 0])]

Seen(track, center) ==
  [track EXCEPT !.center = (7 * @ + 3 * center) \div 10, !.hits = @ + 1, !.misses = 0,
                !.seen = Append(@, [at |-> center, ago |-> 0])]

Missed(track) == [track EXCEPT !.misses = @ + 1]
Older(track)  == [track EXCEPT !.seen = [i \in DOMAIN @ |-> [at |-> @[i].at, ago |-> @[i].ago + 1]]]

Kept(track) == track.misses < StaleFrames

\* remove_if: what is kept of a list, in its order.
Selected(list, kept) ==
  LET chosen[k \in 0 .. Len(list)] ==
        IF k = 0 THEN <<>>
        ELSE IF k \in kept THEN Append(chosen[k - 1], list[k]) ELSE chosen[k - 1]
  IN chosen[Len(list)]

\* update_tracked_rings.
Updated(centers) ==
  LET match == Matches(centers)
      Step(k) == IF match[k] = 0 THEN Missed(Older(tracked[k])) ELSE Seen(Older(tracked[k]), centers[match[k]])
      New(i) == [center |-> centers[i], hits |-> 1, misses |-> 0, seen |-> <<[at |-> centers[i], ago |-> 0]>>]
      old == Len(tracked)
      all == [k \in 1 .. old + Len(centers) |-> IF k <= old THEN Step(k) ELSE New(k - old)]
      unused == 1 .. old + Len(centers) \ {old + match[k] : k \in {j \in DOMAIN match : match[j] # 0}}
  IN Selected(all, {k \in unused : Kept(all[k])})

\* publish_confirmed_ring: of the confirmed tracks the first with most hits.
Confirmed(tracks) ==
  LET ok == {k \in DOMAIN tracks : tracks[k].hits >= ConfirmFrames}
      Best(k) == \A j \in ok : tracks[j].hits <= tracks[k].hits /\ (tracks[j].hits = tracks[k].hits => k <= j)
  IN IF ok = {} THEN ring ELSE tracks[CHOOSE k \in ok : Best(k)]

\* detect_and_publish: planes are taken away and the rest is clustered; if no
\* cluster is left the tracks are not looked at.
Detect(cloud) ==
  \/ UNCHANGED <<tracked, ring>>
  \/ \E centers \in Sightings(cloud) :
       /\ tracked' = Updated(centers)
       /\ ring' = Confirmed(Updated(centers))

\* on_cloud as a whole.
OnCloud ==
  /\ buffer # <<>> => Last(buffer).stamp # now      \* bound: a cloud per tick
  /\ \E cloud \in FilteredClouds :
       LET all == Merge(Pushed(cloud))
           box == InWorldBox(all.cloud) IN
       /\ buffer' = Pushed(cloud)
       /\ IF box = {} THEN UNCHANGED <<tracked, merged, ring>>
          ELSE merged' = [all EXCEPT !.cloud = box] /\ Detect(box)
  /\ UNCHANGED inputs

Next == Move \/ OnOdom \/ OnImu \/ OnCloud

Spec == Init /\ [][Next]_vars

-----------------------------------------------------------------------------
(* Properties.                                                             *)

\* Accumulation makes no ghosts: when every merged frame was pushed with the
\* drone's true pose, its points are where the world's points are seen from
\* the newest frame.
NoGhosts == merged.exact => \A x \in merged.cloud : x + merged.base \in World

\* A published ring was seen in confirm_frames_ different frames, the last of
\* them less than stale_frames_ frames with clusters ago, and lies between its
\* sightings.
ConfirmedIsSeen ==
  ring # NoRing =>
    /\ Cardinality({s.ago : s \in Range(ring.seen)}) >= ConfirmFrames
    /\ Last(ring.seen).ago < StaleFrames
    /\ \E s, t \in Range(ring.seen) : s.at <= ring.center /\ ring.center <= t.at
=============================================================================
