# A specification of the LIVOX_MID360-RDKX5 perception stack

The repository is the software of a drone that carries a Livox MID360 lidar and
an RDK X5 board (ARM, Linux, ROS 2 Humble). It registers the scans into a map,
finds a ring in them, and sends its own position and the ring's to a flight
controller over a serial port, which sends commands back.

```
 MID360 --UDP--> Livox SDK (external)
                    |  callbacks on threads of the SDK
            livox_ros_driver2   PubHandler -> rings of lidars_ -> poll thread
                    |  /livox/lidar, /livox/imu
                    +-------------------------------> lidox_detect (rings)
            FAST_LIO_ROS2       laserMapping,               |
                    |           ImuProcess, ikd-Tree        |
                    |  /Odometry, /cloud_registered         |
      +-------------+------------+                          |
 fastlio_pgo        |       map_localizer                   |
      | /Odometry_scpgo          | /localized_odometry      | /lidox/ring_center
      +-------------+------------+--------------------------+
            fastlio_to_fcu      one thread, five subscriptions
                    |  /fcu/state
            ros_to_serial.py    three threads  --serial--> flight controller
                                               <--------- commands
```

This directory holds TLA+ modules of the parts that carry the system's own
control, TLC configurations that check them on small instances, and proofs for
TLAPS of what matters most. Definitions keep the names of the source; `map` in
PROJECT.json gives the lines each of them stands for. Operators whose comment
begins with "Variant:" are no part of a specification: each is a plausible
mistake in the definition it precedes, and is listed in PROJECT.json under
`mutants` with the property that catches it.

Contents: 1 components, 2 modules and how they correspond to the code, 3 runs,
4 fairness, 5 proofs, 6 where the code disagrees with itself, 7 bounds
and what the models leave out, 8 plan.

## 1. Components

### 1.1 Point path of the driver (`ldq.cpp`, `lds.cpp`, `lds_lidar.cpp`, `lddc.cpp`, `semaphore.cpp`, `driver_node.cpp`)

- State: `lidars_[]`, one ring buffer `LidarDataQueue` per lidar (rd_idx, wr_idx,
  slots), `connect_state`, `pcd_semaphore_`, `request_exit_`, `exit_signal_`.
- Operations: `StoragePointData`/`PushLidarData` on the thread of PubHandler;
  `DistributePointCloudData`, `PollingLidarPointCloudData`, `QueuePop` and the
  publication on the poll thread; the destructor of DriverNode.
- Hard: the rings have no lock at all and the indices are only `volatile`; the
  semaphore's count is read without its mutex; the poll thread waits for a
  semaphore only a push raises, and the destructor joins it.
- Correct if: the rings never overrun, also when the 32-bit indices wrap; no slot
  is read while it is written; no torn packet is published; no wake-up is lost;
  the rings together are FIFO channels; the join returns while a lidar sends.

### 1.2 Registration and configuration of lidars (`livox_lidar_callback.cpp`, `cache_index.cpp`)

- State: the index map of `CacheIndex`; per index `set_bits`, `connect_state`,
  `livox_config`; `config_mutex_`.
- Operations: `LidarInfoChangeCallback` on one thread of the SDK; the callbacks
  of the answers on another. The SDK answers success, timeout or error.
- Hard: bits are set one by one while answers to the first keys may arrive;
  requests time out and are repeated; refusals are not; the index map is read
  without a lock.
- Correct if: Sampling means configured; no key is forgotten; a lidar that can
  be configured becomes Sampling and reaches normal work mode.

### 1.3 Framing (`pub_handler.cpp`, `pub_handler.h`)

- State: `raw_packet_queue_`, `is_timestamp_sync_`, one `LidarPubHandler` with a
  cloud per lidar, the clouds `points_` they are swapped with, `last_pub_time_`.
- Operations: `OnLivoxLidarPointCloudCallback` queues; `RawDataProcess` takes,
  appends, and runs the timer that the last packet received asks for.
- Hard: one flag of all lidars decides how every cloud is cut; buffers are
  swapped, not copied; a cut depends on a stamp falling in one millisecond.
- Correct if: each point is published once and in order; the base time is that
  of the first point; frames follow each other at the interval; Uninit returns.

### 1.4 FAST-LIO, pairing and propagation (`laserMapping.cpp`, `IMU_Processing.hpp`)

- State: `lidar_buffer`, `time_buffer`, `imu_buffer`, `lidar_pushed`,
  `lidar_end_time`, `lidar_mean_scantime`; in ImuProcess `imu_need_init_`,
  `last_lidar_end_time_`, `last_imu_`; the filter; the map tree.
- Operations: two subscriptions and `timer_callback`, all on one spinning thread.
- Hard: samples and scans arrive late, with gaps, or out of step; early returns
  leave results of the previous scan in place.
- Correct if: each scan is undistorted with its own times; each interval is
  propagated once; each scan enters the map at most once; stamps advance.

### 1.5 FAST-LIO, map tree (`ikd_Tree.cpp`, `ikd_Tree.h`)

- State: the k-d tree with its lazily pushed deletions; `Rebuild_Ptr`,
  `rebuild_flag`, `Rebuild_Logger`, `search_mutex_counter`, six mutexes and one in each node.
- Operations: build, add with and without downsampling, delete by box, search;
  rebuilding in place or by a second thread, which works on a copy, repeats the
  operations logged meanwhile, and swaps.
- Hard: everything in that list at once.
- Correct if: the tree holds exactly what was added and not deleted; searches
  keep out of what is replaced; searches are complete; a rebuild is done.

### 1.6 State for the flight controller (`fastlio_to_fcu.cpp`)

- State: last raw, valid and corrected poses; two corrections; stationary count;
  latest ring with its time, its average; `has_imu_`.
- Operations: five subscriptions on one thread.
- Hard: corrections and raw poses come from different times; two watchdogs and a
  smoothing in series.
- Correct if: the published pose never jumps; the averaged ring never leaves the
  bounds once inside.

### 1.7 Serial link (`ros_to_serial.py`)

- State: `_latest_frame` under a lock; `_collecting`, `_ring_buf`,
  `_locked_ring` under none; the buffer of the receiving loop.
- Operations: callback of /fcu/state, receiving loop, sending loop, shutdown.
- Hard: three threads; a noisy line.
- Correct if: a command is acted upon exactly if its frame arrived; frames are
  sent in order; a lock is kept; the lock is the mean of the samples collected.

### 1.8 IMU path of the driver (`lidar_imu_data_queue.cpp`, `lds.cpp`, `lddc.cpp`, `livox_ros_driver2.cpp`)

- State: a list of samples per lidar under a mutex each, `imu_semaphore_`, the life of DriverNode.
- Operations: `StorageImuData` on the SDK's thread; `DistributeImuData` and
  `PublishImuData` on the IMU poll thread; constructor and destructor of DriverNode.
- Hard: the list has no bound; the semaphore's count is read without its mutex;
  the threads start whether or not a source of data came to be.
- Correct if: samples go out in order and once; what gathered while a lidar was
  not Sampling goes out once it is, also if no further sample comes.

### 1.9 Parameters of the driver (`parse_livox_lidar_cfg.cpp`, `parse_cfg_file.cpp`, `lds_lidar.cpp`)

- State: `livox_config` and the index of each lidar, the mounting its points are
  moved by, the values last sent to it.
- Operations: parsing, `InitLdsLidar`, the values sent when a lidar appears.
- Hard: casts to eight bits, lidars listed twice or once too often, unlisted ones.
- Correct if: points are moved by the mounting the lidar was told; documented values arrive.

### 1.10 Preprocessing of scans (`preprocess.cpp`)

- State: types of the points of a line, `last_state`, `last_surface`, the points given out.
- Operations: one handler per lidar type; the loops of `give_feature`.
- Hard: three loops write over one another's types; the last relies on runs of them.
- Correct if: each point of a plane counts once.

### 1.11 Iterated Kalman filter (`esekfom.hpp`, `h_share_model` and `map_incremental` of `laserMapping.cpp`)

- State: the state and its covariance; `Nearest_Points` and `point_selected_surf`,
  which outlive a scan; `dyn_share`, which does not.
- Hard: when neighbours are searched depends on the step before; iterations without
  residuals are left early.
- Correct if: a step uses neighbours of its own scan that are as recent as the steps before asked for; covariance and state go together.

### 1.12 Window of the map (`lasermap_fov_segment`)

- State: `LocalMap_Points`, the boxes to delete, the points of the tree.
- Hard: several axes may move in one scan; whatever is left outside stays for ever.
- Correct if: the tree lies in the window, which reaches beyond what the lidar sees.

### 1.13 Pose graph and Scan Context (`sc_pgo_node.cpp`, `Scancontext.cpp`)

- State: `keyframes_` under kf_mutex_, the graph under graph_mutex_, polar contexts
  with their keys and a tree of keys that is renewed from time to time.
- Operations: callbacks and a timer on the executor's thread, a loop thread;
  makeScancontext, keys, alignment, distance, choice among candidates.
- Hard: poses are read without a lock while the other thread rewrites them; either
  thread may add a node first; angles, bins and shifts must agree on one direction.
- Correct if: factors are what was measured; the graph has one solution; keyframes stay
  put under the loop thread; a place seen from another heading is recognised.

### 1.14 Ring detection (`cloud_filter_node.cpp`, `shape_detect_node.cpp`)

- State: the frames of the last seconds with their poses, the tracks with hits and misses.
- Hard: frames are moved by differences of poses that came late or not at all.
- Correct if: merged frames agree on the world; a published ring was seen often and lately.

### 1.15 Localisation in a saved map (`map_localizer.cpp`)

- State: the latest odometry, two queues of ten messages before the callbacks.
- Hard: nothing pairs a scan with its odometry; ICP takes longer than a scan.
- Correct if: the pose published with a scan is at most one scan off.

### 1.16 Not modelled

| component | why not |
| --- | --- |
| servo of the payload (`servo_control.py`) | stages over PWM on one thread, no state shared with the modules here |
| start-up (`scripts/`, launch files, `service/`) | shell and systemd: what matters is what the system does on retry, which is not in the repository |
| bench tools and tests | interactive, not part of the running system |
| rapidjson, nanoflann, matplotlibcpp, the manifolds of IKFoM_toolkit | vendored; used as they are |

PROJECT.json lists all components with their status, and under `hazards`
every place that is hard to test, with the properties that watch it.

## 2. Modules

| module | models | composed with |
| --- | --- | --- |
| `PointPipe` | 1.1 | refines `PointChannel`; with `ImuPipe` in `MCDelivery`; proofs in `PointPipe_proof` |
| `ImuPipe` | 1.8 | refines `PointChannel`; proofs in `Delivery_proof` |
| `LidarConfig` | 1.2 | instance `MCLidarConfig`, in `MCDriver`; proofs in `Driver_proof` |
| `PubHandler` | 1.3 | refines `FrameChannel`; in `MCDriver`; proofs in `Driver_proof` |
| `DriverParams` | 1.9 | instance `MCDriverParams`, in `MCDriver`; proofs in `Driver_proof` |
| `LioSync` | 1.4 | in `MCScans`; proofs in `Scans_proof` |
| `Preprocess` | 1.10 | in `MCScans`; proofs in `Scans_proof` |
| `IteratedUpdate` | 1.11 | in `MCScans`; proofs in `Scans_proof` |
| `TreeOps` | 1.5, the operations that are logged | used by `IkdTree` and `TreeLaws` |
| `TreeContents` | 1.5, what the tree promises between two calls, and its threads meanwhile | used by `TreeLaws` and `MCMap` |
| `TreeLaws` | 1.5, what the two threads ask of an operation that is done alone | used by `TreeRebuild`; of `IkdTree`, checked in `MCMap` |
| `IkdTree` | 1.5, what the operations do to a tree | gives `TreeRebuild` its operators in `MCMap` |
| `SearchLock` | 1.5, search_mutex_counter | used by `TreeContents` and so by `TreeRebuild`; proofs in `Map_proof` |
| `TreeRebuild` | 1.5, the two threads and the searches | in `MCMap`; proofs in `Map_proof` |
| `MapWindow` | 1.12 | in `MCMap`; proofs in `Map_proof` |
| `PoseGraph` | 1.13, the two threads | in `MCDownstream`; proofs in `PoseGraph_proof` and `Downstream_proof` |
| `ScanContext` | 1.13, the descriptors | in `MCDownstream`; proofs in `Downstream_proof` |
| `RingTracker` | 1.14 | in `MCDownstream`; proofs in `Downstream_proof` |
| `MapLocalizer` | 1.15 | in `MCDownstream`; proofs in `Downstream_proof` |
| `OdomToFcu` | 1.6 | in `MCDownstream`; proofs in `Downstream_proof` |
| `SerialParser` | 1.7, the receiving loop's parser | in `MCSerial`; proofs in `Serial_proof` |
| `SerialBridge` | 1.7, the three threads | in `MCSerial`; proofs in `Serial_proof` |

A module named MC... brings together components that belong to one part of the system and do not
change each other's state. What one hands to the next is any value of its kind in the next, so
nothing is gained by running them side by side, and the product of their states would be
out of reach: a variable chosen at the start says which of them runs, the others stay as they began.
The properties and the fairness are those of the components.

**PointPipe.** Every access to a word that another thread uses is a step. A packet
is two words, its header and its points, so that a half-written one is a state. `Order`
says when the stores of the pushing thread become visible: at once ("sc"), later
in program order ("tso"), later in any order ("arm"). `volatile` does not decide
between them, so all three are behaviours of the source; taking a mutex makes
earlier stores visible. Indices count modulo `QueueSize * Laps`, which stands
for 2^32. Four actors: pushing thread, poll thread, the destructor, and the
thread that declares a lidar Sampling (`BecomeSampling`, LidarConfig's result).
`PointChannel` says what a subscriber may rely on: a bounded FIFO per lidar of
whole frames; the refinement maps the popped packet and the ring to `pending`.

**LidarConfig.** One step per key sent, for an answer may come in between; the lock
is held over those steps. The SDK is external: it keeps a count of unanswered
requests of each kind and answers any of them in any order with success,
timeout, timeout with a null response, or error. `acked` and `gaveUp` are history.

**PubHandler.** The SDK's thread appends to the queue, the process thread checks,
waits (a notification, a spurious wake-up or 500 ms), takes, and processes; the
latter is one step, as all it touches is its own. A point is its stamp; a packet
has one point, or none. `setting` is chosen at the start from `Settings`: which
lidars are synchronised, the interval, whether packets are lost. `FrameChannel`
is the promise: each frame takes the oldest points of some lidars.

**ImuPipe.** The lists have a mutex, so an operation on one is a step; testing, popping and
publishing are three. The constructor may fail to make a source of data and starts the
threads all the same; the destructor then reads a null pointer ("crashed").

**DriverParams.** A config file is a sequence of lines with an ip, or none, and values for some keys;
`Files` are those checked. The casts of the parser are Int8; one length stands for the
six parameters of the mounting, cut to tenths for points of 16 bits as InitLivoxLidar does.

**LioSync.** One action per callback, as one thread spins. Stamps are ticks; a scan
has a span and many, few or no points. `timer_callback` is one action with the
package, the work of ImuProcess and every early return. `LastEnds` are the values
that the uninitialised `last_lidar_end_time_` may hold. A clock may be set back: that of the lidar
where `LoopBack` says so, that of the IMU to any of `Restarts`, which clears the samples that wait (laserMapping.cpp:368-372); the
history `setBack` remembers that they came after that. What the filter computes is
left out; the time to which it has been propagated is kept.

**TreeOps, IkdTree, TreeLaws, SearchLock and TreeRebuild.** A tree is a nested record with the fields of
KD_TREE_NODE that decide anything: sizes, deletion flags, pending push-downs,
range. Points lie on one axis. IkdTree's operators take a tree and return the
tree a call leaves, with the subtrees it wants rebuilt. TreeLaws declares those
operators as constants and states what each does when nothing else happens meanwhile; TreeRebuild
uses them, so that its protocol can be proved about apart from them, and
MCMap hands it IkdTree's and checks that they obey the laws. SearchLock is the counter that searches and the rebuild
thread share. TreeRebuild's steps run
from one lock to the next: an operation descends to the subtree that is being
rebuilt, waits for working_flag_mutex, is applied there and logged, and goes back up; or
it is applied elsewhere in one step, for there the rebuild thread touches nothing.
The rebuild thread locks, flattens, repeats the log, swaps, and climbs. A null
pointer that the code reads ends the process ("crashed").
The history `logged` turns FALSE in three cases in which the code itself
loses track or may do so, each named where it happens, and `ContentsKept` is about the rest:
  1. the log is not empty when a rebuild starts (section 6, first finding of the tree);
  2. an operation is applied without lock or log because the whole tree came to be
     rebuilt after the call's one look at it (ikd_Tree.cpp:513-522);
  3. a subtree is swapped in while its father has a deletion to push down to it: the
     climb (335-346) updates the father and the marked deletion is forgotten.

A subtree that Rebuild_Ptr points at may turn out to be small when an operation is done in it, as sizes can be out of date: the
climb stops at a node that is marked `working_flag` (339). The mapping thread then resets Rebuild_Ptr (843, 1051), whatever
the rebuild thread is doing (`Request`, `ApplyAtEdge`, `ApplyAtRoot`), which may read the null pointer (`ReadNull`).

Before it adds a point with downsampling, the mapping thread searches the cell of the point by range, beside the rebuild thread. That search
asks for no counter. If it comes down to the subtree pointed at (`Route`) it holds search_flag_mutex while it is inside ("rangeIn"),
so that the swap waits for it, and flattening does not. If it begins at the root that is being rebuilt, or copies all points of a node above (1260), it holds
nothing ("free"): then it may still be in the old subtree after the swap ("rangeOld") and after that is freed ("rangeFreed"), and
may end the process there (`ReadFreed`). Its outcome is taken from the tree at its end; as long as nothing has passed by the log the
old and the new subtree hold the same points.

Search for the nearest visits the nearer son first and leaves out a son by the range kept at
it; the heap is a sorted sequence.

**MapWindow.** A scan moves the window along its propagated way, then corrects the pose and adds
points. Lengths are whole numbers, axes a constant. `WindowAssumption` says what the code
relies on: a window wider than two thresholds and a step, and a lidar that does not outrun the margin.
The first fails for config/avia.yaml (range 450, cube 1000) and for the defaults of the parameters
(300, 200), which MapWindow therefore says nothing of.

**Preprocess.** A point is a place (near, at the origin, or one that differs from others), its line, whether
it passes the filters of line and tag, and an angle. The handlers without features are one action; each loop
of give_feature is an action per index. How far a group reaches and whether it is a
plane, a jump or a wire is open where coordinates decide it.

**IteratedUpdate.** The state is a number that grows when it moves; what the map answers is open after
every move. One action per iteration, with the two ways it ends. The history `settled` is the state after the last step within
the limits, the one after which `converge` asks for a search.

**ScanContext.** Points lie on a grid, angles count in sixteenths of a turn, heights are whole numbers; the similarity
of two sectors counts in 25ths, toward zero (`Alike`), so that it is whole only for sectors that are alike. Bins, keys, alignment, similarity and the choice follow the code step by step, sums and loops as recursive
functions. The scans of the place and those of another one are constants: `SmallScans` (one point or two) for TLC, any finite ones for the proofs.

**PoseGraph.** Poses are coordinates, relative poses differences. The callback reads the two poses of a factor
one after the other without a lock; an optimisation rewrites keyframes one by one. What an
optimisation yields is the chain of factors, or the chain moved by a loop.

**RingTracker.** One axis in decimetres; a cloud is a set of coordinates, and which clusters pass for a ring
is any choice. Histories note whether a frame had the drone's true pose and when a track was seen.

**MapLocalizer.** The executor gathers the subscriptions that have a message and takes one of each in the
order of their creation; a scan's callback takes as long as ICP does.

**OdomToFcu.** One action per subscription. One axis in whole centimetres, speeds
in cm/s; smoothing rounds down. Rotations are left out: a transform is a shift.

**SerialParser.** One action per byte; the loop looks at its buffer once per byte.

**SerialBridge.** A step per access to a shared field, as the interpreter may switch
threads between any two. The receiver acts upon the commands of SerialParser.
A coordinate of a lock is a fraction, as line 268 divides by a count that line 248
read earlier.

## 3. Runs

Times are for two workers. What keeps an instance finite, and why what
matters still happens, is said below the table.

| run | module | properties | states |
| --- | --- | --- | --- |
| `pipe_fifo` | PointPipe | NoTornPacket, ImplementsChannel | 169k |
| `delivery` | MCDelivery | NoLostWakeup, PushedIsDelivered, ShutdownCompletes, SamplesInOrder, SampleIsPublished | 312k |
| `config` | MCLidarConfig | ConfiguredBecomesSampling, ReachesNormalMode | 64k |
| `driver` | MCDriver | FramesAligned, OffsetsRebuildTimes, ImplementsChannel, MountingIsShared, SamplingMeansConfigured, NoKeyForgotten | 445k |
| `serial` | MCSerial | CommandsAreExact, OneStaleSample, TrimmedLockWithin, SentInOrder, NoFallback, LatestIsSent | 371k |
| `downstream` | MCDownstream | NoJump, RingStaysInBounds, NoGhosts, ConfirmedIsSeen, MeasuredBeforeLoops, GraphIsDetermined, KeyframesStay, PairedScan, PlaceIsRecognised | 1053k |
| `scans` | MCScans | EveryPlaneCounts, NeighboursAreRecent, CovarianceFollowsState, PropagatesExactly, RegisteredOnce | 1193k |
| `map` | MCMap | MapIsWindow, SearchesExcluded, ContentsKept, SearchIsComplete, RebuildIsDone | 165k |
| `lio_times` (violated) | LioSync | ScanHasItsTime | |
| `tree_log` (violated) | MCMap | LogStartsEmpty | |
| `early_odometry` (violated) | PoseGraph | SentIsOptimized | |
| `blind_spot` (violated) | MCDriverParams | BlindSpotKept | |

- `pipe_fifo`: without a lock, and with delayed stores, the rings are FIFO channels of whole
  frames. Two contents of packets (one without points), a ring of two
  slots, indices modulo 6: the ring fills, drops, and wraps several times, and a
  slot is reused while the other is read.
- `delivery`: two lidars that become Sampling and fall silent at any time. Points: a ring of one slot
  each, so that every second push is a drop, the hard case of shutdown. Stores are visible at once, a premise of
  NoLostWakeup and PushedIsDelivered: with delayed ones the poll thread takes a wake-up before it sees wr_idx and sleeps over the packet. IMU: two different samples, at most two in a list.
- `config`: a listed lidar and an unlisted one, each of which may appear twice, all answers: the listed one
  becomes Sampling, both reach normal mode.
- `driver`, frames: two lidars and two settings. In `Mixed` one is synchronised, packets get
  lost or are empty; in `AllSynced` every tick is heard for six intervals.
  Parameters: up to three lines for three ips and two devices: an ip listed twice, a line without one,
  a lidar too many, 16 bit points, a mounting that is no multiple of ten.
  Configuration: three lidars on a network with two places, one of them listed with
  two keys: a lidar is too many, acknowledgements overtake the sending of later keys, lidars appear twice (`MaxInfo`).
- `serial`, parser: any byte stream over head, tail and four others; the
  state space is complete without a bound. Bridge: three messages, three commands, two ring positions that are outliers to
  each other, two samples needed (10 in the code): every interleaving of a
  collection with a callback, and a lock with a frame in the slot and in the hand.
- `downstream`, flight controller: poses 0, 40 and 130 cm: steps below 15 cm, below a metre and above it come
  from them and from the averages; one correction received, so that poses stay few. Rings: three ticks, a ring at one place, two
  poses of the drone, a window of two ticks: frames of different poses are merged, poses are late or missing, tracks are confirmed and dropped.
  Graph: four keyframes and one loop, the first look after two keyframes: the loop thread overtakes the
  callback. Localiser: eight scans, queues of two: both overflow, and a slow ICP
  meets every order of arrival. Places: one or two points of two rings in eight directions, below, on and above the ground, two known places, eight sectors.
- `scans`, messages: four points with and without features filter, two lines, gaps of an angle and of nearly a
  turn; a line of eight points, each near or far: groups of two, planes thinned by three. Scans: stamps up to 9, scans of two ticks,
  gaps between samples up to three ticks: scans with no, one or several samples, short and empty ones; the IMU may be set back to 5, which leaves
  scans whose samples all lie before the end of the scan before; `LastEnds` is {90}:
  the uninitialised member lies beyond all stamps, and the first scan is skipped. Update: two points, three
  iterations, two scans: neighbours of the first scan are at hand in the second.
- `map`, window: two axes, three points to see, one of them near a corner, a lidar that walks over a square wider than the margin: the
  window moves on one axis and on both at once. Tree: five points, of which one is added again and one is downsampled; boxes that
  cover a subtree and everything; a subtree is big from three points on
  (1500 in the code) and may be unbalanced from one (10); three insertions or deletions, two threads that search.
  Five points make a tree of three levels whose inner subtrees and root are both
  rebuilt, and three operations put operations before, during and after one rebuild. Searches by range are inside while the subtree is
  flattened, when it is to be replaced, and after it was freed. What does not happen with so few points is that Rebuild_Ptr is reset
  during a rebuild, because a subtree turned out small: that case, and what ReadNull makes of it, is covered by the proof only. In every
  state two nearest points are sought from each place.
- the four violated ones: see section 6.

Deadlock is checked in `pipe_fifo`. The instances of the others may stop at a bound on messages, stamps or operations, or
where the program itself ends (a crash, a closed port, a DriverNode destroyed).

## 4. Fairness

- `PointPipe`: weak fairness of the pushing thread within a push, of the poll thread and of the
  destructor, i.e. of the operating system's scheduler. Lidars need not send and
  nobody need ask for the end. Two assumptions are premises of the properties
  instead, as the code cannot grant them: `KeepsUp` (the poll thread comes to the
  end of its passes; a lidar does not refill its ring for ever faster than it is
  drained) and, for shutdown, `Streaming` (some lidar goes on sending).
  Without Streaming the join need not return (section 6).
- `LidarConfig`: the callbacks run on, and a key or a work mode that is sent again and again is at last
  answered with success (strong fairness of the external SDK): the meaning of a retry. Of the other requests nothing is assumed.
- `ImuPipe`: weak fairness of the SDK's thread within a push and of the poll thread, and `KeepsUp` as above.
- `SerialBridge`: weak fairness of the interpreter's three threads; no messages or
  commands need come. A write to the port is taken to return; the code sets no
  limit of time for it (the `timeout` of line 75 is that of a read).
- `TreeRebuild`: weak fairness of the mapping thread and of the searches; strong
  fairness of the rebuild thread, for it polls every microsecond and the searches of a scan end before
  those of the next begin. When a thread is able to step is written out
  (`CanOperate`, `CanRebuild`), which spares TLC evaluating recursive tree operators in ENABLED.
- All others: safety only, no fairness.
- The MC modules that bring components together state the fairness of each for the
  behaviours in which it runs.

## 5. Proofs

TLAPS checks the theorems below for every value of the constants, under the
named assumptions of the modules: sizes are natural numbers, a ring has a slot,
indices wrap after at least two laps of the ring, "nothing" values are distinct
from real ones, head and tail of a command differ, the window of the map is wide enough,
publish_freq is at most 100 Hz (two milliseconds between frames at the least), threads that search are
finitely many, a subtree rebuilt by the second thread has at least two points (the code has 1500), `point_filter_num` is not 0, the sectors of a scan context are a multiple of four, of which the code has 60,
its scans are finite, its points lie off the axes and its candidates are at least two (PlaceAssumption). TLC evaluates those assumptions in the runs. RebuildInvariant and ContentsSurviveRebuild
have one more premise, `Laws`, of which more below.

| module | theorem | property | strengthened by |
| --- | --- | --- | --- |
| `PointPipe_proof` | TypeCorrect, RingNeverOverrun, SemaphoreIsBinary | TypeOK, NoOverrun, SemaphoreBinary | LidarInv, RingInv, SemInv |
| | WakeupNeverLost | NoLostWakeup | WakeInv |
| | NeverTorn, NoRaceOnSlots | NoTornPacket, NoSlotRace | DataInv |
| | FifoOfWholeFrames | ImplementsChannel | RingInv, DataInv |
| `Delivery_proof` | SamplesKeepOrder | SamplesInOrder | ImuInv |
| `Driver_proof` | TypeCorrect | TypeOK | |
| | SamplingIsConfigured | SamplingMeansConfigured | OwnInv, RoundInv, DoneInv |
| | KeysAreAskedFor | NoKeyForgotten | OwnInv, AskedInv |
| | MountingsAreShared | MountingIsShared | TablesInv |
| | FramesAreAligned, TimesAreRebuilt | FramesAligned, OffsetsRebuildTimes | FramesInv |
| | PointsKeepOrder | ImplementsChannel | HandInv |
| `Serial_proof` | TypeCorrect, OnlyAndEveryCommand | ParserTypeOK, CommandsAreExact | ParseInv |
| | FramesInOrder, LockIsKept, StaleAtMostOnce | SentInOrder, NoFallback, OneStaleSample | BridgeInv |
| | LockLiesWithin | TrimmedLockWithin | LockInv |
| `Downstream_proof` | PoseNeverJumps, RingNeverLeaves | NoJump, RingStaysInBounds | FcuInv |
| | LocalizedWithItsScan | PairedScan | MapInv |
| | AccumulationMakesNoGhosts | NoGhosts | CloudInv |
| | PublishedRingsWereSeen | ConfirmedIsSeen | RingInv |
| | PlacesAreRecognised | PlaceIsRecognised | PlaceInv |
| `PoseGraph_proof` | GraphHasOneSolution, ReferencesStay | GraphIsDetermined, KeyframesStay | GraphInv |
| | FactorsAreMeasured | MeasuredBeforeLoops | RawInv, CleanInv |
| `Scans_proof` | ScansInOrder, ScansRegisteredOnce | SyncInv, RegisteredOnce | SyncInv, MapInv |
| | TimeIsPropagatedOnce | PropagatesExactly | TimeInv |
| | UpdateUsesItsScan, CovarianceIsOfTheState | NeighboursAreRecent, CovarianceFollowsState | UpdateInv |
| | EveryPlaneIsTaken | EveryPlaneCounts | FeaturesInv |
| `Map_proof` | WindowInvariant, MapFollowsLidar, PointsStayInWindow | WindowInv, MapIsWindow, OnlyLeftPointsGo | WindowInv |
| | SearchesAreExcluded | SearchesExcluded | LockInv, RangeInv |
| | RebuildInvariant, ContentsSurviveRebuild | RebuildInv, ContentsKept | PlacesInv, HeldInv, CopyInv |

The theorems of `PoseGraph_proof` are stated again in `Downstream_proof`, for the graph within `MCDownstream`.
TypeOK, NoOverrun, SemaphoreBinary, NoSlotRace, SyncInv, WindowInv, OnlyLeftPointsGo and RebuildInv are stated and proved,
and no run checks them; every other property of the table is checked by a run as well.

- **The rings.** That a ring has at most QueueSize used slots is inductive only with
  what is known while wr_idx is under way: before it becomes visible there was
  room, and the slot that is filled is that of the old wr_idx (RingInv). The
  arithmetic modulo 2^32 is in a few lemmas (UsedFact, SlotApart, ...): two
  indices less than a ring apart fall into different slots, because the ring's size divides the modulus.
  From it, where stores keep their order (`Order` is not "arm"), stores to the slot
  being filled spare all slots in use, which hold whole packets (DataInv).
- **The FIFO.** The ring between its indices is a sequence (RingOf), also across the wrap, because an index and
  the same index less the modulus have one slot (SlotWraps). Advancing wr_idx appends the frame that DataInv finds in the slot (RingAppends),
  advancing rd_idx moves the oldest one to the poll thread's copy (RingDrops), a store to the slot being filled changes
  none (RingKeeps): so each step of PointPipe is an Accept, a Deliver or a Discard of `PointChannel`, or leaves it alone.
- **The semaphore.** Only the pushing thread raises the count, and it saw zero since
  it last did (SemInv). No wake-up is lost because each packet of a Sampling lidar is Attended:
  the count is raised, or the pushing thread is about to look or to signal, or the poll thread is
  in a pass that has not left this lidar (WakeInv). This one needs `Order = "sc"`: the store of
  wr_idx must be visible before count_ is read.
- **Configuration.** A key can only be pending while the bits of its round are being
  set, when config_mutex_ keeps acknowledgements out, or when every configured key of its
  lidar has its bit or its acknowledgement (RoundInv). So the acknowledgement that
  clears the last bit was the last of all. OwnInv: no two lidars share an index.
- **The mounting.** The tables stay consistent over the loops that read the file, and a lidar that was told values
  was told those of the device it has an index for (TablesInv). The loops Parse and Filled are recursive functions over the
  lines and the lidars; that each of their values is consistent goes by induction over the lines.
- **Frames.** What waits, the packet in hand and the clouds of the lidars have rising stamps, up to what was heard
  last (Ordered); while nothing is lost and all lidars are synchronised they have no gaps, and a frame was due with its last point
  and with none before (Whole). An earlier form of `OffsetsRebuildTimes` left out the lidars that are not
  synchronised: the proof did not go through, and TLC shows a frame of twice the interval when a synchronised lidar and an unsynchronised
  one share the flag. The property now says so.
- **The channel of frames.** A frame holds at most one entry per lidar, so each step of PubHandler takes the oldest points of
  some lidars or appends some (HandInv: the hand is empty unless a packet is processed). What a lidar has on its way is its cloud and
  its packets in hand and in the queue, one after the other (FlattenSeq): that taking and appending a packet change
  this join at its ends only is shown by induction over the line.
- **The IMU path.** Whoever is about to pop sees a sample and whoever is about to publish holds one (ImuInv), though test, pop
  and publication are three steps: the poll thread alone pops. So each step is an Accept or a Deliver, or leaves the channel alone.
- **The parser.** The buffer is a suffix of the last two bytes (Suffix) and reaches back to
  any head among them that a frame has not used (Reaches).
- **The bridge.** The frame written last, the one in hand, the one in the slot and the
  message of the callback are in this order (Ordered), and a lock in any of them is
  followed by locks only (Chained).
- **The lock.** While the receiver copies, the ring buffer may be emptied or refilled between two coordinates, so what is
  invariant speaks of the copies (LockInv): those are numbers of samples, and a lock lies between the least and the greatest of each. The trimmed
  mean divides a sum over the kept part of the sorted copy; that the sum lies between that many least and that many greatest values is shown by induction.
- **The watchdog.** The pose it compares with is the one published last
  (FcuInv); averages of numbers within bounds stay within them, rounded or not (SmoothInBounds).
- **Scans.** The scans that wait, the one that was looked at, the one undistorted last and the one in the map
  are in the order of receipt (InOrder, FrontInv, MapInv), and nothing is in the map before the IMU
  is initialised. Clearing the buffer keeps the order, so it also holds when the stamps are set back, and it says nothing
  of times, so any `LastEnds` will do. A package with samples reaches UndistortPcl, which takes the scan in front.
- **Propagation.** Unless the IMU was set back, the samples that wait were received after the one used last and, once a scan was undistorted, after that
  scan's end (TimeInv), so the steps between them add up to the way from end to end. The sum is the recursive function TimeAt; its value is shown by induction.
- **The update.** An update under way is of a scan that is not in the map, its covariance is "propagated" just as long as the
  state has not moved, and its first iteration searches (UpdateInv): so the early return without residuals never leaves with another scan's neighbours.
  Where no search is asked for, the last one was of the state `settled` or later; where residuals are found without a search and no step was within
  the limits, an iteration is still to come that asks for one.
- **Planes.** A typed point is not near (TypedInv), and up to the index of the last loop each point of a plane is in exactly one
  entry of `surf`; entries do not overlap, hold at most point_filter_num points, all of one plane (Covered), and the run that is open began
  less than that ago (SurfInv). Whether a plane was judged by the first loop or unmade by the others does not matter.
- **The pose graph.** All keyframes but the newest have a node, and the newest has one unless its callback has not
  come to addFactor yet (NodesInv); the loop thread holds kf_mutex_ from the look to the end, so its keyframe is still the newest and its candidate an
  older one, which has a node (LoopInv). So each factor leads from a node to the newest keyframe, whoever adds it. It needs
  loop_min_index_diff and NUM_EXCLUDE_RECENT not to be negative.
  Until a loop is closed, optimisation and callback may interleave at every keyframe and yet no pose moves: poses are raw poses, factors between neighbours
  their differences, and the estimates, a recursive function along the chain, the raw poses again (CleanInv). The odometry must have started at the origin.
- **The localiser.** The two queues keep the newest messages of the two topics, which alternate, so only how far one runs ahead of the other
  and where the round of the executor stands matters (Rounds): when a scan is taken the odometry before its first waiting
  one is its own or the next one, never an older one.
- **Rings.** Frames pushed with the true pose show points of the world, and moving them by differences of poses keeps that (CloudInv). What is
  tracked was missed for less than stale_frames_ frames, was seen as often as its hits say and lies between its sightings (Lively); what is
  published was one of these, confirmed (RingInv). The loops over tracks and centres are recursive functions (Matches, Selected).
- **Places.** The invariant says that the newest scan, then its context, is the one of the place shifted by a quarter of the sectors (PlaceInv).
  That a turned point falls into the shifted sector is shown by quadrants (ThetaTurns, SectorTurns), so bins and contexts turn with it (ContextTurns), and
  sector keys fit at that shift (OffIs). If they fit there only, the context is not empty (EmptyFitsAnyWay) and the alignment is that shift (FastAlignIs), comparison there gives no
  distance (DistDirectIs: a column is alike in all of a Unit with itself), the loops keep an exact fit once they met one (ClosestIs), and with two older contexts the place is among the candidates (SlotsAre).
- **The searches.** While the subtree is flattened, and again while it is swapped, the counter is -1 and no search for the nearest is inside; else it counts those inside
  (LockInv). A search by range that holds search_flag_mutex keeps the rebuild thread from the swap, so it is out before the old subtree is freed (RangeInv); it
  may be inside while that is flattened. The tree operations are constants of TreeRebuild, so this holds whatever they do to the tree.
- **The rebuild.** Nothing is said here of how a tree is built. `Laws` (TreeLaws) names what an operation does when it is done
  alone: what becomes of the points, which position keeps its subtree, what is pushed to it; that an operation which waits half way
  completes as if it had not waited; that a subtree may be replaced by one with the same points. What the threads make of that in any
  order is the theorem. Between calls the tree holds `points`; while an operation waits at the subtree pointed at, the tree will
  hold them once it is completed (HeldInv). From the copying to the swap the log leads from the points of the new subtree to those of the old one (CopyInv, `Leads`:
  a chain of contents, one for each entry of the log), also while the operation in hand is logged and not yet applied above. So when the log is empty,
  under the lock, the two hold the same points and the swap changes nothing. The pushes are the hard part: at a subtree that large only deletions of everything are ever
  pushed (PushLaw), so an entry for one empties the new subtree whatever was there. PlacesInv says where each thread can stand, and that what is pointed at is `Firm`: there, and
  not to be rebuilt by anyone else. The proof found two things no run had shown: that a subtree pointed at may turn out small while it is rebuilt (section 2), and that the laws do not
  hold of any record but of trees in which a deletion pending below a node is one of the whole node, or comes too late for what it would reach (`Sound` in IkdTree).
- **The laws.** MCMap states them of IkdTree as assumptions, which TLC evaluates before the run: for the trees built from five points or fewer, those
  that two changes more lead to (operations, copying, a swap), with positions up to two sons down, and each tree an operation can be half way in. `Sound`, `Firm` and `Open` are recursive over nested
  trees, as are the operators: that they hold of every tree would go by induction over trees, out of reach of the provers here.
- **The window.** The margin between the lidar and the sides of its window is the threshold after the
  window has moved, and a correction less when the scan is over (WindowInv); the next way uses up at most that,
  so a move of one step is enough again. On one axis the points of the old window are in the new one
  or in the box (MoveOnAxis); MoveWindow joins the axes: because the boxes are as wide as the old window, their union is
  all that is left behind.

Induction over data is done here without the library's induction theorems, which take an operator as a parameter: a
set of natural numbers that is not empty has a least one (Least), so a set that holds 0 and with each number
the next holds all (Induction), and a function with given first value and step exists (Recursion). A recursive function of the
model is then shown to be the one its step describes.

Only model-checked:

- liveness: `PushedIsDelivered` (where stores are visible at once), `ShutdownCompletes`, `SampleIsPublished`, `ConfiguredBecomesSampling`, `ReachesNormalMode`,
  `LatestIsSent`, `RebuildIsDone`; the provers know no fairness without ENABLED;
- `SearchIsComplete`, and the laws from which `ContentsKept` is proved: the operators of `IkdTree` are recursive over nested trees, which
  costs tlapm its SMT backend. The run `map` checks ContentsKept of the very operators, too, without the laws.

## 6. Where the code disagrees with itself

Shown by a run:

- `lio_times`: laserMapping.cpp:291 and 319 log "lidar loop back, clear buffer", and line 320
  clears `lidar_buffer` but not its twin `time_buffer`: from then on scans are
  processed with the times of older ones.
- `tree_log`: ikd_Tree.cpp:244-247 prints "ERROR!!!" if the log is not empty when a
  rebuild starts. Line 352 clears `rebuild_flag` after line 351 let go of
  working_flag_mutex, so a mapping thread that waited for it still logs, and the next
  rebuild repeats the operation on another subtree.
- `early_odometry`: sc_pgo_node.cpp:347 returns if the optimised pose is not initialised yet, as the comment at 348
  says. It begins as the identity (395), which passes for initialised: until the first keyframe the timer publishes the identity.
- `blind_spot`: src/livox_ros_driver2/README.md:247 gives `blind_spot_set` the range 50 to 200 cm; parse_livox_lidar_cfg.cpp:88
  casts it to eight bits, and 200 is sent as -56.

Met while modelling, and part of the models where they have the state (none of
them is the subject of a run):

- driver: an unlisted lidar is configured with the zeros of static storage, as 0 is not
  -1, the value for "leave alone" (livox_lidar_callback.cpp:54-55); the callback of the IMU request returns on
  a null response before it looks for a timeout (302); the destructor of DriverNode joins a thread that waits for a push, which a silent lidar never makes
  (driver_node.cpp:37); the order of wr_idx++ and the copy is left to the machine, an ARM (ldq.cpp:146).
- FAST-LIO: without samples ImuProcess returns early and the previous scan's points are registered again
  (IMU_Processing.hpp:344); after stamps of the IMU were set back a scan whose samples all lie before the end of the scan before propagates
  the time between them again (292-295); `last_lidar_end_time_` is not initialised; the twist is published one scan late
  (laserMapping.cpp:632-636); the guard at 347 is never true; a lidar that left the map's window in one step is not followed (253-257).
- tree: a rebuilt subtree that has become empty is read as a null pointer (ikd_Tree.cpp:332) while the
  mapping thread can also reset Rebuild_Ptr under the rebuild thread (843, 1051);
  Add_Points searches by range (501) without the counter that is taken under "Lock Search" (259), and without any lock
  at the root or where a node above is copied whole (1260): it may be in a subtree that is freed at 354.
- flight controller's state: the published /fcu/state takes the raw pose (fastlio_to_fcu.cpp:250), where lines 52-53 speak of
  the corrected one; the velocity watchdog lets the first message pass, whatever its speed (183); the average of the ring starts at
  the origin (417, 311), although ros_to_serial.py:193-194 says that bounds are enforced.
- serial link: the docstring's frame has 96 bytes, the code's 108; "用均值代替trimmed mean" (270) divides by a count
  read before the copies (248, 261-263, 268); "锁定失败，继续用实时值" (251) although an older lock is
  still packed (201-206); a restart forgets the locked ring; line 10 of serial_bridge.service runs two settings together.
- pose graph: an odometry factor lies between an optimised previous pose and a raw current one (sc_pgo_node.cpp:154-155);
  one loop is closed again each second (244-282); the first prior factor is added without graph_mutex_.
- driver again: the destructor reads a null pointer if no source of data was made (driver_node.cpp:35); samples gather without
  bound while a lidar is not Sampling (lidar_imu_data_queue.cpp:29); an offset of more than 4.3 s does not fit its field (lddc.cpp:395).
- filter: an iteration without residuals after one that moved the state leaves the covariance projected, not updated (esekfom.hpp:1640).
- preprocessing: the search for the first far point of a line reads the point after the last if there is none (preprocess.cpp:602);
  a plane that reaches the end of the line marks the point after it (632); with a `point_filter_num` other than 1, avia_handler
  compares a point with the origin where its predecessor was not copied (183).
- Scan Context: only the shifts around the first best alignment are compared (Scancontext.cpp:124): if the keys fit several ways
  the place may be missed.

## 7. Bounds of the models

- PointPipe: one frame in hand at a time; the building of messages is left out; "arm" is a value
  of `Order` for which NoTornPacket and NoSlotRace claim nothing.
- ImuPipe: a list holds at most `MaxBacklog` samples; the code has no limit.
- LidarConfig: `LvxGetIndex` and `ResetIndex` have no caller.
- DriverParams: the network part of the file, which the SDK reads, and ROS parameters are left out.
- PubHandler: one clock for host and synchronised lidars, one point per packet, stamps do not jump back; the notification of
  Uninit and the waits are left out of the properties.
- LioSync: stamps are ticks up to `MaxTime`, `Restarts` those that the IMU may go back to; a scan's points are none, few or many; no residuals, no map but for its having been built.
- Preprocess: coordinates, ratios and angles between neighbours are open; times of points that carry stamps are left out; reads and
  writes past the end of a line are taken to do nothing.
- IteratedUpdate: control only; MaxIteration is small, no step of the algebra is modelled.
- TreeRebuild: one axis, one point per call; points of downsampling fall into cells of one axis; the
  push-downs of searches are left out of the threads' steps (where they push, nothing is deleted above, so no point changes), and so are the lists of removed
  points. Three races of words are left out: a search by range that reads the ranges of ancestors while the climb after a swap updates them, its
  push-downs against the flattening of the same nodes, and a test of Rebuild_Ptr against null whose pointer is reset before it is followed (810, 1014, 1268: by
  the rebuild thread at 350). Delete_Points, Add_Point_Boxes, Radius_Search and tree_range have no caller in FAST-LIO.
- MapWindow: whole numbers; no point of a scan is farther than Det; the tree is a set of points, not that of TreeRebuild.
- PoseGraph: one axis, `MaxKeyframes` and `MaxLoops`; factors are a set, so the weight of a repeated one is not seen; ICP's answer is any.
- ScanContext: a quarter of a turn; similarities are cut to 25ths, so distances are up to 0.04 greater than in the code; two rings and few points in the run; no period of the key tree (PoseGraph has it); detectLoopClosureIDBetweenSession has no caller.
- RingTracker: one axis; planes, circles and clusters are open; one cloud per tick.
- MapLocalizer: at most one message arrives while an odometry's callback runs.
- OdomToFcu: one axis, no rotations; the twist and IMU topics republish what is received.
- SerialBridge: floats are fractions; log lines are left out.

## 8. Plan

Built, most important first: PointPipe with PointChannel and its proofs;
LidarConfig; PubHandler with FrameChannel; SerialParser and SerialBridge; OdomToFcu; LioSync; IkdTree and TreeRebuild;
PoseGraph; ImuPipe; RingTracker; MapLocalizer; DriverParams; MapWindow with its proofs; ScanContext; Preprocess; IteratedUpdate.

Proved: every safety property a run checks but SearchIsComplete; ContentsKept from the laws of section 5.

Left, in this order:

1. MapWindow with the tree of TreeRebuild in place of its set: boxes that are deleted while a subtree is rebuilt.
2. `Servo` and the restart of serial_bridge by its unit, which forgets the locked ring.
3. `Launcher`: retries of start_lidar.sh, order of the units.
