---------------------------- MODULE NeoLocalization ----------------------------
(****************************************************************************)
(* The localization node (neo_localization2/src/neo_localization_node.cpp). *)
(*                                                                          *)
(* Two threads share the node's members: the executor, which runs the       *)
(* callbacks one at a time, and the map update thread started by the        *)
(* constructor.  Every callback holds m_node_mutex from its first to its    *)
(* last access, so it is one action.  update_map() takes the lock twice     *)
(* and reads shared members after the second release, so it is three        *)
(* actions; the update thread runs it periodically and pose_callback() runs *)
(* it on the executor after its own lock is released.                       *)
(*                                                                          *)
(* Poses are one-dimensional integer cells: m_offset is the odom-to-map     *)
(* offset, odom the base in the odom frame, and their sum the believed pose *)
(* in the map.  Solver and gradient arithmetic is a choice of its result.   *)
(****************************************************************************)
EXTENDS Integers

CONSTANTS
    Worlds,         \* the occupancy grids that may arrive on the map topic
    NoWorld,        \* the null m_world
    Origin,         \* origin of each grid in the map frame (info.origin)
    Places,         \* map cells the robot may believe to be in (a bound)
    OdomPositions,  \* positions of the base in the odom frame (a bound)
    Sensors,        \* frame ids of the laser scanners
    MapSize,        \* m_map_size: cells along the side of a tile
    MinStd, MaxStd, \* m_min_sample_std_*, m_max_sample_std_*
    BroadcastTF,    \* m_broadcast_tf
    NsPerSec, U32,  \* a second, and 2^32, in the unit of Time::nanosec
    MaxClock,       \* last stamp of an odometry transform (a bound)
    MaxResets       \* number of accepted pose estimates (a bound)

ASSUME LocAssumption ==
    /\ NoWorld \notin Worlds
    /\ Origin \in [Worlds -> Int]
    /\ Places \subseteq Int
    /\ OdomPositions \subseteq Int /\ OdomPositions # {}
    /\ MapSize \in Nat \ {0}
    /\ MinStd \in Nat \ {0} /\ MaxStd \in Nat /\ MinStd <= MaxStd
    /\ BroadcastTF \in BOOLEAN
    /\ NsPerSec \in Nat \ {0} /\ U32 \in Nat
    /\ 4 * NsPerSec < U32 /\ U32 < 5 * NsPerSec
    /\ MaxClock \in Nat /\ MaxResets \in Nat

\* The null map is no tile either.
ASSUME NullAssumption == NoWorld \notin [world : Worlds, x : Int, resets : Nat]

VARIABLES
    pc,             \* where each thread stands
    snap,           \* update_map's locals of each thread
    buffer,         \* the tf2 buffer exists
    odomKnown,      \* it holds a base-to-odom transform,
    odom, clock,    \* whose value and stamp these are
    map_received_, m_world, m_world_to_map,
    m_map, m_grid_to_map, m_initialized,
    m_offset, m_offset_time, m_last_odom_pose,
    m_std_xy, m_std_yaw,
    m_scan_buffer,  \* the sensors with a scan in m_scan_buffer
    tileOut,        \* last message on the map tile topic
    tfOut,          \* last map-to-odom transform broadcast
    resets,         \* history: number of accepted pose estimates
    fault           \* a null pointer was dereferenced

threadVars == <<pc, snap>>
odomVars   == <<buffer, odomKnown, odom, clock>>
worldVars  == <<map_received_, m_world, m_world_to_map>>
tileVars   == <<m_map, m_grid_to_map, m_initialized>>
offsetVars == <<m_offset, m_offset_time, m_last_odom_pose, tfOut, resets>>
stdVars    == <<m_std_xy, m_std_yaw>>
vars == <<threadVars, odomVars, worldVars, tileVars, offsetVars, stdVars,
          m_scan_buffer, tileOut, fault>>

Threads == {"executor", "update"}

\* A tile is known by the grid and cell it was cut from; resets is history.
NoTile == [world |-> NoWorld, x |-> 0, resets |-> 0]
Tile == [world : Worlds \cup {NoWorld}, x : Int, resets : Nat]
NoSnapshot == [world |-> NoWorld, origin |-> 0, x |-> 0, resets |-> 0]
Snapshot == [world : Worlds \cup {NoWorld}, origin : Int, x : Int, resets : Nat]
Time == [sec : Nat, nanosec : 0 .. U32 - 1]

MapPose == m_offset + odom

Min2(a, b) == IF a <= b THEN a ELSE b
Max2(a, b) == IF a >= b THEN a ELSE b
Distance(a, b) == Max2(a - b, b - a)

\* Keeps a sample spread within its limits.  (Slip: without the lower limit.)
LimitNoMinimum(std) == Min2(std, MaxStd)
Limit(std) == Min2(Max2(std, MinStd), MaxStd)

ToTime(c) == [sec |-> c \div NsPerSec, nanosec |-> c % NsPerSec]
Stamp(t) == t.sec * NsPerSec + t.nanosec

\* One more second in nanosec, a 32-bit field that wraps; sec stays.
ExpireLater(t) == [t EXCEPT !.nanosec = (@ + NsPerSec) % U32]

\* broadcast(): moves the given m_offset_time one second ahead and sends it.
Broadcast(t) ==
    IF BroadcastTF
    THEN /\ m_offset_time' = ExpireLater(t)
         /\ tfOut' = [stamp |-> Stamp(ExpireLater(t)), odom |-> clock]
    ELSE m_offset_time' = t /\ UNCHANGED tfOut

-----------------------------------------------------------------------------
Init ==
    /\ pc = [executor |-> "constructor", update |-> "snapshot"]
    /\ snap = [t \in Threads |-> NoSnapshot]
    /\ buffer = FALSE /\ odomKnown = FALSE
    /\ odom \in OdomPositions /\ clock \in 0 .. MaxClock
    /\ map_received_ = FALSE /\ m_world = NoWorld /\ m_world_to_map = 0
    /\ m_map = NoTile /\ m_grid_to_map = 0 /\ m_initialized = FALSE
    /\ m_offset = 0 /\ m_offset_time = [sec |-> 0, nanosec |-> 0]
    /\ m_last_odom_pose = 0
    /\ m_std_xy = 0 /\ m_std_yaw = 0
    /\ m_scan_buffer = {}
    /\ tileOut = [tile |-> NoTile, origin |-> 0]
    /\ tfOut = [stamp |-> 0, odom |-> 0]
    /\ resets = 0 /\ fault = FALSE

\* The constructor creates the buffer well after it started the update thread;
\* spin() runs callbacks only once the constructor has returned.
Construct ==
    /\ pc.executor = "constructor"
    /\ buffer' = TRUE
    /\ pc' = [pc EXCEPT !.executor = "idle"]
    /\ UNCHANGED <<snap, odomKnown, odom, clock, worldVars, tileVars,
                   offsetVars, stdVars, m_scan_buffer, tileOut, fault>>

\* The odometry publishes base-to-odom; a lookup of the latest transform
\* succeeds from the first one on.
OdomTransform ==
    /\ buffer
    /\ odomKnown' = TRUE
    /\ odom' \in OdomPositions
    /\ clock' \in clock .. MaxClock
    /\ UNCHANGED <<threadVars, buffer, worldVars, tileVars, offsetVars,
                   stdVars, m_scan_buffer, tileOut, fault>>

-----------------------------------------------------------------------------
(* Callbacks: the executor runs one at a time, each under m_node_mutex.      *)

\* map_callback(): stores the map; the tile follows at the next update_map().
MapCallback(w) ==
    /\ pc.executor = "idle"
    /\ map_received_' = TRUE
    /\ m_world' = w
    /\ m_world_to_map' = Origin[w]
    /\ m_std_xy' = MaxStd /\ m_std_yaw' = MaxStd
    /\ UNCHANGED <<threadVars, odomVars, tileVars, offsetVars,
                   m_scan_buffer, tileOut, fault>>

\* scan_callback(): keeps the last scan of each sensor once there is a map.
ScanCallback(s) ==
    /\ pc.executor = "idle"
    /\ map_received_
    /\ m_scan_buffer' = m_scan_buffer \cup {s}
    /\ UNCHANGED <<threadVars, odomVars, worldVars, tileVars, offsetVars,
                   stdVars, tileOut, fault>>

\* pose_callback() up to the release of the lock; a pose in another frame, or
\* one that arrives before the odometry, returns and changes nothing.
PoseCallback(p) ==
    /\ pc.executor = "idle"
    /\ odomKnown
    /\ resets < MaxResets
    /\ resets' = resets + 1
    /\ m_offset' = p - odom
    /\ m_std_xy' = MaxStd /\ m_std_yaw' = MaxStd
    /\ Broadcast(m_offset_time)
    /\ pc' = [pc EXCEPT !.executor = "snapshot"]
    /\ UNCHANGED <<snap, odomVars, worldVars, tileVars, m_last_odom_pose,
                   m_scan_buffer, tileOut, fault>>

\* The first early return of loc_update().  (Slip: the tile is not waited for.)
CanUpdateNoTile == map_received_ /\ m_scan_buffer # {}
CanUpdate == map_received_ /\ m_scan_buffer # {} /\ m_initialized

\* m_offset_time of an update is the stamp of the odometry it used.  (Slip: it
\* keeps the time of the last broadcast.)
UpdateTimeKept == m_offset_time
UpdateTime == ToTime(clock)

\* loc_update() on a scan with enough points.  The mode (3: position and
\* rotation, 2: one direction and rotation, 1: one direction, 0: nothing) and
\* the pose p of the best sample are the solver's choice; the low-pass filter
\* moves the offset some of the way from where it is to the new one.
LocUpdate(mode, p) ==
    /\ pc.executor = "idle"
    /\ CanUpdate
    /\ odomKnown
    /\ fault' = (fault \/ m_map = NoTile \/ ~buffer)
    /\ IF mode > 0
       THEN \E o \in Min2(m_offset, p - odom) .. Max2(m_offset, p - odom) :
              m_offset' = o
       ELSE UNCHANGED m_offset
    /\ \E shrunk \in 0 .. m_std_xy :
         m_std_xy' = Limit(IF mode >= 3 THEN shrunk
                           ELSE m_std_xy + Distance(odom, m_last_odom_pose))
    /\ \E shrunk \in 0 .. m_std_yaw :
         m_std_yaw' = Limit(IF mode >= 2 THEN shrunk
                            ELSE m_std_yaw + Distance(odom, m_last_odom_pose))
    /\ Broadcast(UpdateTime)
    /\ m_last_odom_pose' = odom
    /\ m_scan_buffer' = {}
    /\ UNCHANGED <<threadVars, odomVars, worldVars, tileVars, resets, tileOut>>

-----------------------------------------------------------------------------
(* update_map(), on either thread.                                          *)

\* What a tile is cut from.  (Slip: a cut under way on the update thread is
\* shared rather than repeated.)
CutShared ==
    IF pc.update = "install" THEN snap.update
    ELSE [world |-> m_world, origin |-> m_world_to_map,
          x |-> MapPose - m_world_to_map - MapSize \div 2, resets |-> resets]
Cut ==
    [world  |-> m_world,
     origin |-> m_world_to_map,
     x      |-> MapPose - m_world_to_map - MapSize \div 2,
     resets |-> resets]

\* First critical section: copies what the tile is cut from.  The tile's
\* corner is computed from that copy alone, so it is part of the same step.
Snap(t) ==
    /\ pc[t] = "snapshot"
    /\ fault' = (fault \/ (m_world # NoWorld /\ ~buffer))
    /\ IF m_world # NoWorld /\ odomKnown
       THEN /\ pc' = [pc EXCEPT ![t] = "install"]
            /\ snap' = [snap EXCEPT ![t] = Cut]
       ELSE pc' = [pc EXCEPT ![t] = "idle"] /\ UNCHANGED snap
    /\ UNCHANGED <<odomVars, worldVars, tileVars, offsetVars, stdVars,
                   m_scan_buffer, tileOut>>

\* The tile and its frame.  (Slips: cut from the map and pose by then; the
\* frame from the current map.)
CutTileLive(t) == [world |-> Cut.world, x |-> Cut.x, resets |-> Cut.resets]
CutTile(t) == [world |-> snap[t].world, x |-> snap[t].x, resets |-> snap[t].resets]
CutFrameLive(t) == m_world_to_map + snap[t].x
CutFrame(t) == snap[t].origin + snap[t].x

\* Extraction and smoothing touch the copy only; then the second critical
\* section installs the tile and its frame.
Install(t) ==
    /\ pc[t] = "install"
    /\ m_map' = CutTile(t)
    /\ m_grid_to_map' = CutFrame(t)
    /\ m_initialized' = TRUE
    /\ pc' = [pc EXCEPT ![t] = "publish"]
    /\ UNCHANGED <<snap, odomVars, worldVars, offsetVars, stdVars,
                   m_scan_buffer, tileOut, fault>>

\* The origin a message shows a tile at.  (Slip: that of the whole map.)
ShownOriginWorld == m_world_to_map
ShownOrigin == m_grid_to_map

\* The lock is released: the message takes its cells from the thread's own
\* tile and its origin from the shared m_grid_to_map.
Publish(t) ==
    /\ pc[t] = "publish"
    /\ tileOut' = [tile |-> CutTile(t), origin |-> ShownOrigin]
    /\ pc' = [pc EXCEPT ![t] = "idle"]
    /\ snap' = [snap EXCEPT ![t] = NoSnapshot]
    /\ UNCHANGED <<odomVars, worldVars, tileVars, offsetVars, stdVars,
                   m_scan_buffer, fault>>

\* update_loop(): the rate has slept.  (Slip: it ends with the first tile.)
LoopGoesOnUntilTile == ~m_initialized
LoopGoesOn == TRUE
Wake ==
    /\ pc.update = "idle"
    /\ LoopGoesOn
    /\ pc' = [pc EXCEPT !.update = "snapshot"]
    /\ UNCHANGED <<snap, odomVars, worldVars, tileVars, offsetVars, stdVars,
                   m_scan_buffer, tileOut, fault>>

UpdateMap(t) == Snap(t) \/ Install(t) \/ Publish(t)

-----------------------------------------------------------------------------
Callback ==
    \/ \E w \in Worlds : MapCallback(w)
    \/ \E s \in Sensors : ScanCallback(s)
    \/ \E p \in Places : PoseCallback(p)
    \/ \E mode \in 0 .. 3, p \in Places : LocUpdate(mode, p)

Next ==
    \/ Construct
    \/ OdomTransform
    \/ Callback
    \/ \E t \in Threads : UpdateMap(t)
    \/ Wake

Spec == Init /\ [][Next]_vars

\* Both threads are scheduled: update_map() runs to its end and the rate's
\* sleep ends.  Nothing forces a message to arrive or a scan to match.
Fairness ==
    /\ WF_vars(Construct)
    /\ WF_vars(Wake)
    /\ \A t \in Threads : WF_vars(UpdateMap(t))

FairSpec == Spec /\ Fairness

-----------------------------------------------------------------------------
(* Properties.                                                              *)

\* The types of the variables, from which the proofs start.
TypeOK ==
    /\ pc \in [Threads -> {"constructor", "idle", "snapshot", "install", "publish"}]
    /\ snap \in [Threads -> Snapshot]
    /\ buffer \in BOOLEAN /\ odomKnown \in BOOLEAN
    /\ odom \in OdomPositions /\ clock \in 0 .. MaxClock
    /\ map_received_ \in BOOLEAN
    /\ m_world \in Worlds \cup {NoWorld} /\ m_world_to_map \in Int
    /\ m_map \in Tile /\ m_grid_to_map \in Int /\ m_initialized \in BOOLEAN
    /\ m_offset \in Int /\ m_offset_time \in Time /\ m_last_odom_pose \in Int
    /\ m_std_xy \in Nat /\ m_std_yaw \in Nat
    /\ m_scan_buffer \subseteq Sensors
    /\ tileOut \in [tile : Tile, origin : Int]
    /\ tfOut \in [stamp : Int, odom : Int]
    /\ resets \in Nat /\ fault \in BOOLEAN

\* The update thread runs before the constructor has created the tf2 buffer,
\* and a location update reads the tile through a pointer that starts out
\* null: the guards of update_map() and loc_update() keep both from a null
\* pointer, however the two threads are scheduled.
NoNullPointer == ~fault

\* A location update draws its samples only from spreads within the limits,
\* although both start at zero and are changed by three callbacks.
SamplingSpread ==
    CanUpdate => m_std_xy \in MinStd .. MaxStd /\ m_std_yaw \in MinStd .. MaxStd

\* The frame a location update converts grid poses with is that of the tile it
\* matches scans against, also while maps and poses change under an update.
FrameOfTile ==
    m_initialized => /\ m_map.world # NoWorld
                     /\ m_grid_to_map = Origin[m_map.world] + m_map.x

\* "get a new map tile immediately": the tile pose_callback() installs before
\* it returns was cut after the pose it accepted.
ResetInstallsFreshTile ==
    [][pc.executor = "install" /\ pc'.executor = "publish"
         => m_map'.resets = resets']_vars

\* The tile catches up: as long as neither the map nor the accepted pose
\* changes again, a tile of that map cut after that pose is installed.
TileFollows ==
    \A w \in Worlds, n \in 0 .. MaxResets :
      odomKnown /\ m_world = w /\ resets = n
        ~> \/ m_map.world = w /\ m_map.resets = n
           \/ m_world # w \/ resets # n

\* The visualised tile catches up with the one in use: they agree again and
\* again, origin included, although they may differ in between.
VisualisationFollows ==
    m_initialized ~> tileOut.tile = m_map /\ tileOut.origin = m_grid_to_map

\* However many pose estimates have pushed the broadcast time ahead, a location
\* update broadcasts one second after the odometry it used.
UpdateRestartsExpiry ==
    [][m_scan_buffer # {} /\ m_scan_buffer' = {} /\ BroadcastTF
         => tfOut'.stamp = clock + NsPerSec]_vars

\* What of the node's state is the tile service's: what a cut would be made
\* from, what each thread has read, and the tile in use.
TileInput == IF m_world = NoWorld \/ ~odomKnown THEN NoWorld
             ELSE [world |-> Cut.world, x |-> Cut.x, resets |-> Cut.resets]
TilesRead == [t \in Threads |-> IF pc[t] = "install" THEN CutTile(t) ELSE NoWorld]
TileInUse == IF m_initialized THEN [cut |-> m_map, frame |-> m_grid_to_map] ELSE NoWorld
Service == INSTANCE TileService WITH
    Clients <- Threads, None <- NoWorld,
    input <- TileInput, cut <- TilesRead, tile <- TileInUse

\* update_map() is a TileService for its two threads: what it reads under the
\* first lock is installed as one, tile with frame, under the second, and
\* always will be.  The published origin is not part of the promise.
ImplementsTileService == Service!Spec

(* Why they hold: the inductive invariant of the proofs. *)

\* The executor leaves the constructor with the buffer, and only then runs the
\* callbacks that deliver odometry and maps.
BufferComesFirst ==
    /\ buffer <=> pc.executor # "constructor"
    /\ odomKnown => buffer
    /\ map_received_ <=> m_world # NoWorld
    /\ m_world # NoWorld => buffer

\* The map and its frame change together, and a cut under way has the frame of
\* its own map.
FramesAgree ==
    /\ m_world # NoWorld => m_world_to_map = Origin[m_world]
    /\ \A t \in Threads : pc[t] \in {"install", "publish"} =>
         /\ snap[t].world \in Worlds
         /\ snap[t].origin = Origin[snap[t].world]

\* The executor's own cut is of the last pose: no callback runs meanwhile.
ExecutorCutIsFresh == pc.executor = "install" => snap.executor.resets = resets

\* The first map brings both spreads within the limits.
SpreadAfterMap ==
    map_received_ => m_std_xy \in MinStd .. MaxStd /\ m_std_yaw \in MinStd .. MaxStd

IInv ==
    /\ BufferComesFirst
    /\ FramesAgree
    /\ ExecutorCutIsFresh
    /\ SpreadAfterMap
    /\ FrameOfTile
    /\ NoNullPointer

(* What the code does not keep. *)

\* The comment "publish new map tile for visualization": the message shows a
\* tile at its own place.
PublishedAtOwnOrigin ==
    LET tile == tileOut.tile
    IN  tile.world # NoWorld => tileOut.origin = Origin[tile.world] + tile.x
=============================================================================
