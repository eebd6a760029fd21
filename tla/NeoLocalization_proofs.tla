------------------------- MODULE NeoLocalization_proofs -------------------------
(* Proofs about NeoLocalization, for all values of its constants.           *)
EXTENDS NeoLocalization, TLAPS

-----------------------------------------------------------------------------
(* The arithmetic of spreads and stamps.                                    *)

\* fmin(fmax(...)) stays within the limits whatever the update computed.
LEMMA LimitInRange ==
    ASSUME NEW std \in Int
    PROVE  Limit(std) \in MinStd .. MaxStd
BY LocAssumption DEF Limit, Min2, Max2

\* Adding the expiry keeps a well-formed time, by the wrap at 32 bits.
LEMMA ExpireLaterType ==
    ASSUME NEW t \in Time
    PROVE  /\ ExpireLater(t) \in Time
           /\ ExpireLater(t).sec = t.sec
           /\ ExpireLater(t).nanosec = (t.nanosec + NsPerSec) % U32
BY LocAssumption DEF ExpireLater, Time

\* An odometry stamp splits into seconds and less than a second.
LEMMA ToTimeType ==
    ASSUME NEW c \in Nat
    PROVE  /\ ToTime(c) \in Time
           /\ Stamp(ToTime(c)) = c
           /\ ToTime(c).nanosec < NsPerSec
BY LocAssumption DEF ToTime, Time, Stamp

\* Broadcasting a well-formed time leaves one, whether or not tf is enabled.
LEMMA BroadcastType ==
    ASSUME NEW t \in Time, Broadcast(t), tfOut \in [stamp : Int, odom : Int],
           clock \in Int
    PROVE  m_offset_time' \in Time /\ tfOut' \in [stamp : Int, odom : Int]
<1>1. ExpireLater(t) \in Time
  BY ExpireLaterType
<1>2. Stamp(ExpireLater(t)) \in Int
  BY <1>1, LocAssumption DEF Stamp, Time
<1>3. QED
  BY <1>1, <1>2 DEF Broadcast

-----------------------------------------------------------------------------
(* Type correctness.                                                        *)

\* The type invariant holds of every behaviour of the node.
THEOREM TypeCorrect == Spec => []TypeOK
<1>1. Init => TypeOK
  <2> SUFFICES ASSUME Init PROVE TypeOK
    OBVIOUS
  <2>1. pc \in [Threads -> {"constructor", "idle", "snapshot", "install", "publish"}]
    BY DEF Init, Threads
  <2>2. NoTile \in Tile /\ snap \in [Threads -> Snapshot]
    BY DEF Init, NoTile, Tile, NoSnapshot, Snapshot
  <2>3. m_offset_time \in Time
    BY LocAssumption DEF Init, Time
  <2>4. tileOut \in [tile : Tile, origin : Int]
    BY <2>2 DEF Init
  <2>5. tfOut \in [stamp : Int, odom : Int]
    BY DEF Init
  <2>6. m_map \in Tile /\ m_scan_buffer \subseteq Sensors
    BY <2>2 DEF Init
  <2>7. QED
    BY <2>1, <2>2, <2>3, <2>4, <2>5, <2>6, LocAssumption DEF Init, TypeOK
<1>2. TypeOK /\ [Next]_vars => TypeOK'
  <2> SUFFICES ASSUME TypeOK, [Next]_vars PROVE TypeOK'
    OBVIOUS
  <2> USE LocAssumption DEF TypeOK
  <2>1. CASE Construct
    BY <2>1 DEF Construct, threadVars, worldVars, tileVars, offsetVars, stdVars, Threads
  <2>2. CASE OdomTransform
    BY <2>2 DEF OdomTransform, threadVars, worldVars, tileVars, offsetVars, stdVars
  <2>3. ASSUME NEW w \in Worlds, MapCallback(w) PROVE TypeOK'
    BY <2>3 DEF MapCallback, threadVars, odomVars, tileVars, offsetVars
  <2>4. ASSUME NEW s \in Sensors, ScanCallback(s) PROVE TypeOK'
    BY <2>4 DEF ScanCallback, threadVars, odomVars, worldVars, tileVars, offsetVars, stdVars
  <2>5. ASSUME NEW p \in Places, PoseCallback(p) PROVE TypeOK'
    <3>1. m_offset_time' \in Time /\ tfOut' \in [stamp : Int, odom : Int]
      BY <2>5, BroadcastType DEF PoseCallback
    <3>2. m_offset' \in Int /\ resets' \in Nat
      BY <2>5 DEF PoseCallback
    <3>3. QED
      BY <2>5, <3>1, <3>2 DEF PoseCallback, odomVars, worldVars, tileVars, Threads
  <2>6. ASSUME NEW mode \in 0 .. 3, NEW p \in Places, LocUpdate(mode, p)
        PROVE TypeOK'
    <3>1. m_offset_time' \in Time /\ tfOut' \in [stamp : Int, odom : Int]
      <4>1. UpdateTime \in Time
        BY ToTimeType DEF UpdateTime
      <4>2. QED
        BY <2>6, <4>1, BroadcastType DEF LocUpdate
    <3>2. m_offset' \in Int
      BY <2>6 DEF LocUpdate, Min2, Max2
    <3>3. m_std_xy' \in Nat /\ m_std_yaw' \in Nat
      BY <2>6, LimitInRange DEF LocUpdate, Distance, Max2
    <3>4. QED
      BY <2>6, <3>1, <3>2, <3>3 DEF LocUpdate, threadVars, odomVars, worldVars, tileVars
  <2>7. ASSUME NEW t \in Threads, UpdateMap(t) PROVE TypeOK'
    <3>1. CASE Snap(t)
      <4>1. Cut \in Snapshot
        BY DEF Cut, Snapshot, MapPose
      <4>2. QED
        BY <3>1, <4>1 DEF Snap, odomVars, worldVars, tileVars, offsetVars, stdVars
    <3>2. CASE Install(t)
      <4>1. CutTile(t) \in Tile /\ CutFrame(t) \in Int
        BY DEF CutTile, CutFrame, Tile, Snapshot
      <4>2. QED
        BY <3>2, <4>1 DEF Install, odomVars, worldVars, offsetVars, stdVars
    <3>3. CASE Publish(t)
      <4>1. CutTile(t) \in Tile /\ NoSnapshot \in Snapshot
        BY DEF CutTile, Tile, Snapshot, NoSnapshot
      <4>2. QED
        BY <3>3, <4>1 DEF Publish, ShownOrigin, odomVars, worldVars, tileVars,
                          offsetVars, stdVars
    <3>4. QED
      BY <2>7, <3>1, <3>2, <3>3 DEF UpdateMap
  <2>8. CASE Wake
    BY <2>8 DEF Wake, odomVars, worldVars, tileVars, offsetVars, stdVars, Threads
  <2>9. CASE UNCHANGED vars
    BY <2>9 DEF vars, threadVars, odomVars, worldVars, tileVars, offsetVars, stdVars
  <2>10. QED
    BY <2>1, <2>2, <2>3, <2>4, <2>5, <2>6, <2>7, <2>8, <2>9 DEF Next, Callback
<1>3. QED
  BY <1>1, <1>2, PTL DEF Spec

-----------------------------------------------------------------------------
(* Safety.                                                                  *)

\* The inductive invariant is preserved by every step.
LEMMA Inductive == TypeOK /\ IInv /\ [Next]_vars => IInv'
<1> SUFFICES ASSUME TypeOK, IInv, [Next]_vars PROVE IInv'
  OBVIOUS
<1> USE LocAssumption DEF TypeOK, IInv, BufferComesFirst, FramesAgree,
        ExecutorCutIsFresh, SpreadAfterMap, FrameOfTile, NoNullPointer, Threads
<1>1. CASE Construct
  BY <1>1 DEF Construct, worldVars, tileVars, offsetVars, stdVars
<1>2. CASE OdomTransform
  BY <1>2 DEF OdomTransform, threadVars, worldVars, tileVars, offsetVars, stdVars
<1>3. ASSUME NEW w \in Worlds, MapCallback(w) PROVE IInv'
  BY <1>3 DEF MapCallback, threadVars, odomVars, tileVars, offsetVars
<1>4. ASSUME NEW s \in Sensors, ScanCallback(s) PROVE IInv'
  BY <1>4 DEF ScanCallback, threadVars, odomVars, worldVars, tileVars, offsetVars, stdVars
<1>5. ASSUME NEW p \in Places, PoseCallback(p) PROVE IInv'
  BY <1>5 DEF PoseCallback, odomVars, worldVars, tileVars
<1>6. ASSUME NEW mode \in 0 .. 3, NEW p \in Places, LocUpdate(mode, p)
      PROVE IInv'
  <2>1. /\ m_std_xy' \in MinStd .. MaxStd
        /\ m_std_yaw' \in MinStd .. MaxStd
    BY <1>6, LimitInRange DEF LocUpdate, Distance, Max2
  <2>2. fault' = FALSE
    BY <1>6 DEF LocUpdate, CanUpdate, NoTile
  <2>3. QED
    BY <1>6, <2>1, <2>2 DEF LocUpdate, threadVars, odomVars, worldVars, tileVars
<1>7. ASSUME NEW t \in Threads, Snap(t) PROVE IInv'
  <2>1. m_world # NoWorld => /\ Cut.world \in Worlds
                             /\ Cut.origin = Origin[Cut.world]
                             /\ Cut.resets = resets
    BY DEF Cut
  <2>2. fault' = FALSE
    BY <1>7 DEF Snap
  <2>3. QED
    BY <1>7, <2>1, <2>2 DEF Snap, odomVars, worldVars, tileVars, offsetVars, stdVars
<1>8. ASSUME NEW t \in Threads, Install(t) PROVE IInv'
  BY <1>8 DEF Install, CutTile, CutFrame, odomVars, worldVars, offsetVars, stdVars
<1>9. ASSUME NEW t \in Threads, Publish(t) PROVE IInv'
  BY <1>9 DEF Publish, odomVars, worldVars, tileVars, offsetVars, stdVars
<1>10. CASE Wake
  BY <1>10 DEF Wake, odomVars, worldVars, tileVars, offsetVars, stdVars
<1>11. CASE UNCHANGED vars
  BY <1>11 DEF vars, threadVars, odomVars, worldVars, tileVars, offsetVars, stdVars
<1>12. QED
  BY <1>1, <1>2, <1>3, <1>4, <1>5, <1>6, <1>7, <1>8, <1>9, <1>10, <1>11
     DEF Next, Callback, UpdateMap

\* Whatever the interleaving of the two threads, the inductive invariant holds.
THEOREM InductiveInvariant == Spec => [](TypeOK /\ IInv)
<1>1. Init => IInv
  BY LocAssumption DEF Init, IInv, BufferComesFirst, FramesAgree, ExecutorCutIsFresh,
     SpreadAfterMap, FrameOfTile, NoNullPointer, Threads
<1>2. QED
  BY <1>1, Inductive, TypeCorrect, PTL DEF Spec

\* No thread reaches the buffer or the tile before it exists.
THEOREM NoNullPointerHolds == Spec => []NoNullPointer
BY InductiveInvariant, PTL DEF IInv

\* Samples are always drawn from spreads within the limits.
THEOREM SamplingSpreadHolds == Spec => []SamplingSpread
<1>1. IInv => SamplingSpread
  BY DEF IInv, SpreadAfterMap, SamplingSpread, CanUpdate
<1>2. QED
  BY <1>1, InductiveInvariant, PTL

\* The tile in use and its frame are always those of one cut.
THEOREM FrameOfTileHolds == Spec => []FrameOfTile
BY InductiveInvariant, PTL DEF IInv

\* pose_callback() never returns having installed a tile older than its pose.
THEOREM ResetInstallsFreshTileHolds == Spec => ResetInstallsFreshTile
<1>1. ASSUME TypeOK, IInv, [Next]_vars,
             pc.executor = "install", pc'.executor = "publish"
      PROVE  m_map'.resets = resets'
  <2> USE <1>1 DEF TypeOK, Threads
  <2>1. CASE Install("executor")
    BY <2>1 DEF Install, CutTile, offsetVars, IInv, ExecutorCutIsFresh
  <2>2. CASE ~Install("executor")
    <3>1. pc'.executor # "publish"
      BY <2>2 DEF Next, Callback, Construct, OdomTransform, MapCallback,
         ScanCallback, PoseCallback, LocUpdate, UpdateMap, Snap, Install, Publish,
         Wake, vars, threadVars
    <3>2. QED
      BY <3>1
  <2>3. QED
    BY <2>1, <2>2
<1>2. QED
  BY <1>1, InductiveInvariant, PTL DEF Spec, ResetInstallsFreshTile

\* Every location update restarts the expiry from its own odometry.
THEOREM UpdateRestartsExpiryHolds == Spec => UpdateRestartsExpiry
<1>1. TypeOK /\ [Next]_vars
        => [m_scan_buffer # {} /\ m_scan_buffer' = {} /\ BroadcastTF
              => tfOut'.stamp = clock + NsPerSec]_vars
  <2> SUFFICES ASSUME TypeOK, [Next]_vars, BroadcastTF,
                      m_scan_buffer # {}, m_scan_buffer' = {}
               PROVE  tfOut'.stamp = clock + NsPerSec
    OBVIOUS
  <2> USE LocAssumption
  <2>1. PICK mode \in 0 .. 3, p \in Places : LocUpdate(mode, p)
    BY DEF Next, Callback, Construct, OdomTransform, MapCallback,
       ScanCallback, PoseCallback, UpdateMap, Snap, Install, Publish, Wake, vars
  <2>2. clock \in Nat
    BY DEF TypeOK
  <2>3. tfOut'.stamp = Stamp(ExpireLater(ToTime(clock)))
    BY <2>1 DEF LocUpdate, Broadcast, UpdateTime
  <2> DEFINE t == ToTime(clock)
  <2>4. t \in Time /\ Stamp(t) = clock /\ t.nanosec < NsPerSec
    BY <2>2, ToTimeType
  <2> HIDE DEF t
  <2>5. (t.nanosec + NsPerSec) % U32 = t.nanosec + NsPerSec
    BY <2>4 DEF Time
  <2>6. Stamp(ExpireLater(t)) = Stamp(t) + NsPerSec
    BY <2>4, <2>5, ExpireLaterType DEF Stamp, Time
  <2>7. QED
    BY <2>3, <2>4, <2>6 DEF t
<1>2. QED
  BY <1>1, TypeCorrect, PTL DEF Spec, UpdateRestartsExpiry

-----------------------------------------------------------------------------
(* update_map() implements the tile service.                                *)

\* A step that leaves tiles alone changes what the next one would be cut from,
\* or nothing, as long as maps, odometry and resets are not taken back.
LEMMA InputChanges ==
    ASSUME TypeOK, TypeOK', TilesRead' = TilesRead, TileInUse' = TileInUse,
           m_world # NoWorld => m_world' # NoWorld, odomKnown => odomKnown',
           resets' >= resets
    PROVE  [Service!Next]_Service!vars
<1>1. CASE TileInput' = NoWorld
  <2>1. TileInput = NoWorld
    BY <1>1, LocAssumption, NullAssumption DEF TileInput, Cut, TypeOK, MapPose
  <2>2. QED
    BY <1>1, <2>1 DEF Service!vars
<1>2. CASE TileInput' # NoWorld
  <2>1. /\ TileInput' = [world |-> m_world', x |-> Cut.x', resets |-> resets']
        /\ m_world' \in Worlds /\ Cut.x' \in Int /\ resets' \in Nat
    BY <1>2, LocAssumption DEF TileInput, Cut, TypeOK, MapPose
  <2>2. TileInput' \in Service!Input
    BY <2>1 DEF Service!Input
  <2>3. TileInput # NoWorld => TileInput.resets = resets
    BY DEF TileInput, Cut
  <2>4. Service!Change
    BY <2>1, <2>2, <2>3 DEF Service!Change
  <2>5. QED
    BY <2>4 DEF Service!Next
<1>3. QED
  BY <1>1, <1>2

\* Snap() is a read of the service, Install() an installation, and no other step
\* touches what was read.
LEMMA ServiceStep ==
    ASSUME TypeOK, TypeOK', IInv, [Next]_vars
    PROVE  [Service!Next]_Service!vars
<1> USE LocAssumption, NullAssumption DEF TypeOK
<1>1. CASE Construct \/ Wake
  BY <1>1, InputChanges DEF Construct, Wake, TilesRead, CutTile, TileInUse,
     odomVars, worldVars, tileVars, offsetVars, Threads
<1>2. CASE OdomTransform
  BY <1>2, InputChanges DEF OdomTransform, TilesRead, CutTile, TileInUse,
     threadVars, worldVars, tileVars, offsetVars
<1>3. ASSUME NEW w \in Worlds, MapCallback(w) PROVE [Service!Next]_Service!vars
  BY <1>3, InputChanges DEF MapCallback, TilesRead, CutTile, TileInUse,
     threadVars, odomVars, tileVars, offsetVars
<1>4. ASSUME NEW s \in Sensors, ScanCallback(s) PROVE [Service!Next]_Service!vars
  BY <1>4, InputChanges DEF ScanCallback, TilesRead, CutTile, TileInUse,
     threadVars, odomVars, worldVars, tileVars, offsetVars
<1>5. ASSUME NEW p \in Places, PoseCallback(p) PROVE [Service!Next]_Service!vars
  BY <1>5, InputChanges DEF PoseCallback, TilesRead, CutTile, TileInUse,
     odomVars, worldVars, tileVars, Threads
<1>6. ASSUME NEW mode \in 0 .. 3, NEW p \in Places, LocUpdate(mode, p)
      PROVE  [Service!Next]_Service!vars
  BY <1>6, InputChanges DEF LocUpdate, TilesRead, CutTile, TileInUse,
     threadVars, odomVars, worldVars, tileVars
<1>7. ASSUME NEW t \in Threads, Snap(t) PROVE [Service!Next]_Service!vars
  <2>1. UNCHANGED <<TileInput, TileInUse>>
    BY <1>7 DEF Snap, TileInput, TileInUse, Cut, MapPose,
       odomVars, worldVars, tileVars, offsetVars
  <2>2. CASE m_world # NoWorld /\ odomKnown
    <3>1. TilesRead[t] = NoWorld /\ TileInput # NoWorld
      BY <1>7, <2>2 DEF Snap, TilesRead, TileInput, Cut, MapPose
    <3>2. TilesRead' = [TilesRead EXCEPT ![t] = TileInput]
      BY <1>7, <2>2 DEF Snap, TilesRead, TileInput, CutTile, Cut
    <3>3. QED
      BY <2>1, <3>1, <3>2 DEF Service!Read, Service!Next
  <2>3. CASE ~(m_world # NoWorld /\ odomKnown)
    <3>1. TilesRead' = TilesRead
      BY <1>7, <2>3 DEF Snap, TilesRead, CutTile
    <3>2. QED
      BY <2>1, <3>1 DEF Service!vars
  <2>4. QED
    BY <2>2, <2>3
<1>8. ASSUME NEW t \in Threads, Install(t) PROVE [Service!Next]_Service!vars
  <2>1. TilesRead[t] = CutTile(t) /\ CutTile(t).world \in Worlds /\ CutTile(t) # NoWorld
    BY <1>8 DEF Install, TilesRead, CutTile, IInv, FramesAgree, Snapshot
  <2>2. CutFrame(t) = Service!FrameOf(CutTile(t))
    BY <1>8 DEF Install, CutFrame, CutTile, Service!FrameOf, IInv, FramesAgree
  <2>3. TileInUse' = [cut |-> CutTile(t), frame |-> Service!FrameOf(CutTile(t))]
    BY <1>8, <2>2 DEF Install, TileInUse
  <2>4. TilesRead' = [TilesRead EXCEPT ![t] = NoWorld]
    BY <1>8 DEF Install, TilesRead, CutTile
  <2>5. TileInput' = TileInput
    BY <1>8 DEF Install, TileInput, Cut, MapPose, odomVars, worldVars, offsetVars
  <2>6. QED
    BY <2>1, <2>3, <2>4, <2>5 DEF Service!Install, Service!Next
<1>9. ASSUME NEW t \in Threads, Publish(t) PROVE [Service!Next]_Service!vars
  BY <1>9, InputChanges DEF Publish, TilesRead, CutTile, TileInUse,
     odomVars, worldVars, tileVars, offsetVars
<1>10. CASE UNCHANGED vars
  BY <1>10, InputChanges DEF vars, TilesRead, CutTile, TileInUse,
     threadVars, odomVars, worldVars, tileVars, offsetVars
<1>11. QED
  BY <1>1, <1>2, <1>3, <1>4, <1>5, <1>6, <1>7, <1>8, <1>9, <1>10
     DEF Next, Callback, UpdateMap

\* Whichever thread runs update_map(), whatever the other does meanwhile: what
\* it reads under one lock it installs as one under the next.
THEOREM ImplementsTileSafety == Spec => Service!Safety
<1>1. Init => Service!Init
  BY DEF Init, Service!Init, TileInput, TilesRead, TileInUse, Threads
<1>2. QED
  BY <1>1, ServiceStep, InductiveInvariant, PTL DEF Spec, Service!Safety
=============================================================================
