# A TLA+ model of mfi_multiagent_sim

The repository is a ROS 2 workspace for several mobile robots: a localization
node, a local planner plugin, an RViz panel that commands the fleet, a copy of
the `topic_tools` nodes, message definitions and launch files.  This directory
holds TLA+ modules translated from its C++ code, the TLC configurations that
model-check them, and theorems that TLAPS proves about them.  All line numbers
are those of the repository; paths without a prefix are below `src/ws/src`.

## 1. The system

| Component | State | Operations | Module |
|---|---|---|---|
| localization node `neo_localization2/src/neo_localization_node.cpp` | world map, map tile and its frame, odom-to-map offset and its time, sampling spread, scan buffer; a node mutex; a second thread | map, scan and pose callbacks, the update timer, `update_map()` on two threads, `broadcast()` | `NeoLocalization` |
| map tile `neo_localization2/include/neo_localization/GridMap.h` | cells of a tile | cut, `downscale`, `smooth_33_1`, bilinear lookup and summation, gradients | `GridMap`, `MapTile` |
| local planner `neo_local_planner2/src/NeoLocalPlanner.cpp` | plan, last command and control values, driving state, direction, limits | `setPlan`, `computeVelocityCommands`, parameters, activation, odometry | `NeoLocalPlanner` |
| fleet panel `neo_fleet_rviz2_plugin` | last goal and pose (shared by two threads), robots found, robot selected | the worker's callbacks and loop, the GUI's slots | `FleetPlugin` |
| base of the topic tools `topic_tools/.../tool_base_node.cpp` | publisher, subscription, input topic | discovery | `ToolBaseNode` |
| relay, drop, delay nodes | a count; pending timers | `process_message` and timers | `Relay`, `Drop`, `Delay`, composed in `TopicTools` |
| throttle node | time of the last message, deque of sizes | `process_message` | `Throttle` |
| mux node | list of input topics | add, delete, select services, discovery | `Mux` |
| scan matching `neo_localization2/include/neo_localization/Solver.h`, `Util.h`, `Convert.h`, `neo_common2/.../Matrix.h` | none between calls | a solver step, covariance, eigenvectors, conversions between frames | `Matrix`, `Util`, `Solver`, `ScanMatch`, checked on tiles in `TileMatch` |
| scripts `relay_field.py`, `transform.py` | publisher, subscription | a constructor that looks at the graph twice, a callback | `ScriptNode`, composed in `TopicTools` |
| launch files and configuration, messages, services, container | declarative | | not modelled |

How they interact:

* Localization, planner and the fleet panel are nodes or plugins of different
  processes.  They meet only through topics, tf and the navigation action: the
  planner gets its poses through tf (into which the localization broadcasts map-to-odom), the panel
  sends poses and goals to a robot.  None reads another's state, so each is a
  specification of its own, with the others as an environment that may do
  anything their interface allows.
* Inside the localization node two threads share members under `m_node_mutex`.
  `update_map()` takes the lock twice and reads once more after releasing it.
* Inside the panel a worker thread and the GUI thread share two pointers
  without a lock; the worker reaches the GUI by queued Qt signals.
* Inside a topic tool one mutually exclusive callback group runs everything.
  What interleaves is outside: publishers come and go, and messages wait in
  a subscription's queue while discovery changes publisher and subscription.  The
  scripts have no discovery; for them it is their constructor that interleaves with the graph.
* The planner is called by one thread of the controller server; what is hard in
  it is the protocol (plans, resets, activation, parameters between calls) and
  signs that several variables carry together.

What each has to keep, beyond its types:

* localization: no null pointer whichever thread runs first; tile and frame
  belong together; a reset installs a tile of its own; the spread stays within its
  limits; the tile and its picture follow map and pose; an update renews the stamp;
* tile: lookups stay inside and interpolate; no axis is favoured; the summation is the
  lookup's counterpart; halving and smoothing move an obstacle by a fraction of a pixel;
* scan matching: a step exists, climbs and turns with the world; the four places that
  chain frames agree; a scan is matched where it was taken; a wall says nothing
  about the place along it;
* planner: commands follow each other within the limits of gaining and braking, whatever sign
  they were left with; no more speed at an obstacle; no backing up where it is not
  allowed, but for the cost term; slowing for an obstacle that stays ahead;
* panel: commands in order and none twice, goals do not stay behind;
* tools: no publishing through a publisher that is gone; only the selected
  topic; X of Y; rates; a lazy tool follows demand; a source that stays is subscribed
  to, with a QoS its publishers offer; a script does not hang in its constructor.

The hazards behind these are listed with their lines in `PROJECT.json`.

## 2. Modules

`A <- B` reads "A extends B".

    NeoLocalization          <- MCNeoLocalization, NeoLocalization_proofs
      instance: TileService  (refined by update_map() on its two threads)
    GridMap <- MapTile <- TileMatch  <- MCTileMatch, TileMatch_proofs
      instance: ScanMatch    (in TileMatch, with whole pixels)
    Matrix <- Util
    GridMap, Util <- Solver  <- ScanMatch
    ToolBaseNode <- Relay, Drop, Delay, ScriptNode
                             <- TopicTools <- MCTopicTools, TopicTools_proofs
                 <- Throttle <- MCThrottle, Throttle_proofs
                 <- Mux      <- MCMux, Mux_proofs
    MCGraph                  the publishers around a tool, for the MC modules of the tools
    FleetPlugin              <- FleetPlugin_proofs; checked as it is
      instances: CommandMailbox, for goals and for poses
    NeoLocalPlanner          <- MCNeoLocalPlanner, NeoLocalPlanner_proofs
    Sums_proofs              <- Throttle_proofs, TileMatch_proofs   (facts about sums over finite sets)

Definitions called *(Slip: ...)* state the mistake the properties are meant to
catch: substituted for the definition after them, they make a run fail.

### NeoLocalization

Every callback holds the node mutex from its first to its last access to a
member, so it is one action: `MapCallback`, `ScanCallback`, `PoseCallback`,
`LocUpdate`.  `update_map()` is three: `Snap` (first critical section and the
lookup of the pose, lines 574-600), `Install` (second critical section, 602-639;
what is computed between the two touches only the thread's copy) and `Publish`
(641-666, after the lock).  `pc` says where each thread is; `Wake` is the sleep
of `update_loop()`.  `pose_callback()` leaves the executor in `Snap`, so nothing else
runs on it until its tile is out.  The constructor is an action because the update thread
already runs: `Construct` creates the tf buffer.

The pose is one-dimensional; a scan match yields any pose of `Places` and any
mode.  A tile is known by the map and cell it was cut from and, as history, the
number of resets before the cut.  The 32-bit `nanosec` of the broadcast keeps its
width: `U32` lies between four and five seconds as 2^32 ns does.  `Publish` leaves out
that the message takes its stamp from `m_offset_time` (648), again without the lock: no property is
about the stamp of the picture.

`TileService` is what the node promises of its tile, without locks, threads or
messages: a client reads what a tile is cut from in one step, and in one later
step the tile and its frame appear together; what was read is installed in the
end.  The mapping is at the end of `NeoLocalization`: the service's input is
what a cut would be made from now, a client's cut is what its thread holds
between the two critical sections.  The published origin is outside the promise (see 5).

### GridMap and MapTile

`GridMap` has each access and filter as an operator on integers: a
position counts `Sub` steps to a pixel, a cell `unit` to one, so nothing is rounded.
The coefficients of gradients are replaced by small integers of the same symmetric
shape; no property depends on their values.  Those of the filters are factors along the two axes, as the code's are:
2-3-2 for a ratio of 1.58 (any symmetric smoothing keeps the centre of mass) and 7-19-19-7 for a ratio of 2.718, with 2.714.  This
one matters to `ObstaclesStay`: halving with it moves the centre of mass of a single cell a little towards that of its half (only 1-3-3-1 would not),
which is why the property allows a twentieth of a pixel.  The conversion of a
coordinate to `int` goes towards zero, as in C++, while `floorf` goes down.
`MapTile` runs them as `update_map()` does: cut, halve, smooth, use, and again.

### Matrix, Util, Solver, ScanMatch and TileMatch

These take headings by quarter turns, so sines and cosines are -1, 0 and 1 and
every matrix has integer elements; what a slip of a sign, an index or an order of
factors would do shows there.  A solver step is kept as a vector (`x`, the adjugate times
the gradient) and the determinant that divides it; the gain is left out.  `inverse()`,
pages of expanded polynomials, is written as cofactors; that it is an inverse is checked where it
is used (`StepClimbs`, `TileAroundRobot`).  Square roots and the
projection on a line are rounded down.  `Solver` sums over a scan as
`integrate()` does; `ScanMatch` has the products of frames of the node's
callbacks and what is used of a match (the modes 0 to 3 of `LocUpdate` in
`NeoLocalization`, where the mode is a free choice).  `TileMatch` checks all of it on
the tiles of `MapTile`, at whole pixels (`Sub <- 1` in its instance); the run looks at tiles just cut, the
theorems also at those halved and smoothed.  Between pixels and below zero the code is not symmetric: its conversion
to `int` and `floorf` differ there.
The samples' variances, and which sample the iterations end in, stay free choices.

### The topic tools

`ToolBaseNode` is `make_subscribe_unsubscribe_decisions()` (`Decide`) in a
graph whose publishers differ in topic, type and QoS.  `Profile` is the
adaptation of `try_discover_source()` with reliability, durability and deadline;
liveliness and lifespan work like them and are left out.  A publisher made in a turn of discovery has no match
in that turn (`Wanted`): the middleware needs time to find a subscriber, and if it found one at once the
tool would subscribe a turn earlier.  The nodes add
`process_message()`.  `TopicTools` is one node of the kinds `relay`,
`drop` and `delay`, or a script; each kind keeps the variables of the others unchanged.  A
delay node never declares `lazy` and reads it uninitialised: both values of
`lazy_` are behaviours of the program.  The mux keeps names as users spell them
(`Names`) and what they resolve to (`Resolve`); it is assumed to be started with
an initial topic of its list or with `__none`.  Service responses are left out.
A throttle is started with one of its two types; with any other the constructor ends early (43) and the node is idle.

`ScriptNode` is `relay_field.py`; `transform.py` takes the same steps and
differs in how its expression is given.  `FindClass`, `ChooseQos` and `Create` are the steps of the constructor,
between which the graph changes: the type is looked up, then the publishers' QoS, then
publisher and subscription are made of both.  The callback publishes or, when the expression
fails, ends the node.

### FleetPlugin

Commands are numbered as the user gives them.  `SendGoal`, `WaitForServer`, then
`GoalSent` or `GoalTimeout` are the steps of `send_goal()`, between which the worker may
store the next goal (a goal stored between the sending at 247 and the reset at 252 meets the same reset as one stored
while the GUI waits, so `GoalSent` has both in one step); `UpdatePos`, `PublishPose`, `ClearPose` those of
`update_pos()`.  The pointers are unguarded: a copy made while the worker
replaces the message may be `Torn`.  A null `robot_` ends the process (`Crash`).

`CommandMailbox` is what the panel promises for goals and for poses: a command may
be lost, and may be spoilt by a later one, but none is sent twice or after a later one.

### NeoLocalPlanner

`Compute` is a whole call, `Reissue` the early return after a change of goal,
`Crash` a call before any odometry or the sixth point of a plan that
has fewer.  A call sees any `Scene`: speed, whether the goal is within
reach, how large the yaw error is, the obstacle, the cost gradient.  The
operators follow the order of the code: direction, control value, driving
state, cost term, stuck, filter, acceleration limits, clamp.  Velocities are
integers; the acceleration limit is per 0.1 s, the largest `dt` the code uses.
The limits are those of one of the parameter sets `Limits`, and
`SetParameters` may change them at any time while the robot drives; they are the acceleration and velocity
limits of the axes, the other parameters (724-774) are constants.  A `min_vel` may have any sign: the
code checks none, it declares 0.2 and `navigation.yaml` sets -0.2.  `seen` is history: what the last
call was about, the obstacle on the way, what the cost term may have added and whether the call braked.

What the properties except is what the code does there, not what the model leaves out:

* A robot that starts to reverse from a forward command gets its absolute value as speed backwards, and
  none limits a robot that reverses to a goal within reach (`Unlimited`).
* In reverse the bounds of lines 622-624 may change sides, so either of the two limits may be the step.
* The cost term of a rotating holonomic robot comes after stop and forward limit (`Unpushed`, and
  `NoBackingUpOnPath` allows what it takes off); what the code says there is `OnlyForward`.
* A stop because the robot is stuck (600) is not remembered as its last command.

## 3. What is checked

Eight runs pass and four show a disagreement.

| Run | Bounds | What it shows |
|---|---|---|
| `loc_threads` | 2 maps with different origins, 2 base positions, 2 resets, spread up to 2 | every order of callbacks and tile thread: `NoNullPointer`, `SamplingSpread`, `FrameOfTile`, `ResetInstallsFreshTile` |
| `loc_follow` | 2 maps, one base position, 3 resets, stamps of 2 ticks to a second in a field of 9 | `TileFollows`, `VisualisationFollows`: maps and resets are followed (the motion of the robot is in `loc_threads`); the refinement `ImplementsTileService`; `UpdateRestartsExpiry` |
| `tile` | 7 worlds of 16x16: one or two marked cells, or a wall along an axis; 9 tiles of 15x15, one halving and one smoothing, 4 positions per pixel; a scan of two points, matched at 4 poses with one heading each; 2 frames for map, odometry and sensor | accesses: `ReadsInside`, `LookupInterpolatesInside`, `GradientTransposes`, `SummationAnswersLookup`, `ObstaclesStay`; matching: `StepTurnsWithWorld`, `StepClimbs`, `CorridorKeepsAxis`, `TileAroundRobot`, `ScanIsCompensated` |
| `tools` | 3 publishers (two that differ in QoS, one of another type), one message waiting, 2 of 3 dropped, delay 2, 2 delayed messages; lazy; scripts with and without a QoS of the user, waiting for a publisher or not | `RelayAndDelayCheckPublisher`, `DropsXOfY`, `NewSubscriptionConnects`, `ToolLazyUnsubscribes`, `ToolSourceIsSubscribed`, `ScriptStartsOrEnds`, `EveryTimerFires` |
| `throttle` | both types, clock 0..3 set back at will, period 2, window 1, sizes 1 and 2, limit 3 | `KeepsMessageRate`, `KeepsWindowLimit` |
| `mux` | 2 topics and `__none`, three spellings, 3 publishers, not lazy | `SelectedIsListed`, `ForwardsSelected`, `FreshSubscriptionConnects`, `SelectedIsSubscribed` |
| `fleet` | 2 robots, 3 goals, 2 poses, 2 signals | the refinements `GoalsAreMailbox` and `PosesAreMailbox`; `StoredGoalLeaves` |
| `planner` | differential and holonomic, reversing or not; measured speeds 1 (which counts as stopped) and 3; two parameter sets that trade acceleration (1, 2) for speed (2, 1), exchanged while driving; emergency 2, obstacle at 0, 1 or none | `TypeOK`, `KeepsAcceleration`, `StopsForward`, `NoBackingUpOnPath`, `SlowsForObstacles` |
| `loc_tile_origin` | as `loc_threads` | violated: `PublishedAtOwnOrigin` |
| `tools_null` | as `tools`, not lazy | violated: `NoNullPublish` |
| `fleet_lost` | 2 goals | violated: `LastGoalIsSent` |
| `planner_forward` | holonomic, one parameter set | violated: `OnlyForward` |

Why the bounds are enough.  Two maps and two resets let a cut be overtaken by
another map and by another reset; there are only two threads.  Three
resets after an update let it start anew from a wrapped stamp.  An odd tile side loses pixels when
it is halved, and marked cells next to each other and apart
make a kernel shifted by a pixel visible in the centre of mass, ten times further than the kernel itself moves it; lookups are checked at every
position of the tile.  Among worlds, poses and samples all four modes of a match
occur: walls make the Hessian singular without its damping, marked cells do not; the
four poses have the four headings, and both frames turn and move at once,
so no two factors of a product commute.  With three publishers every fallback of the QoS is
needed by some pair.  One waiting message suffices for the
tools, because what is wrong with it is that it waits.  A third goal can overtake one that
was kept after a timeout while the second is copied.  In the throttle, the
clock jumps as far back as period and window together.  The planner's parameter
sets differ both ways: one reaches a velocity in two steps that the other does not allow, and the velocity
from which the farther obstacle can be stopped for lies between them.  A speed of 1 is in the range that the code takes as stopped although the
robot moves, and with 3 there are emergencies; at 0 the code ignores obstacles that are not as near as `min_stop_dist`, as without any.  It runs with the x axis only: the
other axes pass through the same filter, limits and clamp, without direction,
emergency brake or obstacle; the theorems have all axes.

### Fairness

* `loc_follow`: the tile thread loops until shutdown and its sleep ends; `spin()`
  runs an executor that finishes what it begins.  No message, scan or odometry is ever owed.
* `tools`, `mux`: the executor runs the discovery timer, takes waiting messages
  and fires timers that are due; time passes; a script's constructor runs on.  The graph owes nothing: the liveness
  properties assume what they need of it (`<>[]` of a source).
* `fleet`: the worker spins and loops, the GUI handles its queue.  Users and
  servers owe nothing; `StoredGoalLeaves` speaks of histories in which the
  servers are there all along.
* `planner`: time passes, and while a goal is pursued the server asks at a
  fixed rate.  `CHECK_DEADLOCK FALSE` in its configurations: a crash ends the plugin.

## 4. What is proved

TLAPS proves these for every value of the constants that satisfies the
assumptions named.

`NeoLocalization_proofs` (from `LocAssumption`, `NullAssumption`): `TypeCorrect`,
`InductiveInvariant`, and from it `NoNullPointerHolds`, `SamplingSpreadHolds`, `FrameOfTileHolds`,
`ResetInstallsFreshTileHolds`, `UpdateRestartsExpiryHolds`.  The invariant `IInv` adds four
parts to the safety properties, each of which a step needs:

* `BufferComesFirst`: only callbacks bring a map or odometry, and they run
  after the constructor; so a thread that sees a map has a buffer.
* `FramesAgree`: a cut under way has the frame of its own map.  Without it
  `Install` could pair any tile with any frame.
* `ExecutorCutIsFresh`: between its cut and its installation the executor runs no other callback.
* `SpreadAfterMap`: the spread is in range from the first map on, whether or not an update is possible yet.

`ImplementsTileSafety` is the safety part of the refinement `ImplementsTileService`: a step
of the node is a read, an installation, a change of the input or a stutter of the
service.  It needs `FramesAgree` for the frame that is installed with a tile.

`FleetPlugin_proofs` (from `FleetAssumption`): `TypeCorrect`, `GoalsAreMailboxHolds`,
`PosesAreMailboxHolds`, and from the two refinements `CommandsLeaveInOrder`: what is sent is in the order
in which the user gave it.  The invariants `GoalsInv` and `PosesInv` say where a command may still
be: every command that waits, on the topic or in the panel, is later than all that
were sent, and what the GUI has copied is later too until it is sent.  Without the
last part a kept goal could be sent again after a timeout.

`TopicTools_proofs` (from `BaseAssumption`, `ScriptAssumption`, `DropAssumption`):
`RelayAndDelayCheckPublisherHolds`, `NewSubscriptionConnectsHolds`, `DropsXOfYHolds`.
`ToolInv` needs that a script that serves has a publisher, and that it holds the QoS it chose
until it subscribes (`ProfileChosen`).  `DropInv` gives each message of the window its place
in a group of Y; the dropped ones of a full window are then those at the first X
places, each once, by a bijection that turns the window into a group.

`Mux_proofs` (from `BaseAssumption`, `MuxAssumption`): `MuxInvariant`,
`ForwardsSelectedHolds`, `SelectedIsListedHolds`, `FreshSubscriptionHolds`.  The
invariant says that while a publisher and a subscription exist and a topic is selected they are of
that topic, for whatever waits in the queue too; a selection drops both
before a publisher of the new topic appears.  `FreshSubscriptionHolds` rests on
`ProfileFits`: what `Profile` requests is offered by every publisher it looked at.

`Throttle_proofs` (from `ThrottleAssumption`): `KeepsMessageRateHolds` and `KeepsWindowLimitHolds`.  For the
rate, the invariant `Aged`
relates the history to the clock: the last message is at least as old as the clock says, since a jump
back makes `LastTime` start anew and never makes a message look older than it is.  For the bytes, `WindowInv`
says that the messages passed on within the window are still in the deque (`Remembered`), at places
that a common offset gives them, and are no older than their entries say; so the sum that the node compares
with the limit counts each of them, and what it keeps beyond them only makes it larger.

`NeoLocalPlanner_proofs` (from `PlannerAssumption`): `TypeCorrect`, `KeepsAccelerationHolds`,
`StopsForwardHolds`, `NoBackingUpOnPathHolds`, on every axis, for robots of all kinds and for velocity limits of any
sign.  The invariant adds to the types that an acceleration limit is negative only along x and while the robot
reverses, and that one that may not reverse keeps its direction; in reverse it may have either sign, since a
parameter overwrites it.  The lemmas follow
the order of the code: what the path asks for (`PathControlsType`), what the filter leaves between two values,
what the limits allow forwards and in reverse (`Forwards`, `Reverses`, `LimitsType`, `LimitedType`), what the clamp does to it (`ClampedType`), and `Answered` puts
them together for a whole call.  A step that gives the last command again changes none and publishes it as it is.

`Sums_proofs`: what sums over finite sets obey, whatever is summed: one element more, a union, a bijection, a
product of sets, linearity, order.  The definition of a sum is recursive and picks its elements
in an order of its own.  The proofs take induction over the subsets of a finite set, or over the
numbers below a bound, with a *set* for the induction hypothesis (`SubsetInduction`, `UpTo`), which a
first-order prover can instantiate.

`TileMatch_proofs` (from `SubAssumption`, `TileAssumption`, `SizesAssumption`, `WorldsAssumption`,
`MatchAssumption`, `InputsAssumption`) is about tiles of every size, with any number of halvings and smoothings,
cut from any grid, and about any scan:

* `SizeInvariant`, `TileIsGrid`: the sides of the tile after every halving, and one integer for each of its pixels.
  `ReadsInsideHolds` follows: lookups stay inside the array.  `SizesAssumption` is needed: nothing in
  the code keeps `map_downscale` from leaving an empty grid.
* `LookupInterpolatesInsideHolds`, `SummationAnswersLookupHolds`, `GradientTransposesHolds`: both sides are sums over the
  four pixels around a position, which may coincide where the border is repeated; the lemmas sort
  out which do.
* `ObstaclesStayHolds`.  Smoothing a line multiplies its sum and its first moment by 7, and halving it gives the
  sum that the line has when each pixel is weighted by the halves it goes into (`SmoothLineSum`, `HalfLineSum`, by
  induction over the length), apart from terms at its ends; an empty margin makes these vanish.  That weight is 26 for the
  sum, and for the moment 26 times the pixel's place but for a tilt towards the middle of one of its halves (`Tilt`), a thirteenth of a pixel.  A filter of the grid is that of the
  lines along one axis after that of the lines along the other.  Where the margin is empty the grid is a
  part of a plane that is zero elsewhere (`ValueOnPlane`), so that the repeated border does not matter.
  The invariant `StayInv` says of every margin of the cut how much of it is left, that nothing is below zero, and that the
  centres of mass are `Nearby`: apart by no more than a 26th of what a pixel of the tile is wider than one of the world.
  Each halving adds its tilt and doubles the pixel, so the tilts add up to less than a twentieth of the last
  pixel, however many there are.  It has to quantify over all margins because each halving halves them.
* `TileAroundRobotHolds`, `ScanIsCompensatedHolds`: the frames are a group (a heading by quarter turns and a translation), the
  products of the code (314, 430, 531, 596) are products in it, and `inverse()` gives its inverses; `MatchLocates` has the offset of a match.
* `StepClimbsHolds`: the Hessian is a sum of squares plus the damping, so it is positive definite: its
  determinant is positive, the adjugate solves the system, and the step has no negative product with the gradient.  The theorem
  says so of every tile on the way, not only of the one just cut that the run looks at.
* `StepTurnsWithWorldHolds`: turning the tile turns what every scan point contributes to gradient and Hessian; the sums
  turn with them, and so does the solution.  It is about tiles that were not halved (`FreshInv`: one just cut has the scale of its
  world), smoothed or not, and whole pixels.
* `CorridorKeepsAxisHolds`: along an axis in which the tile does not change every gradient is zero, because the kernel
  that it is taken with sums to zero, so the covariance has no entry there and the first eigenvector, if its value counts for anything, lies
  along the other axis; a match is moved along this one only.  Tiles halved and smoothed are included.

Only model-checked is what speaks of fairness, which TLAPS does not reach: `TileFollows`, `VisualisationFollows`, the liveness of
`ImplementsTileService`, `ToolLazyUnsubscribes`, `ToolSourceIsSubscribed`,
`ScriptStartsOrEnds`, `SelectedIsSubscribed`, `EveryTimerFires`, `StoredGoalLeaves`,
`SlowsForObstacles`.  Every other property of a passing run is a theorem.

## 5. Where the code and its words disagree

With a run:

* `loc_tile_origin`: `update_map()` reads the shared `m_grid_to_map` after the
  lock (line 641): the message may show one thread's tile at the origin of the other's.
* `tools_null`: the drop and mux nodes use `pub_` without a check although a
  comment in the delay node says that it needs one.
* `fleet_lost`: a goal stored while the panel waits for the server is
  set to null with the goal that was sent (line 252).
* `planner_forward`: "only allow forward velocity" (489) comes before the cost term (574), which sends a
  rotating holonomic robot backwards; `navigation.yaml` configures one that may not reverse.

Seen while modelling, without a run of its own:

* `neo_localization_node.cpp:636`: a tile the update thread cut before a
  reset may be installed after "a new map tile immediately" (545) was; `TileFollows` shows that it does not stay.
* `neo_localization_node.cpp:698`: every broadcast adds a second to the 32-bit `nanosec`; after four or five pose estimates
  without an update it wraps, and the transform that should have "an expiry time" (697) lies in the past.
* `neo_localization_node.cpp:159`, `186-187`: the update thread starts before the frames get the robot's
  prefix, and reads their names; 192: the destructor leaves the thread joinable, so every end of the
  node, also by an exception such as that of `compute_variance()` (384) for
  a `sample_rate` below 2, is a `std::terminate`.
* `GridMap.h:155`: in the half pixel before the first centre the lookup
  extrapolates, because truncation and `floorf` differ there.
* `Solver.h:208`: the virtual covariance takes `sin * ddx + cos * ddy` where the gradient (142) has
  a negative sine; 79: the score of a sample is the one before its last step.
* `tool_base_node.cpp:48-58`: a subscription that exists keeps its type and QoS
  when the source's change, so it may match no publisher; the scripts keep
  those of their start for good.
* `relay_field.py:56`: a relative topic is put right after the namespace, without a slash
  in between when there is a namespace.
* `mux_node.cpp:161-164`: selecting `__none` leaves publisher and subscription of the topic before.
* `throttle_node.cpp:86`: bytes of a window are compared with a limit
  per second, whatever the window's length.
* `delay_node.cpp:25-37`: `lazy_` is never initialised.
* `NeoFleetRViz2Plugin.cpp:233`: the robot is the one selected when the slot
  runs, not when the goal was given; with none selected it is null here and at 315.
* `NeoLocalPlanner.cpp:497`: "limit backing up" (495) compares an absolute value with a negative number (or, while turning,
  zero), so it never limits anything and `STATE_TURNING` is never entered.
* `NeoLocalPlanner.cpp`, in reverse: the root of a number below zero (468) is none, `fmin` ignores it and no
  obstacle farther than `min_stop_dist` slows the robot; 623 takes the absolute value of the last speed less
  braking, so a robot that stands at an obstacle is sent towards it; a parameter `acc_lim_x` that is set meanwhile (705) loses the sign of
  the direction, and 623 then makes every command faster than the one before, up to `max_vel_x`.
* `NeoLocalPlanner.cpp:574`: the cost term also acts after the stop for an obstacle (484), so a
  holonomic robot that rotates may be sent faster than it can stop; 600: a stuck
  robot is stopped at once and the remembered command is not; 622: the absolute value of a forward command becomes a speed backwards; 639-653: velocity limits that are set closer
  while driving make the command jump to them, past the acceleration limit, and the remembered control
  value, which is not clamped, acts on after a lowered `min_vel_x`.

## 6. What is left out

`MultiGridMap` with its solver, and `MatrixX`, which nothing uses.  The samples of a match, their
variances, the gain and number of iterations: `NeoLocalization` takes any spread and any result.
Float rounding, and headings other than quarter turns.  Scan contents beyond points, labels, responses,
logging.  Exceptions other than failed lookups and expressions, and the shutdown of every
node.  Interface definitions and the container have no behaviour of their own, nor have the launch files: the
parameters they set are the constants here, and the names they give nodes, topics and
frames are fixed before anything runs.  `spline_solve.cpp` prints formulas and is in no build target.

## 7. State of the plan

Done, in the order of the plan: the modules, the three refinements (tile service, mailbox of goals,
mailbox of poses), scan matching, the scripts, and the proofs of section 4.

Left: headings other than quarter turns and positions between pixels in the solver's steps, which need more than integers;
a forwarder of one topic as an abstract specification of relay and mux, which would say no more than `ForwardsSelected`.
