--------------------------- MODULE NeoLocalPlanner ---------------------------
(****************************************************************************)
(* The local planner (neo_local_planner2/src/NeoLocalPlanner.cpp), a plugin *)
(* of the controller server.  The server hands it a plan and then asks for  *)
(* a velocity, over and over; the planner keeps its last answers, a driving *)
(* state and, when it may reverse, the direction it chose for the plan.     *)
(*                                                                          *)
(* Velocities are whole units and accelerations units per 0.1 s, the        *)
(* longest dt the code lets through; the clock does not go back.  The       *)
(* geometry of a call (poses, costs, errors) is reduced to the comparisons  *)
(* the code makes with it, and chosen freely.                               *)
(****************************************************************************)
EXTENDS Integers

CONSTANTS
    max_backup_dist, trans_stopped_vel,     \* parameters
    emergency_acc_lim_x, max_vel_trans,     \* parameters
    Drives,         \* values of the parameter differential_drive
    Axes,           \* components of a velocity: "x" and some of "y", "theta"
    Limits,         \* values of the parameters acc_lim, min_vel and max_vel
    None,           \* no obstacle within 10 m, no plan
    StartVel,       \* measured |speed.linear.x|
    Obstacles,      \* distance to an obstacle less min_stop_dist; 0: or nearer
    pos_x_gain,     \* parameter
    PosErrors,      \* pos_error.x()
    Costs,          \* delta_cost_x * cost_x_gain
    Controls        \* control values of the other axes

ASSUME PlannerAssumption ==
    /\ Drives \subseteq BOOLEAN
    /\ max_backup_dist \in Nat /\ trans_stopped_vel \in Nat
    /\ emergency_acc_lim_x \in Nat /\ max_vel_trans \in Nat /\ pos_x_gain \in Nat
    /\ "x" \in Axes /\ Axes \subseteq {"x", "y", "theta"}
    /\ Limits # {}
    /\ Limits \subseteq
          [acc_lim : [Axes -> Nat], min_vel : [Axes -> Int], max_vel : [Axes -> Nat]]
    /\ StartVel \subseteq Nat /\ Obstacles \subseteq Nat /\ None \notin Obstacles \cup {0}
    /\ PosErrors \subseteq Int /\ Costs \subseteq Int /\ Controls \subseteq Int

VARIABLES
    m_allow_reversing, differential_drive, \* parameters configure() reads
    active,         \* activate() was called
    m_odometry,     \* an odometry message was received
    m_global_plan,  \* None, or whether the plan has a sixth point
    m_reset_lastvel,
    m_last_cmd_vel, m_last_control_values,
    m_robot_direction, count,
    acc_lim, min_vel, max_vel, \* parameters by axis; acc_lim["x"] takes a sign
    dt,             \* time since m_last_time: 0, or 1 for 0.1 s and longer
    m_state,
    cmd_vel,        \* history: what the last call returned
    seen,           \* history: what the last call was about
    crashed         \* a null or dangling element was dereferenced

planVars  == <<m_global_plan, m_reset_lastvel>>
lastVars  == <<m_last_cmd_vel, m_last_control_values>>
turnVars  == <<m_robot_direction, count>>
limitVars == <<acc_lim, min_vel, max_vel>>
kindVars  == <<m_allow_reversing, differential_drive>>
vars == <<kindVars, active, m_odometry, planVars, lastVars, turnVars, limitVars, dt,
          m_state, cmd_vel, seen, crashed>>

Velocity == [Axes -> Int]
Stop == [a \in Axes |-> 0]
fmin(x, y) == IF x <= y THEN x ELSE y
fmax(x, y) == IF x >= y THEN x ELSE y
fabs(x) == fmax(x, -x)

\* What a call finds: |speed.linear.x|, whether the goal is within reach, the
\* yaw error (0: up to start_yaw_error, 1: up to 30 degrees, 2: more), the
\* obstacle ahead and the cost gradient.
Scene == [speed : StartVel, is_goal_target : BOOLEAN, yaw_error : 0 .. 2,
          obstacle : Obstacles \cup {None}, cost : Costs]

\* What is remembered of it: the goal and how far it is, or the obstacle ahead on
\* the path; whether the robot moved; what a cost term may add; whether it brakes.
Seen == [is_goal_target : BOOLEAN, error : PosErrors \cup {0},
         ahead : Obstacles \cup {None}, moving : BOOLEAN,
         pushed : Costs \cup {0}, braking : BOOLEAN]
NoScene == [is_goal_target |-> FALSE, error |-> 0, ahead |-> None, moving |-> FALSE,
            pushed |-> 0, braking |-> FALSE]

Init ==
    /\ m_allow_reversing \in BOOLEAN /\ differential_drive \in Drives
    /\ active = FALSE /\ m_odometry = FALSE
    /\ m_global_plan = None /\ m_reset_lastvel = FALSE
    /\ m_last_cmd_vel = Stop /\ m_last_control_values = Stop
    /\ m_robot_direction = 1 /\ count = 0
    /\ \E p \in Limits : acc_lim = p.acc_lim /\ min_vel = p.min_vel /\ max_vel = p.max_vel
    /\ dt = 1 /\ m_state = "IDLE"
    /\ cmd_vel = Stop /\ seen = NoScene
    /\ crashed = FALSE

-----------------------------------------------------------------------------
(* The controller server and the other callbacks.                           *)

Activate ==
    /\ ~crashed /\ ~active
    /\ active' = TRUE
    /\ UNCHANGED <<kindVars, m_odometry, planVars, lastVars, turnVars, limitVars, dt,
                   m_state, cmd_vel, seen, crashed>>

Deactivate ==
    /\ ~crashed /\ active
    /\ active' = FALSE
    /\ UNCHANGED <<kindVars, m_odometry, planVars, lastVars, turnVars, limitVars, dt,
                   m_state, cmd_vel, seen, crashed>>

OdomCallback ==
    /\ ~crashed /\ ~m_odometry
    /\ m_odometry' = TRUE
    /\ UNCHANGED <<kindVars, active, planVars, lastVars, turnVars, limitVars, dt,
                   m_state, cmd_vel, seen, crashed>>

\* The clock.
Tick ==
    /\ ~crashed /\ dt = 0
    /\ dt' = 1
    /\ UNCHANGED <<kindVars, active, m_odometry, planVars, lastVars, turnVars,
                   limitVars, m_state, cmd_vel, seen, crashed>>

\* setPlan() and reset_lastvel(): a plan to another goal than the plan before
\* forgets the last answers.
Resets(sameGoal) == m_global_plan # None /\ ~sameGoal
SetPlan ==
    /\ ~crashed /\ active
    /\ \E plan \in {"long", "short"}, sameGoal \in BOOLEAN :
          /\ m_global_plan' = plan
          /\ m_reset_lastvel' = Resets(sameGoal)
          /\ IF Resets(sameGoal)
             THEN m_last_cmd_vel' = Stop /\ m_last_control_values' = Stop /\ count' = 0
             ELSE UNCHANGED <<lastVars, count>>
    /\ UNCHANGED <<kindVars, active, m_odometry, m_robot_direction, limitVars, dt,
                   m_state, cmd_vel, seen, crashed>>

\* dynamicParametersCallback()
SetParameters ==
    /\ ~crashed /\ active
    /\ \E p \in Limits : acc_lim' = p.acc_lim /\ min_vel' = p.min_vel /\ max_vel' = p.max_vel
    /\ UNCHANGED <<kindVars, active, m_odometry, planVars, lastVars, turnVars, dt,
                   m_state, cmd_vel, seen, crashed>>

-----------------------------------------------------------------------------
(* computeVelocityCommands(), in the order of the code.  What it has        *)
(* assigned by then is primed.                                              *)

Called == ~crashed /\ active /\ m_global_plan # None

\* The first two calls with a plan to a new goal look whether the path's sixth
\* point is behind the robot; acc_lim_x takes the sign of the direction.
\* (Slips: the first three; the sign is not taken back.)
EstimatesThrice == m_allow_reversing /\ count <= 2
Estimates == m_allow_reversing /\ count <= 1
SignedOnce(acc, direction) == IF direction = -1 /\ acc > 0 THEN -acc ELSE acc
Signed(acc, direction) ==
    IF (direction = -1 /\ acc > 0) \/ (direction = 1 /\ acc < 0) THEN -acc ELSE acc
EstimateDirection ==
    IF Estimates
    THEN /\ m_robot_direction' \in {1, -1}
         /\ count' = count + 1
         /\ acc_lim' = [acc_lim EXCEPT !["x"] = Signed(@, m_robot_direction')]
    ELSE UNCHANGED <<m_robot_direction, count, acc_lim>>

\* The robot waits to start moving until it looks along the path.
Waits(s) == m_state # "TRANSLATING" /\ s.yaw_error > 0

\* The speed from which the robot can stop within d, 0 if there is none.
StopSpeed(acc, d) ==
    LET stopping == {v \in 0 .. max_vel_trans : v * v <= 2 * acc * d}
    IN  CHOOSE v \in stopping : \A w \in stopping : w <= v

\* With a negative acc_lim_x the stop time is the root of a negative number:
\* no comparison with it holds, and fmin() ignores it.
StopSpeedKnown(s) ==
    /\ s.obstacle # None /\ s.speed > 0
    /\ acc_lim'["x"] > 0 \/ (acc_lim'["x"] < 0 /\ s.obstacle = 0)

\* The speed along the path, wanted or less.  (Slip: only an obstacle that is
\* as near as min_stop_dist counts.)
ApproachNear(s, wanted) == IF s.obstacle # None /\ s.obstacle = 0 THEN 0 ELSE wanted
Approach(s, wanted) ==
    IF s.obstacle # None /\ s.obstacle = 0 THEN 0
    ELSE IF StopSpeedKnown(s) THEN fmin(wanted, StopSpeed(fabs(acc_lim'["x"]), s.obstacle))
    ELSE wanted

is_emergency_brake(s) ==
    /\ ~s.is_goal_target /\ StopSpeedKnown(s)
    /\ 2 * StopSpeed(fabs(acc_lim'["x"]), s.obstacle) < s.speed

\* Curves and the distance to the goal lower what is wanted along the path.
PathControls(s) ==
    LET speeds == {Approach(s, v) : v \in IF Waits(s) THEN {0} ELSE 0 .. max_vel_trans}
    IN  {IF m_allow_reversing THEN m_robot_direction' * v ELSE fmax(v, 0) : v \in speeds}

\* "limit backing up", which compares an absolute value.
LimitsBacking(s, error) ==
    /\ s.is_goal_target /\ max_backup_dist > 0
    /\ fabs(error) < (IF m_state = "TURNING" THEN 0 ELSE -max_backup_dist)

\* The driving states that may follow.
Turned(s, error) ==
    IF LimitsBacking(s, error) THEN "TURNING"
    ELSE IF m_state = "TURNING" THEN "IDLE" ELSE m_state
States(s, state) ==
    IF differential_drive
    THEN IF s.speed > (IF state = "TRANSLATING" THEN 1 ELSE 2) * trans_stopped_vel
         THEN {"TRANSLATING"}
         ELSE IF state = "TURNING" THEN {"TURNING"}
         ELSE IF s.is_goal_target /\ (state = "ADJUSTING" \/ s.yaw_error < 2)
         THEN {"ADJUSTING", "ROTATING"}
         ELSE {"ROTATING"}
    ELSE IF state = "TURNING" THEN {"TURNING"}
         ELSE IF s.speed > trans_stopped_vel THEN {"TRANSLATING"} ELSE {"ROTATING"}

\* A holonomic robot that rotates a lot moves away from what is costly.
\* (Slip: so does any robot.)
AvoidanceOfAny(s, state) == IF state = "ROTATING" /\ s.yaw_error = 2 THEN s.cost ELSE 0
Avoidance(s, state) ==
    IF ~differential_drive /\ state = "ROTATING" /\ s.yaw_error = 2 THEN s.cost ELSE 0

Stuck(s, state) ==
    /\ s.obstacle # None /\ s.obstacle = 0
    /\ s.cost > 0 /\ state = "ROTATING" /\ s.yaw_error < 2

\* The low pass filter moves from the last control value towards the new one.
Filtered(last, control) ==
    IF control = last THEN {control}
    ELSE (fmin(last, control) .. fmax(last, control)) \ {last}

\* (Slip: every braking is an emergency.)
BrakingHard(s) == emergency_acc_lim_x * dt
Braking(s) == (IF is_emergency_brake(s) THEN emergency_acc_lim_x ELSE acc_lim'["x"]) * dt

\* The acceleration limits of the x axis.
Accelerated(s, control) ==
    LET last == m_last_cmd_vel["x"]
    IN  IF m_robot_direction' = 1
        THEN fmax(fmin(control, last + acc_lim'["x"] * dt), last - Braking(s))
        ELSE IF s.is_goal_target THEN control
        ELSE -fmax(fmin(fabs(control), fabs(last + acc_lim'["x"] * dt)),
                   fabs(last - (IF is_emergency_brake(s) THEN -emergency_acc_lim_x
                                ELSE acc_lim'["x"]) * dt))

Limited(a, s, control) ==
    IF a = "x" THEN Accelerated(s, control)
    ELSE fmax(fmin(control, m_last_cmd_vel[a] + acc_lim[a] * dt),
              m_last_cmd_vel[a] - acc_lim[a] * dt)

Clamped(a, control) ==
    IF a = "x" /\ m_robot_direction' = -1
    THEN fmax(fmin(control, -min_vel["x"]), -max_vel["x"])
    ELSE fmin(fmax(control, IF a = "theta" THEN -max_vel[a] ELSE min_vel[a]), max_vel[a])

\* What the filter may make of the control values of an axis.
AxisControls(a, x) ==
    IF a = "x" THEN {x} ELSE IF a = "y" /\ differential_drive THEN {0} ELSE Controls
FilteredOf(a, x) == UNION {Filtered(m_last_control_values[a], c) : c \in AxisControls(a, x)}

\* An answer: filtered, limited, clamped, remembered and returned.
Answer(s, x) ==
    \E filtered \in [Axes -> UNION {FilteredOf(a, x) : a \in Axes}] :
        /\ \A a \in Axes : filtered[a] \in FilteredOf(a, x)
        /\ m_last_control_values' = [a \in Axes |-> Limited(a, s, filtered[a])]
        /\ m_last_cmd_vel' = [a \in Axes |-> Clamped(a, m_last_control_values'[a])]
        /\ cmd_vel' = m_last_cmd_vel' /\ dt' = 0

Sees(s, error) ==
    seen' = [is_goal_target |-> s.is_goal_target, error |-> error,
             ahead |-> IF s.is_goal_target THEN None ELSE s.obstacle,
             moving |-> s.speed > 0, braking |-> is_emergency_brake(s),
             pushed |-> IF m_state' = "ROTATING" /\ s.yaw_error = 2 THEN s.cost ELSE 0]

\* The rest of a call, from the control of the x axis on.
Drive(s, error, control) ==
    \E state \in States(s, Turned(s, error)) :
        LET x == IF LimitsBacking(s, error) THEN 0 ELSE control
        IN  IF Stuck(s, state)
            THEN m_state' = "STUCK" /\ cmd_vel' = Stop /\ UNCHANGED <<lastVars, dt>>
            ELSE m_state' = state /\ Answer(s, x - Avoidance(s, state))

Compute ==
    /\ Called /\ m_odometry
    /\ UNCHANGED <<kindVars, active, m_odometry, planVars, min_vel, max_vel, crashed>>
    /\ EstimateDirection
    /\ \E s \in Scene :
          IF s.is_goal_target
          THEN \E error \in PosErrors : Drive(s, error, error * pos_x_gain) /\ Sees(s, error)
          ELSE \E control \in PathControls(s) : Drive(s, 0, control) /\ Sees(s, 0)

\* Once after a change of the goal, while the robot moves on every axis and
\* looks another way: the last command is given again.
Reissue ==
    /\ Called /\ m_odometry
    /\ EstimateDirection
    /\ m_reset_lastvel /\ m_reset_lastvel' = FALSE
    /\ cmd_vel' = m_last_cmd_vel
    /\ UNCHANGED <<kindVars, active, m_odometry, m_global_plan, lastVars, min_vel,
                   max_vel, dt, m_state, crashed>>
    /\ \E s \in Scene : s.speed > 0 /\ s.yaw_error = 2 /\ Sees(s, 0)

\* No odometry was received yet, or the sixth point of a shorter plan is read
\* (when that does not crash, the direction is any).
Crash ==
    /\ Called
    /\ ~m_odometry \/ (Estimates /\ m_global_plan = "short")
    /\ crashed' = TRUE
    /\ UNCHANGED <<kindVars, active, m_odometry, planVars, lastVars, turnVars,
                   limitVars, dt, m_state, cmd_vel, seen>>

-----------------------------------------------------------------------------
Next ==
    \/ Activate \/ Deactivate \/ OdomCallback \/ SetPlan \/ SetParameters
    \/ Tick \/ Compute \/ Reissue \/ Crash

Spec == Init /\ [][Next]_vars

\* While a goal is pursued the server asks at a fixed rate, and time passes.
FairSpec == Spec /\ WF_vars(Tick) /\ WF_vars(Compute)

-----------------------------------------------------------------------------
(* Properties.                                                              *)

TypeOK ==
    /\ m_allow_reversing \in BOOLEAN /\ differential_drive \in Drives
    /\ active \in BOOLEAN /\ m_odometry \in BOOLEAN /\ crashed \in BOOLEAN
    /\ m_global_plan \in {None, "long", "short"} /\ m_reset_lastvel \in BOOLEAN
    /\ m_last_cmd_vel \in Velocity /\ m_last_control_values \in Velocity
    /\ cmd_vel \in Velocity
    /\ m_robot_direction \in {1, -1} /\ count \in 0 .. 2 /\ dt \in 0 .. 1
    /\ acc_lim \in Velocity /\ min_vel \in Velocity /\ max_vel \in [Axes -> Nat]
    /\ m_state \in {"IDLE", "TRANSLATING", "ROTATING", "ADJUSTING", "TURNING", "STUCK"}
    /\ seen \in Seen

\* No cost term acts on the last call: the robot is not holonomic, or rotates little
\* or not at all, or nothing around it is costly.
Unpushed == differential_drive \/ seen.pushed = 0

\* How much faster and slower a velocity may become at once.
Gain(a) == fabs(acc_lim[a])
Brake(a) == IF a = "x" /\ seen.braking THEN emergency_acc_lim_x ELSE Gain(a)

\* One command after another: forward it gains and loses no more than the limits
\* of gaining and braking; in reverse the code knows no such order, and either
\* may be the larger of the two.
Follows(a) ==
    LET change == m_last_cmd_vel'[a] - Clamped(a, m_last_cmd_vel[a])
    IN  IF a # "x" \/ m_robot_direction' = 1
        THEN -Brake(a)' * dt <= change /\ change <= Gain(a)' * dt
        ELSE fabs(change) <= fmax(Gain(a)', Brake(a)') * dt

\* The code has no limit for a robot that reverses to a goal within reach, and takes
\* the absolute value of a forward command when it starts to reverse.
Unlimited(a) ==
    /\ a = "x" /\ m_robot_direction' = -1
    /\ seen'.is_goal_target \/ m_last_cmd_vel["x"] > 0

\* Through the filter, the limits and the clamp, a command follows the one before
\* by what the robot can accelerate or brake in the time between, in emergency
\* or not, whichever sign acc_lim_x was left with; what is published is that
\* command or a stop, also when it is given again.  Where the velocity limits
\* were set closer meanwhile, the change counts from what they still allow.
KeepsAcceleration ==
    [][ /\ cmd_vel' # cmd_vel => cmd_vel' \in {m_last_cmd_vel', Stop}
        /\ \/ UNCHANGED m_last_cmd_vel
           \/ SetPlan
           \/ \A a \in Axes : Follows(a) \/ Unlimited(a) ]_vars

\* "stop before hitting obstacle": a robot that goes forward with an obstacle as
\* near as it may be is not sent any faster, forwards or backwards, than it was
\* or was meant to be before its limits were set, whichever direction it had
\* before and whatever parameter was set.  (A min_vel_x above zero is a speed it
\* always has; a cost term moves a holonomic robot.)
Standing == fmax(fmax(fabs(m_last_cmd_vel["x"]), fabs(m_last_control_values["x"])), min_vel["x"])
StopsForward ==
    [][ m_robot_direction' = 1 /\ seen'.ahead = 0 /\ Unpushed' =>
            fabs(cmd_vel'["x"]) <= Standing ]_cmd_vel

\* On its way along the path a robot that may not reverse is not sent backwards any
\* faster than it already is, or was meant to be before its limits were set,
\* except by the cost term of a holonomic robot that rotates, and by no more than that.
Backwards == fmin(0, fmin(m_last_cmd_vel["x"], m_last_control_values["x"]))
NoBackingUpOnPath ==
    [][ m_allow_reversing \/ seen'.is_goal_target
        \/ cmd_vel'["x"] >= Backwards
        \/ (~differential_drive /\ cmd_vel'["x"] >= -seen'.pushed) ]_cmd_vel

\* As long as an obstacle stays at a distance ahead of a robot that moves forward,
\* with the limits it has and no cost term, the command becomes and remains one from which it
\* can stop within that distance.
Facing(d, p) ==
    /\ ~crashed /\ active /\ m_robot_direction = 1
    /\ acc_lim = p.acc_lim /\ min_vel = p.min_vel /\ p.min_vel["x"] <= 0
    /\ seen.ahead = d /\ seen.moving /\ Unpushed
SlowsFor(d, p) ==
    <>[]Facing(d, p) => <>[](fabs(cmd_vel["x"]) <= StopSpeed(p.acc_lim["x"], d))
SlowsForObstacles == \A d \in Obstacles, p \in Limits : SlowsFor(d, p)

(* What the code does not keep. *)

\* "only allow forward velocity depending on the parameter setting": on its way
\* a robot that may not reverse is not sent backwards any faster than it already
\* is, or was meant to be.
OnlyForward ==
    [][ m_allow_reversing \/ seen'.is_goal_target \/ cmd_vel'["x"] >= Backwards ]_cmd_vel
=============================================================================
