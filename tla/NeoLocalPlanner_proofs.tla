------------------------ MODULE NeoLocalPlanner_proofs ------------------------
(****************************************************************************)
(* The local planner for every value of its parameters: its types, and what *)
(* may not happen to the command from one call to the next.                 *)
(****************************************************************************)
EXTENDS NeoLocalPlanner, WellFoundedInduction, TLAPS

\* Besides the types: an acceleration limit is negative only along x and while the
\* robot reverses, and one that may not reverse keeps its direction.
LimitsInv ==
    /\ \A a \in Axes : a # "x" \/ m_robot_direction = 1 => acc_lim[a] >= 0
    /\ ~m_allow_reversing => m_robot_direction = 1
IInv == TypeOK /\ LimitsInv

-----------------------------------------------------------------------------
(* The operators of a call.                                                 *)

\* The largest of finitely many natural numbers.
LEMMA Largest0 == ASSUME NEW n \in Nat, NEW S \in SUBSET (0 .. n), S # {}
                  PROVE  \E v \in S : \A w \in S : w <= v
<1> DEFINE T == {n - v : v \in S}
           R == {ss \in Nat \X Nat : ss[1] < ss[2]}
<1>1. T \subseteq Nat /\ T # {}
  <2>1. \A v \in S : n - v \in Nat
    OBVIOUS
  <2>2. PICK v \in S : TRUE
    OBVIOUS
  <2> QED
    BY <2>1, <2>2
<1>2. IsWellFoundedOn(R, Nat)
  BY NatLessThanWellFounded DEF OpToRel
<1>3. PICK m \in T : \A k \in T : ~ <<k, m>> \in R
  <2> HIDE DEF T, R
  <2> QED
    BY <1>1, <1>2, WFMin
<1>4. PICK v \in S : m = n - v
  BY <1>3
<1>5. ASSUME NEW w \in S PROVE w <= v
  <2>1. n - w \in T /\ n - w \in Nat /\ m \in Nat
    BY <1>3
  <2>2. ~(n - w < m)
    BY <1>3, <2>1
  <2> QED
    BY <1>4, <2>1, <2>2
<1> QED
  BY <1>5

\* The speed from which the robot stops in time is one it may have.
LEMMA StopSpeedType == ASSUME NEW acc \in Nat, NEW d \in Nat
                       PROVE  StopSpeed(acc, d) \in 0 .. max_vel_trans
<1> DEFINE stopping == {v \in 0 .. max_vel_trans : v * v <= 2 * acc * d}
<1>1. 0 \in stopping
  <2>1. 0 * 0 <= 2 * acc * d
    BY SMT
  <2> QED
    BY <2>1, PlannerAssumption
<1>2. PICK v \in stopping : \A w \in stopping : w <= v
  BY <1>1, Largest0, PlannerAssumption
<1> QED
  BY <1>2 DEF StopSpeed

\* Minimum, maximum and absolute value of integers.
LEMMA Bounds == ASSUME NEW x \in Int, NEW y \in Int
                PROVE  /\ fmin(x, y) \in Int /\ fmax(x, y) \in Int /\ fabs(x) \in Nat
                       /\ fmin(x, y) <= x /\ fmin(x, y) <= y /\ fmin(x, y) \in {x, y}
                       /\ fmax(x, y) >= x /\ fmax(x, y) >= y /\ fmax(x, y) \in {x, y}
  BY DEF fmin, fmax, fabs

\* The filter stays between the last value and the new one.
LEMMA FilteredBetween ==
  ASSUME NEW last \in Int, NEW control \in Int, NEW f \in Filtered(last, control)
  PROVE  f \in Int /\ f >= fmin(last, control) /\ f <= fmax(last, control)
  BY Bounds DEF Filtered, fmin, fmax

\* What EstimateDirection leaves: the sign of acc_lim_x suits a robot that goes
\* forward, nothing changes for one that may not reverse, and no other axis.
LEMMA Estimated ==
  ASSUME IInv, EstimateDirection
  PROVE  /\ m_robot_direction' \in {1, -1} /\ count' \in 0 .. 2 /\ acc_lim' \in Velocity
         /\ m_robot_direction' = 1 => acc_lim'["x"] >= 0
         /\ ~m_allow_reversing => m_robot_direction' = 1
         /\ \A a \in Axes : a # "x" => acc_lim'[a] = acc_lim[a] /\ acc_lim[a] >= 0
<1>1. "x" \in Axes
  BY PlannerAssumption
<1>2. CASE Estimates
  <2>1. m_robot_direction' \in {1, -1} /\ count' = count + 1 /\ m_allow_reversing /\ count <= 1
    BY <1>2 DEF EstimateDirection, Estimates
  <2>2. acc_lim' = [acc_lim EXCEPT !["x"] = Signed(acc_lim["x"], m_robot_direction')]
    BY <1>2 DEF EstimateDirection
  <2>3. acc_lim["x"] \in Int
    BY <1>1 DEF IInv, TypeOK, Velocity
  <2>4. Signed(acc_lim["x"], m_robot_direction') \in Int
        /\ (m_robot_direction' = 1 => Signed(acc_lim["x"], m_robot_direction') >= 0)
    BY <2>1, <2>3 DEF Signed
  <2> QED
    BY <1>1, <2>1, <2>2, <2>4 DEF IInv, TypeOK, LimitsInv, Velocity
<1>3. CASE ~Estimates
  BY <1>1, <1>3 DEF EstimateDirection, IInv, TypeOK, LimitsInv
<1> QED
  BY <1>2, <1>3

\* The speed wanted along the path, after obstacles.
LEMMA ApproachType ==
  ASSUME acc_lim' \in Velocity, NEW s \in Scene, NEW v \in 0 .. max_vel_trans
  PROVE  Approach(s, v) \in Nat
<1>1. acc_lim'["x"] \in Int
  BY PlannerAssumption DEF Velocity
<1>2. fabs(acc_lim'["x"]) \in Nat
  BY <1>1, Bounds
<1>3. CASE StopSpeedKnown(s)
  <2>1. s.obstacle \in Nat
    BY <1>3, PlannerAssumption DEF StopSpeedKnown, Scene
  <2>2. StopSpeed(fabs(acc_lim'["x"]), s.obstacle) \in 0 .. max_vel_trans
    BY <1>2, <2>1, StopSpeedType
  <2> QED
    BY <2>2, PlannerAssumption DEF Approach, fmin
<1>4. CASE ~StopSpeedKnown(s)
  BY <1>4, PlannerAssumption DEF Approach
<1> QED
  BY <1>3, <1>4

\* The control of the x axis is an integer; on the path it is not negative where
\* the robot may not reverse, and zero at an obstacle.
LEMMA PathControlsType ==
  ASSUME IInv, EstimateDirection, NEW s \in Scene, NEW control \in PathControls(s)
  PROVE  /\ control \in Int
         /\ ~m_allow_reversing => control >= 0
         /\ s.obstacle = 0 => control = 0
<1>1. PICK v \in IF Waits(s) THEN {0} ELSE 0 .. max_vel_trans :
        control = IF m_allow_reversing THEN m_robot_direction' * Approach(s, v)
                  ELSE fmax(Approach(s, v), 0)
  BY DEF PathControls
<1>2. v \in 0 .. max_vel_trans
  BY <1>1, PlannerAssumption
<1>3. Approach(s, v) \in Nat
  BY <1>2, ApproachType, Estimated
<1>4. s.obstacle = 0 => Approach(s, v) = 0
  BY PlannerAssumption DEF Approach
<1>5. m_robot_direction' \in {1, -1}
  BY Estimated
<1> QED
  BY <1>1, <1>3, <1>4, <1>5 DEF fmax

\* The change of a command within the limit of gaining, or of braking, when it
\* goes forward ...
LEMMA Forwards ==
  ASSUME NEW last \in Int, NEW control \in Int, NEW gain \in Nat, NEW brake \in Nat,
         NEW v, v = fmax(fmin(control, last + gain), last - brake)
  PROVE  /\ v \in Int /\ -brake <= v - last /\ v - last <= gain
         /\ v >= fmin(control, last) /\ v <= fmax(control, last)
  BY DEF fmin, fmax

\* ... and in reverse.
LEMMA Reverses ==
  ASSUME NEW last \in Int, NEW control \in Int, NEW gain \in Int, NEW brake \in Int,
         NEW v, v = -fmax(fmin(fabs(control), fabs(last + gain)), fabs(last - brake))
  PROVE  v \in Int /\ (last <= 0 => fabs(v - last) <= fmax(fabs(gain), fabs(brake)))
<1>1. PICK c \in Nat : c = fabs(control)
  BY Bounds
<1>2. PICK x \in Nat : x = fabs(last + gain)
  BY Bounds
<1>3. PICK y \in Nat : y = fabs(last - brake)
  BY Bounds
<1>4. v = -fmax(fmin(c, x), y)
  BY <1>1, <1>2, <1>3
<1>5. v \in Int /\ -v >= y /\ (-v <= x \/ -v <= y)
  BY <1>4 DEF fmin, fmax
<1>6. ASSUME last <= 0
      PROVE  fabs(v - last) <= fmax(fabs(gain), fabs(brake))
  <2>1. PICK g \in Nat : g = fabs(gain) /\ x <= g - last
    BY <1>2, <1>6 DEF fabs, fmax
  <2>2. PICK b \in Nat : b = fabs(brake) /\ y <= b - last /\ y >= -last - b
    BY <1>3, <1>6 DEF fabs, fmax
  <2>3. fabs(v - last) <= fmax(g, b)
    BY <1>5, <2>1, <2>2 DEF fabs, fmax
  <2> QED
    BY <2>1, <2>2, <2>3
<1> QED
  BY <1>5, <1>6

\* The limits of a call, by axis.
GainAt(a) == fabs(acc_lim'[a])
BrakeAt(a, s) == IF a = "x" /\ is_emergency_brake(s) THEN emergency_acc_lim_x ELSE GainAt(a)

LEMMA LimitsType ==
  ASSUME IInv, EstimateDirection, NEW a \in Axes, NEW s
  PROVE  /\ GainAt(a) \in Nat /\ BrakeAt(a, s) \in Nat
         /\ a # "x" \/ m_robot_direction' = 1 => acc_lim'[a] = GainAt(a)
<1>1. acc_lim'[a] \in Int
  BY Estimated DEF Velocity
<1>2. a # "x" \/ m_robot_direction' = 1 => acc_lim'[a] >= 0
  BY Estimated
<1> QED
  BY <1>1, <1>2, PlannerAssumption DEF GainAt, BrakeAt, fabs, fmax

\* What a command is before the clamp, along x ...
LEMMA AcceleratedType ==
  ASSUME IInv, EstimateDirection, NEW s \in Scene, NEW control \in Int
  PROVE  LET last == m_last_cmd_vel["x"]
             v == Accelerated(s, control)
         IN  /\ v \in Int
             /\ m_robot_direction' = 1 =>
                  /\ -BrakeAt("x", s) * dt <= v - last /\ v - last <= GainAt("x") * dt
                  /\ v >= fmin(control, last) /\ v <= fmax(control, last)
             /\ m_robot_direction' = -1 /\ ~s.is_goal_target /\ last <= 0 =>
                  fabs(v - last) <= fmax(GainAt("x"), BrakeAt("x", s)) * dt
<1> DEFINE last == m_last_cmd_vel["x"]
           v == Accelerated(s, control)
           acc == acc_lim'["x"]
           limit == IF is_emergency_brake(s) THEN emergency_acc_lim_x ELSE acc
           brake == (IF is_emergency_brake(s) THEN -emergency_acc_lim_x ELSE acc) * dt
<1>1. last \in Int /\ acc \in Int /\ dt \in {0, 1} /\ emergency_acc_lim_x \in Nat /\ "x" \in Axes
  <2>1. acc_lim' \in Velocity
    BY Estimated
  <2> QED
    BY <2>1, PlannerAssumption DEF IInv, TypeOK, Velocity
<1>2. m_robot_direction' \in {1, -1}
  BY Estimated
<1>3. GainAt("x") \in Nat /\ BrakeAt("x", s) \in Nat
  BY <1>1, LimitsType
<1>4. CASE m_robot_direction' = 1
  <2>1. acc = GainAt("x") /\ limit = BrakeAt("x", s)
    BY <1>1, <1>4, LimitsType DEF BrakeAt
  <2>2. GainAt("x") * dt \in Nat /\ BrakeAt("x", s) * dt \in Nat
    BY <1>1, <1>3
  <2>3. v = fmax(fmin(control, last + GainAt("x") * dt), last - BrakeAt("x", s) * dt)
    BY <1>4, <2>1 DEF Accelerated, Braking
  <2>4. -(BrakeAt("x", s) * dt) = -BrakeAt("x", s) * dt
    BY <1>1, <1>3
  <2> HIDE DEF last, v
  <2>5. /\ v \in Int /\ -(BrakeAt("x", s) * dt) <= v - last /\ v - last <= GainAt("x") * dt
        /\ v >= fmin(control, last) /\ v <= fmax(control, last)
    BY <1>1, <2>2, <2>3, Forwards
  <2> QED
    BY <1>4, <2>4, <2>5 DEF v, last
<1>5. CASE m_robot_direction' = -1 /\ ~s.is_goal_target
  <2>1. v = -fmax(fmin(fabs(control), fabs(last + acc * dt)), fabs(last - brake))
    BY <1>5 DEF Accelerated
  <2>2. acc * dt \in Int /\ brake \in Int
    BY <1>1
  <2>3. fabs(acc * dt) = GainAt("x") * dt /\ fabs(brake) = BrakeAt("x", s) * dt
    <3>1. CASE dt = 0
      BY <1>1, <1>3, <3>1 DEF fabs, fmax
    <3>2. CASE dt = 1
      BY <1>1, <3>2 DEF GainAt, BrakeAt, fabs, fmax
    <3> QED
      BY <1>1, <3>1, <3>2
  <2>4. fmax(GainAt("x") * dt, BrakeAt("x", s) * dt) = fmax(GainAt("x"), BrakeAt("x", s)) * dt
    BY <1>1, <1>3 DEF fmax
  <2> HIDE DEF last, v, acc, brake
  <2>5. v \in Int /\ (last <= 0 => fabs(v - last) <= fmax(fabs(acc * dt), fabs(brake)))
    BY <1>1, <2>1, <2>2, Reverses
  <2> QED
    BY <1>5, <2>3, <2>4, <2>5 DEF v, last
<1>6. CASE m_robot_direction' = -1 /\ s.is_goal_target
  <2>1. v = control
    BY <1>6 DEF Accelerated
  <2> QED
    BY <1>6, <2>1
<1> QED
  BY <1>2, <1>4, <1>5, <1>6

\* ... and along any axis.
Held(a, s, v) ==
    LET change == v - m_last_cmd_vel[a]
    IN  IF a # "x" \/ m_robot_direction' = 1
        THEN -BrakeAt(a, s) * dt <= change /\ change <= GainAt(a) * dt
        ELSE \/ fabs(change) <= fmax(GainAt(a), BrakeAt(a, s)) * dt
             \/ s.is_goal_target \/ m_last_cmd_vel["x"] > 0

LEMMA LimitedType ==
  ASSUME IInv, EstimateDirection, NEW s \in Scene, NEW a \in Axes, NEW control \in Int
  PROVE  Limited(a, s, control) \in Int /\ Held(a, s, Limited(a, s, control))
<1>1. CASE a = "x"
  <2>1. Limited(a, s, control) = Accelerated(s, control)
    BY <1>1 DEF Limited
  <2>2. m_robot_direction' \in {1, -1} /\ m_last_cmd_vel["x"] \in Int
    BY <1>1, Estimated DEF IInv, TypeOK, Velocity
  <2> QED
    BY <1>1, <2>1, <2>2, AcceleratedType DEF Held
<1>2. CASE a # "x"
  <2> DEFINE last == m_last_cmd_vel[a]
             v == Limited(a, s, control)
  <2>1. last \in Int /\ dt \in {0, 1} /\ GainAt(a) \in Nat
    BY LimitsType DEF IInv, TypeOK, Velocity
  <2>2. acc_lim[a] = GainAt(a) /\ BrakeAt(a, s) = GainAt(a)
    BY <1>2, Estimated, LimitsType DEF BrakeAt
  <2>3. GainAt(a) * dt \in Nat /\ -(GainAt(a) * dt) = -GainAt(a) * dt
    BY <2>1
  <2>4. v = fmax(fmin(control, last + GainAt(a) * dt), last - GainAt(a) * dt)
    BY <1>2, <2>2 DEF Limited
  <2> HIDE DEF last, v
  <2>5. v \in Int /\ -(GainAt(a) * dt) <= v - last /\ v - last <= GainAt(a) * dt
    BY <2>1, <2>3, <2>4, Forwards
  <2> QED
    BY <1>2, <2>2, <2>3, <2>5 DEF Held, v, last
<1> QED
  BY <1>1, <1>2

\* The clamp takes two velocities no further apart, and forward ones no further
\* from zero than they or min_vel_x are.
LEMMA ClampedType ==
  ASSUME IInv, EstimateDirection, NEW a \in Axes, NEW u \in Int
  PROVE  /\ Clamped(a, u) \in Int
         /\ \A v \in Int, k \in Int :
              k >= 0 /\ u <= v + k => Clamped(a, u) <= Clamped(a, v) + k
         /\ a = "x" /\ m_robot_direction' = 1 =>
              /\ Clamped(a, u) >= fmin(u, 0)
              /\ fabs(Clamped(a, u)) <= fmax(fabs(u), min_vel["x"])
<1>1. /\ min_vel[a] \in Int /\ max_vel[a] \in Nat
      /\ min_vel["x"] \in Int /\ max_vel["x"] \in Nat
  BY PlannerAssumption DEF IInv, TypeOK, Velocity
<1>2. CASE a = "x" /\ m_robot_direction' = -1
  <2>1. \A v : Clamped(a, v) = fmax(fmin(v, -min_vel["x"]), -max_vel["x"])
    BY <1>2 DEF Clamped
  <2> QED
    BY <1>1, <1>2, <2>1 DEF fmin, fmax
<1>3. CASE ~(a = "x" /\ m_robot_direction' = -1)
  <2> DEFINE low == IF a = "theta" THEN -max_vel[a] ELSE min_vel[a]
             high == max_vel[a]
  <2>1. low \in Int /\ high \in Nat /\ (a = "x" => low = min_vel["x"])
    BY <1>1
  <2>2. \A v : Clamped(a, v) = fmin(fmax(v, low), high)
    BY <1>3 DEF Clamped
  <2> HIDE DEF low, high
  <2>3. /\ Clamped(a, u) \in Int
        /\ \A v \in Int, k \in Int :
             k >= 0 /\ u <= v + k => Clamped(a, u) <= Clamped(a, v) + k
    BY <2>1, <2>2 DEF fmin, fmax
  <2>4. Clamped(a, u) >= fmin(u, 0) /\ fabs(Clamped(a, u)) <= fmax(fabs(u), low)
    BY <2>1, <2>2 DEF fmin, fmax, fabs
  <2> QED
    BY <2>1, <2>3, <2>4
<1> QED
  BY <1>2, <1>3

-----------------------------------------------------------------------------
(* An answer and a whole call.                                              *)

\* What an answer is to the command before it ...
Kept == \A a \in Axes : Follows(a) \/ Unlimited(a)

\* ... for a robot that goes forward and wants x: not below nor beyond what it
\* had, meant or wants.
Between(x) ==
    m_robot_direction' = 1 =>
      /\ m_last_cmd_vel'["x"] >= fmin(Backwards, x)
      /\ fabs(m_last_cmd_vel'["x"]) <= fmax(Standing, fabs(x))

LEMMA Answered ==
  ASSUME IInv, EstimateDirection, UNCHANGED <<min_vel, max_vel>>,
         NEW s \in Scene, NEW error, Sees(s, error), NEW x \in Int, Answer(s, x)
  PROVE  /\ m_last_control_values' \in Velocity /\ m_last_cmd_vel' \in Velocity
         /\ cmd_vel' = m_last_cmd_vel' /\ dt' = 0
         /\ Kept /\ Between(x)
<1>1. PICK filtered \in [Axes -> UNION {FilteredOf(a, x) : a \in Axes}] :
        /\ \A a \in Axes : filtered[a] \in FilteredOf(a, x)
        /\ m_last_control_values' = [a \in Axes |-> Limited(a, s, filtered[a])]
        /\ m_last_cmd_vel' = [a \in Axes |-> Clamped(a, m_last_control_values'[a])]
        /\ cmd_vel' = m_last_cmd_vel' /\ dt' = 0
  BY DEF Answer
<1>2. "x" \in Axes
  BY PlannerAssumption
<1>3. ASSUME NEW a \in Axes
      PROVE  filtered[a] \in Int
  <2>1. PICK c \in AxisControls(a, x) : filtered[a] \in Filtered(m_last_control_values[a], c)
    BY <1>1 DEF FilteredOf
  <2>2. c \in Int
    BY <2>1, PlannerAssumption DEF AxisControls
  <2>3. m_last_control_values[a] \in Int
    BY DEF IInv, TypeOK, Velocity
  <2> QED
    BY <2>1, <2>2, <2>3, FilteredBetween
<1>4. /\ filtered["x"] >= fmin(m_last_control_values["x"], x)
      /\ filtered["x"] <= fmax(m_last_control_values["x"], x)
  <2>1. PICK c \in AxisControls("x", x) : filtered["x"] \in Filtered(m_last_control_values["x"], c)
    BY <1>1, <1>2 DEF FilteredOf
  <2>2. c = x
    BY <2>1 DEF AxisControls
  <2>3. m_last_control_values["x"] \in Int
    BY <1>2 DEF IInv, TypeOK, Velocity
  <2> QED
    BY <2>1, <2>2, <2>3, FilteredBetween
<1>5. ASSUME NEW a \in Axes
      PROVE  /\ m_last_control_values'[a] = Limited(a, s, filtered[a])
             /\ m_last_control_values'[a] \in Int
             /\ m_last_cmd_vel'[a] = Clamped(a, m_last_control_values'[a])
             /\ m_last_cmd_vel'[a] \in Int
  <2>1. m_last_control_values'[a] = Limited(a, s, filtered[a])
    BY <1>1
  <2>2. m_last_control_values'[a] \in Int
    BY <2>1, <1>3, LimitedType
  <2>3. m_last_cmd_vel'[a] = Clamped(a, m_last_control_values'[a])
    BY <1>1
  <2> QED
    BY <2>1, <2>2, <2>3, ClampedType
<1>6. m_last_control_values' \in Velocity /\ m_last_cmd_vel' \in Velocity
  <2>1. m_last_control_values' = [a \in Axes |-> m_last_control_values'[a]]
        /\ m_last_cmd_vel' = [a \in Axes |-> m_last_cmd_vel'[a]]
    BY <1>1
  <2> QED
    BY <1>5, <2>1 DEF Velocity
<1>7. ASSUME NEW a \in Axes
      PROVE  Follows(a) \/ Unlimited(a)
  <2> DEFINE v == m_last_control_values'[a]
             last == m_last_cmd_vel[a]
             now == m_last_cmd_vel'[a]
  <2>1. v \in Int /\ last \in Int /\ now \in Int /\ now = Clamped(a, v)
    BY <1>5 DEF IInv, TypeOK, Velocity
  <2>2. Clamped(a, last) \in Int
    BY <2>1, ClampedType
  <2>3. \A k \in Int : k >= 0 /\ v - last <= k => now - Clamped(a, last) <= k
    <3>1. \A k \in Int : k >= 0 /\ v <= last + k => Clamped(a, v) <= Clamped(a, last) + k
      BY <2>1, ClampedType
    <3> HIDE DEF v, last, now
    <3> QED
      BY <2>1, <2>2, <3>1
  <2>4. \A k \in Int : k >= 0 /\ -k <= v - last => -k <= now - Clamped(a, last)
    <3>1. \A k \in Int : k >= 0 /\ last <= v + k => Clamped(a, last) <= Clamped(a, v) + k
      BY <2>1, ClampedType
    <3> HIDE DEF v, last, now
    <3> QED
      BY <2>1, <2>2, <3>1
  <2>5. GainAt(a) \in Nat /\ BrakeAt(a, s) \in Nat /\ dt \in {0, 1}
    BY LimitsType DEF IInv, TypeOK
  <2>6. Gain(a)' = GainAt(a) /\ Brake(a)' = BrakeAt(a, s)
        /\ seen'.is_goal_target = s.is_goal_target
    BY DEF Sees, Gain, Brake, GainAt, BrakeAt
  <2>7. Held(a, s, v)
    BY <1>3, <1>5, LimitedType
  <2>8. m_robot_direction' \in {1, -1}
    BY Estimated
  <2>9. CASE a # "x" \/ m_robot_direction' = 1
    <3> DEFINE g == GainAt(a) * dt
               b == BrakeAt(a, s) * dt
    <3>1. g \in Int /\ b \in Int /\ g >= 0 /\ b >= 0 /\ -b = -BrakeAt(a, s) * dt
      BY <2>5
    <3>2. -b <= v - last /\ v - last <= g
      BY <2>7, <2>9, <3>1 DEF Held
    <3>3. -b <= now - Clamped(a, last) /\ now - Clamped(a, last) <= g
      <4> HIDE DEF v, last, now, b, g
      <4> QED
        BY <2>3, <2>4, <3>1, <3>2
    <3>4. Follows(a)
      BY <2>6, <2>9, <3>1, <3>3 DEF Follows
    <3> QED
      BY <3>4
  <2>10. CASE a = "x" /\ m_robot_direction' = -1 /\ ~(s.is_goal_target \/ m_last_cmd_vel["x"] > 0)
    <3> DEFINE g == fmax(GainAt(a), BrakeAt(a, s)) * dt
    <3>1. g \in Int /\ g >= 0
      BY <2>5 DEF fmax
    <3>2. fabs(v - last) <= g
      BY <2>7, <2>10 DEF Held
    <3>3. fabs(now - Clamped(a, last)) <= g
      <4> HIDE DEF v, last, now, g
      <4>1. v - last <= g /\ -g <= v - last
        BY <2>1, <3>1, <3>2 DEF fabs, fmax
      <4>2. now - Clamped(a, last) <= g /\ -g <= now - Clamped(a, last)
        BY <2>3, <2>4, <3>1, <4>1
      <4> QED
        BY <2>1, <2>2, <3>1, <4>2 DEF fabs, fmax
    <3>4. Follows(a)
      BY <2>6, <2>10, <3>3 DEF Follows
    <3> QED
      BY <3>4
  <2>11. CASE a = "x" /\ m_robot_direction' = -1 /\ (s.is_goal_target \/ m_last_cmd_vel["x"] > 0)
    BY <2>6, <2>11 DEF Unlimited
  <2> QED
    BY <2>8, <2>9, <2>10, <2>11
<1>8. ASSUME m_robot_direction' = 1
      PROVE  /\ m_last_cmd_vel'["x"] >= fmin(Backwards, x)
             /\ fabs(m_last_cmd_vel'["x"]) <= fmax(Standing, fabs(x))
  <2> DEFINE v == m_last_control_values'["x"]
             f == filtered["x"]
             last == m_last_cmd_vel["x"]
             meant == m_last_control_values["x"]
             now == m_last_cmd_vel'["x"]
             least == min_vel["x"]
  <2>1. v \in Int /\ f \in Int /\ now \in Int /\ last \in Int /\ meant \in Int /\ least \in Int
    BY <1>2, <1>3, <1>5 DEF IInv, TypeOK, Velocity
  <2>2. v >= fmin(f, last) /\ v <= fmax(f, last)
    BY <1>2, <1>5, <1>8, <2>1, AcceleratedType DEF Limited
  <2>3. now >= fmin(v, 0) /\ fabs(now) <= fmax(fabs(v), least)
    BY <1>2, <1>5, <1>8, <2>1, ClampedType
  <2>4. Backwards = fmin(0, fmin(last, meant))
        /\ Standing = fmax(fmax(fabs(last), fabs(meant)), least)
    BY DEF Backwards, Standing
  <2>5. f >= fmin(meant, x) /\ f <= fmax(meant, x)
    BY <1>4
  <2> HIDE DEF v, f, last, meant, now, least
  <2>6. now >= fmin(Backwards, x)
    BY <2>1, <2>2, <2>3, <2>4, <2>5 DEF fmin
  <2>7. fabs(v) <= fmax(fmax(fabs(last), fabs(meant)), fabs(x))
    BY <2>1, <2>2, <2>5 DEF fmin, fmax, fabs
  <2>8. fabs(now) <= fmax(Standing, fabs(x))
    <3>1. PICK n \in Nat : n = fabs(now)
      BY <2>1, Bounds
    <3>2. PICK w \in Nat : w = fabs(v)
      BY <2>1, Bounds
    <3>3. PICK l \in Nat : l = fabs(last)
      BY <2>1, Bounds
    <3>4. PICK e \in Nat : e = fabs(meant)
      BY <2>1, Bounds
    <3>5. PICK z \in Nat : z = fabs(x)
      BY Bounds
    <3>6. n <= fmax(w, least) /\ w <= fmax(fmax(l, e), z) /\ Standing = fmax(fmax(l, e), least)
      BY <2>3, <2>4, <2>7, <3>1, <3>2, <3>3, <3>4, <3>5
    <3>7. n <= fmax(Standing, z)
      BY <2>1, <3>6 DEF fmax
    <3> QED
      BY <3>1, <3>5, <3>7
  <2> QED
    BY <2>6, <2>8 DEF now
<1> QED
  BY <1>1, <1>6, <1>7, <1>8 DEF Kept, Between

\* The states a call may end in.
State == {"IDLE", "TRANSLATING", "ROTATING", "ADJUSTING", "TURNING", "STUCK"}
LEMMA StatesType ==
  ASSUME m_state \in State, NEW s, NEW control
  PROVE  States(s, Turned(s, control)) \subseteq State
  BY DEF States, Turned, State

\* What is wanted on the path: nothing at an obstacle, and nothing backwards of
\* a robot that may not reverse, but for the cost term.
Wanting(x) ==
    /\ ~seen'.is_goal_target /\ ~m_allow_reversing =>
         x >= 0 \/ (~differential_drive /\ x >= -seen'.pushed)
    /\ seen'.ahead = 0 /\ Unpushed' => x = 0

\* A call that computes: it answers, or it stops a robot that is stuck and
\* remembers the command before.
LEMMA Computed ==
  ASSUME IInv, Compute
  PROVE  /\ EstimateDirection
         /\ m_last_control_values' \in Velocity /\ m_last_cmd_vel' \in Velocity
         /\ cmd_vel' \in Velocity /\ dt' \in 0 .. 1 /\ m_state' \in State
         /\ seen' \in Seen
         /\ \/ UNCHANGED m_last_cmd_vel /\ cmd_vel' = Stop
            \/ /\ cmd_vel' = m_last_cmd_vel' /\ Kept
               /\ \E x \in Int : Between(x) /\ Wanting(x)
<1>1. EstimateDirection /\ UNCHANGED <<min_vel, max_vel>> /\ UNCHANGED differential_drive
  BY DEF Compute, kindVars
<1>2. PICK s \in Scene :
        IF s.is_goal_target
        THEN \E error \in PosErrors : Drive(s, error, error * pos_x_gain) /\ Sees(s, error)
        ELSE \E control \in PathControls(s) : Drive(s, 0, control) /\ Sees(s, 0)
  BY DEF Compute
<1>3. PICK error \in PosErrors \cup {0}, control \in Int :
        /\ Drive(s, error, control) /\ Sees(s, error)
        /\ ~s.is_goal_target =>
             (~m_allow_reversing => control >= 0) /\ (s.obstacle = 0 => control = 0)
  <2>1. CASE s.is_goal_target
    <3>1. PICK error \in PosErrors : Drive(s, error, error * pos_x_gain) /\ Sees(s, error)
      BY <1>2, <2>1
    <3>2. error * pos_x_gain \in Int
      BY PlannerAssumption
    <3> QED
      BY <2>1, <3>1, <3>2
  <2>2. CASE ~s.is_goal_target
    <3>1. PICK control \in PathControls(s) : Drive(s, 0, control) /\ Sees(s, 0)
      BY <1>2, <2>2
    <3>2. /\ control \in Int /\ (~m_allow_reversing => control >= 0)
          /\ (s.obstacle = 0 => control = 0)
      BY <1>1, PathControlsType
    <3> QED
      BY <3>1, <3>2
  <2> QED
    BY <2>1, <2>2
<1>4. PICK state \in States(s, Turned(s, error)) :
        LET x == IF LimitsBacking(s, error) THEN 0 ELSE control
        IN  IF Stuck(s, state)
            THEN m_state' = "STUCK" /\ cmd_vel' = Stop /\ UNCHANGED <<lastVars, dt>>
            ELSE m_state' = state /\ Answer(s, x - Avoidance(s, state))
  BY <1>3 DEF Drive
<1>5. s.is_goal_target \in BOOLEAN /\ s.obstacle \in Obstacles \cup {None} /\ s.cost \in Costs
  BY DEF Scene
<1>6. /\ seen'.is_goal_target = s.is_goal_target
      /\ seen'.ahead = (IF s.is_goal_target THEN None ELSE s.obstacle)
      /\ seen'.pushed = (IF m_state' = "ROTATING" /\ s.yaw_error = 2 THEN s.cost ELSE 0)
      /\ seen' \in Seen
  <2>1. (s.speed > 0) \in BOOLEAN /\ is_emergency_brake(s) \in BOOLEAN
    BY DEF is_emergency_brake
  <2> QED
    BY <1>3, <1>5, <2>1 DEF Sees, Seen
<1>7. state \in State
  BY <1>4, StatesType DEF IInv, TypeOK, State
<1>8. CASE Stuck(s, state)
  <2>1. m_state' = "STUCK" /\ cmd_vel' = Stop /\ UNCHANGED <<lastVars, dt>>
    BY <1>4, <1>8
  <2> QED
    BY <1>1, <1>6, <2>1 DEF lastVars, Stop, Velocity, State, IInv, TypeOK
<1>9. CASE ~Stuck(s, state)
  <2> DEFINE x == (IF LimitsBacking(s, error) THEN 0 ELSE control) - Avoidance(s, state)
  <2>1. m_state' = state /\ Answer(s, x)
    BY <1>4, <1>9
  <2>2. s.cost \in Int
    BY <1>5, PlannerAssumption
  <2>3. x \in Int
    BY <2>2 DEF Avoidance
  <2>4. Avoidance(s, state) = IF differential_drive THEN 0 ELSE seen'.pushed
    BY <1>6, <2>1 DEF Avoidance
  <2>5. seen'.pushed \in Int
    BY <1>6, <2>2
  <2>6. ASSUME ~s.is_goal_target
        PROVE  x = control - IF differential_drive THEN 0 ELSE seen'.pushed
    BY <2>4, <2>6 DEF LimitsBacking
  <2>7. ASSUME ~s.is_goal_target, ~m_allow_reversing
        PROVE  x >= 0 \/ (~differential_drive /\ x >= -seen'.pushed)
    BY <1>3, <2>5, <2>6, <2>7
  <2>8. ASSUME seen'.ahead = 0, Unpushed'
        PROVE  x = 0
    <3>1. ~s.is_goal_target /\ s.obstacle = 0
      BY <1>6, <2>8, PlannerAssumption
    <3>2. differential_drive \/ seen'.pushed = 0
      BY <1>1, <2>8 DEF Unpushed
    <3> QED
      BY <1>3, <2>6, <3>1, <3>2
  <2> HIDE DEF x
  <2>9. Wanting(x)
    BY <1>6, <2>7, <2>8 DEF Wanting
  <2>10. /\ m_last_control_values' \in Velocity /\ m_last_cmd_vel' \in Velocity
         /\ cmd_vel' = m_last_cmd_vel' /\ dt' = 0
         /\ Kept /\ Between(x)
    BY <1>1, <1>3, <2>1, <2>3, Answered
  <2> QED
    BY <1>1, <1>6, <1>7, <2>1, <2>3, <2>9, <2>10
<1> QED
  BY <1>8, <1>9

-----------------------------------------------------------------------------
(* The theorems.                                                            *)

\* EstimateDirection and the types of what it assigns.
LEMMA EstimatedTypes ==
  ASSUME IInv, EstimateDirection, UNCHANGED <<kindVars, min_vel, max_vel>>
  PROVE  /\ m_robot_direction' \in {1, -1} /\ count' \in 0 .. 2 /\ acc_lim' \in Velocity
         /\ LimitsInv'
  BY Estimated, PlannerAssumption DEF LimitsInv, IInv, kindVars

\* The types hold initially, for every choice of parameters.
LEMMA InvStart == Init => IInv
<1> SUFFICES ASSUME Init PROVE IInv
  OBVIOUS
<1>1. PICK p \in Limits : acc_lim = p.acc_lim /\ min_vel = p.min_vel /\ max_vel = p.max_vel
  BY DEF Init
<1>2. p.acc_lim \in [Axes -> Nat] /\ p.min_vel \in [Axes -> Int] /\ p.max_vel \in [Axes -> Nat]
  BY PlannerAssumption
<1>3. acc_lim \in Velocity /\ min_vel \in Velocity /\ max_vel \in [Axes -> Nat]
  BY <1>1, <1>2 DEF Velocity
<1>4. Stop \in Velocity
  BY DEF Stop, Velocity
<1>5. LimitsInv
  BY <1>1, <1>2 DEF LimitsInv, Init
<1>6. seen \in Seen
  BY DEF Init, NoScene, Seen
<1>7. /\ m_allow_reversing \in BOOLEAN /\ differential_drive \in Drives
      /\ active \in BOOLEAN /\ m_odometry \in BOOLEAN /\ crashed \in BOOLEAN
      /\ m_global_plan \in {None, "long", "short"} /\ m_reset_lastvel \in BOOLEAN
      /\ m_state \in {"IDLE", "TRANSLATING", "ROTATING", "ADJUSTING", "TURNING", "STUCK"}
  BY Zenon DEF Init
<1>8. m_robot_direction \in {1, -1} /\ count \in 0 .. 2 /\ dt \in 0 .. 1
  BY DEF Init
<1>9. m_last_cmd_vel \in Velocity /\ m_last_control_values \in Velocity /\ cmd_vel \in Velocity
  BY <1>4 DEF Init
<1>10. TypeOK
  BY <1>3, <1>6, <1>7, <1>8, <1>9 DEF TypeOK
<1> QED
  BY <1>5, <1>10 DEF IInv

\* ... and after every step.
LEMMA InvStep == IInv /\ [Next]_vars => IInv'
<1> SUFFICES ASSUME IInv, [Next]_vars PROVE IInv'
  OBVIOUS
<1> USE DEF IInv
<1>1. CASE Activate
  BY <1>1 DEF Activate, TypeOK, LimitsInv, kindVars, planVars, lastVars, turnVars, limitVars
<1>2. CASE Deactivate
  BY <1>2 DEF Deactivate, TypeOK, LimitsInv, kindVars, planVars, lastVars, turnVars, limitVars
<1>3. CASE OdomCallback
  BY <1>3 DEF OdomCallback, TypeOK, LimitsInv, kindVars, planVars, lastVars, turnVars, limitVars
<1>4. CASE Tick
  BY <1>4 DEF Tick, TypeOK, LimitsInv, kindVars, planVars, lastVars, turnVars, limitVars
<1>5. CASE SetPlan
  <2>1. PICK plan \in {"long", "short"}, sameGoal \in BOOLEAN :
          /\ m_global_plan' = plan
          /\ m_reset_lastvel' = Resets(sameGoal)
          /\ IF Resets(sameGoal)
             THEN m_last_cmd_vel' = Stop /\ m_last_control_values' = Stop /\ count' = 0
             ELSE UNCHANGED <<lastVars, count>>
    BY <1>5 DEF SetPlan
  <2>2. /\ m_last_cmd_vel' \in Velocity /\ m_last_control_values' \in Velocity
        /\ count' \in 0 .. 2
    BY <2>1 DEF TypeOK, Stop, Velocity, lastVars
  <2>3. m_global_plan' \in {None, "long", "short"} /\ m_reset_lastvel' \in BOOLEAN
    BY <2>1 DEF Resets
  <2> QED
    BY <1>5, <2>2, <2>3 DEF SetPlan, TypeOK, LimitsInv, kindVars, limitVars
<1>6. CASE SetParameters
  <2>1. PICK p \in Limits : acc_lim' = p.acc_lim /\ min_vel' = p.min_vel /\ max_vel' = p.max_vel
    BY <1>6 DEF SetParameters
  <2>2. p.acc_lim \in [Axes -> Nat] /\ p.min_vel \in [Axes -> Int] /\ p.max_vel \in [Axes -> Nat]
    BY PlannerAssumption
  <2>3. /\ acc_lim' \in Velocity /\ min_vel' \in Velocity /\ max_vel' \in [Axes -> Nat]
        /\ \A a \in Axes : acc_lim'[a] >= 0
    BY <2>1, <2>2 DEF Velocity
  <2> QED
    BY <1>6, <2>3 DEF SetParameters, TypeOK, LimitsInv, kindVars, planVars, lastVars, turnVars
<1>7. CASE Compute
  <2>1. UNCHANGED <<kindVars, active, m_odometry, planVars, min_vel, max_vel, crashed>>
    BY <1>7 DEF Compute
  <2>2. /\ EstimateDirection
        /\ m_last_control_values' \in Velocity /\ m_last_cmd_vel' \in Velocity
        /\ cmd_vel' \in Velocity /\ dt' \in 0 .. 1 /\ m_state' \in State
        /\ seen' \in Seen
    BY <1>7, Computed
  <2>3. /\ m_robot_direction' \in {1, -1} /\ count' \in 0 .. 2 /\ acc_lim' \in Velocity
        /\ LimitsInv'
    BY <2>1, <2>2, EstimatedTypes
  <2> QED
    BY <2>1, <2>2, <2>3 DEF TypeOK, State, kindVars, planVars
<1>8. CASE Reissue
  <2>1. /\ UNCHANGED <<kindVars, active, m_odometry, m_global_plan, lastVars, min_vel,
                       max_vel, dt, m_state, crashed>>
        /\ EstimateDirection /\ m_reset_lastvel' = FALSE /\ cmd_vel' = m_last_cmd_vel
    BY <1>8 DEF Reissue
  <2>2. seen' \in Seen
    <3>1. PICK s \in Scene : Sees(s, 0)
      BY <1>8 DEF Reissue
    <3>2. (s.speed > 0) \in BOOLEAN /\ is_emergency_brake(s) \in BOOLEAN
      BY DEF is_emergency_brake
    <3> QED
      BY <3>1, <3>2 DEF Sees, Scene, Seen
  <2>3. /\ m_robot_direction' \in {1, -1} /\ count' \in 0 .. 2 /\ acc_lim' \in Velocity
        /\ LimitsInv'
    BY <2>1, EstimatedTypes
  <2> QED
    BY <2>1, <2>2, <2>3 DEF TypeOK, kindVars, lastVars
<1>9. CASE Crash
  BY <1>9 DEF Crash, TypeOK, LimitsInv, kindVars, planVars, lastVars, turnVars, limitVars
<1>10. CASE UNCHANGED vars
  BY <1>10 DEF vars, TypeOK, LimitsInv, kindVars, planVars, lastVars, turnVars, limitVars
<1> QED
  BY <1>1, <1>2, <1>3, <1>4, <1>5, <1>6, <1>7, <1>8, <1>9, <1>10 DEF Next

LEMMA Invariance == Spec => []IInv
<1> QED
  BY InvStart, InvStep, PTL DEF Spec

\* The members of the planner keep their types, whatever plans, scenes and
\* parameters it is given.
THEOREM TypeCorrect == Spec => []TypeOK
<1>1. IInv => TypeOK
  BY DEF IInv
<1> QED
  BY <1>1, Invariance, PTL

\* A command follows the one before, and what is published is that command or a stop.
THEOREM KeepsAccelerationHolds == Spec => KeepsAcceleration
<1> DEFINE Step ==
      /\ cmd_vel' # cmd_vel => cmd_vel' \in {m_last_cmd_vel', Stop}
      /\ \/ UNCHANGED m_last_cmd_vel
         \/ SetPlan
         \/ \A a \in Axes : Follows(a) \/ Unlimited(a)
<1>1. ASSUME IInv, [Next]_vars
      PROVE  [Step]_vars
  <2>1. CASE Compute
    BY <1>1, <2>1, Computed DEF Kept
  <2>2. CASE SetPlan
    BY <2>2 DEF SetPlan
  <2>3. CASE Reissue
    BY <2>3 DEF Reissue, lastVars
  <2>4. CASE UNCHANGED <<m_last_cmd_vel, cmd_vel>>
    BY <2>4
  <2> QED
    BY <1>1, <2>1, <2>2, <2>3, <2>4 DEF Next, Activate, Deactivate, OdomCallback, SetParameters,
      Tick, Crash, lastVars
<1> QED
  BY <1>1, Invariance, PTL DEF Spec, KeepsAcceleration

\* What the last velocities are to a robot that stands: no less than nothing.
LEMMA Bound ==
  ASSUME IInv
  PROVE  /\ Backwards \in Int /\ Backwards <= 0 /\ Backwards <= m_last_cmd_vel["x"]
         /\ Standing \in Int /\ 0 <= Standing /\ fabs(m_last_cmd_vel["x"]) <= Standing
<1>1. m_last_cmd_vel["x"] \in Int /\ m_last_control_values["x"] \in Int /\ min_vel["x"] \in Int
  BY PlannerAssumption DEF IInv, TypeOK, Velocity
<1> QED
  BY <1>1 DEF Backwards, Standing, fmin, fmax, fabs

\* A robot that goes forward is not sent any faster at an obstacle, for whatever
\* parameters, directions and plans came before.
THEOREM StopsForwardHolds == Spec => StopsForward
<1> DEFINE Step ==
      m_robot_direction' = 1 /\ seen'.ahead = 0 /\ Unpushed' => fabs(cmd_vel'["x"]) <= Standing
<1>1. ASSUME IInv, [Next]_vars
      PROVE  [Step]_cmd_vel
  <2>1. CASE Compute
    <3>1. CASE cmd_vel' = Stop
      <4>1. cmd_vel'["x"] = 0
        BY <3>1, PlannerAssumption DEF Stop
      <4> QED
        BY <1>1, <4>1, Bound DEF fabs, fmax
    <3>2. CASE cmd_vel' = m_last_cmd_vel' /\ \E x \in Int : Between(x) /\ Wanting(x)
      <4>1. PICK x \in Int : Between(x) /\ Wanting(x)
        BY <3>2
      <4>2. ASSUME m_robot_direction' = 1, seen'.ahead = 0, Unpushed'
            PROVE  fabs(cmd_vel'["x"]) <= Standing
        <5>1. x = 0
          BY <4>1, <4>2 DEF Wanting
        <5>2. fabs(cmd_vel'["x"]) <= fmax(Standing, fabs(x))
          BY <3>2, <4>1, <4>2 DEF Between
        <5>3. fmax(Standing, fabs(x)) = Standing
          BY <1>1, <5>1, Bound DEF fmax, fabs
        <5> QED
          BY <5>2, <5>3
      <4> QED
        BY <4>2
    <3> QED
      BY <1>1, <2>1, <3>1, <3>2, Computed
  <2>2. CASE Reissue
    BY <1>1, <2>2, Bound DEF Reissue
  <2>3. CASE UNCHANGED cmd_vel
    BY <2>3
  <2> QED
    BY <1>1, <2>1, <2>2, <2>3 DEF Next, Activate, Deactivate, OdomCallback, SetPlan,
      SetParameters, Tick, Crash, vars
<1> QED
  BY <1>1, Invariance, PTL DEF Spec, StopsForward

\* A robot that may not reverse, holonomic or not, is not sent backwards along its
\* path but by the cost term.
THEOREM NoBackingUpOnPathHolds == Spec => NoBackingUpOnPath
<1> DEFINE Step ==
      \/ m_allow_reversing \/ seen'.is_goal_target
      \/ cmd_vel'["x"] >= Backwards
      \/ (~differential_drive /\ cmd_vel'["x"] >= -seen'.pushed)
<1>1. ASSUME IInv, [Next]_vars
      PROVE  [Step]_cmd_vel
  <2>1. CASE Compute
    <3>1. CASE cmd_vel' = Stop
      <4>1. cmd_vel'["x"] = 0
        BY <3>1, PlannerAssumption DEF Stop
      <4> QED
        BY <1>1, <4>1, Bound
    <3>2. CASE cmd_vel' = m_last_cmd_vel' /\ \E x \in Int : Between(x) /\ Wanting(x)
      <4>1. PICK x \in Int : Between(x) /\ Wanting(x)
        BY <3>2
      <4>2. ASSUME ~m_allow_reversing, ~seen'.is_goal_target
            PROVE  \/ cmd_vel'["x"] >= Backwards
                   \/ (~differential_drive /\ cmd_vel'["x"] >= -seen'.pushed)
        <5>1. x >= 0 \/ (~differential_drive /\ x >= -seen'.pushed)
          BY <4>1, <4>2 DEF Wanting
        <5>2. m_robot_direction' = 1
          BY <1>1, <2>1, <4>2, Computed, Estimated
        <5>3. cmd_vel'["x"] >= fmin(Backwards, x)
          BY <3>2, <4>1, <5>2 DEF Between
        <5>4. cmd_vel'["x"] \in Int /\ seen'.pushed \in Int
          <6>1. cmd_vel' \in Velocity /\ seen' \in Seen
            BY <1>1, <2>1, Computed
          <6>2. seen'.pushed \in Costs \cup {0}
            BY <6>1 DEF Seen
          <6>3. seen'.pushed \in Int
            <7>1. Costs \subseteq Int /\ 0 \in Int
              BY PlannerAssumption
            <7> HIDE DEF Step
            <7> QED
              BY <6>2, <7>1, Zenon
          <6>4. cmd_vel'["x"] \in Int
            BY <6>1, PlannerAssumption DEF Velocity
          <6> QED
            BY <6>3, <6>4
        <5> QED
          BY <1>1, <5>1, <5>3, <5>4, Bound DEF fmin
      <4> QED
        BY <4>2
    <3> QED
      BY <1>1, <2>1, <3>1, <3>2, Computed
  <2>2. CASE Reissue
    BY <1>1, <2>2, Bound DEF Reissue
  <2>3. CASE UNCHANGED cmd_vel
    BY <2>3
  <2> QED
    BY <1>1, <2>1, <2>2, <2>3 DEF Next, Activate, Deactivate, OdomCallback, SetPlan,
      SetParameters, Tick, Crash, vars
<1> QED
  BY <1>1, Invariance, PTL DEF Spec, NoBackingUpOnPath
=============================================================================
