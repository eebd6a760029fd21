--------------------------- MODULE FleetPlugin_proofs ---------------------------
(* The panel's goals and poses each implement a CommandMailbox, for any      *)
(* number of robots, commands and signals.                                  *)
EXTENDS FleetPlugin, TLAPS

\* The members of worker and panel keep their types, and the selected robot is
\* one that was found.
THEOREM TypeCorrect == Spec => []TypeOK
<1>1. Init => TypeOK
  <2> SUFFICES ASSUME Init PROVE TypeOK
    OBVIOUS
  <2>1. signals \in Seq({"goal", "pos"})
    BY DEF Init
  <2>2. ready \subseteq Robots /\ robot_namespaces_ \subseteq Robots
    BY DEF Init
  <2>3. robot_ \in robot_namespaces_ \cup {None} /\ copied \in Nat \cup {None}
    BY DEF Init
  <2>4. /\ goalTopic \in 1 .. goals \cup {None} /\ poseTopic \in 1 .. poses \cup {None}
        /\ goal_pose_ \in 1 .. goals \cup {None} /\ initial_pose_ \in 1 .. poses \cup {None}
    BY DEF Init
  <2>5. goals \in 0 .. MaxGoals /\ poses \in 0 .. MaxPoses
    BY FleetAssumption DEF Init
  <2>6. worker = "discover" /\ robot_namespaces_ = {} /\ gui = "idle" /\ process_combo_ \in BOOLEAN
    BY DEF Init
  <2> QED
    BY <2>1, <2>2, <2>3, <2>4, <2>5, <2>6 DEF TypeOK
<1>2. TypeOK /\ [Next]_vars => TypeOK'
  <2> SUFFICES ASSUME TypeOK, [Next]_vars PROVE TypeOK'
    OBVIOUS
  <2> USE FleetAssumption DEF TypeOK, userVars, workerVars, memberVars, guiVars, sentVars
  <2>1. CASE GiveGoal
    BY <2>1 DEF GiveGoal
  <2>2. CASE GivePose
    BY <2>2 DEF GivePose
  <2>3. ASSUME NEW r \in Robots, ServerChanges(r) PROVE TypeOK'
    BY <2>3 DEF ServerChanges
  <2>4. ASSUME NEW r \in Robots, SelectRobot(r) PROVE TypeOK'
    BY <2>4 DEF SelectRobot, Listed
  <2>5. CASE Discover
    BY <2>5 DEF Discover
  <2>6. CASE GoalCallback
    BY <2>6 DEF GoalCallback
  <2>7. CASE PoseCallback
    BY <2>7 DEF PoseCallback
  <2>8. CASE EmitPos
    BY <2>8 DEF EmitPos
  <2>9. CASE SendGoal
    BY <2>9 DEF SendGoal, NextSignal
  <2>10. CASE WaitForServer
    BY <2>10 DEF WaitForServer, Copies, Crash, Torn
  <2>11. CASE GoalSent
    BY <2>11 DEF GoalSent, GoalAfterSend
  <2>12. CASE GoalTimeout
    BY <2>12 DEF GoalTimeout
  <2>13. CASE UpdatePos
    BY <2>13 DEF UpdatePos, NextSignal
  <2>14. CASE PublishPose
    BY <2>14 DEF PublishPose
  <2>15. CASE ClearPose
    BY <2>15 DEF ClearPose, PoseAfterPublish
  <2>16. CASE LaunchRViz
    BY <2>16 DEF LaunchRViz, Crash
  <2>17. CASE UNCHANGED vars
    BY <2>17 DEF vars
  <2> QED
    BY <2>1, <2>2, <2>3, <2>4, <2>5, <2>6, <2>7, <2>8, <2>9, <2>10, <2>11, <2>12,
       <2>13, <2>14, <2>15, <2>16, <2>17 DEF Next, Slots
<1> QED
  BY <1>1, <1>2, PTL DEF Spec

-----------------------------------------------------------------------------
\* Appending to the commands that left.
LEMMA Appended ==
    ASSUME NEW n \in Nat, NEW s \in Seq(0 .. n), NEW c \in 0 .. n
    PROVE  /\ Append(s, c) \in Seq(0 .. n)
           /\ Len(Append(s, c)) = Len(s) + 1
           /\ Append(s, c)[Len(s) + 1] = c
           /\ \A i \in 1 .. Len(s) : Append(s, c)[i] = s[i]
OBVIOUS

\* What left keeps its type when one more command is given.
LEMMA Widened ==
    ASSUME NEW n \in Nat, NEW s \in Seq(0 .. n)
    PROVE  s \in Seq(0 .. n + 1)
<1>1. \A i \in 1 .. Len(s) : s[i] \in 0 .. n + 1
  OBVIOUS
<1> QED
  BY <1>1

\* The invariant of the goals holds at the start, and every step keeps it.
LEMMA GoalsStart == Init => GoalsInv
<1> SUFFICES ASSUME Init PROVE GoalsInv
  OBVIOUS
<1>1. sentGoals \in Seq(0 .. goals) /\ goalTopic = None /\ goal_pose_ = None /\ gui = "idle"
  BY DEF Init
<1> QED
  BY <1>1 DEF GoalsInv

LEMMA GoalsStep == TypeOK /\ GoalsInv /\ [Next]_vars => GoalsInv' /\ [Goals!Next]_Goals!vars
<1> SUFFICES ASSUME TypeOK, GoalsInv, [Next]_vars
             PROVE  GoalsInv' /\ [Goals!Next]_Goals!vars
  OBVIOUS
<1> USE FleetAssumption DEF userVars, workerVars, memberVars, guiVars, sentVars, Goals!vars
<1>1. CASE GiveGoal
  <2>1. goals \in Nat /\ goals' = goals + 1 /\ goalTopic' = goals + 1 /\ sentGoals' = sentGoals
    BY <1>1 DEF GiveGoal, TypeOK
  <2>2. sentGoals' \in Seq(0 .. goals')
    BY <2>1, Widened DEF GoalsInv
  <2>3. Goals!Later(goalTopic)' /\ (goal_pose_' # None => goal_pose_' < goalTopic')
    BY <1>1, <2>1 DEF GiveGoal, GoalsInv, TypeOK, Goals!Later
  <2>4. UNCHANGED <<goal_pose_, gui, copied>> /\ 1 .. goals \subseteq 1 .. goals'
        /\ 1 .. goals - 1 \subseteq 1 .. goals' - 1
    BY <1>1, <2>1 DEF GiveGoal
  <2>5. \A c : Goals!Later(c) => Goals!Later(c)'
    BY <2>1 DEF Goals!Later
  <2>6. GoalsInv'
    BY <2>2, <2>3, <2>4, <2>5 DEF GoalsInv, Torn, Goals!Later
  <2> QED
    BY <2>1, <2>6 DEF Goals!Next, Goals!Give
<1>2. CASE GoalCallback
  BY <1>2 DEF GoalCallback, GoalsInv, TypeOK, Goals!Later
<1>3. CASE SendGoal
  BY <1>3 DEF SendGoal, NextSignal, GoalsInv, TypeOK, Goals!Later
<1>4. CASE WaitForServer
  BY <1>4 DEF WaitForServer, Copies, Crash, Torn, GoalsInv, TypeOK, Goals!Later
<1>5. CASE GoalSent
  <2>1. /\ gui = "wait" /\ sentGoals' = Append(sentGoals, copied)
        /\ goal_pose_' = None /\ gui' = "idle" /\ UNCHANGED <<goals, goalTopic>>
    BY <1>5 DEF GoalSent, GoalAfterSend
  <2>2. copied \in 0 .. goals
    BY <2>1 DEF GoalsInv, TypeOK, Torn
  <2>3. /\ sentGoals' \in Seq(0 .. goals) /\ Len(sentGoals') = Len(sentGoals) + 1
        /\ sentGoals'[Len(sentGoals) + 1] = copied
        /\ \A i \in 1 .. Len(sentGoals) : sentGoals'[i] = sentGoals[i]
    BY <2>1, <2>2, Appended DEF GoalsInv, TypeOK
  <2>4. goalTopic' # None => Goals!Later(goalTopic)'
    BY <2>1, <2>2, <2>3 DEF GoalsInv, TypeOK, Torn, Goals!Later
  <2>5. GoalsInv'
    BY <2>1, <2>3, <2>4 DEF GoalsInv
  <2>6. Goals!Send \/ Goals!Spoil
    BY <2>1 DEF GoalsInv, Torn, Goals!Send, Goals!Spoil, Goals!Torn
  <2> QED
    BY <2>5, <2>6 DEF Goals!Next
<1>6. CASE GoalTimeout
  BY <1>6 DEF GoalTimeout, GoalsInv, TypeOK, Goals!Later
<1>7. CASE UpdatePos
  BY <1>7 DEF UpdatePos, NextSignal, GoalsInv, TypeOK, Goals!Later
<1>8. CASE PublishPose
  BY <1>8 DEF PublishPose, GoalsInv, TypeOK, Goals!Later
<1>9. CASE ClearPose
  BY <1>9 DEF ClearPose, GoalsInv, TypeOK, Goals!Later
<1>10. CASE LaunchRViz
  BY <1>10 DEF LaunchRViz, Crash, GoalsInv, TypeOK, Goals!Later
<1>11. CASE GivePose \/ PoseCallback \/ EmitPos \/ Discover
  BY <1>11 DEF GivePose, PoseCallback, EmitPos, Discover, GoalsInv, TypeOK, Goals!Later
<1>12. ASSUME NEW r \in Robots, ServerChanges(r) \/ SelectRobot(r)
       PROVE  GoalsInv' /\ [Goals!Next]_Goals!vars
  BY <1>12 DEF ServerChanges, SelectRobot, GoalsInv, TypeOK, Goals!Later
<1>13. CASE UNCHANGED vars
  BY <1>13 DEF vars, GoalsInv, TypeOK, Goals!Later
<1> QED
  BY <1>1, <1>2, <1>3, <1>4, <1>5, <1>6, <1>7, <1>8, <1>9, <1>10, <1>11, <1>12, <1>13
     DEF Next, Slots

\* send_goal() and goal_callback() implement the mailbox of goals.
THEOREM GoalsAreMailboxHolds == Spec => GoalsAreMailbox
<1>1. Init => Goals!Init
  BY DEF Init, Goals!Init
<1> QED
  BY <1>1, TypeCorrect, GoalsStart, GoalsStep, PTL DEF Spec, GoalsAreMailbox, Goals!Spec

-----------------------------------------------------------------------------
\* The same for the poses.
LEMMA PosesStart == Init => PosesInv
<1> SUFFICES ASSUME Init PROVE PosesInv
  OBVIOUS
<1>1. sentPoses \in Seq(0 .. poses) /\ poseTopic = None /\ initial_pose_ = None /\ gui = "idle"
  BY DEF Init
<1> QED
  BY <1>1 DEF PosesInv

LEMMA PosesStep == TypeOK /\ PosesInv /\ [Next]_vars => PosesInv' /\ [Poses!Next]_Poses!vars
<1> SUFFICES ASSUME TypeOK, PosesInv, [Next]_vars
             PROVE  PosesInv' /\ [Poses!Next]_Poses!vars
  OBVIOUS
<1> USE FleetAssumption DEF userVars, workerVars, memberVars, guiVars, sentVars, Poses!vars
<1>1. CASE GivePose
  <2>1. /\ poses \in Nat /\ poses' = poses + 1 /\ poseTopic' = poses + 1
        /\ UNCHANGED <<sentPoses, initial_pose_, gui, copied>>
    BY <1>1 DEF GivePose, TypeOK
  <2>2. sentPoses' \in Seq(0 .. poses')
    BY <2>1, Widened DEF PosesInv
  <2>3. Poses!Later(poseTopic)' /\ (initial_pose_' # None => initial_pose_' < poseTopic')
    BY <2>1 DEF PosesInv, TypeOK, Poses!Later
  <2>4. \A c : Poses!Later(c) => Poses!Later(c)'
    BY <2>1 DEF Poses!Later
  <2>5. PosesInv'
    BY <2>1, <2>2, <2>3, <2>4 DEF PosesInv, Poses!Later
  <2> QED
    BY <2>1, <2>5 DEF Poses!Next, Poses!Give
<1>2. CASE PoseCallback
  BY <1>2 DEF PoseCallback, PosesInv, TypeOK, Poses!Later
<1>3. CASE UpdatePos
  BY <1>3 DEF UpdatePos, NextSignal, PosesInv, TypeOK, Poses!Later
<1>4. CASE PublishPose
  <2>1. /\ gui = "publish" /\ gui' = "clear" /\ UNCHANGED <<poses, poseTopic, initial_pose_>>
        /\ \E copy \in Copies(initial_pose_) : sentPoses' = Append(sentPoses, copy)
    BY <1>4 DEF PublishPose
  <2>2. PICK copy \in Copies(initial_pose_) : sentPoses' = Append(sentPoses, copy)
    BY <2>1
  <2>3. copy = copied \/ (copy = Torn /\ copied < initial_pose_)
    <3>1. initial_pose_ \in Nat /\ copied \in Nat /\ copied <= initial_pose_
      BY <2>1 DEF PosesInv, TypeOK
    <3>2. copy = copied \/ (copy = Torn /\ initial_pose_ # copied)
      BY <2>2 DEF Copies
    <3> QED
      BY <3>1, <3>2
  <2>4. copy \in 0 .. poses
    BY <2>1, <2>3 DEF PosesInv, TypeOK, Torn
  <2>5. /\ sentPoses' \in Seq(0 .. poses) /\ Len(sentPoses') = Len(sentPoses) + 1
        /\ sentPoses'[Len(sentPoses) + 1] = copy
        /\ \A i \in 1 .. Len(sentPoses) : sentPoses'[i] = sentPoses[i]
    BY <2>2, <2>4, Appended DEF PosesInv, TypeOK
  <2>6. poseTopic' # None => Poses!Later(poseTopic)'
    BY <2>1, <2>3, <2>5 DEF PosesInv, TypeOK, Torn, Poses!Later
  <2>7. PosesInv'
    BY <2>1, <2>5, <2>6 DEF PosesInv
  <2>8. /\ copied \in 1 .. poses /\ Poses!Later(copied)
        /\ copied < initial_pose_ => copied \in 1 .. poses - 1
    BY <2>1 DEF PosesInv, TypeOK
  <2>9. copy = copied => Poses!Send
    BY <2>1, <2>2, <2>8 DEF Poses!Send
  <2>10. copy = Torn /\ copied < initial_pose_ => Poses!Spoil
    BY <2>1, <2>2, <2>8 DEF Torn, Poses!Spoil, Poses!Torn
  <2> QED
    BY <2>3, <2>7, <2>9, <2>10 DEF Poses!Next
<1>5. CASE ClearPose
  BY <1>5 DEF ClearPose, PoseAfterPublish, PosesInv, TypeOK, Poses!Later
<1>6. CASE SendGoal
  BY <1>6 DEF SendGoal, NextSignal, PosesInv, TypeOK, Poses!Later
<1>7. CASE WaitForServer
  BY <1>7 DEF WaitForServer, Crash, PosesInv, TypeOK, Poses!Later
<1>8. CASE GoalSent
  BY <1>8 DEF GoalSent, PosesInv, TypeOK, Poses!Later
<1>9. CASE GoalTimeout
  BY <1>9 DEF GoalTimeout, PosesInv, TypeOK, Poses!Later
<1>10. CASE LaunchRViz
  BY <1>10 DEF LaunchRViz, Crash, PosesInv, TypeOK, Poses!Later
<1>11. CASE GiveGoal \/ GoalCallback \/ EmitPos \/ Discover
  BY <1>11 DEF GiveGoal, GoalCallback, EmitPos, Discover, PosesInv, TypeOK, Poses!Later
<1>12. ASSUME NEW r \in Robots, ServerChanges(r) \/ SelectRobot(r)
       PROVE  PosesInv' /\ [Poses!Next]_Poses!vars
  BY <1>12 DEF ServerChanges, SelectRobot, PosesInv, TypeOK, Poses!Later
<1>13. CASE UNCHANGED vars
  BY <1>13 DEF vars, PosesInv, TypeOK, Poses!Later
<1> QED
  BY <1>1, <1>2, <1>3, <1>4, <1>5, <1>6, <1>7, <1>8, <1>9, <1>10, <1>11, <1>12, <1>13
     DEF Next, Slots

\* update_pos() and pose_callback() implement the mailbox of poses, although a
\* pose stays stored for a moment after it was sent.
THEOREM PosesAreMailboxHolds == Spec => PosesAreMailbox
<1>1. Init => Poses!Init
  BY DEF Init, Poses!Init
<1> QED
  BY <1>1, TypeCorrect, PosesStart, PosesStep, PTL DEF Spec, PosesAreMailbox, Poses!Spec

-----------------------------------------------------------------------------
(* What the receivers of goals and of poses may rely on.                    *)

\* Commands 1 .. g, those of s sent: each later than all before it, or torn.
SentInOrder(g, s) ==
    /\ g \in Nat /\ s \in Seq(0 .. g)
    /\ \A i, j \in 1 .. Len(s) : i < j /\ s[j] # Torn => s[i] < s[j]

\* The order is kept when a command is given, sent after all earlier ones, or torn.
LEMMA OrderKept ==
  ASSUME NEW g, NEW s, SentInOrder(g, s), NEW g2, NEW s2,
         \/ g2 = g + 1 /\ s2 = s
         \/ g2 = g /\ \E c \in 1 .. g : (\A i \in 1 .. Len(s) : s[i] < c) /\ s2 = Append(s, c)
         \/ g2 = g /\ s2 = Append(s, Torn)
         \/ g2 = g /\ s2 = s
  PROVE  SentInOrder(g2, s2)
<1>1. CASE g2 = g + 1 /\ s2 = s
  BY <1>1, Widened DEF SentInOrder
<1>2. ASSUME NEW c \in 0 .. g, c = Torn \/ \A i \in 1 .. Len(s) : s[i] < c,
             g2 = g, s2 = Append(s, c)
      PROVE  SentInOrder(g2, s2)
  <2>1. /\ s2 \in Seq(0 .. g) /\ Len(s2) = Len(s) + 1 /\ s2[Len(s) + 1] = c
        /\ \A i \in 1 .. Len(s) : s2[i] = s[i]
    BY <1>2, Appended DEF SentInOrder
  <2>2. Len(s) \in Nat
    BY DEF SentInOrder
  <2>3. ASSUME NEW i \in 1 .. Len(s2), NEW j \in 1 .. Len(s2), i < j, s2[j] # Torn
        PROVE  s2[i] < s2[j]
    <3>1. CASE j = Len(s) + 1
      BY <1>2, <2>1, <2>2, <2>3, <3>1
    <3>2. CASE j # Len(s) + 1
      <4>1. i \in 1 .. Len(s) /\ j \in 1 .. Len(s)
        BY <2>1, <2>2, <2>3, <3>2
      <4> QED
        BY <2>1, <2>3, <4>1 DEF SentInOrder
    <3> QED
      BY <3>1, <3>2
  <2> QED
    BY <1>2, <2>1, <2>3 DEF SentInOrder
<1>3. Torn \in 0 .. g
  BY DEF Torn, SentInOrder
<1>4. 1 .. g \subseteq 0 .. g
  BY DEF SentInOrder
<1> QED
  BY <1>1, <1>2, <1>3, <1>4

\* Whoever is sent goals and whoever listens to the poses of a robot
\* sees commands that leave untorn in the order in which the user gave them, and
\* none of them twice, whatever was lost or torn in between.
THEOREM CommandsLeaveInOrder == Spec => [](Goals!InOrder /\ Poses!InOrder)
<1> DEFINE Inv == SentInOrder(goals, sentGoals) /\ SentInOrder(poses, sentPoses)
<1>1. Goals!Init /\ Poses!Init => Inv
  BY DEF Goals!Init, Poses!Init, SentInOrder
<1>2. Inv /\ [Goals!Next]_Goals!vars /\ [Poses!Next]_Poses!vars => Inv'
  <2> SUFFICES ASSUME Inv, [Goals!Next]_Goals!vars, [Poses!Next]_Poses!vars PROVE Inv'
    OBVIOUS
  <2>1. SentInOrder(goals', sentGoals')
    <3>1. \/ goals' = goals + 1 /\ sentGoals' = sentGoals
          \/ goals' = goals /\ \E c \in 1 .. goals : (\A i \in 1 .. Len(sentGoals) : sentGoals[i] < c)
                                                     /\ sentGoals' = Append(sentGoals, c)
          \/ goals' = goals /\ sentGoals' = Append(sentGoals, Torn)
          \/ goals' = goals /\ sentGoals' = sentGoals
      BY DEF Goals!Next, Goals!vars, Goals!Give, Goals!Send, Goals!Spoil, Goals!Later, Goals!Torn, Torn
    <3> QED
      BY <3>1, OrderKept, SMTT(60)
  <2>2. SentInOrder(poses', sentPoses')
    <3>1. \/ poses' = poses + 1 /\ sentPoses' = sentPoses
          \/ poses' = poses /\ \E c \in 1 .. poses : (\A i \in 1 .. Len(sentPoses) : sentPoses[i] < c)
                                                     /\ sentPoses' = Append(sentPoses, c)
          \/ poses' = poses /\ sentPoses' = Append(sentPoses, Torn)
          \/ poses' = poses /\ sentPoses' = sentPoses
      BY DEF Poses!Next, Poses!vars, Poses!Give, Poses!Send, Poses!Spoil, Poses!Later, Poses!Torn, Torn
    <3> QED
      BY <3>1, OrderKept, SMTT(60)
  <2> QED
    BY <2>1, <2>2
<1>3. Inv => Goals!InOrder /\ Poses!InOrder
  BY DEF SentInOrder, Goals!InOrder, Poses!InOrder, Goals!Torn, Poses!Torn, Torn
<1> HIDE DEF Inv
<1>4. Goals!Spec /\ Poses!Spec => [](Goals!InOrder /\ Poses!InOrder)
  BY <1>1, <1>2, <1>3, PTL DEF Goals!Spec, Poses!Spec
<1> QED
  BY <1>4, GoalsAreMailboxHolds, PosesAreMailboxHolds, PTL DEF GoalsAreMailbox, PosesAreMailbox
================================================================================
