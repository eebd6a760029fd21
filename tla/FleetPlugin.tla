------------------------------ MODULE FleetPlugin ------------------------------
(****************************************************************************)
(* The RViz panel that commands a fleet                                     *)
(* (neo_fleet_rviz2_plugin/src/NeoFleetRViz2Plugin.cpp).  A worker thread   *)
(* spins a node: its callbacks store the last goal and initial pose in      *)
(* members of the worker and signal the GUI thread through Qt's queue.  The *)
(* GUI thread's slots read those members, act, and set them to null.  There *)
(* are no locks: a message that is replaced while the GUI copies it is      *)
(* freed under the copy, and what is copied may be Torn.                    *)
(*                                                                          *)
(* Commands are numbers, in the order in which the user gives them.  Labels *)
(* are left out.                                                            *)
(****************************************************************************)
EXTENDS Integers, Sequences, FiniteSets

CONSTANTS
    Robots,         \* available_robots_
    None,           \* a null pointer
    MaxGoals,       \* goals the user gives (a bound)
    MaxPoses,       \* initial poses the user gives (a bound)
    MaxSignals      \* "pos" signals that wait in the GUI's queue (a bound)

ASSUME FleetAssumption ==
    /\ None \notin Robots \cup Nat
    /\ MaxGoals \in Nat /\ MaxPoses \in Nat /\ MaxSignals \in Nat

VARIABLES
    worker,         \* "discover", "spin", "returned" or "crashed"
    robot_namespaces_, \* the robots that were found
    goalTopic, poseTopic, \* the last message that waits, or None (depth 1)
    goal_pose_, initial_pose_, \* members of the worker
    signals,        \* the GUI's queue of "goal" and "pos"
    gui,            \* "idle"; "copy" and "wait" in send_goal(); "publish" and
                    \* "clear" in update_pos(); "crashed"
    copied,         \* the message send_goal() or update_pos() copies
    process_combo_, \* the drop-down list was filled
    robot_,         \* the selected robot
    ready,          \* robots whose action server is available
    goals, poses,   \* number of commands the user has given
    sentGoals, sentPoses \* history: the commands that went to a robot

userVars    == <<goalTopic, poseTopic, goals, poses>>
workerVars  == <<worker, robot_namespaces_>>
memberVars  == <<goal_pose_, initial_pose_>>
guiVars     == <<gui, copied, process_combo_, robot_>>
sentVars    == <<sentGoals, sentPoses>>
vars == <<userVars, workerVars, memberVars, signals, guiVars, ready, sentVars>>

Torn == 0

Init ==
    /\ worker = "discover" /\ robot_namespaces_ = {}
    /\ goalTopic = None /\ poseTopic = None
    /\ goal_pose_ = None /\ initial_pose_ = None
    /\ signals = <<>>
    /\ gui = "idle" /\ copied = None
    /\ process_combo_ = FALSE /\ robot_ = None
    /\ ready \in SUBSET Robots
    /\ goals = 0 /\ poses = 0
    /\ sentGoals = <<>> /\ sentPoses = <<>>

-----------------------------------------------------------------------------
(* The user and the fleet.                                                  *)

\* The goal tool of RViz publishes; the subscription keeps the last message.
GiveGoal ==
    /\ worker = "spin" /\ goals < MaxGoals
    /\ goals' = goals + 1
    /\ goalTopic' = goals + 1
    /\ UNCHANGED <<poseTopic, poses, workerVars, memberVars, signals, guiVars,
                   ready, sentVars>>

GivePose ==
    /\ worker = "spin" /\ poses < MaxPoses
    /\ poses' = poses + 1
    /\ poseTopic' = poses + 1
    /\ UNCHANGED <<goalTopic, goals, workerVars, memberVars, signals, guiVars,
                   ready, sentVars>>

ServerChanges(r) ==
    /\ ready' = IF r \in ready THEN ready \ {r} ELSE ready \cup {r}
    /\ UNCHANGED <<userVars, workerVars, memberVars, signals, guiVars, sentVars>>

-----------------------------------------------------------------------------
(* The worker thread.                                                       *)

\* process() up to its loop: the robots whose topics are in the graph now are
\* found once and for all; without one it returns, for good.
Discover ==
    /\ worker = "discover"
    /\ robot_namespaces_' \in SUBSET Robots
    /\ worker' = IF robot_namespaces_' = {} THEN "returned" ELSE "spin"
    /\ UNCHANGED <<userVars, memberVars, signals, guiVars, ready, sentVars>>

\* goal_callback()
GoalCallback ==
    /\ worker = "spin" /\ goalTopic # None
    /\ goal_pose_' = goalTopic /\ goalTopic' = None
    /\ signals' = Append(signals, "goal")
    /\ UNCHANGED <<poseTopic, goals, poses, workerVars, initial_pose_, guiVars,
                   ready, sentVars>>

\* pose_callback()
PoseCallback ==
    /\ worker = "spin" /\ poseTopic # None
    /\ initial_pose_' = poseTopic /\ poseTopic' = None
    /\ UNCHANGED <<goalTopic, goals, poses, workerVars, goal_pose_, signals, guiVars,
                   ready, sentVars>>

Waiting(s) == Cardinality({i \in DOMAIN signals : signals[i] = s})

\* The end of a turn of the loop: emit send_pos().
EmitPos ==
    /\ worker = "spin"
    /\ Waiting("pos") < MaxSignals
    /\ signals' = Append(signals, "pos")
    /\ UNCHANGED <<userVars, workerVars, memberVars, guiVars, ready, sentVars>>

-----------------------------------------------------------------------------
(* The GUI thread.                                                          *)

NextSignal(s) == gui = "idle" /\ signals # <<>> /\ Head(signals) = s

\* A null robot_ is dereferenced: the whole process ends.
Crash == gui' = "crashed" /\ worker' = "crashed"

\* send_goal() begins to copy the stored goal, if there is one.
SendGoal ==
    /\ NextSignal("goal")
    /\ signals' = Tail(signals)
    /\ copied' = goal_pose_
    /\ gui' = IF goal_pose_ = None THEN "idle" ELSE "copy"
    /\ UNCHANGED <<userVars, workerVars, memberVars, process_combo_, robot_, ready, sentVars>>

\* What a copy holds when the message may have been replaced under it.
Copies(stored) == IF stored = copied THEN {copied} ELSE {copied, Torn}

\* The copy is complete; wait_for_action_server() through the selected robot.
WaitForServer ==
    /\ gui = "copy"
    /\ copied' \in Copies(goal_pose_)
    /\ IF robot_ = None THEN Crash ELSE gui' = "wait" /\ UNCHANGED worker
    /\ UNCHANGED <<userVars, robot_namespaces_, memberVars, signals, process_combo_, robot_,
                   ready, sentVars>>

\* What is left of the stored goal once one was sent.  (Slip: it is kept.)
GoalKept == goal_pose_
GoalAfterSend == None

\* The server answered: the copy is sent, and whatever is stored by now is
\* set to null.
GoalSent ==
    /\ gui = "wait" /\ robot_ \in ready
    /\ sentGoals' = Append(sentGoals, copied)
    /\ goal_pose_' = GoalAfterSend
    /\ gui' = "idle" /\ copied' = None
    /\ UNCHANGED <<userVars, workerVars, initial_pose_, signals, process_combo_, robot_,
                   ready, sentPoses>>

\* Five seconds without a server: the goal stays stored and nothing is sent.
GoalTimeout ==
    /\ gui = "wait" /\ robot_ \notin ready
    /\ gui' = "idle" /\ copied' = None
    /\ UNCHANGED <<userVars, workerVars, memberVars, signals, process_combo_, robot_,
                   ready, sentVars>>

\* update_pos() fills the list, and turns to a stored pose if a robot is
\* selected ...
UpdatePos ==
    /\ NextSignal("pos")
    /\ signals' = Tail(signals)
    /\ process_combo_' = TRUE
    /\ IF robot_ # None /\ initial_pose_ # None
       THEN gui' = "publish" /\ copied' = initial_pose_
       ELSE UNCHANGED <<gui, copied>>
    /\ UNCHANGED <<userVars, workerVars, memberVars, robot_, ready, sentVars>>

\* ... publishes it to that robot ...
PublishPose ==
    /\ gui = "publish"
    /\ \E copy \in Copies(initial_pose_) : sentPoses' = Append(sentPoses, copy)
    /\ gui' = "clear" /\ copied' = None
    /\ UNCHANGED <<userVars, workerVars, memberVars, signals, process_combo_, robot_,
                   ready, sentGoals>>

\* (Slip: the pose that was published stays stored.)
PoseKept == initial_pose_
PoseAfterPublish == None

\* ... and then sets whatever is stored by now to null.
ClearPose ==
    /\ gui = "clear"
    /\ initial_pose_' = PoseAfterPublish
    /\ gui' = "idle"
    /\ UNCHANGED <<userVars, workerVars, goal_pose_, signals, copied, process_combo_,
                   robot_, ready, sentVars>>

\* setRobotName(): the list shows robots that were found.
Listed == IF process_combo_ THEN robot_namespaces_ ELSE {}
SelectRobot(r) ==
    /\ gui = "idle"
    /\ r \in Listed
    /\ robot_' = r
    /\ UNCHANGED <<userVars, workerVars, memberVars, signals, gui, copied,
                   process_combo_, ready, sentVars>>

\* launchRViz(), through the selected robot.
LaunchRViz ==
    /\ gui = "idle"
    /\ IF robot_ = None THEN Crash ELSE UNCHANGED <<gui, worker>>
    /\ UNCHANGED <<userVars, robot_namespaces_, memberVars, signals, copied, process_combo_,
                   robot_, ready, sentVars>>

-----------------------------------------------------------------------------
Slots == \/ SendGoal \/ WaitForServer \/ GoalSent \/ GoalTimeout
         \/ UpdatePos \/ PublishPose \/ ClearPose

Next ==
    \/ GiveGoal \/ GivePose
    \/ \E r \in Robots : ServerChanges(r) \/ SelectRobot(r)
    \/ Discover \/ GoalCallback \/ PoseCallback \/ EmitPos
    \/ Slots
    \/ LaunchRViz

Spec == Init /\ [][Next]_vars

\* The worker spins its node and loops, and the GUI handles its queue; the
\* user and the action servers owe nothing.
Fairness ==
    /\ WF_vars(Discover) /\ WF_vars(GoalCallback) /\ WF_vars(PoseCallback)
    /\ WF_vars(EmitPos) /\ WF_vars(Slots)

FairSpec == Spec /\ Fairness

-----------------------------------------------------------------------------
(* Properties.                                                              *)

\* The selected robot is one that was found.
TypeOK ==
    /\ worker \in {"discover", "spin", "returned", "crashed"}
    /\ robot_namespaces_ \subseteq Robots
    /\ worker = "discover" => robot_namespaces_ = {}
    /\ goalTopic \in 1 .. goals \cup {None} /\ poseTopic \in 1 .. poses \cup {None}
    /\ goal_pose_ \in 1 .. goals \cup {None} /\ initial_pose_ \in 1 .. poses \cup {None}
    /\ copied \in Nat \cup {None}
    /\ signals \in Seq({"goal", "pos"})
    /\ gui \in {"idle", "copy", "wait", "publish", "clear", "crashed"}
    /\ process_combo_ \in BOOLEAN
    /\ robot_ \in robot_namespaces_ \cup {None}
    /\ ready \subseteq Robots
    /\ goals \in 0 .. MaxGoals /\ poses \in 0 .. MaxPoses

\* What was given and what left, for goals and for pose estimates.
Goals == INSTANCE CommandMailbox WITH given <- goals, sent <- sentGoals
Poses == INSTANCE CommandMailbox WITH given <- poses, sent <- sentPoses

\* Goals go through a mailbox: none is sent twice or after a later one, although
\* they are stored, copied, replaced while the GUI waits, and kept over
\* timeouts; and one is torn only when a later one was given.
GoalsAreMailbox == Goals!Spec

\* And so do initial poses, which may be replaced between publish() and reset.
PosesAreMailbox == Poses!Spec

\* While every action server is available, a stored goal does not stay: the
\* signal that follows it makes the GUI send it, or crash without a robot.
StoredGoalLeaves ==
    [](ready = Robots) => (goal_pose_ # None ~> goal_pose_ = None \/ gui = "crashed")

(* Why the mailboxes hold: the inductive invariant of the proofs. *)

\* What waits on the topic is later than what is stored, and both are later than
\* what was sent; so is a copy, unless it is torn and the stored goal overtakes it.
GoalsInv ==
    /\ sentGoals \in Seq(0 .. goals)
    /\ goalTopic # None => /\ Goals!Later(goalTopic)
                           /\ goal_pose_ # None => goal_pose_ < goalTopic
    /\ goal_pose_ # None => Goals!Later(goal_pose_)
    /\ gui \in {"copy", "wait"} =>
         /\ goal_pose_ # None
         /\ \/ copied \in 1 .. goals /\ copied <= goal_pose_ /\ Goals!Later(copied)
            \/ copied = Torn /\ gui = "wait" /\ \E c \in 1 .. goals - 1 : Goals!Later(c)

\* The same for poses, except that one that was sent stays stored for a moment.
PosesInv ==
    /\ sentPoses \in Seq(0 .. poses)
    /\ poseTopic # None => /\ Poses!Later(poseTopic)
                           /\ initial_pose_ # None => initial_pose_ < poseTopic
    /\ initial_pose_ # None /\ gui # "clear" => Poses!Later(initial_pose_)
    /\ gui = "publish" => /\ initial_pose_ # None /\ copied \in 1 .. poses
                          /\ copied <= initial_pose_ /\ Poses!Later(copied)

(* What the code does not keep. *)

\* "give commands to the intended robot": the last goal reaches a robot, when
\* the action servers are available all the time and a robot was selected
\* before the first goal.
LastGoalIsSent ==
    [](ready = Robots /\ (goals > 0 => robot_ # None)) =>
      (goals = MaxGoals ~> \E i \in 1 .. Len(sentGoals) : sentGoals[i] = MaxGoals)
=============================================================================
