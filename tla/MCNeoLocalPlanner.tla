---------------------------- MODULE MCNeoLocalPlanner ----------------------------
(* Instances of NeoLocalPlanner for TLC. *)
EXTENDS NeoLocalPlanner

AlongX == {"x"}

\* acc_lim, min_vel and max_vel, the same on every axis.
MCLimit(acc, min, max) ==
    [acc_lim |-> [a \in Axes |-> acc], min_vel |-> [a \in Axes |-> min],
     max_vel |-> [a \in Axes |-> max]]
OneLimit == {MCLimit(1, -1, 3)}
TwoLimits == {MCLimit(1, -1, 2), MCLimit(2, -1, 1)}

MCBehind == {-2}
MCControls == {-1, 1}
=============================================================================
