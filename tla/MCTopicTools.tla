------------------------------ MODULE MCTopicTools ------------------------------
(* Instance of TopicTools for TLC. *)
EXTENDS TopicTools, MCGraph

\* QoS left to the script, or a reliable one asked for.
MCGivenQos == {None, [reliable |-> TRUE, transient_local |-> FALSE]}
=============================================================================
