--------------------------------- MODULE Relay ---------------------------------
(* The relay node (topic_tools/src/relay_node.cpp): every message that is   *)
(* received is forwarded, unless discovery has dropped the publisher.       *)
EXTENDS ToolBaseNode

\* What is done with a message.  (Slip: pub_ is not checked.)
RelayUnchecked(msg) == Publish(msg)
Relay(msg) == IF pub_ # None THEN Publish(msg) ELSE UNCHANGED <<out, fault>>

\* process_message()
RelayMessage ==
    /\ Receive
    /\ Relay(Head(queue))
    /\ UNCHANGED <<graphVars, input_topic_, toolVars>>
=============================================================================
