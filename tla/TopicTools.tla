------------------------------- MODULE TopicTools -------------------------------
(* A relay, drop or delay node in its graph: ToolBaseNode's discovery, and  *)
(* process_message() as the node that was started overrides it; or one of   *)
(* the scripts.                                                             *)
EXTENDS Relay, Drop, Delay, ScriptNode

VARIABLE tool           \* "relay", "drop", "delay" or "script"

vars == <<tool, baseVars, dropVars, delayVars, scriptVars>>

Init ==
    /\ \E name \in Names :
         \/ tool \in {"relay", "drop", "delay"} /\ BaseInit(name) /\ NoScript
         \/ tool = "script" /\ ScriptInit(name)
    /\ DropInit
    /\ DelayInit

ProcessMessage ==
    /\ \/ /\ \/ tool = "relay" /\ RelayMessage /\ UNCHANGED <<dropVars, delayVars>>
             \/ tool = "drop" /\ DropMessage /\ UNCHANGED delayVars
             \/ tool = "delay" /\ DelayMessage /\ UNCHANGED dropVars
          /\ UNCHANGED scriptVars
       \/ tool = "script" /\ ScriptMessage /\ UNCHANGED <<dropVars, delayVars>>
    /\ UNCHANGED tool

DiscoveryTimer ==
    /\ tool # "script"
    /\ Discover
    /\ UNCHANGED <<tool, dropVars, delayVars, scriptVars>>
DelayTick == Tick /\ UNCHANGED <<tool, dropVars, scriptVars>>
DelayTimer == FireAny /\ UNCHANGED <<tool, dropVars, scriptVars>>
Construct == ScriptStart /\ UNCHANGED <<tool, dropVars, delayVars>>

Next ==
    \/ Graph /\ UNCHANGED <<tool, dropVars, delayVars, scriptVars>>
    \/ DiscoveryTimer
    \/ ProcessMessage
    \/ DelayTick
    \/ DelayTimer
    \/ Construct

\* The executor runs the timers and takes the messages that wait; time passes.
Spec == Init /\ [][Next]_vars
FairSpec ==
    /\ Spec
    /\ WF_vars(DiscoveryTimer) /\ WF_vars(ProcessMessage)
    /\ WF_vars(DelayTick) /\ WF_vars(DelayTimer) /\ WF_vars(Construct)

\* The relay's messages and the delay's timers never go through a publisher
\* that discovery has dropped, though both outlive it.
RelayAndDelayCheckPublisher == tool # "drop" => NoNullPublish

\* A subscription that is made now connects to all publishers of its type: to
\* those in the graph or, in a script whose user left the QoS to it, to those
\* that choose_qos() looked at and that it says "it will connect to".
NewSubscriptionConnects ==
    [][sub_' # None /\ sub_' # sub_ /\ (tool = "script" => args.qos = None) =>
         \A e \in IF tool = "script" THEN pubs_info ELSE online :
           Info[e].topic = sub_'.topic /\ Info[e].type = sub_'.type
             => Connected(sub_', e)]_vars

\* A lazy node with discovery, as no script is, gives its subscription up while
\* nobody listens.
ToolLazyUnsubscribes == tool # "script" => LazyUnsubscribes

\* A node with discovery gets its subscription once source and demand stay.
ToolSourceIsSubscribed == tool # "script" => SourceIsSubscribed

\* A script leaves its constructor, serving or with an error, although the graph
\* changes between the looks it takes.
ScriptStartsOrEnds == tool = "script" => StartsOrEnds
=============================================================================
