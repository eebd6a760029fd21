------------------------------ MODULE ToolBaseNode ------------------------------
(****************************************************************************)
(* What the topic_tools nodes share (topic_tools/src/tool_base_node.cpp): a *)
(* publisher pub_ on the output topic and a subscription sub_ on the input  *)
(* topic, both created and dropped by make_subscribe_unsubscribe_decisions, *)
(* which a 100 ms timer runs.  The timer, the subscription and the services *)
(* of a node are in one mutually exclusive callback group, so every         *)
(* callback is one action; what interleaves with them is the ROS graph:     *)
(* publishers come and go, and messages wait in the subscription's queue.   *)
(****************************************************************************)
EXTENDS Integers, Sequences

CONSTANTS
    Endpoints,  \* publishers that may appear, numbered in discovery order
    Info,       \* topic, type and offered QoS of each of them
    Names,      \* topic names as users spell them
    Resolve,    \* the topic each name resolves to
    lazy_,      \* the parameter "lazy"
    QueueDepth, \* messages that wait in the subscription (a bound)
    None        \* a null pointer

\* Types are left open; deadlines are natural numbers, infinity a large one, and
\* among publishers that are there (finitely many) one has the longest.
ASSUME BaseAssumption ==
    /\ Endpoints \subseteq Nat
    /\ \A e \in Endpoints : /\ Info[e].reliable \in BOOLEAN
                            /\ Info[e].transient_local \in BOOLEAN
                            /\ Info[e].deadline \in Nat
    /\ \A S \in SUBSET Endpoints : S # {} =>
         \E l \in S : \A f \in S : Info[f].deadline <= Info[l].deadline
    /\ lazy_ \in BOOLEAN
    /\ QueueDepth \in Nat

VARIABLES
    online,       \* the publishers in the graph
    input_topic_, \* the name of the input topic
    pub_,         \* None or its type and QoS: topic_type_, qos_profile_
    matched,      \* pub_ has a subscriber
    sub_,         \* None or its topic, type and QoS
    queue,        \* messages received by sub_, oldest first
    out,          \* None or the last message forwarded, and pub_ then
    fault         \* a null pub_ was dereferenced

Message == {[topic |-> Info[e].topic, type |-> Info[e].type] : e \in Endpoints}

graphVars == <<online, matched>>
toolVars  == <<pub_, sub_>>
baseVars  == <<graphVars, input_topic_, toolVars, queue, out, fault>>

\* The publishers try_discover_source() finds for a name.
Sources(name) == {e \in online : Info[e].topic = Resolve[name]}

\* Of several publishers, the first found gives the type; a policy that only
\* some of them offer is given up, and the longest deadline is taken.
\* (Slip: reliability of the first one, whatever the others offer.)
ProfileOfFirst(S) ==
    LET first == CHOOSE e \in S : \A f \in S : e <= f
    IN  [type            |-> Info[first].type,
         reliable        |-> Info[first].reliable,
         transient_local |-> \A e \in S : Info[e].transient_local,
         deadline        |-> Info[CHOOSE e \in S : \A f \in S :
                                    Info[f].deadline <= Info[e].deadline].deadline]
Profile(S) ==
    LET first == CHOOSE e \in S : \A f \in S : e <= f
    IN  [type            |-> Info[first].type,
         reliable        |-> \A e \in S : Info[e].reliable,
         transient_local |-> \A e \in S : Info[e].transient_local,
         deadline        |-> Info[CHOOSE e \in S : \A f \in S :
                                    Info[f].deadline <= Info[e].deadline].deadline]

Subscription(topic, profile) ==
    [topic |-> topic, type |-> profile.type, reliable |-> profile.reliable,
     transient_local |-> profile.transient_local, deadline |-> profile.deadline]

\* The middleware connects a subscription to a publisher that offers what it
\* requests; publishers of another type are not connected.
Connected(sub, e) ==
    /\ sub.topic = Info[e].topic /\ sub.type = Info[e].type
    /\ sub.reliable => Info[e].reliable
    /\ sub.transient_local => Info[e].transient_local
    /\ Info[e].deadline <= sub.deadline

\* A subscription is kept while it is on the input topic, whatever the type
\* and QoS of the source are by now.  (Slip: it is kept on any topic.)
KeepAnySubscription(name) == sub_ # None
KeepSubscription(name) == sub_ # None /\ sub_.topic = Resolve[name]

\* Lazy tools want a subscriber on a publisher that was not just created.
\* (Slips: they also subscribe without one; only a new publisher is asked.)
WantedAlways(profile) == TRUE
WantedIfNew(profile) == ~lazy_ \/ (pub_ # profile /\ matched)
Wanted(profile) == ~lazy_ \/ (pub_ = profile /\ matched)

\* make_subscribe_unsubscribe_decisions() for the given input topic.  Without
\* a source the publisher goes and the subscription stays.
Decide(name) ==
    IF Sources(name) # {}
    THEN LET profile == Profile(Sources(name))
         IN  /\ pub_' = profile
             /\ matched' = (pub_ = profile /\ matched)
             /\ sub_' = IF ~Wanted(profile) THEN None
                        ELSE IF KeepSubscription(name) THEN sub_
                        ELSE Subscription(Resolve[name], profile)
             /\ queue' = IF sub_' = None \/ ~KeepSubscription(name) THEN <<>> ELSE queue
    ELSE pub_' = None /\ matched' = FALSE /\ UNCHANGED <<sub_, queue>>

-----------------------------------------------------------------------------
(* The graph around the tool.                                               *)

Appear(e) ==
    /\ online' = online \cup {e}
    /\ UNCHANGED <<input_topic_, matched, toolVars, queue, out, fault>>

Disappear(e) ==
    /\ online' = online \ {e}
    /\ UNCHANGED <<input_topic_, matched, toolVars, queue, out, fault>>

\* A subscriber of the output topic comes or goes.
OutputMatch ==
    /\ pub_ # None
    /\ matched' = ~matched
    /\ UNCHANGED <<online, input_topic_, toolVars, queue, out, fault>>

\* A publisher sends; the message reaches the queue of a connected sub_.
Send(e) ==
    /\ e \in online
    /\ sub_ # None /\ Connected(sub_, e)
    /\ Len(queue) < QueueDepth
    /\ queue' = Append(queue, [topic |-> Info[e].topic, type |-> Info[e].type])
    /\ UNCHANGED <<graphVars, input_topic_, toolVars, out, fault>>

Graph ==
    \/ \E e \in Endpoints : Appear(e) \/ Disappear(e) \/ Send(e)
    \/ OutputMatch

-----------------------------------------------------------------------------
(* Callbacks of the tools.                                                  *)

\* The constructor: discovery runs once, against an empty or a full graph.
BaseInit(name) ==
    /\ online \in SUBSET Endpoints
    /\ input_topic_ = name
    /\ matched = FALSE
    /\ pub_ = IF Sources(name) = {} THEN None ELSE Profile(Sources(name))
    /\ sub_ = IF Sources(name) = {} \/ lazy_ THEN None
              ELSE Subscription(Resolve[name], Profile(Sources(name)))
    /\ queue = <<>> /\ out = None /\ fault = FALSE

\* The discovery timer.
Discover ==
    /\ Decide(input_topic_)
    /\ UNCHANGED <<online, input_topic_, out, fault>>

\* pub_->publish(*msg)
Publish(msg) ==
    /\ fault' = (fault \/ pub_ = None)
    /\ out' = IF pub_ = None THEN out
              ELSE [topic |-> msg.topic, type |-> msg.type, as |-> pub_.type]

\* A message leaves the queue for process_message().
Receive ==
    /\ queue # <<>>
    /\ queue' = Tail(queue)

-----------------------------------------------------------------------------
(* Properties of every tool.                                                *)

\* The types of the variables.
BaseTypeOK ==
    /\ online \subseteq Endpoints
    /\ matched \in BOOLEAN /\ fault \in BOOLEAN
    /\ input_topic_ \in Names
    /\ pub_ = None => ~matched
    /\ queue \in Seq(Message) /\ Len(queue) <= QueueDepth

\* What goes out came in on the topic that is selected now: whenever a message
\* could be forwarded, the subscription is on the input topic.
ForwardsInputTopic ==
    pub_ # None /\ sub_ # None => sub_.topic = Resolve[input_topic_]

\* No message of a former input topic waits behind a publisher that is there.
QueueOfInputTopic ==
    pub_ # None => \A i \in DOMAIN queue : queue[i].topic = Resolve[input_topic_]

\* "For duration-based policies, note the largest value to ensure matching all
\* publishers", and the fallbacks of the other policies: a subscription that is
\* made now is connected to all publishers of its type that are there.
FreshSubscriptionConnects ==
    [][sub_' # None /\ sub_' # sub_ =>
         \A e \in online : Info[e].topic = sub_'.topic /\ Info[e].type = sub_'.type
           => Connected(sub_', e)]_baseVars

\* "If True, only subscribe to input_topic if there is at least one subscriber
\* on the output_topic": with a source but no subscriber, the subscription goes.
LazyUnsubscribes ==
    lazy_ => (<>[](~matched /\ Sources(input_topic_) # {}) => <>[](sub_ = None))

\* A source that stays is subscribed to for good once there is a demand.
SourceIsSubscribed ==
    <>[](Sources(input_topic_) # {} /\ (lazy_ => matched))
      => <>[](/\ pub_ # None /\ sub_ # None
              /\ sub_.topic = Resolve[input_topic_])

(* What the code does not keep. *)

\* No tool publishes through pub_ after discovery has dropped it: a message
\* may still wait in the queue of the subscription that outlives it, and "the
\* ptr needs to be checked".
NoNullPublish == ~fault
=============================================================================
