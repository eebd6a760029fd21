---------------------------------- MODULE Mux ----------------------------------
(* The mux node (topic_tools/src/mux_node.cpp): forwards the selected one of *)
(* a list of input topics; services add, delete and select topics.          *)
(* Service responses are functions of the state a handler reads and of its  *)
(* request, and are left out.                                               *)
EXTENDS ToolBaseNode

CONSTANTS
    NoneTopic,      \* NONE_TOPIC, the name "__none"
    InitialTopics   \* the parameter "input_topics"

ASSUME MuxAssumption ==
    /\ NoneTopic \in Names
    /\ InitialTopics \subseteq Names \ {NoneTopic}
    /\ Resolve \in [Names -> {Resolve[n] : n \in Names}]
    /\ \A n \in Names \ {NoneTopic} : Resolve[n] # Resolve[NoneTopic]

VARIABLE input_topics_

vars == <<baseVars, input_topics_>>

\* The parameter "initial_topic" is one of the list, or __none.  With __none
\* the constructor's discovery does nothing.
Init ==
    /\ input_topics_ = InitialTopics
    /\ \/ \E name \in InitialTopics : BaseInit(name)
       \/ /\ online \in SUBSET Endpoints
          /\ input_topic_ = NoneTopic
          /\ matched = FALSE /\ pub_ = None /\ sub_ = None
          /\ queue = <<>> /\ out = None /\ fault = FALSE

\* make_subscribe_unsubscribe_decisions(), which the mux overrides.  (Slip: both
\* conditions are asked for.)
MuxDecideListed(name) ==
    IF name # NoneTopic /\ name \in input_topics_
    THEN Decide(name)
    ELSE UNCHANGED <<matched, toolVars, queue>>
MuxDecide(name) ==
    IF name # NoneTopic \/ name \in input_topics_
    THEN Decide(name)
    ELSE UNCHANGED <<matched, toolVars, queue>>

MuxDiscover ==
    /\ MuxDecide(input_topic_)
    /\ UNCHANGED <<online, input_topic_, out, fault, input_topics_>>

\* process_message(): pub_ is used without a check.
ProcessMessage ==
    /\ Receive
    /\ Publish(Head(queue))
    /\ UNCHANGED <<graphVars, input_topic_, toolVars, input_topics_>>

-----------------------------------------------------------------------------
(* Services.                                                                *)

\* on_mux_add(): names are compared as they are spelled.
Add(name) ==
    /\ name # NoneTopic
    /\ name \notin input_topics_
    /\ input_topics_' = input_topics_ \cup {name}
    /\ UNCHANGED baseVars

\* on_mux_delete(): one name of the topic goes, unless the topic is selected.
\* (Slip: selected names are compared as they are spelled.)
DeletableSpelled(name) == input_topic_ # name
Deletable(name) == Resolve[input_topic_] # Resolve[name]

Delete(name) ==
    /\ Deletable(name)
    /\ \E listed \in input_topics_ :
         /\ Resolve[listed] = Resolve[name]
         /\ input_topics_' = input_topics_ \ {listed}
    /\ UNCHANGED baseVars

\* on_mux_select() of a topic: decides at once, not at the next timer.
Select(name) ==
    /\ name # NoneTopic
    /\ \E listed \in input_topics_ : Resolve[listed] = Resolve[name]
    /\ input_topic_' = name
    /\ MuxDecide(name)
    /\ UNCHANGED <<online, out, fault, input_topics_>>

\* on_mux_select() of __none: only the name is changed.
SelectNone ==
    /\ input_topic_' = NoneTopic
    /\ UNCHANGED <<graphVars, toolVars, queue, out, fault, input_topics_>>

Next ==
    \/ Graph /\ UNCHANGED input_topics_
    \/ MuxDiscover
    \/ ProcessMessage
    \/ \E name \in Names : Add(name) \/ Delete(name) \/ Select(name)
    \/ SelectNone

Spec == Init /\ [][Next]_vars
FairSpec == Spec /\ WF_vars(MuxDiscover) /\ WF_vars(ProcessMessage)

-----------------------------------------------------------------------------
(* Properties.                                                              *)

\* The list and the topic selected stay well formed.
TypeOK == BaseTypeOK /\ input_topics_ \subseteq Names \ {NoneTopic}

\* The selected topic is never lost from the list, also when it is deleted
\* under another spelling: it can always be selected again.
SelectedIsListed ==
    input_topic_ # NoneTopic =>
      \E listed \in input_topics_ : Resolve[listed] = Resolve[input_topic_]

\* Whatever order selections, discovery and the graph take, a message that
\* could go out is one of the topic that is selected now.
ForwardsSelected == input_topic_ # NoneTopic => ForwardsInputTopic /\ QueueOfInputTopic

\* A selected topic that stays online is subscribed to for good.
SelectedIsSubscribed ==
    <>[](/\ input_topic_ # NoneTopic
         /\ Sources(input_topic_) # {} /\ (lazy_ => matched))
      => <>[](/\ pub_ # None /\ sub_ # None
              /\ sub_.topic = Resolve[input_topic_])
=============================================================================
