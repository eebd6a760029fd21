------------------------------- MODULE ScriptNode -------------------------------
(****************************************************************************)
(* relay_field.py and transform.py of topic_tools: an expression of the     *)
(* user turns each message into one of another type.  Unlike the other      *)
(* tools they look at the graph in their constructor only, twice: for the   *)
(* type of the topic and for the QoS of its publishers.  Between the two    *)
(* looks, and before the subscription, the graph may change.                *)
(****************************************************************************)
EXTENDS ToolBaseNode

CONSTANTS
    GivenQos,       \* QoS the user may ask for; None leaves it to the publishers
    OutputType,     \* type of the output topic
    NoDeadline      \* deadline of the sensor_data profile

\* The null pointer is no profile, and no publisher's deadline is longer than
\* the default of the profile, which is infinite.
ASSUME ScriptAssumption ==
    /\ GivenQos \subseteq {None} \cup [reliable : BOOLEAN, transient_local : BOOLEAN]
    /\ NoDeadline \in Nat
    /\ \A e \in Endpoints : Info[e].deadline <= NoDeadline
    /\ None \notin [type : {OutputType}, reliable : BOOLEAN,
                    transient_local : BOOLEAN, deadline : {NoDeadline}]

VARIABLES
    step,           \* "class", "qos", "create", "spin", or "ended"
    input_class,    \* None or the type found
    args,           \* options of the user: wait_for_start and qos
    qos_profile,    \* None or the QoS chosen
    pubs_info       \* the publishers it was chosen for

scriptVars == <<step, input_class, args, qos_profile, pubs_info>>

NoScript ==
    /\ step = "ended" /\ input_class = None /\ args = None
    /\ qos_profile = None /\ pubs_info = {}
ScriptInit(name) ==
    /\ online \in SUBSET Endpoints
    /\ input_topic_ = name
    /\ matched = FALSE /\ pub_ = None /\ sub_ = None
    /\ queue = <<>> /\ out = None /\ fault = FALSE
    /\ args \in [wait_for_start : BOOLEAN, qos : GivenQos]
    /\ step = "class" /\ input_class = None
    /\ qos_profile = None /\ pubs_info = {}

\* get_msg_class() on the topic: it fails if there are several types, and
\* without any it may wait for one.
Types == {Info[e].type : e \in Sources(input_topic_)}
FindClass ==
    /\ step = "class"
    /\ \/ /\ \E t \in Types : Types = {t} /\ input_class' = t
          /\ step' = "qos"
       \/ /\ args.wait_for_start => Types # {}
          /\ \A t \in Types : Types # {t}
          /\ step' = "ended"
          /\ UNCHANGED input_class
    /\ UNCHANGED <<baseVars, args, qos_profile, pubs_info>>

\* choose_qos(): a policy that all publishers offer is asked for, no other.
\* (Slip: one that some of them offer.)
QosOfSome(S) ==
    [type |-> input_class, deadline |-> NoDeadline,
     reliable        |-> \E e \in S : Info[e].reliable,
     transient_local |-> \E e \in S : Info[e].transient_local]
QosOf(S) ==
    [type |-> input_class, deadline |-> NoDeadline,
     reliable        |-> S # {} /\ \A e \in S : Info[e].reliable,
     transient_local |-> S # {} /\ \A e \in S : Info[e].transient_local]

\* The publishers whose type was found may have left: then sensor_data it is.
\* (Slip: it is waited for a publisher.)
QosKnownLater == Sources(input_topic_) # {}
QosKnown == TRUE
ChooseQos ==
    /\ step = "qos"
    /\ QosKnown
    /\ pubs_info' = Sources(input_topic_)
    /\ qos_profile' = IF args.qos = None THEN QosOf(Sources(input_topic_))
                      ELSE [type |-> input_class, deadline |-> NoDeadline,
                            reliable |-> args.qos.reliable,
                            transient_local |-> args.qos.transient_local]
    /\ step' = "create"
    /\ UNCHANGED <<baseVars, input_class, args>>

\* The rest of the constructor: publisher and subscription with the same QoS.
Create ==
    /\ step = "create"
    /\ pub_' = [qos_profile EXCEPT !.type = OutputType]
    /\ sub_' = Subscription(Resolve[input_topic_], qos_profile)
    /\ step' = "spin"
    /\ UNCHANGED <<graphVars, input_topic_, queue, out, fault,
                   input_class, args, qos_profile, pubs_info>>

\* callback(): publishes what the expression makes of the message, or ends with
\* an exception: a field that is missing, a value that does not fit.
ScriptMessage ==
    /\ step = "spin"
    /\ \/ Receive /\ Publish(Head(queue)) /\ UNCHANGED <<graphVars, toolVars, step>>
       \/ /\ queue # <<>> /\ queue' = <<>>
          /\ pub_' = None /\ sub_' = None /\ matched' = FALSE /\ step' = "ended"
          /\ UNCHANGED <<online, out, fault>>
    /\ UNCHANGED <<input_topic_, input_class, args, qos_profile, pubs_info>>

ScriptStart == FindClass \/ ChooseQos \/ Create

\* The constructor does not hang: the script serves or ends, whenever it need
\* not wait for its source or the source is there to stay.
StartsOrEnds ==
    (args.wait_for_start => <>[](Sources(input_topic_) # {})) => <>(step \in {"spin", "ended"})
=============================================================================
