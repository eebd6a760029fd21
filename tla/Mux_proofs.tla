------------------------------- MODULE Mux_proofs -------------------------------
(* Proofs about the mux, and about the discovery it shares with the tools.  *)
EXTENDS Mux, TLAPS

-----------------------------------------------------------------------------
(* Discovery.                                                               *)

\* The profile computed for some publishers asks for no more than each of
\* them offers.
LEMMA ProfileFits ==
    ASSUME NEW S, S \subseteq Endpoints, NEW e \in S
    PROVE  /\ Profile(S).reliable => Info[e].reliable
           /\ Profile(S).transient_local => Info[e].transient_local
           /\ Info[e].deadline <= Profile(S).deadline
BY BaseAssumption DEF Profile

\* A subscription that discovery makes is connected to every publisher of its
\* topic and type.
LEMMA DecideConnects ==
    ASSUME NEW name, Decide(name), online \subseteq Endpoints,
           sub_' # None, sub_' # sub_, NEW e \in online,
           Info[e].topic = sub_'.topic, Info[e].type = sub_'.type
    PROVE  Connected(sub_', e)
<1> DEFINE S == Sources(name)
<1>1. S # {} /\ sub_' = Subscription(Resolve[name], Profile(S))
  BY DEF Decide
<1>2. sub_'.topic = Resolve[name]
  BY <1>1 DEF Subscription
<1>3. e \in S /\ S \subseteq Endpoints
  BY <1>2 DEF Sources
<1>4. /\ Profile(S).reliable => Info[e].reliable
      /\ Profile(S).transient_local => Info[e].transient_local
      /\ Info[e].deadline <= Profile(S).deadline
  BY <1>3, ProfileFits
<1>5. QED
  BY <1>1, <1>4 DEF Connected, Subscription

-----------------------------------------------------------------------------
(* The inductive invariant.                                                 *)

\* Only messages of the subscription's topic wait, and while something is
\* selected and can be forwarded, that is the selected topic.
MuxInv ==
    /\ online \subseteq Endpoints
    /\ queue \in Seq(Message)
    /\ input_topics_ \subseteq Names \ {NoneTopic}
    /\ sub_ = None => queue = <<>>
    /\ sub_ # None => \A i \in DOMAIN queue : queue[i].topic = sub_.topic
    /\ input_topic_ # NoneTopic => ForwardsInputTopic
    /\ SelectedIsListed

LEMMA DecideMuxInv ==
    ASSUME MuxInv, NEW name, Decide(name)
    PROVE  /\ queue' \in Seq(Message)
           /\ sub_' = None => queue' = <<>>
           /\ sub_' # None => \A i \in DOMAIN queue' : queue'[i].topic = sub_'.topic
           /\ pub_' # None /\ sub_' # None => sub_'.topic = Resolve[name]
<1> USE DEF MuxInv
<1>1. CASE Sources(name) = {}
  BY <1>1 DEF Decide
<1>2. CASE Sources(name) # {}
  <2>1. queue' \in Seq(Message)
    <3>1. queue' = <<>> \/ queue' = queue
      BY <1>2 DEF Decide
    <3>2. <<>> \in Seq(Message) /\ queue \in Seq(Message)
      OBVIOUS
    <3>3. QED
      BY <3>1, <3>2, Zenon
  <2>2. sub_' = None => queue' = <<>>
    BY <1>2 DEF Decide
  <2>3. CASE KeepSubscription(name)
    BY <1>2, <2>1, <2>2, <2>3 DEF Decide, KeepSubscription
  <2>4. CASE ~KeepSubscription(name)
    BY <1>2, <2>1, <2>2, <2>4 DEF Decide, Subscription
  <2>5. QED
    BY <2>3, <2>4
<1>3. QED
  BY <1>1, <1>2

LEMMA MuxInductive == MuxInv /\ [Next]_vars => MuxInv'
<1> SUFFICES ASSUME MuxInv, [Next]_vars PROVE MuxInv'
  OBVIOUS
<1> USE MuxAssumption DEF MuxInv, ForwardsInputTopic, SelectedIsListed
<1>1. ASSUME NEW e \in Endpoints, Appear(e) \/ Disappear(e), UNCHANGED input_topics_
      PROVE MuxInv'
  BY <1>1 DEF Appear, Disappear, toolVars
<1>2. ASSUME NEW e \in Endpoints, Send(e), UNCHANGED input_topics_ PROVE MuxInv'
  <2> DEFINE m == [topic |-> Info[e].topic, type |-> Info[e].type]
  <2>1. m \in Message /\ m.topic = sub_.topic /\ sub_ # None
    BY <1>2 DEF Message, Send, Connected
  <2>2. queue' = Append(queue, m)
    BY <1>2 DEF Send
  <2> HIDE DEF m
  <2>3. /\ queue' \in Seq(Message)
        /\ \A i \in DOMAIN queue' : queue'[i].topic = sub_.topic
    BY <2>1, <2>2
  <2>4. QED
    BY <1>2, <2>1, <2>3 DEF Send, graphVars, toolVars
<1>3. CASE OutputMatch /\ UNCHANGED input_topics_
  BY <1>3 DEF OutputMatch, toolVars
<1>4. CASE MuxDiscover
  <2>1. CASE Decide(input_topic_)
    BY <1>4, <2>1, DecideMuxInv DEF MuxDiscover
  <2>2. CASE UNCHANGED <<matched, toolVars, queue>>
    BY <1>4, <2>2 DEF MuxDiscover, toolVars
  <2>3. QED
    BY <1>4, <2>1, <2>2 DEF MuxDiscover, MuxDecide
<1>5. CASE ProcessMessage
  <2>1. sub_ # None /\ queue' = Tail(queue) /\ queue # <<>>
    BY <1>5 DEF ProcessMessage, Receive, toolVars
  <2>2. /\ queue' \in Seq(Message)
        /\ \A i \in DOMAIN queue' : queue'[i].topic = sub_.topic
    BY <2>1
  <2>3. QED
    BY <1>5, <2>1, <2>2 DEF ProcessMessage, graphVars, toolVars
<1>6. ASSUME NEW name \in Names, Add(name) PROVE MuxInv'
  BY <1>6 DEF Add, baseVars, graphVars, toolVars
<1>7. ASSUME NEW name \in Names, Delete(name) PROVE MuxInv'
  BY <1>7 DEF Delete, Deletable, baseVars, graphVars, toolVars
<1>8. ASSUME NEW name \in Names, Select(name) PROVE MuxInv'
  <2>1. Decide(name) /\ input_topic_' = name /\ UNCHANGED <<online, input_topics_>>
    BY <1>8 DEF Select, MuxDecide
  <2>2. \E listed \in input_topics_ : Resolve[listed] = Resolve[name]
    BY <1>8 DEF Select
  <2>3. QED
    BY <2>1, <2>2, DecideMuxInv
<1>9. CASE SelectNone
  BY <1>9 DEF SelectNone, graphVars, toolVars
<1>10. CASE UNCHANGED vars
  BY <1>10 DEF vars, baseVars, graphVars, toolVars
<1>11. QED
  BY <1>1, <1>2, <1>3, <1>4, <1>5, <1>6, <1>7, <1>8, <1>9, <1>10 DEF Next, Graph

LEMMA MuxInvariant == Spec => []MuxInv
<1>1. Init => MuxInv
  <2> SUFFICES ASSUME Init PROVE MuxInv
    OBVIOUS
  <2> USE MuxAssumption DEF MuxInv, ForwardsInputTopic, SelectedIsListed
  <2>1. ASSUME NEW name \in InitialTopics, BaseInit(name), input_topics_ = InitialTopics
        PROVE  MuxInv
    BY <2>1 DEF BaseInit, Subscription
  <2>2. ASSUME online \subseteq Endpoints, input_topic_ = NoneTopic, sub_ = None,
               queue = <<>>, input_topics_ = InitialTopics
        PROVE  MuxInv
    BY <2>2
  <2>3. QED
    BY <2>1, <2>2 DEF Init
<1>2. QED
  BY <1>1, MuxInductive, PTL DEF Spec

-----------------------------------------------------------------------------
(* The theorems.                                                            *)

\* Whatever is selected, discovered and received in whatever order, only
\* messages of the topic selected now can be forwarded.
THEOREM ForwardsSelectedHolds == Spec => []ForwardsSelected
<1>1. MuxInv => ForwardsSelected
  BY DEF MuxInv, ForwardsSelected, ForwardsInputTopic, QueueOfInputTopic
<1>2. QED
  BY <1>1, MuxInvariant, PTL

\* The selected topic can be deleted under none of its spellings.
THEOREM SelectedIsListedHolds == Spec => []SelectedIsListed
BY MuxInvariant, PTL DEF MuxInv

\* A subscription is connected to all publishers of its type that are there
\* when it is made, for any mix of their QoS.
THEOREM FreshSubscriptionHolds == Spec => FreshSubscriptionConnects
<1>1. MuxInv /\ [Next]_vars
        => [sub_' # None /\ sub_' # sub_ =>
              \A e \in online : Info[e].topic = sub_'.topic /\ Info[e].type = sub_'.type
                => Connected(sub_', e)]_baseVars
  <2> SUFFICES ASSUME MuxInv, [Next]_vars, sub_' # None, sub_' # sub_, NEW e \in online,
                      Info[e].topic = sub_'.topic, Info[e].type = sub_'.type
               PROVE  Connected(sub_', e)
    OBVIOUS
  <2>1. PICK name : Decide(name)
    BY DEF Next, Graph, Appear, Disappear, Send, OutputMatch, MuxDiscover, MuxDecide,
       ProcessMessage, Add, Delete, Select, SelectNone, vars, baseVars, toolVars
  <2>2. QED
    BY <2>1, DecideConnects DEF MuxInv
<1>2. QED
  BY <1>1, MuxInvariant, PTL DEF Spec, FreshSubscriptionConnects
=============================================================================
