---------------------------- MODULE TopicTools_proofs ----------------------------
(* Proofs about the tools, for any graph, names and parameters.             *)
EXTENDS TopicTools, FiniteSetTheorems, FunctionTheorems, TLAPS

-----------------------------------------------------------------------------
(* Publishers that may be null.                                             *)

\* Between choose_qos() and the subscription, a script holds the QoS chosen.
ProfileChosen ==
    step = "create" =>
      qos_profile = IF args.qos = None THEN QosOf(pubs_info)
                    ELSE [type |-> input_class, deadline |-> NoDeadline,
                          reliable |-> args.qos.reliable,
                          transient_local |-> args.qos.transient_local]

\* Only the drop node may have published through null; a script that serves has
\* a publisher.
ToolInv ==
    /\ tool # "drop" => ~fault
    /\ tool # "script" => step = "ended"
    /\ step = "spin" => pub_ # None
    /\ online \subseteq Endpoints /\ pubs_info \subseteq Endpoints
    /\ step # "ended" => args.qos \in GivenQos
    /\ ProfileChosen

\* It is a matter of the script's variables alone.
LEMMA ProfileStays == ProfileChosen /\ UNCHANGED scriptVars => ProfileChosen'
BY DEF ProfileChosen, scriptVars, QosOf

\* A profile is a record, whoever chose it.
LEMMA ProfileTyped ==
    ASSUME ProfileChosen, step = "create", args.qos \in GivenQos
    PROVE  qos_profile \in [type : {input_class}, reliable : BOOLEAN,
                            transient_local : BOOLEAN, deadline : {NoDeadline}]
<1>1. CASE args.qos = None
  <2> DEFINE r == pubs_info # {} /\ \A e \in pubs_info : Info[e].reliable
             t == pubs_info # {} /\ \A e \in pubs_info : Info[e].transient_local
  <2>1. r \in BOOLEAN /\ t \in BOOLEAN
    BY Zenon
  <2>2. qos_profile = [type |-> input_class, deadline |-> NoDeadline,
                       reliable |-> r, transient_local |-> t]
    BY <1>1, Zenon DEF ProfileChosen, QosOf
  <2> HIDE DEF r, t
  <2>3. QED
    BY <2>1, <2>2
<1>2. CASE args.qos # None
  BY <1>2, ScriptAssumption DEF ProfileChosen
<1>3. QED
  BY <1>1, <1>2

\* Every step of node, timers, graph and script preserves the invariant.
LEMMA ToolInductive == ToolInv /\ [Next]_vars => ToolInv'
<1> SUFFICES ASSUME ToolInv, [Next]_vars PROVE ToolInv'
  OBVIOUS
<1> USE ProfileStays DEF ToolInv
<1>1. CASE Graph /\ UNCHANGED <<tool, dropVars, delayVars, scriptVars>>
  <2>1. ProfileChosen'
    BY <1>1
  <2>2. UNCHANGED <<tool, step, args, pubs_info, pub_, fault>>
    BY <1>1 DEF Graph, Appear, Disappear, Send, OutputMatch, toolVars, scriptVars
  <2>3. online' \subseteq Endpoints
    BY <1>1 DEF Graph, Appear, Disappear, Send, OutputMatch, graphVars
  <2>4. QED
    BY <2>1, <2>2, <2>3
<1>2. CASE DiscoveryTimer
  BY <1>2 DEF DiscoveryTimer, Discover, scriptVars
<1>3. CASE ProcessMessage
  <2>1. CASE tool = "relay" /\ RelayMessage /\ UNCHANGED <<tool, scriptVars>>
    BY <2>1 DEF RelayMessage, Relay, Publish, graphVars, toolVars, scriptVars
  <2>2. CASE tool = "drop" /\ DropMessage /\ UNCHANGED <<tool, scriptVars>>
    BY <2>2 DEF DropMessage, graphVars, toolVars, scriptVars
  <2>3. CASE tool = "delay" /\ DelayMessage /\ UNCHANGED <<tool, scriptVars>>
    BY <2>3 DEF DelayMessage, graphVars, toolVars, scriptVars
  <2>4. CASE tool = "script" /\ ScriptMessage /\ UNCHANGED tool
    <3>1. UNCHANGED <<tool, args, pubs_info, online>>
      BY <2>4 DEF ScriptMessage, graphVars
    <3>2. pub_ # None /\ ~fault
      BY <2>4 DEF ScriptMessage
    <3>3. ~fault'
      BY <2>4, <3>2, Zenon DEF ScriptMessage, Publish
    <3>4. step' = "ended" \/ (step' = "spin" /\ pub_' # None)
      BY <2>4 DEF ScriptMessage, toolVars
    <3>5. args.qos \in GivenQos
      BY <2>4 DEF ScriptMessage
    <3>6. QED
      BY <2>4, <3>1, <3>3, <3>4, <3>5 DEF ProfileChosen
  <2>5. QED
    BY <1>3, <2>1, <2>2, <2>3, <2>4 DEF ProcessMessage
<1>4. CASE DelayTick
  BY <1>4 DEF DelayTick, Tick, baseVars, graphVars, toolVars, scriptVars
<1>5. CASE DelayTimer
  BY <1>5 DEF DelayTimer, FireAny, Fire, Deliver, Publish, graphVars, toolVars, scriptVars
<1>6. CASE Construct
  <2>1. CASE FindClass
    BY <1>6, <2>1 DEF Construct, FindClass, ProfileChosen, baseVars, graphVars, toolVars
  <2>2. CASE ChooseQos
    <3>1. Sources(input_topic_) \subseteq Endpoints
      BY DEF Sources
    <3>2. QED
      BY <1>6, <2>2, <3>1 DEF Construct, ChooseQos, ProfileChosen, QosOf, baseVars, graphVars, toolVars
  <2>3. CASE Create
    <3>1. qos_profile \in [type : {input_class}, reliable : BOOLEAN,
                           transient_local : BOOLEAN, deadline : {NoDeadline}]
      BY <2>3, ProfileTyped DEF Create
    <3>2. [qos_profile EXCEPT !.type = OutputType]
             \in [type : {OutputType}, reliable : BOOLEAN,
                  transient_local : BOOLEAN, deadline : {NoDeadline}]
      BY <3>1
    <3>3. pub_' # None
      BY <2>3, <3>2, ScriptAssumption DEF Create
    <3>4. QED
      BY <1>6, <2>3, <3>3 DEF Construct, Create, ProfileChosen, graphVars
  <2>4. QED
    BY <1>6, <2>1, <2>2, <2>3 DEF Construct, ScriptStart
<1>7. CASE UNCHANGED vars
  BY <1>7 DEF vars, baseVars, graphVars, toolVars, scriptVars
<1>8. QED
  BY <1>1, <1>2, <1>3, <1>4, <1>5, <1>6, <1>7 DEF Next

\* It holds throughout.
LEMMA ToolInvariant == Spec => []ToolInv
<1>1. Init => ToolInv
  BY DEF Init, ToolInv, ProfileChosen, BaseInit, ScriptInit, NoScript
<1>2. QED
  BY <1>1, ToolInductive, PTL DEF Spec

\* However discovery, timers, messages and the graph interleave, no tool but
\* the drop node publishes through a publisher that is gone.
THEOREM RelayAndDelayCheckPublisherHolds == Spec => []RelayAndDelayCheckPublisher
<1>1. ToolInv => RelayAndDelayCheckPublisher
  BY DEF ToolInv, RelayAndDelayCheckPublisher, NoNullPublish
<1>2. QED
  BY <1>1, ToolInvariant, PTL

-----------------------------------------------------------------------------
(* New subscriptions.                                                       *)

\* Discovery asks of the publishers it looked at no more than all offer.
LEMMA DiscoveryConnects ==
    ASSUME NEW name, Decide(name), online \subseteq Endpoints,
           sub_' # None, sub_' # sub_, NEW e \in online,
           Info[e].topic = sub_'.topic, Info[e].type = sub_'.type
    PROVE  Connected(sub_', e)
<1> DEFINE S == Sources(name)
<1>1. S # {} /\ sub_' = Subscription(Resolve[name], Profile(S))
  BY DEF Decide
<1>2. e \in S /\ S \subseteq Endpoints
  BY <1>1 DEF Sources, Subscription
<1> HIDE DEF S
<1>3. /\ Profile(S).reliable => Info[e].reliable
      /\ Profile(S).transient_local => Info[e].transient_local
      /\ Info[e].deadline <= Profile(S).deadline
  BY <1>2, BaseAssumption DEF Profile
<1>4. QED
  BY <1>1, <1>3 DEF Connected, Subscription

\* And so does a script, of those that were there when it chose its QoS.
LEMMA ScriptConnects ==
    ASSUME ToolInv, Create, args.qos = None, NEW e \in pubs_info,
           Info[e].topic = sub_'.topic, Info[e].type = sub_'.type
    PROVE  Connected(sub_', e)
<1>1. sub_' = Subscription(Resolve[input_topic_], QosOf(pubs_info))
  BY DEF Create, ToolInv, ProfileChosen
<1>2. e \in Endpoints
  BY DEF ToolInv
<1>3. /\ QosOf(pubs_info).reliable => Info[e].reliable
      /\ QosOf(pubs_info).transient_local => Info[e].transient_local
      /\ Info[e].deadline <= QosOf(pubs_info).deadline
  BY <1>2, ScriptAssumption DEF QosOf
<1>4. QED
  BY <1>1, <1>3 DEF Connected, Subscription

\* A new subscription is connected to all publishers its QoS was made for.
THEOREM NewSubscriptionConnectsHolds == Spec => NewSubscriptionConnects
<1>1. ASSUME ToolInv, [Next]_vars, sub_' # None, sub_' # sub_,
             tool = "script" => args.qos = None,
             NEW e \in IF tool = "script" THEN pubs_info ELSE online,
             Info[e].topic = sub_'.topic, Info[e].type = sub_'.type
      PROVE  Connected(sub_', e)
  <2>1. (DiscoveryTimer /\ Decide(input_topic_)) \/ (Construct /\ Create)
    BY <1>1 DEF Next, Graph, Appear, Disappear, Send, OutputMatch, DiscoveryTimer, Discover,
       ProcessMessage, RelayMessage, DropMessage, DelayMessage, ScriptMessage,
       DelayTick, Tick, DelayTimer, FireAny, Fire, Construct, ScriptStart, FindClass, ChooseQos,
       vars, baseVars, toolVars
  <2>2. CASE DiscoveryTimer /\ Decide(input_topic_)
    BY <1>1, <2>2, DiscoveryConnects DEF DiscoveryTimer, ToolInv
  <2>3. CASE Construct /\ Create
    <3>1. tool = "script"
      BY <1>1, <2>3 DEF Create, ToolInv
    <3>2. QED
      BY <1>1, <2>3, <3>1, ScriptConnects
  <2>4. QED
    BY <2>1, <2>2, <2>3
<1>2. ToolInv /\ [Next]_vars =>
        [sub_' # None /\ sub_' # sub_ /\ (tool = "script" => args.qos = None) =>
           \A e \in IF tool = "script" THEN pubs_info ELSE online :
             Info[e].topic = sub_'.topic /\ Info[e].type = sub_'.type
               => Connected(sub_', e)]_vars
  BY <1>1
<1>3. QED
  BY <1>2, ToolInvariant, PTL DEF Spec, NewSubscriptionConnects

-----------------------------------------------------------------------------
(* Dropping X out of every Y.                                               *)

\* The place in its group of Y of the i-th of the last n messages, when the
\* next one will have place c.
Place(c, n, i) == IF c - (n - i + 1) >= 0 THEN c - (n - i + 1) ELSE c - (n - i + 1) + y_

\* The count is the place of the next message, and each of the last messages
\* passed if its place was not among the first X.
DropInv ==
    /\ count_ \in 0 .. y_ - 1
    /\ recent \in Seq(BOOLEAN) /\ Len(recent) <= y_
    /\ \A i \in 1 .. Len(recent) : recent[i] <=> Place(count_, Len(recent), i) >= x_

\* A message moves the window and the count by one.
LEMMA DropCounts == DropInv /\ DropMessage => DropInv'
<1> SUFFICES ASSUME DropInv, DropMessage PROVE DropInv'
  OBVIOUS
<1> USE DropAssumption
<1> DEFINE kept == IF Len(recent) = y_ THEN Tail(recent) ELSE recent
<1>1. /\ count_ \in 0 .. y_ - 1
      /\ recent \in Seq(BOOLEAN) /\ Len(recent) <= y_
  BY DEF DropInv
<1>2. count_' = (IF count_ + 1 >= y_ THEN 0 ELSE count_ + 1) /\ recent' = Append(kept, Passes)
  BY DEF DropMessage, NextCount
<1>3. Passes \in BOOLEAN /\ (Passes <=> count_ >= x_)
  BY <1>1 DEF Passes
<1>4. kept \in Seq(BOOLEAN) /\ Len(kept) <= y_ - 1
  <2>1. CASE Len(recent) = y_
    <3>1. recent # <<>>
      BY <2>1
    <3>2. Tail(recent) \in Seq(BOOLEAN) /\ Len(Tail(recent)) = Len(recent) - 1
      BY <1>1, <3>1
    <3>3. QED
      BY <2>1, <3>2
  <2>2. CASE Len(recent) # y_
    BY <1>1, <2>2
  <2>3. QED
    BY <2>1, <2>2
<1>5. \A i \in 1 .. Len(kept) : kept[i] <=> Place(count_, Len(kept), i) >= x_
  <2>1. CASE Len(recent) = y_
    <3>1. /\ Len(kept) = Len(recent) - 1
          /\ \A i \in 1 .. Len(kept) : i + 1 \in 1 .. Len(recent) /\ kept[i] = recent[i + 1]
      BY <1>1, <2>1
    <3>2. \A i, n \in Nat : Place(count_, n, i) = Place(count_, n + 1, i + 1)
      BY <1>1 DEF Place
    <3>3. \A i \in 1 .. Len(kept) :
            Place(count_, Len(kept), i) = Place(count_, Len(recent), i + 1)
      BY <1>1, <2>1, <3>1, <3>2
    <3>4. QED
      BY <3>1, <3>3 DEF DropInv
  <2>2. CASE Len(recent) # y_
    BY <2>2 DEF DropInv
  <2>3. QED
    BY <2>1, <2>2
<1> HIDE DEF kept
<1>6. /\ recent' \in Seq(BOOLEAN) /\ Len(recent') = Len(kept) + 1
      /\ recent'[Len(kept) + 1] = Passes
      /\ \A i \in 1 .. Len(kept) : recent'[i] = kept[i]
  BY <1>2, <1>3, <1>4
<1>7. count_' \in 0 .. y_ - 1
  BY <1>1, <1>2
<1>8. \A i \in 1 .. Len(kept) :
        Place(count_', Len(kept) + 1, i) = Place(count_, Len(kept), i)
  BY <1>1, <1>2, <1>4 DEF Place
<1>9. Place(count_', Len(kept) + 1, Len(kept) + 1) = count_
  BY <1>1, <1>2, <1>4 DEF Place
<1>10. \A i \in 1 .. Len(recent') : recent'[i] <=> Place(count_', Len(recent'), i) >= x_
  <2> SUFFICES ASSUME NEW i \in 1 .. Len(recent')
               PROVE  recent'[i] <=> Place(count_', Len(recent'), i) >= x_
    OBVIOUS
  <2>1. CASE i = Len(kept) + 1
    BY <2>1, <1>3, <1>6, <1>9
  <2>2. CASE i \in 1 .. Len(kept)
    BY <2>2, <1>5, <1>6, <1>8
  <2>3. QED
    BY <2>1, <2>2, <1>4, <1>6
<1>11. QED
  BY <1>4, <1>6, <1>7, <1>10 DEF DropInv

\* Nothing else touches them.
LEMMA DropInvariant == Spec => []DropInv
<1>1. Init => DropInv
  <2> SUFFICES ASSUME Init PROVE DropInv
    OBVIOUS
  <2>1. count_ = 0 /\ recent = <<>>
    BY DEF Init, DropInit
  <2>2. QED
    BY <2>1, DropAssumption DEF DropInv
<1>2. DropInv /\ [Next]_vars => DropInv'
  <2> SUFFICES ASSUME DropInv, [Next]_vars PROVE DropInv'
    OBVIOUS
  <2>1. DropMessage \/ UNCHANGED dropVars
    BY DEF Next, DiscoveryTimer, ProcessMessage, DelayTick, DelayTimer, Construct, vars
  <2>2. CASE UNCHANGED dropVars
    BY <2>2 DEF DropInv, dropVars, Place
  <2>3. QED
    BY <2>1, <2>2, DropCounts
<1>3. QED
  BY <1>1, <1>2, PTL DEF Spec

\* The places of a whole window are those of a whole group, turned: each
\* place below X occurs once.
LEMMA DroppedPlaces ==
    ASSUME DropInv, Len(recent) = y_
    PROVE  Cardinality({i \in 1 .. y_ : ~recent[i]}) = x_
<1> USE DropAssumption
<1> DEFINE D == {i \in 1 .. y_ : ~recent[i]}
           f == [j \in 0 .. x_ - 1 |-> IF j < count_ THEN j - count_ + y_ + 1 ELSE j - count_ + 1]
<1>1. count_ \in 0 .. y_ - 1
  BY DEF DropInv
<1>2. \A i \in 1 .. y_ : i \in D <=> Place(count_, y_, i) < x_
  <2>1. \A i \in 1 .. y_ : Place(count_, y_, i) \in Int
    BY <1>1 DEF Place
  <2>2. QED
    BY <2>1 DEF DropInv
<1>3. \A j \in 0 .. x_ - 1 : f[j] \in 1 .. y_ /\ Place(count_, y_, f[j]) = j
  BY <1>1 DEF Place
<1>4. f \in [0 .. x_ - 1 -> D]
  BY <1>2, <1>3
<1>5. \A a, b \in 0 .. x_ - 1 : f[a] = f[b] => a = b
  BY <1>3
<1>6. \A i \in D : \E j \in 0 .. x_ - 1 : f[j] = i
  <2> SUFFICES ASSUME NEW i \in D PROVE \E j \in 0 .. x_ - 1 : f[j] = i
    OBVIOUS
  <2>1. i \in 1 .. y_ /\ Place(count_, y_, i) \in 0 .. x_ - 1
    BY <1>1, <1>2 DEF Place
  <2>2. f[Place(count_, y_, i)] = i
    BY <1>1, <2>1 DEF Place
  <2>3. QED
    BY <2>1, <2>2
<1>7. ExistsBijection(0 .. x_ - 1, D)
  <2> HIDE DEF D, f
  <2>1. f \in Bijection(0 .. x_ - 1, D)
    BY <1>4, <1>5, <1>6, Fun_IsBij
  <2>2. QED
    BY <2>1, Fun_ExistsBij
<1>8. IsFiniteSet(0 .. x_ - 1) /\ Cardinality(0 .. x_ - 1) = x_
  BY FS_Interval
<1>9. QED
  <2> HIDE DEF D
  <2>1. Cardinality(D) = x_
    BY <1>7, <1>8, FS_Bijection
  <2>2. QED
    BY <2>1 DEF D

\* Of any Y messages in a row X are dropped, for all X and Y, whatever
\* discovery and the graph do meanwhile and wherever the Y begin.
THEOREM DropsXOfYHolds == Spec => []DropsXOfY
<1>1. DropInv => DropsXOfY
  BY DroppedPlaces DEF DropsXOfY
<1>2. QED
  BY <1>1, DropInvariant, PTL
=============================================================================
