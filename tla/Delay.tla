--------------------------------- MODULE Delay ---------------------------------
(* The delay node (topic_tools/src/delay_node.cpp): a one-shot timer for each *)
(* message.  The constructor never declares "lazy" and leaves lazy_ as the    *)
(* memory has it, so both values of the constant are outcomes of the program. *)
EXTENDS ToolBaseNode, SequencesExt

CONSTANTS delay_,       \* ticks of the node's clock
          MaxMessages   \* messages received in all (a bound)

ASSUME DelayAssumption == delay_ \in Nat /\ MaxMessages \in Nat

VARIABLES timers_,      \* pending messages, with the ticks left
          received, fired \* history: messages received, timers run

delayVars == <<timers_, received, fired>>

DelayInit == timers_ = <<>> /\ received = 0 /\ fired = 0

\* process_message(): creates the timer.
DelayMessage ==
    /\ received < MaxMessages
    /\ Receive
    /\ timers_' = Append(timers_, [msg |-> Head(queue), left |-> delay_])
    /\ received' = received + 1
    /\ UNCHANGED <<graphVars, input_topic_, toolVars, out, fault, fired>>

Tick ==
    /\ \E i \in DOMAIN timers_ : timers_[i].left > 0
    /\ timers_' = [i \in DOMAIN timers_ |->
                     [timers_[i] EXCEPT !.left = IF @ > 0 THEN @ - 1 ELSE 0]]
    /\ UNCHANGED <<baseVars, received, fired>>

\* What a timer's callback does with its message.  (Slip: the timer is kept
\* until there is a publisher.)
Deliver(msg) == IF pub_ # None THEN Publish(msg) ELSE UNCHANGED <<out, fault>>
DueOnlyPublished(timer) == timer.left = 0 /\ pub_ # None
Due(timer) == timer.left = 0

\* Of several timers that are due, any may be the next.
Fire(i) ==
    /\ Due(timers_[i])
    /\ Deliver(timers_[i].msg)
    /\ timers_' = RemoveAt(timers_, i)
    /\ fired' = fired + 1
    /\ UNCHANGED <<graphVars, input_topic_, toolVars, queue, received>>

FireAny == \E i \in DOMAIN timers_ : Fire(i)

\* Every message received has its timer run, also when the publisher, the
\* source or the subscription has gone meanwhile.
EveryTimerFires ==
    \A n \in 1 .. MaxMessages : received >= n ~> fired >= n
=============================================================================
