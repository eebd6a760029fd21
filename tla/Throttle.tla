-------------------------------- MODULE Throttle --------------------------------
(* The throttle node (topic_tools/src/throttle_node.cpp).  Time is the node's *)
(* clock in ticks; under simulation it may be set back.                      *)
EXTENDS ToolBaseNode, SequencesExt

CONSTANTS
    period_,        \* ticks between messages
    bytes_per_sec_, \* bytes let through, and
    window_,        \* ticks over which bytes are summed
    Sizes,          \* sizes of messages
    MaxTime         \* last tick of the clock (a bound)

ASSUME ThrottleAssumption ==
    /\ period_ \in Nat \ {0} /\ bytes_per_sec_ \in Nat /\ window_ \in Nat
    /\ Sizes \subseteq Nat \ {0} /\ MaxTime \in Nat

VARIABLES
    throttle_type_, \* "messages" or "bytes"
    now,            \* the clock
    last_time_,     \* of the last message let through
    sent_deque_,    \* times and sizes let through, oldest first
    passed          \* history: age in ticks and size of recent messages

timeVars == <<throttle_type_, now, last_time_, sent_deque_, passed>>
vars == <<baseVars, timeVars>>

SizesOf(s) == [i \in DOMAIN s |-> s[i].size]
Total(s) == SumFunction(SizesOf(s))

\* What is left of a sequence when it is popped from the front until Test holds.
From(s, Test(_)) ==
    LET first == SelectInSeq(s, Test)
    IN  IF first = 0 THEN <<>> ELSE SubSeq(s, first, Len(s))

Init ==
    /\ throttle_type_ \in {"messages", "bytes"}
    /\ \E name \in Names : BaseInit(name)
    /\ now \in 0 .. MaxTime /\ last_time_ = now
    /\ sent_deque_ = <<>> /\ passed = <<>>

\* The clock advances; the history forgets what is older than any limit.
Advance ==
    /\ now < MaxTime
    /\ now' = now + 1
    /\ passed' = From([i \in DOMAIN passed |-> [passed[i] EXCEPT !.age = @ + 1]],
                      LAMBDA m : m.age <= period_ + window_)
    /\ UNCHANGED <<throttle_type_, baseVars, last_time_, sent_deque_>>

SetBack ==
    /\ now > 0
    /\ now' \in 0 .. now - 1
    /\ UNCHANGED <<throttle_type_, baseVars, last_time_, sent_deque_, passed>>

\* After a jump back in time the period starts anew.  (Slip: at zero.)
LastTimeZero == IF last_time_ > now THEN 0 ELSE last_time_
LastTime == IF last_time_ > now THEN now ELSE last_time_

\* The entries left once those before the window are popped from the front.
InWindow == From(sent_deque_, LAMBDA m : m.time >= now - window_)

\* (Slip: a message may also be let through at the limit.)
PassesAtLimit == IF throttle_type_ = "messages" THEN now - LastTime >= period_
                 ELSE Total(InWindow) <= bytes_per_sec_
Passes == IF throttle_type_ = "messages" THEN now - LastTime >= period_
          ELSE Total(InWindow) < bytes_per_sec_

\* process_message(): without a publisher it returns and keeps the state.
ProcessMessage(size) ==
    /\ Receive
    /\ IF pub_ = None
       THEN UNCHANGED <<out, fault, last_time_, sent_deque_, passed>>
       ELSE /\ IF Passes
               THEN /\ Publish(Head(queue))
                    /\ passed' = Append(passed, [age |-> 0, size |-> size])
               ELSE UNCHANGED <<out, fault, passed>>
            /\ IF throttle_type_ = "messages"
               THEN /\ last_time_' = (IF Passes THEN now ELSE LastTime)
                    /\ UNCHANGED sent_deque_
               ELSE /\ sent_deque_' = InWindow \o
                         (IF Passes THEN <<[time |-> now, size |-> size]>> ELSE <<>>)
                    /\ UNCHANGED last_time_
    /\ UNCHANGED <<throttle_type_, graphVars, input_topic_, toolVars, now>>

Next ==
    \/ (Graph \/ Discover) /\ UNCHANGED timeVars
    \/ \E size \in Sizes : ProcessMessage(size)
    \/ Advance
    \/ SetBack

Spec == Init /\ [][Next]_vars

-----------------------------------------------------------------------------
(* Properties.  Ages are counted in ticks that passed, so a clock that was   *)
(* set back does not make a message look older than it is.                  *)

\* "maximum messages per second to let through": two messages are never closer
\* than the period, however often the clock is set back.
Spaced == \A i \in 1 .. Len(passed) - 1 : passed[i].age - passed[i + 1].age >= period_
KeepsMessageRate == throttle_type_ = "messages" => Spaced

\* Within any window fewer bytes pass than the limit and one message more, also
\* when the clock is set back.
KeepsWindowLimit ==
    throttle_type_ = "bytes" =>
      \A size \in Sizes : (\A s \in Sizes : s <= size) =>
        SumFunctionOnSet(SizesOf(passed), {i \in DOMAIN passed : passed[i].age <= window_})
          < bytes_per_sec_ + size
=============================================================================
