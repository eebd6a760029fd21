---------------------------------- MODULE Drop ----------------------------------
(* The drop node (topic_tools/src/drop_node.cpp): of every y_ messages the   *)
(* first x_ are dropped.                                                    *)
EXTENDS ToolBaseNode, FiniteSets

CONSTANTS x_, y_        \* the parameters "X" and "Y"

\* The use the README describes: drop X out of every Y.
ASSUME DropAssumption == x_ \in Nat /\ y_ \in Nat \ {0} /\ x_ <= y_

VARIABLES count_,       \* messages of the current group seen so far
          recent        \* history: which of the last y_ messages passed

dropVars == <<count_, recent>>

DropInit == count_ = 0 /\ recent = <<>>

Passes == count_ >= x_

\* ++count_ and the start of a new group.  (Slip: the group is one longer.)
NextCountLate == IF count_ >= y_ THEN 0 ELSE count_ + 1
NextCount == IF count_ + 1 >= y_ THEN 0 ELSE count_ + 1

\* process_message(): pub_ is used without a check.
DropMessage ==
    /\ Receive
    /\ IF Passes THEN Publish(Head(queue)) ELSE UNCHANGED <<out, fault>>
    /\ count_' = NextCount
    /\ recent' = Append(IF Len(recent) = y_ THEN Tail(recent) ELSE recent, Passes)
    /\ UNCHANGED <<graphVars, input_topic_, toolVars>>

\* "dropping X out of every Y incoming messages": of any y_ messages in a row,
\* wherever the run of y_ starts, exactly x_ were dropped.
DropsXOfY ==
    Len(recent) = y_ => Cardinality({i \in 1 .. y_ : ~recent[i]}) = x_
=============================================================================
