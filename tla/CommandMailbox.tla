---------------------------- MODULE CommandMailbox ----------------------------
(****************************************************************************)
(* What the fleet panel promises of the commands of one kind (goals, or     *)
(* initial poses): a mailbox that may lose a command and may spoil one that *)
(* a later command overtakes, but sends none twice and none after a later   *)
(* one.                                                                     *)
(****************************************************************************)
EXTENDS Integers, Sequences

VARIABLES
    given,          \* number of commands given: 1, 2, ..., given
    sent            \* the commands that left, in order

vars == <<given, sent>>

Torn == 0   \* a spoilt command; commands are numbered from 1

Init == given = 0 /\ sent = <<>>

Give == given' = given + 1 /\ UNCHANGED sent

\* c is later than all commands that left.
Later(c) == \A i \in 1 .. Len(sent) : sent[i] < c

Send ==
    /\ \E c \in 1 .. given : Later(c) /\ sent' = Append(sent, c)
    /\ UNCHANGED given

\* A command is spoilt by the next one that arrives while it leaves.
Spoil ==
    /\ \E c \in 1 .. given - 1 : Later(c)
    /\ sent' = Append(sent, Torn)
    /\ UNCHANGED given

Next == Give \/ Send \/ Spoil

Spec == Init /\ [][Next]_vars

\* What whoever receives the commands may rely on.
InOrder ==
    \A i, j \in 1 .. Len(sent) : i < j /\ sent[j] # Torn => sent[i] < sent[j]
=============================================================================
