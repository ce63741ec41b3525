------------------------------ MODULE HeadFeed ------------------------------
(***************************************************************************)
(* What the lifecycle observer promises about the publications of Chan     *)
(* heads, whatever workers, leases, retries and late commits are behind    *)
(* it: every publication becomes, at most once, either observed or given   *)
(* up, those of one head in the order in which the head showed them, and   *)
(* the events of a publication are written in the step that observes it.   *)
(***************************************************************************)
EXTENDS Integers

CONSTANTS
    Ids,        \* ids of outbox rows
    Heads,
    NoHead

VARIABLES
    headOf,     \* the head a committed publication is of
    observed,   \* publications whose events are written
    abandoned,  \* publications that were given up after their last attempt
    told        \* the events

feedVars == <<headOf, observed, abandoned, told>>

Init ==
    /\ headOf = [i \in Ids |-> NoHead]
    /\ observed = {}
    /\ abandoned = {}
    /\ told = {}

\* A head is published: its later publications have larger ids.
Publish(i, h) ==
    /\ headOf[i] = NoHead
    /\ \A j \in Ids : headOf[j] = h => j < i
    /\ headOf' = [headOf EXCEPT ![i] = h]
    /\ UNCHANGED <<observed, abandoned, told>>

\* All the earlier publications of the head of i are dealt with, and i is not.
Turn(i) ==
    /\ headOf[i] # NoHead
    /\ i \notin observed \union abandoned
    /\ \A j \in Ids :
         j < i /\ headOf[j] = headOf[i] => j \in observed \union abandoned

Observe(i) ==
    /\ Turn(i)
    /\ observed' = observed \union {i}
    /\ told \subseteq told'
    /\ \A e \in told' \ told : e.pub = i
    /\ UNCHANGED <<headOf, abandoned>>

Abandon(i) ==
    /\ Turn(i)
    /\ abandoned' = abandoned \union {i}
    /\ UNCHANGED <<headOf, observed, told>>

Next ==
    \E i \in Ids :
        \/ \E h \in Heads : Publish(i, h)
        \/ Observe(i)
        \/ Abandon(i)

Spec == Init /\ [][Next]_feedVars
=============================================================================
