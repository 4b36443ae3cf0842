------------------------------ MODULE Counter ------------------------------
(***************************************************************************)
(* What the counter of the examples promises its visitors: an increment    *)
(* takes place at most once, however often it is tried, and whoever is     *)
(* told of it is told the value the counter had right after it.            *)
(***************************************************************************)
EXTENDS Naturals, FiniteSets

CONSTANT Ops  \* the increments visitors may ask for

VARIABLES
    counted,  \* the increments that have taken place, each with its value
    told      \* what visitors have been told: an increment and a value

vars == <<counted, told>>

Init ==
    /\ counted = {}
    /\ told = {}

\* An increment takes place: it is the next one.
Count(op) ==
    /\ \A c \in counted : c.op # op
    /\ counted' = counted \cup {[op |-> op, value |-> Cardinality(counted) + 1]}
    /\ UNCHANGED told

\* A visitor is told of an increment, now or again.
Tell(c) ==
    /\ c \in counted
    /\ told' = told \cup {c}
    /\ UNCHANGED counted

Next == (\E op \in Ops : Count(op)) \/ (\E c \in counted : Tell(c))
Spec == Init /\ [][Next]_vars
=============================================================================
