------------------------------ MODULE FrontLedger ------------------------------
(***************************************************************************)
(* What package sim promises about its front population, whatever the      *)
(* climate, the coverage and the generator do: identities are issued in    *)
(* order, once, and never come back; fronts move one hop at a time; a tick *)
(* ages every survivor by exactly one and brings at most one newcomer.     *)
(* WeatherSim implements this specification.                               *)
(***************************************************************************)
EXTENDS Integers

VARIABLES
    issued,     \* how many identities have been issued: 1 .. issued
    alive,      \* id -> [zone, age] of the living fronts
    adjacent    \* zone -> the zones one hop away

lvars == <<issued, alive, adjacent>>

LInit == issued = 0 /\ DOMAIN alive = {}

Newborn(i) == i = issued + 1 /\ issued' = i /\ alive'[i].age = 0

\* A tick of the clock, for the whole population at once.
Elapse ==
    /\ \A i \in DOMAIN alive' :
        IF i \in DOMAIN alive
        THEN /\ alive'[i].age = alive[i].age + 1
             /\ alive'[i].zone \in {alive[i].zone} \cup adjacent[alive[i].zone]
        ELSE Newborn(i)
    /\ issued' = issued \/ issued + 1 \in DOMAIN alive'
    /\ UNCHANGED adjacent

\* A front is forced into being; nobody else notices.
Force ==
    /\ DOMAIN alive' = DOMAIN alive \cup {issued + 1}
    /\ Newborn(issued + 1)
    /\ \A i \in DOMAIN alive : alive'[i] = alive[i]
    /\ UNCHANGED adjacent

\* Some fronts are taken away; the others are untouched.
Remove ==
    /\ DOMAIN alive' \subseteq DOMAIN alive
    /\ \A i \in DOMAIN alive' : alive'[i] = alive[i]
    /\ UNCHANGED <<issued, adjacent>>

\* The world is crawled again.
Remap == UNCHANGED <<issued, alive>>

LNext == Elapse \/ Force \/ Remove \/ Remap

LSpec == LInit /\ [][LNext]_lvars
=============================================================================
