------------------------------ MODULE Setpoint ------------------------------
(***************************************************************************)
(* What the power limit promises Home Assistant, with no connections,      *)
(* requests or timeouts: commands are numbered, the inverter executes some *)
(* of them and never an older one after a newer one, and only a command    *)
(* that has been executed is ever confirmed.  PowerLimit implements it.    *)
(***************************************************************************)
EXTENDS Naturals

CONSTANTS Percent, NoPercent

VARIABLES
    desired,        \* value of the newest command
    gen,            \* its number; 0 before the first command
    confirmedGen,   \* the newest command known to have been executed
    landed,         \* the newest command that was executed
    register        \* the limit the inverter works with

vars == <<desired, gen, confirmedGen, landed, register>>

Init ==
    /\ desired = NoPercent /\ register \in Percent
    /\ gen = 0 /\ confirmedGen = 0 /\ landed = 0

Command(p) ==
    /\ desired' = p
    /\ gen' = gen + 1
    /\ UNCHANGED <<confirmedGen, landed, register>>

\* The inverter executes command g, possibly again.  What an older command
\* asked for is no longer known; the newest one asked for desired.
Land(g) ==
    /\ landed <= g /\ g <= gen /\ 0 < g
    /\ landed' = g
    /\ register' \in Percent
    /\ g = gen => register' = desired
    /\ g = landed => register' = register
    /\ UNCHANGED <<desired, gen, confirmedGen>>

Confirm(g) ==
    /\ confirmedGen < g /\ g <= landed
    /\ confirmedGen' = g
    /\ UNCHANGED <<desired, gen, landed, register>>

Next ==
    \/ \E p \in Percent : Command(p)
    \/ \E g \in 1..gen : Land(g) \/ Confirm(g)

Spec == Init /\ [][Next]_vars
=============================================================================
