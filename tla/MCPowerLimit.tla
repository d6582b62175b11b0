---------------------------- MODULE MCPowerLimit ----------------------------
(***************************************************************************)
(* Small instances of PowerLimit: two Session objects are enough for an    *)
(* old and a new connection to overlap, two setpoints for a command to     *)
(* differ from the one before it.                                          *)
(***************************************************************************)
EXTENDS PowerLimit, TLC

Symmetry == Permutations(Session) \cup Permutations(Percent)
=============================================================================
