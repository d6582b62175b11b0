--------------------------- MODULE MCRelaySession ---------------------------
(* Finite instances of RelaySession. *)
EXTENDS RelaySession
CONSTANTS p1, p2
MCPercent == {p1, p2}
MCCloudSends == {"write", "read", "firmware", "short"}
=============================================================================
