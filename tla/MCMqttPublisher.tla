--------------------------- MODULE MCMqttPublisher ---------------------------
(***************************************************************************)
(* Small instances of MqttPublisher.  A dictionary of one topic can change *)
(* under the iterator of _on_connect, so one inverter shows every race of  *)
(* the two threads; the second one only adds topics to iterate over.       *)
(***************************************************************************)
EXTENDS MqttPublisher, TLC

Symmetry == Permutations(Serial)
=============================================================================
