-------------------------- MODULE MCFirmwareCapture --------------------------
(***************************************************************************)
(* Small instances of FirmwareCapture.                                     *)
(***************************************************************************)
EXTENDS FirmwareCapture, TLC

CONSTANTS t1, t2, t3
=============================================================================
