--------------------------- MODULE MCFirmwareUpload ---------------------------
(***************************************************************************)
(* Small instances of FirmwareUpload.                                      *)
(***************************************************************************)
EXTENDS FirmwareUpload, TLC

Symmetry == Permutations(Upload)
=============================================================================
