------------------------------ MODULE MCMemMap ------------------------------
(* Instances of MemMap for TLC. *)
EXTENDS MemMap

CONSTANTS free, bios
MCTypes == {free, bios}
=============================================================================
