-------------------------- MODULE MCExternalSort --------------------------
(***************************************************************************)
(* Inputs of up to five values out of three, with chunks of one to four    *)
(* values, one of the memory sizes not a multiple of 8, and an output file *)
(* that is new, too short or too long.                                     *)
(***************************************************************************)
EXTENDS ExternalSort
=============================================================================
