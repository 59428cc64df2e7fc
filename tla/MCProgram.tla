----------------------------- MODULE MCProgram -----------------------------
(***************************************************************************)
(* Program with the calls of the library, for TLC.                         *)
(***************************************************************************)
EXTENDS Program, LockedCalls


=============================================================================
