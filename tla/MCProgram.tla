------------------------------ MODULE MCProgram -----------------------------
(***************************************************************************)
(* Instances of Program for TLC: more sessions than threads.               *)
(***************************************************************************)
EXTENDS Program
=============================================================================
