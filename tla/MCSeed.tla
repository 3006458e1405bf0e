------------------------------- MODULE MCSeed -------------------------------
(***************************************************************************)
(* Instances of Seed for TLC: two connections download two pieces of one   *)
(* block each while a leecher is served.                                   *)
(***************************************************************************)
EXTENDS Seed

CONSTANTS a, b, l1

Everything == [c \in Conns |-> Pieces]
=============================================================================
