---------------------------- MODULE MCStateFile ----------------------------
(***************************************************************************)
(* Instances of StateFile for TLC: one connection to a peer with all       *)
(* pieces, over two pieces of which the second is the shorter.             *)
(***************************************************************************)
EXTENDS StateFile

CONSTANTS a

Everything == [c \in Conns |-> Pieces]
=============================================================================
