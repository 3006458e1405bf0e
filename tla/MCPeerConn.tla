----------------------------- MODULE MCPeerConn -----------------------------
(***************************************************************************)
(* Instances of PeerConn for TLC.  Two pieces of three bytes and one or    *)
(* two bytes, requested in blocks of two bytes: a piece of two blocks, the *)
(* second of them short, and a last piece that is shorter than the others. *)
(***************************************************************************)
EXTENDS PeerConn

CONSTANTS a, b

Everything == [c \in Conns |-> Pieces]

(* a has all pieces from the start, b gets the last one later.             *)
FirstLater == [c \in Conns |-> IF c = a THEN Pieces ELSE Pieces \ {NumPieces - 1}]
=============================================================================
