---------------------------- MODULE MCDownloader ----------------------------
(***************************************************************************)
(* Instances of Downloader for TLC: one peer with all pieces, and two      *)
(* frames for its coroutines, so that a cancelled one still runs when the  *)
(* next begins.                                                            *)
(***************************************************************************)
EXTENDS Downloader

CONSTANTS thePeer, c1, c2

Everything == [c \in Conns |-> Pieces]
ToThePeer == [c \in Conns |-> thePeer]
NobodyOrThePeer == {{}, {thePeer}}
=============================================================================
