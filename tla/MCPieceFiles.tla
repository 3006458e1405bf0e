---------------------------- MODULE MCPieceFiles ----------------------------
(***************************************************************************)
(* Instances of PieceFiles for TLC: torrents of at most three files, so    *)
(* that a piece can cover a file in the middle, end inside one, and begin  *)
(* at the first byte of one.                                               *)
(***************************************************************************)
EXTENDS PieceFiles

CONSTANTS MaxFiles, MinSize, MaxSize, MaxTotal

(* The layouts within the bounds, those of length 0 left out: a torrent    *)
(* without a byte has no piece.                                            *)
Bounded ==
    {l \in BoundedSeq(MinSize .. MaxSize, MaxFiles) :
        FoldSeq(+, 0, l) \in 1 .. MaxTotal}

(* Those without an empty file, but perhaps at the end.                    *)
NoEmptyInside == {l \in Bounded : \A i \in 1 .. Len(l) - 1 : l[i] > 0}
=============================================================================
