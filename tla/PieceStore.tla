----------------------------- MODULE PieceStore -----------------------------
(***************************************************************************)
(* What the download promises about a piece, without connections, blocks   *)
(* or threads: its verified content reaches the files and stays there, and *)
(* only after that is the piece reported as had.  A report may be taken    *)
(* back only where MayForget says so.                                      *)
(***************************************************************************)
CONSTANTS
    Pieces,
    Unreliable,  \* pieces that are reported even if storing them failed
    MayForget    \* TRUE: a reported piece may be reported as missing again


VARIABLES
    stored,  \* the pieces whose content is in the files
    have     \* the pieces reported as had

Init == stored = {} /\ have = {}

Store(p) == stored' = stored \cup {p} /\ UNCHANGED have

Report(p) ==
    /\ p \in stored \cup Unreliable
    /\ have' = have \cup {p}
    /\ UNCHANGED stored

Forget(p) ==
    /\ MayForget
    /\ have' = have \ {p}
    /\ UNCHANGED stored

Next == \E p \in Pieces : Store(p) \/ Report(p) \/ Forget(p)

Spec == Init /\ [][Next]_<<stored, have>>
=============================================================================
