----------------------------- MODULE SavedStore -----------------------------
(***************************************************************************)
(* What the download promises about a piece across restarts: PieceStore,   *)
(* with a record of what was had.  The record names only pieces that were  *)
(* stored when they were noted, may lose any of them at any time, and is   *)
(* all that a restart knows of the pieces.                                 *)
(***************************************************************************)
EXTENDS PieceStore

VARIABLE saved  \* the pieces the record says are had

SavedInit == Init /\ saved = {}

Live == Next /\ UNCHANGED saved

Note(p) ==
    /\ p \in stored \cup Unreliable
    /\ saved' = saved \cup {p}
    /\ UNCHANGED <<stored, have>>

Lose == saved' \subseteq saved /\ UNCHANGED <<stored, have>>

Restart == have' \subseteq saved /\ UNCHANGED <<stored, saved>>

SavedNext == Live \/ (\E p \in Pieces : Note(p)) \/ Lose \/ Restart

SavedSpec == SavedInit /\ [][SavedNext]_<<stored, have, saved>>
=============================================================================
