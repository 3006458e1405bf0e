---------------------------- MODULE TorrentState ----------------------------
(***************************************************************************)
(* The piece table every connection of a torrent shares                    *)
(* (TorrentState::pieces, torrent.hpp) and the bytes its files hold.       *)
(*                                                                         *)
(* The code runs its coroutines on THREAD_COUNT threads.  The table is     *)
(* written under pieces_mutex, but many readers look at one entry at a     *)
(* time without the mutex, so the operators below describe what ONE        *)
(* critical section or ONE unlocked read does; PeerConn composes them.     *)
(*                                                                         *)
(* An operator whose name has an underscore (TakeBuffer_MarksDone) is no   *)
(* part of the model: it is a plausible mistake in the operator after it,  *)
(* and PROJECT.json names the property that finds it.                      *)
(***************************************************************************)
EXTENDS Integers, Sequences, FiniteSets, Functions

CONSTANTS
    NumPieces,     \* info.pieces.size()
    PieceLength,   \* info.piece_length
    TotalLength,   \* Torrent::total_length
    BlockLen,      \* the bytes one Request asks for: 16384 in the code
    LossyPieces    \* pieces for which SFile::write may fail (disk full, I/O error)

(* The torrent has at least one piece, and as many as its length needs.    *)
ASSUME SizesAssumption ==
    /\ NumPieces \in Nat \ {0}
    /\ PieceLength \in Nat \ {0}
    /\ TotalLength \in Nat \ {0}
    /\ BlockLen \in Nat \ {0}
    /\ PieceLength * (NumPieces - 1) < TotalLength
    /\ TotalLength <= PieceLength * NumPieces

Pieces == 0 .. NumPieces - 1

ASSUME LossyAssumption == LossyPieces \subseteq Pieces

(* PieceStatus::total_size, as the constructor computes it: the last piece *)
(* is the remainder, or a whole piece when there is no remainder.          *)
TotalSize_Whole(p) == PieceLength
TotalSize(p) ==
    IF p # NumPieces - 1 \/ TotalLength % PieceLength = 0
    THEN PieceLength
    ELSE TotalLength % PieceLength

Offsets(p) == 0 .. TotalSize(p) - 1

(* A byte of a buffer is the right byte of the torrent, a wrong one, or    *)
(* the zero that resize() left where nothing was received yet.             *)
Byte == {"good", "bad", "zero"}

(* std::vector::empty(): never allocated, cleared, or moved from.          *)
NoBuffer == <<>>

(* The content whose SHA1 is info.pieces[p]; SHA1 is taken to be injective.*)
Content(p) == [o \in Offsets(p) |-> "good"]

VARIABLES
    state,       \* pieces[p].state
    buffer,      \* pieces[p].buffer
    downloaded,  \* pieces[p].downloaded
    disk         \* what the torrent's files hold in the range of piece p

table == <<state, buffer, downloaded>>

TableInit ==
    /\ state = [p \in Pieces |-> "Missing"]
    /\ buffer = [p \in Pieces |-> NoBuffer]
    /\ downloaded = [p \in Pieces |-> 0]
    /\ disk = [p \in Pieces |-> NoBuffer]

IsBuffer(p, b) == b = NoBuffer \/ b \in [Offsets(p) -> Byte]

Buffers == {NoBuffer} \cup UNION {[Offsets(p) -> Byte] : p \in Pieces}

TableTypeOK ==
    /\ state \in [Pieces -> {"Missing", "Downloading", "Done"}]
    /\ downloaded \in [Pieces -> Nat]
    /\ buffer \in [Pieces -> Buffers]
    /\ \A p \in Pieces : IsBuffer(p, buffer[p])
    /\ disk \in [Pieces -> Buffers]

(* The bytes of the pieces that are not Missing, as downloaded() sums      *)
(* them for the tracker's "downloaded" and "left" parameters.              *)
Downloaded ==
    SumFunctionOnSet(downloaded, {p \in Pieces : state[p] # "Missing"})

(* The requests request_next_piece sends for piece p, one per BlockLen.    *)
BlocksOf(p) == {o \in Offsets(p) : o % BlockLen = 0}
LenAt(p, begin) ==
    IF TotalSize(p) - begin < BlockLen THEN TotalSize(p) - begin ELSE BlockLen

(* The buffer a block is copied to: resized, with zeros, when it is empty. *)
Room(p) == IF buffer[p] = NoBuffer THEN [o \in Offsets(p) |-> "zero"] ELSE buffer[p]

(* std::copy of a received block into the buffer.                          *)
Copied(p, begin, len, byte) ==
    [o \in Offsets(p) |-> IF o \in begin .. begin + len - 1 THEN byte ELSE Room(p)[o]]

Fits(p, begin, len) == begin + len <= TotalSize(p)

(* A block that does not fit is refused, after the buffer was resized.     *)
RefuseBlock(p) ==
    /\ buffer' = [buffer EXCEPT ![p] = Room(p)]
    /\ UNCHANGED <<state, downloaded>>

(* One block enters the table and the piece still lacks bytes, by count.   *)
StoreBlock(p, begin, len, byte) ==
    /\ downloaded[p] + len < TotalSize(p)
    /\ downloaded' = [downloaded EXCEPT ![p] = @ + len]
    /\ buffer' = [buffer EXCEPT ![p] = Copied(p, begin, len, byte)]
    /\ UNCHANGED state

(* One block enters the table and the count reaches the piece's size: the  *)
(* buffer is moved out of the table, and the count stays.                  *)
TakeBuffer_MarksDone(p, len) ==
    /\ downloaded[p] + len >= TotalSize(p)
    /\ downloaded' = [downloaded EXCEPT ![p] = @ + len]
    /\ buffer' = [buffer EXCEPT ![p] = NoBuffer]
    /\ state' = [state EXCEPT ![p] = "Done"]
TakeBuffer_OneEarly(p, len) ==
    /\ downloaded[p] + len + 1 >= TotalSize(p)
    /\ downloaded' = [downloaded EXCEPT ![p] = @ + len]
    /\ buffer' = [buffer EXCEPT ![p] = NoBuffer]
    /\ UNCHANGED state
TakeBuffer(p, len) ==
    /\ downloaded[p] + len >= TotalSize(p)
    /\ downloaded' = [downloaded EXCEPT ![p] = @ + len]
    /\ buffer' = [buffer EXCEPT ![p] = NoBuffer]
    /\ UNCHANGED state

(* The SHA1 of a completed buffer was wrong.                               *)
ResetPiece_KeepsCount(p) ==
    /\ state' = [state EXCEPT ![p] = "Missing"]
    /\ UNCHANGED <<buffer, downloaded>>
ResetPiece(p) ==
    /\ state' = [state EXCEPT ![p] = "Missing"]
    /\ downloaded' = [downloaded EXCEPT ![p] = 0]
    /\ UNCHANGED buffer

SetState(p, s) ==
    /\ state' = [state EXCEPT ![p] = s]
    /\ UNCHANGED <<buffer, downloaded>>

(* Every piece that is being downloaded goes back to Missing, whoever is   *)
(* downloading it and however recently.                                    *)
ClearDownloadingPieces ==
    LET hit == {p \in Pieces : state[p] = "Downloading"}
    IN  /\ state' = [p \in Pieces |-> IF p \in hit THEN "Missing" ELSE state[p]]
        /\ buffer' = [p \in Pieces |-> IF p \in hit THEN NoBuffer ELSE buffer[p]]
        /\ downloaded' = [p \in Pieces |-> IF p \in hit THEN 0 ELSE downloaded[p]]
=============================================================================
