------------------------------ MODULE StateFile ------------------------------
(***************************************************************************)
(* The .state file: Downloader::run saves the piece table every few        *)
(* seconds and when it returns, the program may be killed at any moment,   *)
(* and the constructor of TorrentState loads the table at the next start.  *)
(* This module composes both with the connections of PeerConn, which go on *)
(* while the table is being saved: try_save does not take the mutex.       *)
(*                                                                         *)
(* The file holds files_built, the number of pieces, and for each piece    *)
(* its state, the size of its buffer, the buffer, downloaded and           *)
(* total_size.  try_save leaves the buffer of a piece it calls Missing out *)
(* but not its size, and try_load reads as many bytes as the size says.    *)
(* Every buffer is longer than what can follow in the file (17 bytes per   *)
(* piece), so such a read runs into the end of the file, and every later   *)
(* read of the stream fails and leaves its variable as it was.             *)
(***************************************************************************)
EXTENDS PeerConn

CONSTANTS
    MaxSaves,   \* bound: saves before the torrent is done
    MaxKills,   \* bound: times the program is killed
    KeptFields  \* the fields of the file that survive a kill while it saves: 0
                \* in the code, where the stream may not have flushed anything

ASSUME SavesAssumption ==
    MaxSaves \in Nat /\ MaxKills \in Nat /\ KeptFields \in 0 .. 2

VARIABLES
    phase,     \* "running", "killed", or "over": run has returned
    rows,      \* pieces.size()
    file,      \* the .state file
    saver,     \* try_save, between two of its reads, and whether run has left its loop
    promised,  \* the pieces the file, when it is whole, says are Done
    saves,     \* saves so far
    kills      \* kills so far

fileVars == <<phase, rows, file, saver, promised, saves, kills>>
allVars == <<vars, fileVars>>

NoFile == [there |-> FALSE, head |-> 0, count |-> 0, entries |-> << >>]

(* Files with n pieces: "head" counts the fields before the first entry.   *)
EmptyFile(n) == [there |-> TRUE, head |-> 2, count |-> n, entries |-> << >>]

(* The fields of an entry, in their order: state, size, data, downloaded,  *)
(* total_size; "fields" says how many of them the file has.                *)
AllFields == 5

IdleSaver == [at |-> "idle", piece |-> 0, state |-> "Missing", leaving |-> FALSE]

FileInit ==
    /\ Init
    /\ phase = "running"
    /\ rows = NumPieces
    /\ file = NoFile
    /\ saver = IdleSaver
    /\ promised = {}
    /\ saves = 0
    /\ kills = 0

Rows == {p \in Pieces : p < rows}

(* A step of the connections, or a clear of hung pieces: the coroutine     *)
(* that clears is the one that saves, and does neither in the other.       *)
Connections ==
    /\ phase = "running" /\ rows = NumPieces
    /\ Next
    /\ saver # IdleSaver => UNCHANGED clears
    /\ UNCHANGED fileVars

-----------------------------------------------------------------------------
(* try_save                                                                *)

(* The file is emptied, and its first two fields are written.              *)
SaveBegin ==
    /\ phase = "running" /\ saver.at = "idle"
    /\ saver.leaving \/ saves < MaxSaves
    /\ saves' = IF saver.leaving THEN saves ELSE saves + 1
    /\ file' = EmptyFile(rows)
    /\ promised' = {}
    /\ saver' = [saver EXCEPT !.at = IF rows = 0 THEN "end" ELSE "state", !.piece = 0]
    /\ UNCHANGED <<vars, phase, rows, kills>>

(* What is saved of a state.                                               *)
SavedState_Had(s) == IF s # "Missing" THEN "Done" ELSE "Missing"
SavedState(s) == IF s # "Downloading" THEN s ELSE "Missing"

SaveState ==
    /\ phase = "running" /\ saver.at = "state"
    /\ saver' = [saver EXCEPT !.at = "rest", !.state = SavedState(state[saver.piece])]
    /\ UNCHANGED <<vars, phase, rows, file, promised, saves, kills>>

(* The buffer and the count are read after the state, which may be another *)
(* one by now.                                                             *)
IsLast_PastEnd(p) == p = rows
IsLast(p) == p + 1 = rows

SaveRest ==
    LET p == saver.piece
        entry == [state |-> saver.state, buf |-> buffer[p],
                  downloaded |-> downloaded[p], fields |-> AllFields]
    IN  /\ phase = "running" /\ saver.at = "rest"
        /\ file' = [file EXCEPT !.entries = Append(@, entry)]
        /\ saver' = IF IsLast(p) THEN [saver EXCEPT !.at = "end"]
                    ELSE [saver EXCEPT !.at = "state", !.piece = p + 1]
        /\ UNCHANGED <<vars, phase, rows, promised, saves, kills>>

(* The file is closed; the last save of run ends the program.              *)
SaveEnd ==
    /\ phase = "running" /\ saver.at = "end"
    /\ promised' = {p \in Rows : file.entries[p + 1].state = "Done"}
    /\ saver' = [IdleSaver EXCEPT !.leaving = saver.leaving]
    /\ phase' = IF saver.leaving THEN "over" ELSE "running"
    /\ UNCHANGED <<vars, rows, file, saves, kills>>

(* run leaves its loop, or does not enter it, when is_done() says so.      *)
AllDone_NoneMissing == \A p \in Rows : state[p] # "Missing"
AllDone == \A p \in Rows : state[p] = "Done"

LeaveLoop ==
    /\ phase = "running" /\ saver.at = "idle" /\ ~saver.leaving
    /\ AllDone
    /\ saver' = [saver EXCEPT !.leaving = TRUE]
    /\ UNCHANGED <<vars, phase, rows, file, promised, saves, kills>>

-----------------------------------------------------------------------------
(* The end of the program and its next start                               *)

(* What a killed save may have left of the file: the stream flushes its    *)
(* own buffer when it likes.  A cut falls between two fields; the first    *)
(* two are files_built and the number of pieces.                           *)
CutAt(n, k) ==
    [i \in 1 .. n |->
        IF i = n THEN [file.entries[i] EXCEPT !.fields = k] ELSE file.entries[i]]

CutShort ==
    \/ \E h \in KeptFields .. 2 : file' = [file EXCEPT !.head = h, !.entries = << >>]
    \/ \E n \in 1 .. Len(file.entries), k \in 1 .. AllFields :
          file' = [file EXCEPT !.entries = CutAt(n, k)]

Kill ==
    /\ phase = "running" /\ kills < MaxKills
    /\ \/ saver.at = "idle" /\ UNCHANGED file
       \/ saver.at # "idle" /\ CutShort
    /\ phase' = "killed"
    /\ saver' = IdleSaver
    /\ kills' = kills + 1
    /\ UNCHANGED <<vars, rows, promised, saves>>

HasField(p, k) == p < Len(file.entries) /\ file.entries[p + 1].fields >= k

(* The read of a buffer that was left out.                                 *)
Swallows(p) ==
    /\ HasField(p, 2)
    /\ file.entries[p + 1].buf # NoBuffer /\ file.entries[p + 1].state = "Missing"

(* Reading the entry of p leaves the stream at the beginning of the next.  *)
Aligned_NoTotal(p) == FALSE
Aligned(p) == HasField(p, AllFields) /\ ~Swallows(p)

(* Whether reading gets as far as p without an error.                      *)
Readable(p) == file.head = 2 /\ \A q \in 0 .. p - 1 : Aligned(q)

LoadedState(p) ==
    IF Readable(p) /\ HasField(p, 1) THEN file.entries[p + 1].state ELSE "Missing"

(* The pieces whose size is not read: the local "size" is not initialised. *)
(* It is 0, or the size of a whole buffer, as in an earlier round.         *)
Unsized == {p \in Pieces : ~(Readable(p) /\ HasField(p, 2))}

Zeros(p) == [o \in Offsets(p) |-> "zero"]

(* A buffer that was left out gets the rest of the file, which is shorter. *)
LoadedBuffer(p, junk) ==
    IF p \in Unsized THEN IF p \in junk THEN Zeros(p) ELSE NoBuffer
    ELSE IF file.entries[p + 1].buf = NoBuffer THEN NoBuffer
    ELSE IF Swallows(p)
         THEN IF HasField(p, 4) THEN [Zeros(p) EXCEPT ![0] = "bad"] ELSE Zeros(p)
    ELSE IF HasField(p, 3) THEN file.entries[p + 1].buf ELSE Zeros(p)

LoadedCount(p) ==
    IF Readable(p) /\ HasField(p, 4) /\ ~Swallows(p)
    THEN file.entries[p + 1].downloaded ELSE 0

(* The number of pieces, when it was not read, is not initialised either.  *)
(* One too large to allocate ends the program again and changes nothing;   *)
(* others than none and the right one are left out.                        *)
LoadedRows == IF file.head = 2 THEN {file.count} ELSE {0, NumPieces}

(* The program starts: the constructor makes a new table and try_load      *)
(* fills it.  The files are opened as they are.                            *)
Start ==
    /\ phase \in {"killed", "over"}
    /\ phase' = "running"
    /\ saver' = IdleSaver
    /\ conn' = [c \in Conns |-> NewConn]
    /\ IF file.there
       THEN \E junk \in SUBSET Unsized :
              /\ rows' \in LoadedRows
              /\ state' = [p \in Pieces |-> LoadedState(p)]
              /\ buffer' = [p \in Pieces |-> LoadedBuffer(p, junk)]
              /\ downloaded' = [p \in Pieces |-> LoadedCount(p)]
       ELSE /\ rows' = NumPieces
            /\ state' = [p \in Pieces |-> "Missing"]
            /\ buffer' = [p \in Pieces |-> NoBuffer]
            /\ downloaded' = [p \in Pieces |-> 0]
    /\ UNCHANGED <<disk, clears, chokes, file, promised, saves, kills>>

FileNext ==
    \/ Connections
    \/ SaveBegin \/ SaveState \/ SaveRest \/ SaveEnd
    \/ LeaveLoop \/ Kill \/ Start

FileSpec == FileInit /\ [][FileNext]_allVars

-----------------------------------------------------------------------------
(* Properties                                                              *)

Entry == [state : {"Missing", "Done"}, buf : Buffers, downloaded : Nat,
          fields : 1 .. AllFields]

(* Every variable has its type.                                            *)
FileTypeOK ==
    /\ TypeOK
    /\ phase \in {"running", "killed", "over"}
    /\ rows \in {0, NumPieces}
    /\ file.there \in BOOLEAN /\ file.head \in 0 .. 2
    /\ file.count \in {0, NumPieces}
    /\ Len(file.entries) <= NumPieces
    /\ \A i \in DOMAIN file.entries : file.entries[i] \in Entry
    /\ saver \in [at : {"idle", "state", "rest", "end"}, piece : Pieces,
                  state : {"Missing", "Done"}, leaving : BOOLEAN]
    /\ promised \subseteq Pieces
    /\ saves \in 0 .. MaxSaves
    /\ kills \in 0 .. MaxKills

(* What a whole file says is Done is Done after the next start: the saved  *)
(* table comes back, whatever the connections did while it was written     *)
(* ("saving to and loading from a file", torrent.hpp).                     *)
LoadKeepsDone ==
    [][phase # "running" /\ phase' = "running" => promised \subseteq Had']_allVars

(* The program ends by itself only when all of the torrent is in its       *)
(* files: no restart, and no state file, makes it take an unfinished       *)
(* torrent for one that is done.                                           *)
OverMeansStored == phase = "over" => Stored = Pieces

(* The table with its state file implements the store with a record: no    *)
(* save of a table in use, no kill during one and no misread file makes    *)
(* the program take up a piece as Done whose content it has not written,   *)
(* and nothing but try_load makes a piece Done without a write.            *)
Recorded == {p \in Pieces : p < Len(file.entries) /\ file.entries[p + 1].state = "Done"}

Record == INSTANCE SavedStore WITH
    Unreliable <- LossyPieces, MayForget <- TRUE,
    stored <- Stored, have <- Had, saved <- Recorded

ImplementsRecord == Record!SavedSpec
=============================================================================
