----------------------------- MODULE PieceFiles -----------------------------
(***************************************************************************)
(* How the bytes of the pieces get into the files of a torrent and back:   *)
(* init_torfiles lays the files out one after the other in one stream of   *)
(* bytes, the loop at the end of handle_piece writes a piece to the files  *)
(* it covers, and get_piece_by_index reads one back for a seed.            *)
(*                                                                         *)
(* The pieces are written by several coroutines at once, one file per      *)
(* step; the offsets are size_t, so they wrap at WordSize.  A byte of the  *)
(* stream is known by its number, so a byte at the wrong place is told     *)
(* from the right one.                                                     *)
(*                                                                         *)
(* An operator whose name has an underscore is a plausible mistake in the  *)
(* operator after it, and no part of the model.                            *)
(***************************************************************************)
EXTENDS Integers, Sequences, FiniteSetsExt, SequencesExt

CONSTANTS
    Layouts,      \* the torrents to consider: sequences of file lengths
    PieceLength,
    WordSize,     \* 2^64 in the code: what a size_t counts to
    Failing       \* files that may fail to be created or resized, by their numbers

ASSUME LayoutsAssumption ==
    /\ Layouts \subseteq Seq(Nat)
    /\ PieceLength \in Nat \ {0}
    /\ WordSize \in Nat \ {0}
    /\ Failing \subseteq Nat

VARIABLES
    layout,    \* torrent.info.files, by their lengths
    torfiles,  \* TorrentState::torfiles: the file at each global_offset
    nextFile,  \* the file init_torfiles makes next
    offset,    \* its local "offset"
    content,   \* content[f]: what file f holds, by position
    mover,     \* mover[p]: the loop that moves piece p to the files, or back
    result     \* result[p]: the buffer get_piece_by_index returns for p

vars == <<layout, torfiles, nextFile, offset, content, mover, result>>

Files == DOMAIN layout
TotalLength == FoldSeq(+, 0, layout)
NumPieces == (TotalLength + PieceLength - 1) \div PieceLength
Pieces == 0 .. NumPieces - 1
PieceSize(p) ==
    IF p = NumPieces - 1 THEN TotalLength - p * PieceLength ELSE PieceLength

Hole == -1   \* a byte of a file or a buffer that nothing was written to
End == -1    \* torfiles.end(), among the offsets

Holes(n) == [o \in 0 .. n - 1 |-> Hole]

(* What the loop over the files keeps in its locals.                       *)
Idle == [at |-> "idle", file |-> End, global |-> 0, remain |-> 0, moved |-> 0]

Init ==
    /\ layout \in Layouts
    /\ torfiles = << >>
    /\ nextFile = 1
    /\ offset = 0
    /\ content = [f \in Files |-> Holes(0)]
    /\ mover = [p \in Pieces |-> Idle]
    /\ result = [p \in Pieces |-> Holes(0)]

Building == nextFile <= Len(layout)

(* std::set::emplace keeps the element that has the key already.           *)
Emplace(f, at) ==
    IF at \in DOMAIN torfiles THEN torfiles
    ELSE [o \in DOMAIN torfiles \cup {at} |-> IF o = at THEN f ELSE torfiles[o]]

(* The loop of init_torfiles: the file is created, or resized, to its      *)
(* length, and entered into the set that is ordered by global_offset.      *)
AddFile ==
    /\ Building
    /\ content' = [content EXCEPT ![nextFile] = Holes(layout[nextFile])]
    /\ torfiles' = Emplace(nextFile, offset)
    /\ offset' = offset + layout[nextFile]
    /\ nextFile' = nextFile + 1
    /\ UNCHANGED <<layout, mover, result>>

(* An exception ends the loop.  preallocate_files catches it and returns   *)
(* FALSE, which the constructor of TorrentState does not look at.          *)
FailFile ==
    /\ Building /\ nextFile \in Failing
    /\ nextFile' = Len(layout) + 1
    /\ UNCHANGED <<layout, torfiles, offset, content, mover, result>>

(* lower_bound(at), and one step back unless it is the beginning.          *)
StartAt_NoStepBack(at) ==
    LET after == {o \in DOMAIN torfiles : o >= at}
    IN  IF after = {} THEN End ELSE Min(after)
StartAt(at) ==
    LET before == {o \in DOMAIN torfiles : o < at}
    IN  IF before # {} THEN Max(before)
        ELSE IF torfiles = << >> THEN End ELSE Min(DOMAIN torfiles)

NextAfter(o) ==
    LET after == {q \in DOMAIN torfiles : q > o}
    IN  IF after = {} THEN End ELSE Min(after)

(* The part of the piece that goes to the file the loop has reached.       *)
FileOffset(m) == (m.global - m.file) % WordSize
Part_Unbounded(m) == m.remain
Part(m) == Min({m.remain, (layout[torfiles[m.file]] - FileOffset(m)) % WordSize})

(* An offset in the upper half is a negative off_t, which pwrite and pread *)
(* refuse; SFile returns false, which nobody looks at.                     *)
Refused(m) == FileOffset(m) >= WordSize \div 2

(* The loop over the files: its start, and how it goes on to the next file *)
(* or is over.                                                             *)
Begin(p, kind, over) ==
    LET first == StartAt(p * PieceLength)
    IN  mover' = [mover EXCEPT ![p] =
                    IF first = End THEN [Idle EXCEPT !.at = over]
                    ELSE [at |-> kind, file |-> first, global |-> p * PieceLength,
                          remain |-> PieceSize(p), moved |-> 0]]

Advance_SameOffset(p, over) ==
    LET m == mover[p]
        n == Part(m)
        file == NextAfter(m.file)
    IN  mover' = [mover EXCEPT ![p] =
                    IF m.remain = n \/ file = End
                    THEN [Idle EXCEPT !.at = over]
                    ELSE [m EXCEPT !.file = file, !.remain = @ - n, !.moved = @ + n]]
Advance(p, over) ==
    LET m == mover[p]
        n == Part(m)
        file == NextAfter(m.file)
    IN  mover' = [mover EXCEPT ![p] =
                    IF m.remain = n \/ file = End
                    THEN [Idle EXCEPT !.at = over]
                    ELSE [m EXCEPT !.file = file, !.global = @ + n,
                                   !.remain = @ - n, !.moved = @ + n]]

(* pwrite: the file grows where it must, with holes.                       *)
Overwritten_Truncated(old, at, n, first) ==
    [o \in (IF n = 0 THEN DOMAIN old ELSE 0 .. at + n - 1) |->
        IF o \in at .. at + n - 1 THEN first + o - at
        ELSE IF o \in DOMAIN old THEN old[o] ELSE Hole]
Overwritten(old, at, n, first) ==
    [o \in DOMAIN old \cup (IF n = 0 THEN {} ELSE 0 .. at + n - 1) |->
        IF o \in at .. at + n - 1 THEN first + o - at
        ELSE IF o \in DOMAIN old THEN old[o] ELSE Hole]

(* A verified piece starts on its way to the files.                        *)
BeginWrite(p) ==
    /\ ~Building /\ mover[p].at = "idle"
    /\ Begin(p, "write", "written")
    /\ UNCHANGED <<layout, torfiles, nextFile, offset, content, result>>

(* One round of the loop of handle_piece.                                  *)
WritePart(p) ==
    LET m == mover[p]
        f == torfiles[m.file]
    IN  /\ m.at = "write"
        /\ content' =
             IF Refused(m) THEN content
             ELSE [content EXCEPT ![f] =
                     Overwritten(@, FileOffset(m), Part(m), p * PieceLength + m.moved)]
        /\ Advance(p, "written")
        /\ UNCHANGED <<layout, torfiles, nextFile, offset, result>>

(* A seed reads only pieces that are Done; it may ask for one many times.  *)
BeginRead(p) ==
    /\ mover[p].at \in {"written", "got"}
    /\ Begin(p, "read", "got")
    /\ result' = [result EXCEPT ![p] = Holes(PieceSize(p))]
    /\ UNCHANGED <<layout, torfiles, nextFile, offset, content>>

(* pread leaves the buffer alone past the end of the file.                 *)
Filled_FromStart(m, buf, file) ==
    [o \in DOMAIN buf |->
        LET at == FileOffset(m) + o
        IN  IF o < Part(m) /\ at \in DOMAIN file THEN file[at] ELSE buf[o]]
Filled(m, buf, file) ==
    [o \in DOMAIN buf |->
        LET at == FileOffset(m) + o - m.moved
        IN  IF o \in m.moved .. m.moved + Part(m) - 1 /\ at \in DOMAIN file
            THEN file[at] ELSE buf[o]]

(* One round of the loop of get_piece_by_index.                            *)
ReadPart(p) ==
    LET m == mover[p]
    IN  /\ m.at = "read"
        /\ result' = [result EXCEPT ![p] = Filled(m, @, content[torfiles[m.file]])]
        /\ Advance(p, "got")
        /\ UNCHANGED <<layout, torfiles, nextFile, offset, content>>

Next ==
    \/ AddFile \/ FailFile
    \/ \E p \in Pieces : BeginWrite(p) \/ WritePart(p) \/ BeginRead(p) \/ ReadPart(p)

Spec == Init /\ [][Next]_vars

-----------------------------------------------------------------------------
(* The reference: byte i of the stream is byte i - Start(f) of the one     *)
(* file f whose range holds i.                                             *)

Start(f) == FoldSeq(+, 0, SubSeq(layout, 1, f - 1))

RightFor(f, o, byte) == byte = Start(f) + o

(* Every variable has its type.                                            *)
TypeOK ==
    /\ layout \in Layouts
    /\ DOMAIN torfiles \subseteq 0 .. TotalLength
    /\ \A o \in DOMAIN torfiles : torfiles[o] \in Files
    /\ nextFile \in 1 .. Len(layout) + 1
    /\ offset \in 0 .. TotalLength
    /\ \A f \in Files : \A o \in DOMAIN content[f] : content[f][o] \in -1 .. TotalLength - 1
    /\ \A p \in Pieces :
         LET m == mover[p]
         IN  /\ DOMAIN result[p] \subseteq 0 .. PieceSize(p) - 1
             /\ m.at \in {"idle", "write", "written", "read", "got"}
             /\ m.at \in {"write", "read"} =>
                  /\ m.file \in DOMAIN torfiles
                  /\ m.remain \in 1 .. PieceSize(p)
                  /\ m.moved = PieceSize(p) - m.remain
                  /\ m.global = p * PieceLength + m.moved

(* A file never holds a byte of the stream at a place where it does not    *)
(* belong, nor grows beyond its length, at any moment of the writes that   *)
(* handle_piece does for several pieces at once.                           *)
NoStrayByte ==
    \A f \in Files :
        /\ DOMAIN content[f] \subseteq 0 .. layout[f] - 1
        /\ \A o \in DOMAIN content[f] :
             content[f][o] = Hole \/ RightFor(f, o, content[f][o])

(* init_torfiles made all the files.                                       *)
Laid == offset = TotalLength

(* When the loop of handle_piece is over, every byte of the piece is in    *)
(* the file and at the position where the torrent has it, if there were    *)
(* all the files.                                                          *)
WrittenInPlace ==
    \A p \in Pieces : Laid /\ mover[p].at \in {"written", "read", "got"} =>
        \A f \in Files : \A o \in 0 .. layout[f] - 1 :
            Start(f) + o \in p * PieceLength .. p * PieceLength + PieceSize(p) - 1 =>
                RightFor(f, o, content[f][o])

(* What get_piece_by_index gives a seed to send is the piece that          *)
(* handle_piece has written, whatever else is being written meanwhile.     *)
ReadsBack ==
    \A p \in Pieces : Laid /\ mover[p].at = "got" =>
        \A o \in 0 .. PieceSize(p) - 1 : result[p][o] = p * PieceLength + o

-----------------------------------------------------------------------------
(* The abstract store of pieces                                            *)

(* The pieces all of whose bytes are where the torrent has them.           *)
Stored ==
    {p \in Pieces :
        Laid /\ \A f \in Files : \A o \in 0 .. layout[f] - 1 :
            Start(f) + o \in p * PieceLength .. p * PieceLength + PieceSize(p) - 1 =>
                o \in DOMAIN content[f] /\ RightFor(f, o, content[f][o])}

(* The pieces that get_piece_by_index has been asked for.                  *)
AskedFor == {p \in Pieces : Laid /\ mover[p].at \in {"read", "got"}}

(* The pieces of all the torrents that are considered.                     *)
AnyPiece == UNION {0 .. FoldSeq(+, 0, l) : l \in Layouts}

Store == INSTANCE PieceStore WITH
    Pieces <- AnyPiece, Unreliable <- {}, MayForget <- FALSE,
    stored <- Stored, have <- AskedFor

(* The loops over the files, one file per step and several at once, add up *)
(* to writing whole pieces at once: a piece is stored by the last part of  *)
(* its own loop and by no other's, no write takes a stored piece away, and *)
(* a piece is read only when it is stored.  (handle_piece,                 *)
(* get_piece_by_index; PeerConn writes a piece in one step)                *)
ImplementsStore == Store!Spec
=============================================================================
