--------------------------- MODULE StateFileProofs ---------------------------
(***************************************************************************)
(* Restarts, for any number of saves, kills, connections and pieces: what  *)
(* a cut or a whole state file can make the next start believe.            *)
(***************************************************************************)
EXTENDS StateFile, PeerConnProofs, SequenceTheorems

USE SizesAssumption, SavesAssumption

Safe == Stored \cup LossyPieces

(***************************************************************************)
(* The invariant.  A state file may be old, cut short or misread, but      *)
(* whatever it says of a piece was true when it was read from the table:   *)
(* a piece that was Done had its content in the files, and what is in the  *)
(* files stays there.  FullCountIsDecided is no part of it: a restart      *)
(* forgets who was deciding.                                               *)
(***************************************************************************)
File == [there : BOOLEAN, head : 0 .. 2, count : {0, NumPieces}, entries : Seq(Entry)]

Saver == [at : {"idle", "state", "rest", "end"}, piece : Pieces,
          state : {"Missing", "Done"}, leaving : BOOLEAN]

FileTypes ==
    /\ phase \in {"running", "killed", "over"}
    /\ rows \in {0, NumPieces}
    /\ file \in File /\ Len(file.entries) <= NumPieces
    /\ saver \in Saver
    /\ promised \subseteq Pieces
    /\ saves \in 0 .. MaxSaves
    /\ kills \in 0 .. MaxKills

EntryOK(p, e) == IsBuffer(p, e.buf) /\ (e.state = "Done" => p \in Safe)

EntriesOK == \A p \in 0 .. Len(file.entries) - 1 : EntryOK(p, file.entries[p + 1])

(* try_save appends the entry of the piece it is at; what it has read of   *)
(* that piece's state is still true of the files when it appends it.       *)
SaverOK ==
    /\ saver.at \in {"state", "rest"} =>
        rows = NumPieces /\ Len(file.entries) = saver.piece
    /\ saver.at = "rest" /\ saver.state = "Done" => saver.piece \in Safe

FileInv == Kept /\ FileTypes /\ EntriesOK /\ SaverOK

-----------------------------------------------------------------------------
LEMMA FileTypesTypeOK == FileInv => FileTypeOK
<1> SUFFICES ASSUME FileInv PROVE FileTypeOK
  OBVIOUS
<1>1. /\ file \in File /\ DOMAIN file.entries = 1 .. Len(file.entries)
      /\ \A i \in 1 .. Len(file.entries) : file.entries[i] \in Entry
  <2>1. file \in File /\ file.entries \in Seq(Entry)
    BY DEF FileInv, FileTypes, File
  <2> QED
    BY <2>1, LenProperties, ElementOfSeq
<1> QED
  BY <1>1 DEF FileInv, FileTypes, File, Saver, Kept, FileTypeOK

(* There is no file at first.                                              *)
LEMMA FileInitInv == FileInit => FileInv
<1> SUFFICES ASSUME FileInit PROVE FileInv
  OBVIOUS
<1>1. Kept
  BY InitInv DEF FileInit, Inv
<1>2. << >> \in Seq(Entry) /\ Len(<< >>) = 0
  BY EmptySeq
<1>3. FileTypes
  BY <1>2 DEF FileInit, FileTypes, File, Saver, NoFile, IdleSaver, Pieces
<1> QED
  BY <1>1, <1>2, <1>3 DEF FileInit, FileInv, EntriesOK, SaverOK, NoFile, IdleSaver

(* Connections download while the table is saved: what was read of it may  *)
(* be old, but the files lose nothing.                                     *)
LEMMA ConnectionsKeep ==
  ASSUME FileInv, [Next]_vars, UNCHANGED fileVars
  PROVE  FileInv'
<1>1. Kept' /\ Safe \subseteq Safe'
  BY NextKeeps, StoredGrows DEF FileInv, Safe
<1> QED
  BY <1>1 DEF FileInv, FileTypes, EntriesOK, EntryOK, SaverOK, fileVars

(* A step that leaves the table, the connections and the files alone.      *)
LEMMA TableSame ==
  ASSUME FileInv, UNCHANGED vars
  PROVE  Kept' /\ Safe' = Safe
  BY NextKeeps DEF FileInv, Safe, Stored, vars

LEMMA SaveKeeps ==
  ASSUME FileInv, SaveBegin \/ SaveState \/ SaveEnd \/ LeaveLoop
  PROVE  FileInv'
<1>1. Kept' /\ Safe' = Safe
  BY TableSame DEF SaveBegin, SaveState, SaveEnd, LeaveLoop
<1>2. /\ FileTypes /\ EntriesOK /\ SaverOK /\ saver \in Saver /\ file \in File
      /\ 0 \in Pieces /\ saves \in 0 .. MaxSaves
  BY DEF FileInv, FileTypes, Pieces
<1>3. CASE SaveBegin
  <2>1. << >> \in Seq(Entry) /\ Len(<< >>) = 0
    BY EmptySeq
  <2>2. file' \in File /\ file'.entries = << >>
    BY <1>2, <1>3, <2>1 DEF SaveBegin, FileTypes, File, EmptyFile
  <2>3. /\ saver' \in Saver /\ saver'.piece = 0
        /\ saver'.at = "end" \/ (saver'.at = "state" /\ rows = NumPieces)
    <3>1. \A x \in {"end", "state"} : [saver EXCEPT !.at = x, !.piece = 0] \in Saver
      BY <1>2 DEF Saver
    <3> QED
      BY <1>2, <1>3, <3>1 DEF SaveBegin, FileTypes, Saver
  <2>4. saves' \in 0 .. MaxSaves
    BY <1>2, <1>3 DEF SaveBegin
  <2>5. FileTypes'
    BY <1>2, <1>3, <2>1, <2>2, <2>3, <2>4 DEF SaveBegin, FileTypes
  <2> QED
    BY <1>1, <1>2, <1>3, <2>1, <2>2, <2>3, <2>5
       DEF SaveBegin, FileInv, EntriesOK, SaverOK
<1>4. CASE SaveState
  <2>1. /\ saver.piece \in Pieces /\ SavedState(state[saver.piece]) \in {"Missing", "Done"}
        /\ SavedState(state[saver.piece]) = "Done" => state[saver.piece] = "Done"
    BY <1>2 DEF SavedState, Saver, FileInv, Kept, TypeOK, TableTypeOK
  <2>2. SavedState(state[saver.piece]) = "Done" => saver.piece \in Safe
    BY <2>1, DoneIsStored DEF Safe, FileInv
  <2>3. saver' \in Saver /\ saver'.piece = saver.piece /\ saver'.at = "rest"
        /\ saver'.state = SavedState(state[saver.piece])
    BY <1>2, <1>4, <2>1 DEF SaveState, Saver
  <2> QED
    BY <1>1, <1>2, <1>4, <2>2, <2>3
       DEF SaveState, FileInv, FileTypes, EntriesOK, EntryOK, SaverOK
<1>5. CASE SaveEnd
  <2>1. saver' \in Saver /\ saver'.at = "idle"
    BY <1>2, <1>5 DEF SaveEnd, Saver, IdleSaver
  <2> QED
    BY <1>1, <1>2, <1>5, <2>1
       DEF SaveEnd, FileInv, FileTypes, EntriesOK, EntryOK, SaverOK, Rows
<1>6. CASE LeaveLoop
  <2>1. saver' \in Saver /\ saver'.at = "idle"
    BY <1>2, <1>6 DEF LeaveLoop, Saver
  <2> QED
    BY <1>1, <1>2, <1>6, <2>1
       DEF LeaveLoop, FileInv, FileTypes, EntriesOK, EntryOK, SaverOK
<1> QED
  BY <1>3, <1>4, <1>5, <1>6

(* The entry that is appended joins a state read a while ago to a buffer   *)
(* read now.                                                               *)
LEMMA SaveRestKeeps ==
  ASSUME FileInv, SaveRest
  PROVE  FileInv'
<1> DEFINE p == saver.piece
           old == file.entries
           entry == [state |-> saver.state, buf |-> buffer[p],
                     downloaded |-> downloaded[p], fields |-> AllFields]
<1>1. Kept' /\ Safe' = Safe
  BY TableSame DEF SaveRest
<1>2. /\ saver \in Saver /\ p \in Pieces /\ file \in File /\ old \in Seq(Entry)
      /\ saver.at = "rest" /\ rows = NumPieces /\ Len(old) = p
      /\ saver.state = "Done" => p \in Safe
      /\ EntriesOK /\ FileTypes
  BY DEF FileInv, FileTypes, SaverOK, Saver, File, SaveRest
<1>3. entry \in Entry /\ EntryOK(p, entry)
  <2>1. /\ buffer[p] \in Buffers /\ IsBuffer(p, buffer[p]) /\ downloaded[p] \in Nat
    BY <1>2 DEF FileInv, Kept, TypeOK, TableTypeOK
  <2> QED
    BY <1>2, <2>1 DEF Entry, EntryOK, AllFields, Saver
<1> HIDE DEF entry
<1>4. /\ Append(old, entry) \in Seq(Entry) /\ Len(Append(old, entry)) = p + 1
      /\ \A i \in 1 .. p : Append(old, entry)[i] = old[i]
      /\ Append(old, entry)[p + 1] = entry
  <2>1. p \in Nat
    BY <1>2, LenProperties
  <2> QED
    BY <1>2, <1>3, <2>1, AppendProperties
<1>5. file' = [file EXCEPT !.entries = Append(old, entry)]
  BY DEF SaveRest, entry
<1>6. file' \in File /\ file'.entries = Append(old, entry)
  BY <1>2, <1>4, <1>5 DEF File
<1>7. \/ saver' \in Saver /\ saver'.at = "end"
      \/ saver' \in Saver /\ saver'.at = "state" /\ saver'.piece = p + 1
  <2>1. CASE p + 1 = rows
    BY <1>2, <2>1 DEF SaveRest, IsLast, Saver
  <2>2. CASE p + 1 # rows
    <3>1. p + 1 \in Pieces
      BY <1>2, <2>2 DEF Pieces
    <3>2. saver' = [saver EXCEPT !.at = "state", !.piece = p + 1]
      BY <2>2 DEF SaveRest, IsLast
    <3> QED
      BY <1>2, <3>1, <3>2 DEF Saver
  <2> QED
    BY <2>1, <2>2
<1>8. FileTypes'
  <2>1. UNCHANGED <<phase, rows, promised, saves, kills>>
    BY DEF SaveRest
  <2>2. Len(file'.entries) <= NumPieces
    BY <1>2, <1>4, <1>6 DEF Pieces
  <2> QED
    BY <1>2, <1>6, <1>7, <2>1, <2>2 DEF FileTypes
<1>9. EntriesOK'
  BY <1>1, <1>2, <1>3, <1>4, <1>6 DEF EntriesOK, EntryOK, Pieces
<1>10. SaverOK'
  BY <1>2, <1>4, <1>6, <1>7 DEF SaverOK, SaveRest
<1> QED
  BY <1>1, <1>8, <1>9, <1>10 DEF FileInv

(* A cut file says less, and nothing new.                                  *)
LEMMA CutOK ==
  ASSUME FileTypes, EntriesOK, CutShort
  PROVE  LET f == file' IN
         /\ f \in File /\ Len(f.entries) <= NumPieces
         /\ f.there = file.there /\ f.count = file.count
         /\ f.head = file.head \/ f.head >= KeptFields
         /\ \A p \in 0 .. Len(f.entries) - 1 : EntryOK(p, f.entries[p + 1])
<1> DEFINE old == file.entries
           f == file'
<1>1. file \in File /\ old \in Seq(Entry) /\ Len(old) \in Nat /\ Len(old) <= NumPieces
  BY LenProperties DEF FileTypes, File
<1>2. /\ \A i \in 1 .. Len(old) : old[i] \in Entry
      /\ \A p \in 0 .. Len(old) - 1 : EntryOK(p, old[p + 1])
  BY <1>1, ElementOfSeq DEF EntriesOK
<1>3. CASE \E h \in KeptFields .. 2 : f = [file EXCEPT !.head = h, !.entries = << >>]
  <2>1. << >> \in Seq(Entry) /\ Len(<< >>) = 0
    BY EmptySeq
  <2>2. PICK h \in KeptFields .. 2 : f = [file EXCEPT !.head = h, !.entries = << >>]
    BY <1>3
  <2>3. h \in 0 .. 2 /\ h >= KeptFields
    OBVIOUS
  <2>4. \A s \in Seq(Entry) :
          LET g == [file EXCEPT !.head = h, !.entries = s]
          IN  /\ g \in File /\ g.entries = s /\ g.head = h
              /\ g.there = file.there /\ g.count = file.count
    BY <1>1, <2>3 DEF File
  <2>5. /\ f \in File /\ f.entries = << >> /\ f.head = h
        /\ f.there = file.there /\ f.count = file.count
    BY <2>1, <2>2, <2>4
  <2> QED
    BY <2>1, <2>3, <2>5
<1>4. ASSUME NEW n \in 1 .. Len(old), NEW k \in 1 .. AllFields,
             f = [file EXCEPT !.entries = CutAt(n, k)]
      PROVE  /\ f \in File /\ Len(f.entries) <= NumPieces
             /\ f.there = file.there /\ f.count = file.count /\ f.head = file.head
             /\ \A p \in 0 .. Len(f.entries) - 1 : EntryOK(p, f.entries[p + 1])
  <2>1. /\ \A i \in 1 .. n : CutAt(n, k)[i] \in Entry
        /\ \A p \in 0 .. n - 1 : EntryOK(p, CutAt(n, k)[p + 1])
    <3>1. /\ n \in Nat /\ \A i \in 1 .. n : i \in 1 .. Len(old)
          /\ \A p \in 0 .. n - 1 : p + 1 \in 1 .. n /\ p \in 0 .. Len(old) - 1
      BY <1>1
    <3>2. \A e \in Entry : LET g == [e EXCEPT !.fields = k]
                          IN  g \in Entry /\ g.buf = e.buf /\ g.state = e.state
      BY DEF Entry
    <3> QED
      BY <1>2, <3>1, <3>2 DEF EntryOK, CutAt
  <2>2. CutAt(n, k) \in [1 .. n -> Entry] /\ n \in Nat
    BY <1>1, <2>1 DEF CutAt
  <2>3. CutAt(n, k) \in Seq(Entry)
    <3>1. Seq(Entry) = UNION {[1 .. m -> Entry] : m \in Nat}
      BY SeqDef
    <3> QED
      BY <2>2, <3>1
  <2>4. Len(CutAt(n, k)) = n
    BY <2>2, <2>3, LenProperties
  <2>5. /\ f \in File /\ f.entries = CutAt(n, k)
        /\ f.there = file.there /\ f.count = file.count /\ f.head = file.head
    BY <1>1, <1>4, <2>3 DEF File
  <2>6. Len(f.entries) <= NumPieces
    BY <1>1, <2>4, <2>5
  <2>7. \A p \in 0 .. Len(f.entries) - 1 : EntryOK(p, f.entries[p + 1])
    BY <2>1, <2>4, <2>5
  <2> QED
    BY <2>5, <2>6, <2>7
<1> QED
  BY <1>3, <1>4 DEF CutShort

LEMMA KillKeeps ==
  ASSUME FileInv, Kill
  PROVE  FileInv'
<1>1. Kept' /\ Safe' = Safe
  BY TableSame DEF Kill
<1>2. IdleSaver \in Saver /\ IdleSaver.at = "idle" /\ saver' = IdleSaver
  BY DEF Kill, IdleSaver, Saver, Pieces
<1>3. /\ file' \in File /\ Len(file'.entries) <= NumPieces
      /\ \A p \in 0 .. Len(file'.entries) - 1 : EntryOK(p, file'.entries[p + 1])
  BY CutOK DEF Kill, FileInv, FileTypes, EntriesOK
<1>4. FileTypes'
  BY <1>2, <1>3 DEF Kill, FileInv, FileTypes
<1>5. EntriesOK'
  BY <1>1, <1>3 DEF EntriesOK, EntryOK
<1> QED
  BY <1>1, <1>2, <1>4, <1>5 DEF FileInv, SaverOK

(* What try_load makes of a file has the types of the table, and calls     *)
(* nothing Done that is not in the files.                                  *)
LEMMA LoadedOK ==
  ASSUME FileInv, NEW p \in Pieces, NEW junk \in SUBSET Unsized
  PROVE  /\ LoadedState(p) \in {"Missing", "Done"}
         /\ LoadedState(p) = "Done" => p \in Safe
         /\ IsBuffer(p, LoadedBuffer(p, junk))
         /\ LoadedCount(p) \in Nat
<1> DEFINE e == file.entries[p + 1]
<1>1. p \in Nat /\ file.entries \in Seq(Entry) /\ Len(file.entries) \in Nat
  BY LenProperties DEF FileInv, FileTypes, File, Pieces
<1>2. ASSUME NEW k \in 1 .. AllFields, HasField(p, k)
      PROVE  e \in Entry /\ IsBuffer(p, e.buf) /\ (e.state = "Done" => p \in Safe)
  <2>1. p + 1 \in 1 .. Len(file.entries) /\ p \in 0 .. Len(file.entries) - 1
    BY <1>1, <1>2 DEF HasField
  <2>2. e \in Entry
    BY <1>1, <2>1, ElementOfSeq
  <2> QED
    BY <2>1, <2>2 DEF FileInv, EntriesOK, EntryOK
<1>3. /\ 1 \in 1 .. AllFields /\ 2 \in 1 .. AllFields /\ 4 \in 1 .. AllFields
  BY DEF AllFields
<1>4. LoadedState(p) \in {"Missing", "Done"} /\ (LoadedState(p) = "Done" => p \in Safe)
  BY <1>2, <1>3 DEF LoadedState, Entry
<1>5. LoadedCount(p) \in Nat
  BY <1>2, <1>3 DEF LoadedCount, Entry
<1>6. Zeros(p) \in [Offsets(p) -> Byte] /\ [Zeros(p) EXCEPT ![0] = "bad"] \in [Offsets(p) -> Byte]
  BY DEF Zeros, Byte
<1>7. p \notin Unsized => HasField(p, 2)
  BY DEF Unsized
<1>8. IsBuffer(p, LoadedBuffer(p, junk))
  BY <1>2, <1>3, <1>6, <1>7 DEF LoadedBuffer, IsBuffer
<1> QED
  BY <1>4, <1>5, <1>8

LEMMA StartKeeps ==
  ASSUME FileInv, Start
  PROVE  FileInv'
<1>1. /\ UNCHANGED <<disk, clears, chokes, file, promised, saves, kills>>
      /\ conn' = [c \in Conns |-> NewConn] /\ saver' = IdleSaver /\ phase' = "running"
      /\ Safe' = Safe
  BY DEF Start, Safe, Stored
<1>2. /\ rows' \in {0, NumPieces}
      /\ state' \in [Pieces -> {"Missing", "Done"}]
      /\ downloaded' \in [Pieces -> Nat]
      /\ DOMAIN buffer' = Pieces /\ buffer' = [p \in Pieces |-> buffer'[p]]
      /\ \A p \in Pieces : /\ IsBuffer(p, buffer'[p])
                           /\ state'[p] = "Done" => p \in Safe
  <2>1. CASE ~file.there
    BY <2>1 DEF Start, IsBuffer
  <2>2. CASE file.there
    <3>1. PICK junk \in SUBSET Unsized :
            /\ rows' \in LoadedRows
            /\ state' = [p \in Pieces |-> LoadedState(p)]
            /\ buffer' = [p \in Pieces |-> LoadedBuffer(p, junk)]
            /\ downloaded' = [p \in Pieces |-> LoadedCount(p)]
      BY <2>2 DEF Start
    <3>2. rows' \in {0, NumPieces}
      BY <3>1 DEF LoadedRows, FileInv, FileTypes, File
    <3> QED
      BY <3>1, <3>2, LoadedOK
  <2> QED
    BY <2>1, <2>2
<1>3. TypeOK'
  <2>1. TableTypeOK'
    BY <1>1, <1>2, BuffersOf DEF IsBuffer, TableTypeOK, FileInv, Kept, TypeOK
  <2> QED
    BY <1>1, <2>1, NewConnType DEF FileInv, Kept, TypeOK
<1>4. HeldContent'
  BY <1>1 DEF HeldContent, NewConn
<1>5. DoneOnDisk'
  BY <1>1, <1>2 DEF DoneOnDisk, Safe, Stored
<1>6. IdleSaver \in Saver /\ IdleSaver.at = "idle"
  BY DEF IdleSaver, Saver, Pieces
<1>7. FileTypes'
  BY <1>1, <1>2, <1>6 DEF FileInv, FileTypes
<1>8. EntriesOK' /\ SaverOK'
  BY <1>1, <1>6 DEF FileInv, EntriesOK, EntryOK, SaverOK
<1> QED
  BY <1>3, <1>4, <1>5, <1>7, <1>8 DEF FileInv, Kept

LEMMA FileNextInv == FileInv /\ [FileNext]_allVars => FileInv'
<1> SUFFICES ASSUME FileInv, [FileNext]_allVars PROVE FileInv'
  OBVIOUS
<1>1. CASE Connections \/ UNCHANGED allVars
  BY <1>1, ConnectionsKeep DEF Connections, allVars
<1>2. CASE SaveBegin \/ SaveState \/ SaveEnd \/ LeaveLoop
  BY <1>2, SaveKeeps
<1>3. CASE SaveRest
  BY <1>3, SaveRestKeeps
<1>4. CASE Kill
  BY <1>4, KillKeeps
<1>5. CASE Start
  BY <1>5, StartKeeps
<1> QED
  BY <1>1, <1>2, <1>3, <1>4, <1>5 DEF FileNext

LEMMA FileInvCorrect == FileSpec => []FileInv
  BY FileInitInv, FileNextInv, PTL DEF FileSpec

(* Every variable has its type, after any kills and misread files.         *)
THEOREM FileTypeCorrect == FileSpec => []FileTypeOK
  BY FileInvCorrect, FileTypesTypeOK, PTL

(* Restarts do not make a piece Done that is not in the files, however     *)
(* the state file was cut or misread.                                      *)
THEOREM RestartedDoneIsOnDisk == FileSpec => []DoneOnDisk
<1>1. FileInv => DoneOnDisk
  BY DEF FileInv, Kept
<1> QED
  BY <1>1, FileInvCorrect, PTL

-----------------------------------------------------------------------------
(* Leaving run                                                             *)

(* When the first two fields survive every kill the table always has its   *)
(* rows, so that is_done has every piece to look at.                       *)
WholeHead == rows = NumPieces /\ (file.there => file.head = 2 /\ file.count = NumPieces)

LeavesSafe == saver.leaving \/ phase = "over" => Pieces \subseteq Safe

LEMMA LeaveNextInv ==
  ASSUME KeptFields = 2,
         FileInv, WholeHead, LeavesSafe, [FileNext]_allVars
  PROVE  WholeHead' /\ LeavesSafe'
<1> USE DEF WholeHead
<1>1. file \in File /\ saver \in Saver /\ rows = NumPieces
  BY DEF FileInv, FileTypes
<1>2. CASE Connections
  <2>1. Safe \subseteq Safe' /\ UNCHANGED fileVars
    BY <1>2, StoredGrows DEF Connections, FileInv, Safe
  <2> QED
    BY <2>1 DEF LeavesSafe, fileVars
<1>3. CASE SaveBegin \/ SaveState \/ SaveRest \/ SaveEnd \/ UNCHANGED allVars
  <2>1. Safe' = Safe
    BY <1>3, TableSame DEF SaveBegin, SaveState, SaveRest, SaveEnd, allVars
  <2>2. WholeHead'
    <3>1. CASE SaveBegin
      BY <1>1, <3>1 DEF SaveBegin, EmptyFile
    <3>2. CASE SaveRest
      <4>1. /\ rows' = rows
            /\ file'.there = file.there /\ file'.head = file.head /\ file'.count = file.count
        BY <1>1, <3>2 DEF SaveRest, File
      <4> QED
        BY <4>1
    <3>3. CASE SaveState \/ SaveEnd \/ UNCHANGED allVars
      BY <3>3 DEF SaveState, SaveEnd, allVars, fileVars
    <3> QED
      BY <1>3, <3>1, <3>2, <3>3
  <2>3. saver'.leaving = saver.leaving /\ (phase' = "over" => saver.leaving \/ phase = "over")
    BY <1>1, <1>3 DEF SaveBegin, SaveState, SaveRest, SaveEnd, allVars, fileVars, Saver, IdleSaver
  <2> QED
    BY <2>1, <2>2, <2>3 DEF LeavesSafe
<1>4. CASE LeaveLoop
  <2>1. Safe' = Safe /\ UNCHANGED <<rows, file>>
    BY <1>4, TableSame DEF LeaveLoop
  <2>2. \A p \in Pieces : state[p] = "Done"
    BY <1>1, <1>4 DEF LeaveLoop, AllDone, Rows, Pieces
  <2>3. Pieces \subseteq Safe
    BY <2>2, DoneIsStored DEF FileInv, Safe
  <2> QED
    BY <2>1, <2>3 DEF LeavesSafe
<1>5. CASE Kill
  <2>1. /\ file'.there = file.there /\ file'.count = file.count
        /\ file'.head = file.head \/ file'.head = 2
    BY <1>5, CutOK DEF Kill, FileInv, FileTypes, File
  <2>2. ~saver'.leaving /\ phase' = "killed" /\ rows' = rows
    BY <1>5 DEF Kill, IdleSaver
  <2> QED
    BY <1>1, <2>1, <2>2 DEF LeavesSafe
<1>6. CASE Start
  <2>1. rows' = NumPieces
    BY <1>6 DEF Start, LoadedRows
  <2>2. ~saver'.leaving /\ phase' = "running" /\ UNCHANGED file
    BY <1>6 DEF Start, IdleSaver
  <2> QED
    BY <2>1, <2>2 DEF LeavesSafe
<1> QED
  BY <1>2, <1>3, <1>4, <1>5, <1>6 DEF FileNext

(* When no write fails and a kill spares the first two fields of the file, *)
(* run returns only when all of the torrent is in its files, whatever was  *)
(* killed, saved and loaded before.                                        *)
THEOREM EndsOnlyWhenStored ==
  ASSUME KeptFields = 2, LossyPieces = {}
  PROVE  FileSpec => []OverMeansStored
<1>1. FileInit => WholeHead /\ LeavesSafe
  BY DEF FileInit, WholeHead, LeavesSafe, NoFile, IdleSaver
<1>2. FileInv /\ WholeHead /\ LeavesSafe /\ [FileNext]_allVars => WholeHead' /\ LeavesSafe'
  BY LeaveNextInv
<1>3. LeavesSafe => OverMeansStored
  BY DEF LeavesSafe, OverMeansStored, Safe, Stored
<1> QED
  BY <1>1, <1>2, <1>3, FileInvCorrect, PTL DEF FileSpec

-----------------------------------------------------------------------------
(* Loading what was saved                                                  *)

(***************************************************************************)
(* From SaveBegin on the file promises nothing, so that a kill can cut     *)
(* only a file without a promise; a file that makes one is whole, and says *)
(* so of every piece it has promised.                                      *)
(***************************************************************************)
AllThere ==
  /\ file.there /\ file.head = 2
  /\ \A i \in 1 .. Len(file.entries) : file.entries[i].fields = AllFields

PromiseOK ==
  /\ saver.at # "idle" => promised = {} /\ AllThere
  /\ saver.at = "end" => Len(file.entries) = rows
  /\ promised # {} => AllThere
  /\ \A p \in promised : p < Len(file.entries) /\ file.entries[p + 1].state = "Done"

(* A step that leaves the saver's file, or has just begun another one.     *)
LEMMA PromiseStays ==
  ASSUME FileInv, PromiseOK, [FileNext]_allVars, ~SaveRest
  PROVE  PromiseOK'
<1>1. file \in File /\ saver \in Saver /\ rows \in Nat /\ Len(file.entries) \in Nat
  BY LenProperties DEF FileInv, FileTypes, File
<1>2. CASE Connections \/ UNCHANGED allVars
  BY <1>2 DEF Connections, allVars, fileVars, PromiseOK, AllThere
<1>3. CASE SaveBegin
  <2>1. /\ file' = EmptyFile(rows) /\ promised' = {} /\ rows' = rows
        /\ saver' = [saver EXCEPT !.at = IF rows = 0 THEN "end" ELSE "state", !.piece = 0]
    BY <1>3 DEF SaveBegin
  <2>2. /\ Len(file'.entries) = 0 /\ file'.there /\ file'.head = 2
        /\ saver'.at = "end" => rows = 0
    BY <1>1, <2>1, EmptySeq DEF EmptyFile, Saver
  <2> QED
    BY <2>1, <2>2 DEF PromiseOK, AllThere
<1>4. CASE SaveState \/ LeaveLoop
  <2>1. /\ UNCHANGED <<file, promised, rows>>
        /\ saver'.at # "end" /\ (saver'.at # "idle" => saver.at # "idle")
    BY <1>1, <1>4 DEF SaveState, LeaveLoop, Saver
  <2> QED
    BY <2>1 DEF PromiseOK, AllThere
<1>5. CASE SaveEnd
  <2>1. /\ UNCHANGED <<file, rows>> /\ saver.at = "end" /\ saver'.at = "idle"
        /\ promised' = {p \in Rows : file.entries[p + 1].state = "Done"}
    BY <1>1, <1>5 DEF SaveEnd, IdleSaver, Saver
  <2> QED
    BY <2>1 DEF PromiseOK, AllThere, Rows
<1>6. CASE Kill
  <2>1. saver'.at = "idle" /\ promised' = promised /\ (saver.at = "idle" => file' = file)
    BY <1>6 DEF Kill, IdleSaver
  <2> QED
    BY <2>1 DEF PromiseOK, AllThere
<1>7. CASE Start
  <2>1. saver'.at = "idle" /\ UNCHANGED <<file, promised>>
    BY <1>7 DEF Start, IdleSaver
  <2> QED
    BY <2>1 DEF PromiseOK, AllThere
<1> QED
  BY <1>2, <1>3, <1>4, <1>5, <1>6, <1>7 DEF FileNext

(* The file is one entry longer, or whole.                                 *)
LEMMA SaveRestPromises ==
  ASSUME FileInv, PromiseOK, SaveRest
  PROVE  PromiseOK'
<1> DEFINE p == saver.piece
           old == file.entries
           entry == [state |-> saver.state, buf |-> buffer[p],
                     downloaded |-> downloaded[p], fields |-> AllFields]
<1>1. /\ saver \in Saver /\ p \in Pieces /\ file \in File /\ old \in Seq(Entry)
      /\ saver.at = "rest" /\ rows = NumPieces /\ Len(old) = p /\ p \in Nat
  BY LenProperties DEF FileInv, FileTypes, SaverOK, Saver, File, SaveRest
<1>2. entry \in Entry
  BY <1>1 DEF FileInv, Kept, TypeOK, TableTypeOK, Entry, AllFields, Saver
<1>3. entry.fields = AllFields
  OBVIOUS
<1>4. file' = [file EXCEPT !.entries = Append(old, entry)]
  BY DEF SaveRest
<1> HIDE DEF entry
<1>5. /\ Len(Append(old, entry)) = p + 1
      /\ \A i \in 1 .. p : Append(old, entry)[i] = old[i]
      /\ Append(old, entry)[p + 1] = entry
  BY <1>1, <1>2, AppendProperties
<1>6. /\ file'.entries = Append(old, entry)
      /\ file'.there = file.there /\ file'.head = file.head
  BY <1>1, <1>4 DEF File
<1>7. promised' = promised /\ promised = {} /\ AllThere /\ rows' = rows
  BY <1>1 DEF SaveRest, PromiseOK
<1>8. AllThere'
  <2>1. \A i \in 1 .. p + 1 : i \in 1 .. p \/ i = p + 1
    BY <1>1
  <2> QED
    BY <1>1, <1>3, <1>5, <1>6, <1>7, <2>1 DEF AllThere
<1>9. saver'.at = "end" => p + 1 = rows
  <2>1. CASE IsLast(p)
    BY <2>1 DEF IsLast
  <2>2. CASE ~IsLast(p)
    BY <1>1, <2>2 DEF SaveRest, Saver
  <2> QED
    BY <2>1, <2>2
<1> QED
  BY <1>5, <1>6, <1>7, <1>8, <1>9 DEF PromiseOK

(* The one thing that can come between a promise and the next start: an    *)
(* entry in front of it whose size is saved and whose buffer is not.       *)
NothingSwallowed == phase # "running" => \A p \in Pieces : ~Swallows(p)

(* Nothing in the file stops the loader before it has read them all.       *)
LEMMA StartKeepsPromise ==
  ASSUME FileInv, PromiseOK, NothingSwallowed, Start
  PROVE  promised \subseteq Had'
<1> SUFFICES ASSUME NEW p \in promised PROVE p \in Had'
  OBVIOUS
<1>1. /\ p \in Pieces /\ p \in Nat /\ AllThere /\ p < Len(file.entries)
      /\ file.entries[p + 1].state = "Done" /\ Len(file.entries) \in Nat
  BY LenProperties DEF PromiseOK, FileInv, FileTypes, File, Pieces
<1>2. \A q \in 0 .. p : q \in Pieces /\ q < Len(file.entries) /\ q + 1 \in 1 .. Len(file.entries)
  BY <1>1 DEF Pieces
<1>3. \A q \in 0 .. p : \A k \in 1 .. AllFields : HasField(q, k)
  <2> SUFFICES ASSUME NEW q \in 0 .. p, NEW k \in 1 .. AllFields PROVE HasField(q, k)
    OBVIOUS
  <2>1. q < Len(file.entries) /\ file.entries[q + 1].fields = AllFields
    BY <1>1, <1>2 DEF AllThere
  <2>2. AllFields >= k
    BY DEF AllFields
  <2> QED
    BY <2>1, <2>2 DEF HasField
<1>4. \A q \in 0 .. p - 1 : q \in 0 .. p /\ Aligned(q)
  <2>1. phase # "running"
    BY DEF Start
  <2>2. AllFields \in 1 .. AllFields /\ \A q \in 0 .. p - 1 : q \in 0 .. p
    BY <1>1 DEF AllFields
  <2> QED
    BY <1>2, <1>3, <2>1, <2>2 DEF NothingSwallowed, Aligned
<1>5. LoadedState(p) = "Done"
  <2>1. Readable(p)
    BY <1>1, <1>4 DEF Readable, AllThere
  <2>2. HasField(p, 1)
    BY <1>1, <1>3 DEF AllFields
  <2> QED
    BY <1>1, <2>1, <2>2 DEF LoadedState
<1>6. state'[p] = LoadedState(p)
  BY <1>1 DEF Start, AllThere
<1> QED
  BY <1>1, <1>5, <1>6 DEF Had

(* What a whole file says is Done is Done after the next start, however    *)
(* often the program is killed and wherever a kill cuts the file, as long  *)
(* as no buffer of a Missing piece was saved by its size alone.  That is   *)
(* the only way in which try_load loses what try_save has saved.  Such a   *)
(* buffer is left by a piece half received, by a block that                *)
(* store_block_piece refuses, and by a cut file, from which try_load makes *)
(* a buffer of an uninitialised size.                                      *)
THEOREM LoadsWhatWasSaved == FileSpec /\ []NothingSwallowed => LoadKeepsDone
<1>1. FileInit => PromiseOK
  BY DEF FileInit, PromiseOK, IdleSaver
<1>2. FileInv /\ PromiseOK /\ [FileNext]_allVars => PromiseOK'
  BY PromiseStays, SaveRestPromises
<1>3. FileInv /\ PromiseOK /\ NothingSwallowed /\ [FileNext]_allVars =>
        [phase # "running" /\ phase' = "running" => promised \subseteq Had']_allVars
  <2> SUFFICES ASSUME FileInv, PromiseOK, NothingSwallowed, [FileNext]_allVars,
                      phase # "running", phase' = "running"
               PROVE  promised \subseteq Had'
    OBVIOUS
  <2>1. Start
    BY DEF FileNext, allVars, fileVars, Connections, SaveBegin, SaveState, SaveRest, SaveEnd,
           LeaveLoop, Kill
  <2> QED
    BY <2>1, StartKeepsPromise
<1> QED
  BY <1>1, <1>2, <1>3, FileInvCorrect, PTL DEF FileSpec, LoadKeepsDone

-----------------------------------------------------------------------------
(* Pieces of one block                                                     *)

(***************************************************************************)
(* NothingSwallowed speaks of a run.  That it holds follows from the       *)
(* constants when a piece is one block, peers are honest and the program   *)
(* is killed once at most.  Then a block is a whole piece: every block     *)
(* that is handled completes its piece and is right.                       *)
(***************************************************************************)
OneBlock == BlockLen >= PieceLength /\ BadPeers = {}

Straight ==
  \A c \in Conns :
    LET m == conn[c].msg
    IN  /\ At(c, "handle") => m.begin = 0 /\ m.len = TotalSize(m.index) /\ m.byte = "good"
        /\ At(c, "verify") => conn[c].completed = Content(m.index)

(* No buffer is in the table for longer than a critical section, and a     *)
(* Done piece stays Done.                                                  *)
Improves ==
  \A p \in Pieces :
    /\ state[p] = "Done" => state'[p] = "Done"
    /\ buffer[p] = NoBuffer => buffer'[p] = NoBuffer

(* A block that is asked for is its whole piece.                           *)
LEMMA WholeBlock ==
  ASSUME OneBlock, NEW r \in Requests
  PROVE  r.begin = 0 /\ LenAt(r.index, r.begin) = TotalSize(r.index)
<1>1. r.begin \in Nat /\ r.begin < TotalSize(r.index) /\ r.begin % BlockLen = 0 /\ r.index \in Pieces
  BY RequestType
<1>2. TotalSize(r.index) <= PieceLength /\ TotalSize(r.index) \in Nat
  BY <1>1, TotalSizeType DEF TotalSize
<1>3. r.begin < BlockLen
  BY <1>1, <1>2 DEF OneBlock
<1>4. r.begin = 0
  BY <1>1, <1>3
<1> QED
  BY <1>2, <1>4 DEF LenAt, OneBlock

(* The steps that neither take nor handle a Piece message.                 *)
LEMMA CalmIsStraight ==
  ASSUME Straight, NEW c \in Conns, Calm(c)
  PROVE  Straight' /\ Improves
<1>1. Improves
  BY DEF Calm, Improves, table
<1>2. ASSUME NEW d \in Conns
      PROVE  LET m == conn'[d].msg
             IN  /\ conn'[d].pc = "handle" => m.begin = 0 /\ m.len = TotalSize(m.index) /\ m.byte = "good"
                 /\ conn'[d].pc = "verify" => conn'[d].completed = Content(m.index)
  <2>1. CASE d = c
    BY <2>1 DEF Calm, InHand
  <2>2. CASE d # c
    BY <2>2 DEF Calm, Straight, At
  <2> QED
    BY <2>1, <2>2
<1> QED
  BY <1>1, <1>2 DEF Straight, At, TotalSize, Content, Offsets

(* What a connection that handles a block of its piece holds.              *)
LEMMA OthersStraight ==
  ASSUME Straight, NEW c \in Conns, \A d \in Conns \ {c} : conn'[d] = conn[d],
         LET m == conn'[c].msg
         IN  /\ conn'[c].pc = "handle" => m.begin = 0 /\ m.len = TotalSize(m.index) /\ m.byte = "good"
             /\ conn'[c].pc = "verify" => conn'[c].completed = Content(m.index)
  PROVE  Straight'
<1>1. ASSUME NEW d \in Conns
      PROVE  LET m == conn'[d].msg
             IN  /\ conn'[d].pc = "handle" => m.begin = 0 /\ m.len = TotalSize(m.index) /\ m.byte = "good"
                 /\ conn'[d].pc = "verify" => conn'[d].completed = Content(m.index)
  <2>1. CASE d = c
    BY <2>1
  <2>2. CASE d # c
    BY <2>2 DEF Straight, At
  <2> QED
    BY <2>1, <2>2
<1> QED
  BY <1>1 DEF Straight, At, TotalSize, Content, Offsets

(* A block that comes is its whole piece, and right.                       *)
LEMMA RecvIsStraight ==
  ASSUME OneBlock, TypeOK, Straight, NEW c \in Conns, RecvPiece(c)
  PROVE  Straight' /\ Improves
<1> USE DEF At, Update
<1>1. PICK r \in Requests :
        \E m \in Answers(c, r) :
          conn' = [conn EXCEPT ![c] = [conn[c] EXCEPT
                     !.pc = "handle", !.msg = m, !.wasDone = state[r.index] = "Done",
                     !.owed[r] = @ - 1]]
  BY DEF RecvPiece
<1>2. PICK m \in Answers(c, r) :
          conn' = [conn EXCEPT ![c] = [conn[c] EXCEPT
                     !.pc = "handle", !.msg = m, !.wasDone = state[r.index] = "Done",
                     !.owed[r] = @ - 1]]
  BY <1>1
<1>3. m = [index |-> r.index, begin |-> r.begin, len |-> LenAt(r.index, r.begin), byte |-> "good"]
  BY DEF Answers, OneBlock
<1>4. m.begin = 0 /\ m.len = TotalSize(m.index) /\ m.byte = "good"
  BY <1>3, WholeBlock
<1>5. /\ \A d \in Conns \ {c} : conn'[d] = conn[d]
      /\ conn'[c].pc = "handle" /\ conn'[c].msg = m
  BY <1>2 DEF TypeOK, ConnRecord
<1>6. Straight'
  <2>1. conn'[c].pc # "verify"
    BY <1>5
  <2> QED
    BY <1>4, <1>5, <2>1, OthersStraight
<1>7. UNCHANGED table
  BY DEF RecvPiece
<1> QED
  BY <1>6, <1>7 DEF Improves, table

(* The block completes its piece: no block is left in a buffer, and no     *)
(* hash is wrong.                                                          *)
LEMMA HandlesWhole ==
  ASSUME OneBlock, TypeOK, Straight, NEW c \in Conns
  PROVE  /\ ~RefuseMisfit(c) /\ ~StoreOnly(c) /\ ~VerifyFail(c)
         /\ StoreAndTake(c) => Straight' /\ Improves
<1> USE DEF At, Update
<1> DEFINE m == conn[c].msg
           p == m.index
<1>1. p \in Pieces /\ TotalSize(p) \in Nat \ {0} /\ downloaded[p] \in Nat
  BY ConnFields, TotalSizeType DEF TypeOK, TableTypeOK
<1>2. conn[c].pc = "handle" => m.begin = 0 /\ m.len = TotalSize(p) /\ m.byte = "good"
  BY DEF Straight
<1>3. ~RefuseMisfit(c)
  BY <1>1, <1>2 DEF RefuseMisfit, Fits
<1>4. ~StoreOnly(c)
  BY <1>1, <1>2 DEF StoreOnly, StoreBlock
<1>5. ~VerifyFail(c)
  BY DEF VerifyFail, Verified, Straight
<1>6. ASSUME StoreAndTake(c) PROVE Straight' /\ Improves
  <2>1. Copied(p, 0, TotalSize(p), "good") = Content(p)
    <3>1. \A o \in Offsets(p) : o \in 0 .. 0 + TotalSize(p) - 1
      BY <1>1 DEF Offsets
    <3> QED
      BY <3>1 DEF Copied, Content
  <2>2. /\ conn' = [conn EXCEPT ![c] = [conn[c] EXCEPT !.pc = "verify", !.completed = Content(p)]]
        /\ state' = state /\ buffer' = [buffer EXCEPT ![p] = NoBuffer]
    BY <1>2, <1>6, <2>1 DEF StoreAndTake, TakeBuffer
  <2>3. /\ \A d \in Conns \ {c} : conn'[d] = conn[d]
        /\ conn'[c].pc = "verify" /\ conn'[c].completed = Content(p) /\ conn'[c].msg = m
    BY <2>2 DEF TypeOK, ConnRecord
  <2>4. Straight'
    <3>1. conn'[c].pc # "handle"
      BY <2>3
    <3> QED
      BY <2>3, <3>1, OthersStraight
  <2>5. Improves
    BY <1>1, <2>2 DEF Improves, TypeOK, TableTypeOK
  <2> QED
    BY <2>4, <2>5
<1> QED
  BY <1>3, <1>4, <1>5, <1>6

(* The other steps of handle_piece, and the claim.                         *)
LEMMA MarksAreStraight ==
  ASSUME TypeOK, Straight, NEW c \in Conns,
         VerifyOk(c) \/ WriteFiles(c) \/ MarkDone(c) \/ Claim(c)
  PROVE  Straight' /\ Improves
<1> USE DEF At, Update
<1>1. /\ \A d \in Conns \ {c} : conn'[d] = conn[d]
      /\ conn'[c].pc \in {"write", "mark", "after", "loop"}
  <2>1. CASE VerifyOk(c)
    BY <2>1 DEF VerifyOk, Goto, TypeOK, ConnRecord
  <2>2. CASE WriteFiles(c)
    BY <2>2 DEF WriteFiles, Goto, TypeOK, ConnRecord
  <2>3. CASE MarkDone(c)
    BY <2>3 DEF MarkDone, TypeOK, ConnRecord
  <2>4. CASE Claim(c)
    BY <2>4 DEF Claim, TypeOK, ConnRecord
  <2> QED
    BY <2>1, <2>2, <2>3, <2>4
<1>2. Straight'
  <2>1. conn'[c].pc # "handle" /\ conn'[c].pc # "verify"
    BY <1>1
  <2> QED
    BY <1>1, <2>1, OthersStraight
<1>3. Improves
  <2>1. CASE VerifyOk(c) \/ WriteFiles(c)
    BY <2>1 DEF VerifyOk, WriteFiles, Improves, table
  <2>2. CASE MarkDone(c)
    BY <2>2, ConnFields DEF MarkDone, SetState, Improves, TypeOK, TableTypeOK
  <2>3. CASE Claim(c)
    BY <2>3, ConnFields DEF Claim, StillMissing, SetState, Improves, TypeOK, TableTypeOK
  <2> QED
    BY <2>1, <2>2, <2>3
<1> QED
  BY <1>2, <1>3

(* So it stays, whatever the connections do, and whatever is cleared.      *)
LEMMA NextIsStraight ==
  ASSUME OneBlock, TypeOK, Straight, [Next]_vars
  PROVE  Straight' /\ Improves
<1>1. CASE UNCHANGED vars
  BY <1>1 DEF vars, connVars, table, Straight, Improves, At, TotalSize, Content, Offsets
<1>2. CASE ClearDownloading
  <2>1. conn' = conn
    BY <1>2 DEF ClearDownloading
  <2>2. Straight'
    BY <2>1 DEF Straight, At, TotalSize, Content, Offsets
  <2> QED
    BY <1>2, <2>2 DEF ClearDownloading, ClearDownloadingPieces, Improves
<1>3. ASSUME NEW c \in Conns, Local(c) \/ Remote(c) \/ RecvChoke(c) \/ RecvOther(c) \/ Drop(c)
      PROVE  Straight' /\ Improves
  <2>1. CASE \/ Create(c) \/ LoopTest(c) \/ ReadBit(c) \/ IgnoreDone(c) \/ AfterPiece(c)
             \/ ScanFound(c) \/ ScanNext(c) \/ ScanNothing(c) \/ ClaimLost(c)
             \/ RecvUnchoke(c) \/ RecvHave(c) \/ RecvBitfield(c)
             \/ RecvChoke(c) \/ RecvOther(c) \/ Drop(c)
    BY <2>1, CalmSteps, CalmIsStraight
  <2>2. CASE RecvPiece(c)
    BY <2>2, RecvIsStraight
  <2>3. CASE RefuseMisfit(c) \/ StoreOnly(c) \/ StoreAndTake(c) \/ VerifyFail(c)
    BY <2>3, HandlesWhole
  <2>4. CASE VerifyOk(c) \/ WriteFiles(c) \/ MarkDone(c) \/ Claim(c)
    BY <2>4, MarksAreStraight
  <2> QED
    BY <1>3, <2>1, <2>2, <2>3, <2>4 DEF Local, Remote
<1> QED
  BY <1>1, <1>2, <1>3 DEF Next

DoneEntries == \A i \in 1 .. Len(file.entries) : file.entries[i].state = "Done"
BareEntries == \A i \in 1 .. Len(file.entries) : file.entries[i].buf = NoBuffer

(* The last save of a run finds the whole torrent Done, at every entry.    *)
LeavingOK ==
  /\ saver.leaving => \A p \in Rows : state[p] = "Done"
  /\ saver.leaving /\ saver.at # "idle" => DoneEntries
  /\ saver.leaving /\ saver.at = "rest" => saver.state = "Done"
  /\ phase = "over" => DoneEntries

(* As long as the program was not killed, no buffer is in the table        *)
(* between two steps, nor in the file.  A cut file ends that: then         *)
(* try_load uses a size that it has not read.                              *)
NeverKilled ==
  kills = 0 =>
    /\ rows = NumPieces /\ \A p \in Pieces : buffer[p] = NoBuffer
    /\ BareEntries /\ phase # "killed"
    /\ file.there => file.count = NumPieces
    /\ phase = "over" => AllThere /\ Len(file.entries) = NumPieces

Tidy == Straight /\ LeavingOK /\ NeverKilled /\ (phase = "killed" => BareEntries)

(* A file between two runs has nothing in it that the loader stumbles over.*)
LEMMA TidySwallowsNothing ==
  ASSUME FileInv, Tidy
  PROVE  NothingSwallowed
<1> SUFFICES ASSUME phase # "running", NEW p \in Pieces, HasField(p, 2),
                    file.entries[p + 1].buf # NoBuffer, file.entries[p + 1].state = "Missing"
             PROVE  FALSE
  BY DEF NothingSwallowed, Swallows
<1>1. p + 1 \in 1 .. Len(file.entries)
  <2>1. p \in Nat /\ Len(file.entries) \in Nat
    BY LenProperties DEF FileInv, FileTypes, File, Pieces
  <2> QED
    BY <2>1 DEF HasField
<1>2. phase \in {"killed", "over"}
  BY DEF FileInv, FileTypes
<1> QED
  BY <1>1, <1>2 DEF Tidy, LeavingOK, BareEntries, DoneEntries

(* The connections while the table is in use.                              *)
LEMMA ConnectionsTidy ==
  ASSUME OneBlock, FileInv, Tidy, [Next]_vars, UNCHANGED fileVars
  PROVE  Tidy'
<1>1. Straight' /\ Improves
  BY NextIsStraight DEF FileInv, Kept, Tidy
<1>2. UNCHANGED <<phase, rows, file, saver, promised, saves, kills>>
  BY DEF fileVars
<1>3. Rows' = Rows /\ Rows \subseteq Pieces
  BY <1>2 DEF Rows
<1>4. LeavingOK'
  BY <1>1, <1>2, <1>3 DEF Tidy, LeavingOK, Improves, DoneEntries
<1>5. NeverKilled'
  BY <1>1, <1>2 DEF Tidy, NeverKilled, Improves, BareEntries, AllThere
<1>6. phase' = "killed" => BareEntries'
  BY <1>2 DEF Tidy, BareEntries
<1> QED
  BY <1>1, <1>4, <1>5, <1>6 DEF Tidy

(* What is said of the connections is still true when they stand still.    *)
LEMMA StraightStays ==
  ASSUME Straight, UNCHANGED vars
  PROVE  Straight'
  BY DEF vars, connVars, Straight, At, TotalSize, Content, Offsets

(* The steps of try_save that append nothing.                              *)
LEMMA SaveTidy ==
  ASSUME FileInv, PromiseOK, Tidy, SaveBegin \/ SaveState \/ SaveEnd \/ LeaveLoop
  PROVE  Tidy'
<1>1. /\ saver \in Saver /\ file \in File /\ phase = "running" /\ rows \in {0, NumPieces}
      /\ Len(file.entries) \in Nat
  BY LenProperties DEF FileInv, FileTypes, File, SaveBegin, SaveState, SaveEnd, LeaveLoop
<1>2. UNCHANGED <<vars, rows, kills>>
  BY DEF SaveBegin, SaveState, SaveEnd, LeaveLoop
<1>3. Straight' /\ state' = state /\ buffer' = buffer /\ Rows' = Rows
  BY <1>2, StraightStays DEF Tidy, vars, table, Rows
<1>4. CASE SaveBegin
  <2>1. Len(file'.entries) = 0 /\ file'.count = rows
    BY <1>4, EmptySeq DEF SaveBegin, EmptyFile
  <2>2. DoneEntries' /\ BareEntries'
    BY <2>1 DEF DoneEntries, BareEntries
  <2>3. saver'.leaving = saver.leaving /\ saver'.at \in {"end", "state"} /\ phase' = "running"
    BY <1>1, <1>4 DEF SaveBegin, Saver
  <2>4. LeavingOK'
    BY <1>3, <2>2, <2>3 DEF Tidy, LeavingOK
  <2>5. NeverKilled'
    BY <1>2, <1>3, <2>1, <2>2, <2>3 DEF Tidy, NeverKilled
  <2> QED
    BY <1>3, <2>3, <2>4, <2>5 DEF Tidy
<1>5. CASE SaveState
  <2>1. /\ UNCHANGED <<file, phase>> /\ saver.at = "state"
        /\ saver'.leaving = saver.leaving /\ saver'.at = "rest"
        /\ saver'.state = SavedState(state[saver.piece])
    BY <1>1, <1>5 DEF SaveState, Saver
  <2>2. saver.leaving => state[saver.piece] = "Done"
    <3>1. rows = NumPieces /\ saver.piece \in Pieces
      BY <1>1, <2>1 DEF FileInv, SaverOK, Saver
    <3>2. saver.piece \in Rows
      BY <3>1 DEF Rows, Pieces
    <3> QED
      BY <3>2 DEF Tidy, LeavingOK
  <2>3. LeavingOK'
    BY <1>1, <1>3, <2>1, <2>2 DEF Tidy, LeavingOK, DoneEntries, SavedState
  <2>4. NeverKilled'
    BY <1>2, <1>3, <2>1 DEF Tidy, NeverKilled, BareEntries, AllThere
  <2> QED
    BY <1>1, <1>3, <2>1, <2>3, <2>4 DEF Tidy
<1>6. CASE SaveEnd
  <2>1. /\ file' = file /\ saver.at = "end" /\ saver'.at = "idle"
        /\ saver'.leaving = saver.leaving
        /\ phase' = IF saver.leaving THEN "over" ELSE "running"
    BY <1>1, <1>6 DEF SaveEnd, IdleSaver, Saver
  <2>2. LeavingOK'
    BY <1>3, <2>1 DEF Tidy, LeavingOK, DoneEntries
  <2>3. AllThere /\ Len(file.entries) = rows
    BY <2>1 DEF PromiseOK
  <2>4. NeverKilled'
    BY <1>2, <1>3, <2>1, <2>3 DEF Tidy, NeverKilled, BareEntries, AllThere
  <2> QED
    BY <1>3, <2>1, <2>2, <2>4 DEF Tidy
<1>7. CASE LeaveLoop
  <2>1. /\ UNCHANGED <<file, phase>> /\ saver'.at = "idle"
        /\ \A p \in Rows : state[p] = "Done"
    BY <1>1, <1>7 DEF LeaveLoop, Saver, AllDone
  <2>2. LeavingOK'
    BY <1>1, <1>3, <2>1 DEF LeavingOK
  <2>3. NeverKilled'
    BY <1>2, <1>3, <2>1 DEF Tidy, NeverKilled, BareEntries, AllThere
  <2> QED
    BY <1>1, <1>3, <2>1, <2>2, <2>3 DEF Tidy
<1> QED
  BY <1>4, <1>5, <1>6, <1>7

(* The entry that is appended.                                             *)
LEMMA SaveRestTidy ==
  ASSUME FileInv, Tidy, SaveRest
  PROVE  Tidy'
<1> DEFINE p == saver.piece
           old == file.entries
           entry == [state |-> saver.state, buf |-> buffer[p],
                     downloaded |-> downloaded[p], fields |-> AllFields]
<1>1. /\ saver \in Saver /\ p \in Pieces /\ file \in File /\ old \in Seq(Entry)
      /\ saver.at = "rest" /\ Len(old) \in Nat /\ phase = "running"
  BY LenProperties DEF FileInv, FileTypes, Saver, File, SaveRest
<1>2. entry \in Entry
  BY <1>1 DEF FileInv, Kept, TypeOK, TableTypeOK, Entry, AllFields, Saver
<1>3. entry.state = saver.state /\ entry.buf = buffer[p]
  OBVIOUS
<1>4. file' = [file EXCEPT !.entries = Append(old, entry)] /\ UNCHANGED <<vars, phase, rows, kills>>
  BY DEF SaveRest
<1> HIDE DEF entry
<1>5. /\ Len(Append(old, entry)) = Len(old) + 1
      /\ \A i \in 1 .. Len(old) : Append(old, entry)[i] = old[i]
      /\ Append(old, entry)[Len(old) + 1] = entry
  BY <1>1, <1>2, AppendProperties
<1>6. /\ file'.entries = Append(old, entry)
      /\ file'.there = file.there /\ file'.count = file.count
  BY <1>1, <1>4 DEF File
<1>7. \A i \in 1 .. Len(file'.entries) :
        file'.entries[i] = entry \/ (i \in 1 .. Len(old) /\ file'.entries[i] = old[i])
  BY <1>1, <1>5, <1>6
<1>8. Straight' /\ state' = state /\ buffer' = buffer /\ Rows' = Rows
  BY <1>4, StraightStays DEF Tidy, vars, table, Rows
<1>9. saver'.leaving = saver.leaving /\ saver'.at \in {"end", "state"}
  BY <1>1 DEF SaveRest, Saver
<1>10. LeavingOK'
  <2>1. saver.leaving => saver.state = "Done" /\ DoneEntries
    BY <1>1 DEF Tidy, LeavingOK
  <2>2. saver.leaving => DoneEntries'
    BY <1>3, <1>7, <2>1 DEF DoneEntries
  <2> QED
    BY <1>1, <1>4, <1>8, <1>9, <2>2 DEF Tidy, LeavingOK
<1>11. NeverKilled'
  <2>1. kills = 0 => BareEntries /\ buffer[p] = NoBuffer
    BY <1>1 DEF Tidy, NeverKilled
  <2>2. kills = 0 => BareEntries'
    BY <1>3, <1>7, <2>1 DEF BareEntries
  <2> QED
    BY <1>1, <1>4, <1>6, <1>8, <2>2 DEF Tidy, NeverKilled
<1> QED
  BY <1>1, <1>4, <1>8, <1>10, <1>11 DEF Tidy

(* A cut adds nothing to a file.                                           *)
LEMMA CutBare ==
  ASSUME FileTypes, BareEntries, CutShort
  PROVE  BareEntries'
<1> DEFINE old == file.entries
<1>1. /\ file \in File /\ Len(old) \in Nat
      /\ \A i \in 1 .. Len(old) : old[i] \in Entry
  BY LenProperties, ElementOfSeq DEF FileTypes, File
<1>2. CASE \E h \in KeptFields .. 2 : file' = [file EXCEPT !.head = h, !.entries = << >>]
  <2>1. file'.entries = << >>
    BY <1>1, <1>2 DEF File
  <2> QED
    BY <2>1, EmptySeq DEF BareEntries
<1>3. ASSUME NEW n \in 1 .. Len(old), NEW k \in 1 .. AllFields,
             file' = [file EXCEPT !.entries = CutAt(n, k)]
      PROVE  BareEntries'
  <2>1. file'.entries = CutAt(n, k)
    BY <1>1, <1>3 DEF File
  <2>2. n \in Nat /\ \A i \in 1 .. n : i \in 1 .. Len(old)
    BY <1>1
  <2>3. \A e \in Entry : [e EXCEPT !.fields = k] \in Entry /\ [e EXCEPT !.fields = k].buf = e.buf
    BY DEF Entry
  <2>4. \A i \in 1 .. n : CutAt(n, k)[i] \in Entry /\ CutAt(n, k)[i].buf = old[i].buf
    BY <1>1, <2>2, <2>3 DEF CutAt
  <2>5. CutAt(n, k) \in Seq(Entry)
    <3>1. Seq(Entry) = UNION {[1 .. m -> Entry] : m \in Nat}
      BY SeqDef
    <3>2. CutAt(n, k) \in [1 .. n -> Entry]
      BY <2>4 DEF CutAt
    <3> QED
      BY <2>2, <3>1, <3>2
  <2>6. Len(CutAt(n, k)) = n
    <3>1. DOMAIN CutAt(n, k) = 1 .. n
      BY DEF CutAt
    <3> QED
      BY <2>2, <2>5, <3>1, LenProperties
  <2> QED
    BY <2>1, <2>2, <2>4, <2>6 DEF BareEntries
<1> QED
  BY <1>2, <1>3 DEF CutShort

(* The one kill.                                                           *)
LEMMA KillTidy ==
  ASSUME MaxKills <= 1, FileInv, Tidy, Kill
  PROVE  Tidy'
<1>1. kills = 0 /\ kills' = 1 /\ phase' = "killed" /\ saver' = IdleSaver /\ UNCHANGED vars
  BY DEF Kill, FileInv, FileTypes
<1>2. BareEntries
  BY <1>1 DEF Tidy, NeverKilled
<1>3. BareEntries'
  <2>1. CASE file' = file
    BY <1>2, <2>1 DEF BareEntries
  <2>2. CASE CutShort
    BY <1>2, <2>2, CutBare DEF FileInv
  <2> QED
    BY <2>1, <2>2 DEF Kill
<1>4. Straight'
  BY <1>1, StraightStays DEF Tidy
<1>5. LeavingOK' /\ NeverKilled'
  BY <1>1 DEF LeavingOK, NeverKilled, IdleSaver
<1> QED
  BY <1>3, <1>4, <1>5 DEF Tidy

(* The next start.  Without a kill it reads a whole file, entry by entry.  *)
LEMMA StartTidy ==
  ASSUME FileInv, Tidy, Start
  PROVE  Tidy'
<1>1. /\ phase' = "running" /\ saver' = IdleSaver /\ conn' = [c \in Conns |-> NewConn]
      /\ UNCHANGED <<file, kills>> /\ phase \in {"killed", "over"}
  BY DEF Start
<1>2. Straight'
  <2>1. \A c \in Conns : conn'[c].pc = "new"
    BY <1>1 DEF NewConn
  <2> QED
    BY <2>1 DEF Straight, At
<1>3. LeavingOK'
  BY <1>1 DEF LeavingOK, IdleSaver
<1>4. ASSUME kills = 0
      PROVE  rows' = NumPieces /\ \A p \in Pieces : buffer'[p] = NoBuffer
  <2>1. /\ AllThere /\ Len(file.entries) = NumPieces /\ file.count = NumPieces /\ BareEntries
    BY <1>1, <1>4 DEF Tidy, NeverKilled, AllThere
  <2>2. \A p \in Pieces : p < Len(file.entries) /\ p + 1 \in 1 .. Len(file.entries) /\ p \in Nat
    BY <2>1 DEF Pieces
  <2>3. \A p \in Pieces : \A k \in 1 .. AllFields : HasField(p, k)
    <3>1. \A p \in Pieces : file.entries[p + 1].fields = AllFields
      BY <2>1, <2>2 DEF AllThere
    <3> QED
      BY <2>2, <3>1 DEF HasField, AllFields
  <2>4. \A p \in Pieces : file.entries[p + 1].buf = NoBuffer
    BY <2>1, <2>2 DEF BareEntries
  <2>5. \A p \in Pieces : Aligned(p)
    <3>1. AllFields \in 1 .. AllFields
      BY DEF AllFields
    <3> QED
      BY <2>3, <2>4, <3>1 DEF Aligned, Swallows
  <2>6. \A p \in Pieces : Readable(p)
    <3>1. \A p \in Pieces : \A q \in 0 .. p - 1 : q \in Pieces
      BY DEF Pieces
    <3> QED
      BY <2>1, <2>5, <3>1 DEF Readable, AllThere
  <2>7. Unsized = {}
    <3>1. 2 \in 1 .. AllFields
      BY DEF AllFields
    <3> QED
      BY <2>3, <2>6, <3>1 DEF Unsized
  <2>8. PICK junk \in SUBSET Unsized :
          rows' \in LoadedRows /\ buffer' = [p \in Pieces |-> LoadedBuffer(p, junk)]
    BY <2>1 DEF Start, AllThere
  <2>9. \A p \in Pieces : LoadedBuffer(p, junk) = NoBuffer
    BY <2>4, <2>7 DEF LoadedBuffer
  <2>10. rows' = NumPieces
    BY <2>1, <2>8 DEF LoadedRows, AllThere
  <2> QED
    BY <2>8, <2>9, <2>10
<1>5. NeverKilled'
  <2>1. kills = 0 => BareEntries /\ (file.there => file.count = NumPieces)
    BY DEF Tidy, NeverKilled
  <2> QED
    BY <1>1, <1>4, <2>1 DEF NeverKilled, BareEntries
<1> QED
  BY <1>1, <1>2, <1>3, <1>5 DEF Tidy

(* Every step keeps it.                                                    *)
LEMMA FileNextTidy ==
  ASSUME OneBlock, MaxKills <= 1
  PROVE  FileInv /\ PromiseOK /\ Tidy /\ [FileNext]_allVars => Tidy'
<1> SUFFICES ASSUME FileInv, PromiseOK, Tidy, [FileNext]_allVars PROVE Tidy'
  OBVIOUS
<1>1. CASE Connections \/ UNCHANGED allVars
  BY <1>1, ConnectionsTidy DEF Connections, allVars
<1>2. CASE SaveBegin \/ SaveState \/ SaveEnd \/ LeaveLoop
  BY <1>2, SaveTidy
<1>3. CASE SaveRest
  BY <1>3, SaveRestTidy
<1>4. CASE Kill
  BY <1>4, KillTidy
<1>5. CASE Start
  BY <1>5, StartTidy
<1> QED
  BY <1>1, <1>2, <1>3, <1>4, <1>5 DEF FileNext

(* When a piece is one block, peers are honest and the program is killed   *)
(* once at most, what a whole file says is Done is Done after the next     *)
(* start: no save catches a buffer in the table.  try_load, try_save, for  *)
(* any number of pieces, connections, saves and clears, and any cut.       *)
THEOREM OneBlockPiecesComeBack ==
  ASSUME BlockLen >= PieceLength, BadPeers = {}, MaxKills <= 1
  PROVE  FileSpec => LoadKeepsDone
<1>1. OneBlock
  BY DEF OneBlock
<1>2. FileInit => PromiseOK /\ Tidy
  <2> SUFFICES ASSUME FileInit PROVE PromiseOK /\ Tidy
    OBVIOUS
  <2>1. file.there = FALSE /\ Len(file.entries) = 0
    BY EmptySeq DEF FileInit, NoFile
  <2>2. PromiseOK
    BY DEF FileInit, PromiseOK, IdleSaver
  <2>3. Straight
    BY DEF FileInit, Init, NewConn, Straight, At
  <2>4. LeavingOK
    BY DEF FileInit, IdleSaver, LeavingOK
  <2>5. NeverKilled
    BY <2>1 DEF FileInit, Init, TableInit, NeverKilled, BareEntries
  <2> QED
    BY <2>2, <2>3, <2>4, <2>5 DEF Tidy, FileInit
<1>3. FileInv /\ PromiseOK /\ [FileNext]_allVars => PromiseOK'
  BY PromiseStays, SaveRestPromises
<1>4. FileInv /\ PromiseOK /\ Tidy /\ [FileNext]_allVars => Tidy'
  BY <1>1, FileNextTidy
<1>5. FileInv /\ Tidy => NothingSwallowed
  BY TidySwallowsNothing
<1> QED
  BY <1>2, <1>3, <1>4, <1>5, FileInvCorrect, LoadsWhatWasSaved, PTL DEF FileSpec

-----------------------------------------------------------------------------
(* The store with a record                                                 *)

(* A cut file names no piece that the file did not name.                   *)
LEMMA CutLoses ==
  ASSUME FileTypes, CutShort
  PROVE  Recorded' \subseteq Recorded
<1> SUFFICES ASSUME NEW p \in Pieces, p < Len(file'.entries),
                    file'.entries[p + 1].state = "Done"
             PROVE  p < Len(file.entries) /\ file.entries[p + 1].state = "Done"
  BY DEF Recorded
<1> DEFINE old == file.entries
<1>1. /\ file \in File /\ old \in Seq(Entry) /\ Len(old) \in Nat /\ p \in Nat
      /\ \A i \in 1 .. Len(old) : old[i] \in Entry
  BY LenProperties, ElementOfSeq DEF FileTypes, File, Pieces
<1>2. CASE \E h \in KeptFields .. 2 : file' = [file EXCEPT !.head = h, !.entries = << >>]
  <2>1. file'.entries = << >>
    BY <1>1, <1>2 DEF File
  <2> QED
    BY <1>1, <2>1, EmptySeq
<1>3. ASSUME NEW n \in 1 .. Len(old), NEW k \in 1 .. AllFields,
             file' = [file EXCEPT !.entries = CutAt(n, k)]
      PROVE  p < Len(old) /\ old[p + 1].state = "Done"
  <2>1. file'.entries = CutAt(n, k)
    BY <1>1, <1>3 DEF File
  <2>2. n \in Nat /\ n <= Len(old) /\ \A i \in 1 .. n : i \in 1 .. Len(old)
    BY <1>1
  <2>3. /\ \A e \in Entry : [e EXCEPT !.fields = k] \in Entry
                            /\ [e EXCEPT !.fields = k].state = e.state
    BY DEF Entry
  <2>4. \A i \in 1 .. n : CutAt(n, k)[i] \in Entry /\ CutAt(n, k)[i].state = old[i].state
    BY <1>1, <2>2, <2>3 DEF CutAt
  <2>5. CutAt(n, k) \in Seq(Entry)
    <3>1. CutAt(n, k) \in [1 .. n -> Entry]
      BY <2>2, <2>4 DEF CutAt
    <3>2. Seq(Entry) = UNION {[1 .. m -> Entry] : m \in Nat}
      BY SeqDef
    <3> QED
      BY <2>2, <3>1, <3>2
  <2>6. Len(CutAt(n, k)) = n
    <3>1. DOMAIN CutAt(n, k) = 1 .. n
      BY DEF CutAt
    <3> QED
      BY <2>2, <2>5, <3>1, LenProperties
  <2>7. p < n /\ p + 1 \in 1 .. n
    BY <1>1, <2>1, <2>2, <2>6
  <2> QED
    BY <2>1, <2>2, <2>4, <2>7, <1>1
<1> QED
  BY <1>2, <1>3 DEF CutShort

(* An appended entry notes its piece if it is Done: a piece that was so    *)
(* when its state was read is in the files.                                *)
LEMMA SaveRestNotes ==
  ASSUME FileInv, SaveRest
  PROVE  \/ \E p \in Pieces : p \in Safe /\ Recorded' = Recorded \cup {p}
         \/ Recorded' = Recorded
<1> DEFINE p == saver.piece
           old == file.entries
           entry == [state |-> saver.state, buf |-> buffer[p],
                     downloaded |-> downloaded[p], fields |-> AllFields]
<1>1. /\ saver \in Saver /\ p \in Pieces /\ file \in File /\ old \in Seq(Entry)
      /\ saver.at = "rest" /\ Len(old) = p /\ p \in Nat
      /\ saver.state = "Done" => p \in Safe
  BY LenProperties DEF FileInv, FileTypes, SaverOK, Saver, File, SaveRest
<1>2. entry \in Entry
  BY <1>1 DEF FileInv, Kept, TypeOK, TableTypeOK, Entry, AllFields, Saver
<1>3. entry.state = saver.state
  OBVIOUS
<1>4. file' = [file EXCEPT !.entries = Append(old, entry)]
  BY DEF SaveRest
<1> HIDE DEF entry
<1>5. /\ Len(Append(old, entry)) = p + 1
      /\ \A i \in 1 .. p : Append(old, entry)[i] = old[i]
      /\ Append(old, entry)[p + 1] = entry
  BY <1>1, <1>2, AppendProperties
<1>6. file'.entries = Append(old, entry)
  BY <1>1, <1>4 DEF File
<1>7. \A q \in Pieces : /\ q < p + 1 <=> q < p \/ q = p
                        /\ q < p => q + 1 \in 1 .. p
  BY <1>1 DEF Pieces
<1>8. \A q \in Pieces : q \in Recorded' <=> q \in Recorded \/ (q = p /\ saver.state = "Done")
  BY <1>1, <1>3, <1>5, <1>6, <1>7 DEF Recorded
<1>9. Recorded \subseteq Pieces /\ Recorded' \subseteq Pieces
  BY DEF Recorded
<1>10. CASE saver.state = "Done"
  BY <1>1, <1>8, <1>9, <1>10
<1>11. CASE saver.state # "Done"
  BY <1>8, <1>9, <1>11
<1> QED
  BY <1>10, <1>11

(* try_load takes up only what the file says.                              *)
LEMMA StartRestarts ==
  ASSUME FileInv, Start
  PROVE  Record!Restart
<1>1. Recorded' = Recorded /\ Stored' = Stored
  BY DEF Start, Recorded, Stored
<1>2. ASSUME NEW p \in Pieces, state'[p] = "Done"
      PROVE  p \in Recorded
  <2>1. CASE ~file.there
    BY <1>2, <2>1 DEF Start
  <2>2. CASE file.there
    <3>1. state'[p] = LoadedState(p)
      BY <2>2 DEF Start
    <3> QED
      BY <1>2, <3>1 DEF LoadedState, HasField, Recorded
  <2> QED
    BY <2>1, <2>2
<1>3. Had' \subseteq Recorded
  BY <1>2 DEF Had
<1> QED
  BY <1>1, <1>3 DEF Record!Restart

LEMMA FileNextRecords ==
  ASSUME FileInv, [FileNext]_allVars
  PROVE  Record!SavedNext \/ UNCHANGED <<Stored, Had, Recorded>>
<1>1. CASE Connections
  <2>1. Store!Next \/ UNCHANGED <<Stored, Had>>
    BY <1>1, NextImplements DEF Connections, FileInv
  <2>2. Recorded' = Recorded
    BY <1>1 DEF Connections, fileVars, Recorded
  <2>3. Store!Next => Record!Next
    BY DEF Store!Next, Store!Store, Store!Report, Store!Forget,
           Record!Next, Record!Store, Record!Report, Record!Forget
  <2> QED
    BY <2>1, <2>2, <2>3 DEF Record!SavedNext, Record!Live
<1>2. ASSUME UNCHANGED vars PROVE UNCHANGED <<Stored, Had>>
  BY <1>2 DEF vars, table, Stored, Had
<1>3. CASE SaveBegin
  <2>1. file'.entries = << >>
    BY <1>3 DEF SaveBegin, EmptyFile
  <2>2. Recorded' = {}
    BY <2>1, EmptySeq DEF Recorded, Pieces
  <2> QED
    BY <1>2, <1>3, <2>2 DEF SaveBegin, Record!SavedNext, Record!Lose
<1>4. CASE SaveRest
  <2>1. UNCHANGED <<Stored, Had>>
    BY <1>2, <1>4 DEF SaveRest
  <2> QED
    BY <1>4, <2>1, SaveRestNotes DEF Safe, Record!SavedNext, Record!Note
<1>5. CASE Kill
  <2>1. UNCHANGED <<Stored, Had>>
    BY <1>2, <1>5 DEF Kill
  <2>2. Recorded' \subseteq Recorded
    <3>1. CASE UNCHANGED file
      BY <3>1 DEF Recorded
    <3>2. CASE CutShort
      BY <3>2, CutLoses DEF FileInv
    <3> QED
      BY <1>5, <3>1, <3>2 DEF Kill
  <2> QED
    BY <2>1, <2>2 DEF Record!SavedNext, Record!Lose
<1>6. CASE Start
  BY <1>6, StartRestarts DEF Record!SavedNext
<1>7. CASE SaveState \/ SaveEnd \/ LeaveLoop \/ UNCHANGED allVars
  <2>1. UNCHANGED vars /\ UNCHANGED file
    BY <1>7 DEF SaveState, SaveEnd, LeaveLoop, allVars, fileVars
  <2> QED
    BY <1>2, <2>1 DEF Recorded
<1> QED
  BY <1>1, <1>3, <1>4, <1>5, <1>6, <1>7 DEF FileNext

(* Across any saves, kills and restarts, with connections that go on while *)
(* the table is saved and files cut anywhere, the table, the files and the *)
(* state file are a store with a record: a piece comes back as Done only   *)
(* if a save noted it after its content had reached the files, and the     *)
(* files never lose what they have.                                        *)
THEOREM RestartsKeepTheRecord == FileSpec => ImplementsRecord
<1>1. FileInit => Record!SavedInit
  <2> SUFFICES ASSUME FileInit PROVE Record!SavedInit
    OBVIOUS
  <2>1. Stored = {} /\ Had = {}
    BY InitImplements DEF FileInit, Init, Store!Init
  <2>2. Recorded = {}
    BY EmptySeq DEF FileInit, NoFile, Recorded, Pieces
  <2> QED
    BY <2>1, <2>2 DEF Record!SavedInit, Record!Init
<1>2. FileInv /\ [FileNext]_allVars => [Record!SavedNext]_<<Stored, Had, Recorded>>
  BY FileNextRecords
<1> QED
  BY <1>1, <1>2, FileInvCorrect, PTL DEF FileSpec, ImplementsRecord, Record!SavedSpec
=============================================================================
