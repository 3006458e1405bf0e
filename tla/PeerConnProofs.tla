--------------------------- MODULE PeerConnProofs ---------------------------
(***************************************************************************)
(* Theorems about PeerConn, for any number of connections, pieces and      *)
(* clears, any sizes, and peers that send wrong or too long blocks; and    *)
(* then what is true as long as no piece is cleared and no peer sends a    *)
(* wrong block.                                                            *)
(***************************************************************************)
EXTENDS PeerConn, SumLemmas

USE SizesAssumption, LossyAssumption, PeersAssumption

(* The buffers of a piece are buffers.                                     *)
LEMMA BuffersOf ==
  /\ NoBuffer \in Buffers
  /\ \A p \in Pieces : [Offsets(p) -> Byte] \subseteq Buffers
  BY DEF Buffers

(* Every piece, the last one included, has at least one byte.              *)
LEMMA TotalSizeType == \A p \in Pieces : TotalSize(p) \in Nat \ {0}
  BY DEF TotalSize, Pieces

(* The length of a request is a number, and positive.                      *)
LEMMA LenAtType ==
  ASSUME NEW p \in Pieces, NEW o \in BlocksOf(p)
  PROVE  LenAt(p, o) \in Nat \ {0}
  BY TotalSizeType DEF LenAt, BlocksOf, Offsets

(* A block copied into a piece's buffer gives a buffer of that piece.      *)
LEMMA CopiedType ==
  ASSUME NEW p \in Pieces, IsBuffer(p, buffer[p]),
         NEW begin, NEW len, NEW byte \in Byte
  PROVE  /\ Copied(p, begin, len, byte) \in [Offsets(p) -> Byte]
         /\ Room(p) \in [Offsets(p) -> Byte]
  BY DEF Copied, Room, IsBuffer, Byte

-----------------------------------------------------------------------------
(* Types                                                                   *)

(* Changing one field of a connection to a value of its type.              *)
LEMMA Fields ==
  ASSUME NEW r \in ConnRecord
  PROVE /\ \A x \in Places : [r EXCEPT !.pc = x] \in ConnRecord
        /\ \A x \in Pieces : [r EXCEPT !.cursor = x] \in ConnRecord
        /\ \A x \in {"unchoke", "piece"} : [r EXCEPT !.caller = x] \in ConnRecord
        /\ \A x \in BOOLEAN :
             /\ [r EXCEPT !.wasDone = x] \in ConnRecord
             /\ [r EXCEPT !.peerChoking = x] \in ConnRecord
             /\ [r EXCEPT !.amInterested = x] \in ConnRecord
             /\ [r EXCEPT !.told = x] \in ConnRecord
             /\ [r EXCEPT !.gotBitfield = x] \in ConnRecord
             /\ [r EXCEPT !.exhausted = x] \in ConnRecord
        /\ \A x \in SUBSET Pieces :
             /\ [r EXCEPT !.bitfield = x] \in ConnRecord
             /\ [r EXCEPT !.fetched = x] \in ConnRecord
             /\ [r EXCEPT !.heard = x] \in ConnRecord
  BY DEF ConnRecord

(* The same for the fields that hold messages, buffers and requests.       *)
LEMMA DataFields ==
  ASSUME NEW r \in ConnRecord
  PROVE /\ \A x \in [index : Pieces, begin : Nat, len : Nat, byte : Byte] :
             [r EXCEPT !.msg = x] \in ConnRecord
        /\ \A x \in Buffers : [r EXCEPT !.completed = x] \in ConnRecord
        /\ \A x \in [Requests -> Nat] : [r EXCEPT !.owed = x] \in ConnRecord
  BY DEF ConnRecord

(* Every place a coroutine can be at, and the message that stands for      *)
(* none, have their types.                                                 *)
LEMMA Constants ==
  /\ 0 \in Pieces
  /\ \A p \in Pieces : p + 1 < NumPieces \/ p + 1 # NumPieces => p + 1 \in Pieces
  /\ {"new", "loop", "idle", "bitfield", "handle", "verify", "write", "mark",
      "after", "scan", "claim", "closed"} \subseteq Places
  /\ NoMsg \in [index : Pieces, begin : Nat, len : Nat, byte : Byte]
  BY DEF Pieces, Places, NoMsg, Byte

(* Replacing one connection's record by another one keeps conn typed.      *)
LEMMA UpdateType ==
  ASSUME TypeOK, NEW c \in Conns
  PROVE  /\ conn[c] \in ConnRecord
         /\ \A r \in ConnRecord : Update(c, r) => conn' \in [Conns -> ConnRecord]
  BY DEF Update, TypeOK

(* A connection starts with values of the right types.                     *)
LEMMA NewConnType == NewConn \in ConnRecord
  BY BuffersOf DEF NewConn, ConnRecord, NoMsg, Places, Pieces, Byte

(* So does everything else.                                                *)
LEMMA InitTypeOK == Init => TypeOK
  BY NewConnType, BuffersOf DEF Init, TypeOK, TableInit, TableTypeOK, IsBuffer

(* An action that leaves the table and the files alone keeps their types.  *)
LEMMA TableUnchanged == TypeOK /\ UNCHANGED <<table, disk>> => TableTypeOK'
  BY DEF TypeOK, TableTypeOK, IsBuffer, table

(* The message of a connection, and where it puts its block.               *)
LEMMA MessageType ==
  ASSUME TypeOK, NEW c \in Conns
  PROVE  LET m == conn[c].msg
         IN  /\ m.index \in Pieces /\ m.begin \in Nat /\ m.len \in Nat /\ m.byte \in Byte
             /\ Copied(m.index, m.begin, m.len, m.byte) \in [Offsets(m.index) -> Byte]
             /\ Room(m.index) \in [Offsets(m.index) -> Byte]
<1>1. /\ conn[c].msg.index \in Pieces /\ conn[c].msg.begin \in Nat
      /\ conn[c].msg.len \in Nat /\ conn[c].msg.byte \in Byte
  BY DEF TypeOK, ConnRecord
<1>2. IsBuffer(conn[c].msg.index, buffer[conn[c].msg.index])
  BY <1>1 DEF TypeOK, TableTypeOK
<1>3. QED
  BY <1>1, <1>2, CopiedType

(* The fields of a connection's record, one by one.                        *)
LEMMA ConnFields ==
  ASSUME TypeOK, NEW c \in Conns
  PROVE  /\ conn[c].cursor \in Pieces /\ conn[c].msg.index \in Pieces
         /\ conn[c].caller \in {"unchoke", "piece"}
         /\ conn[c].bitfield \in SUBSET Pieces /\ conn[c].fetched \in SUBSET Pieces
         /\ conn[c].heard \in SUBSET Pieces /\ conn[c].told \in BOOLEAN
         /\ conn[c].completed \in Buffers
         /\ conn[c].owed \in [Requests -> Nat]
  BY DEF TypeOK, ConnRecord

(* What a coroutine does by itself keeps its own state typed.              *)
LEMMA LocalConnType ==
  ASSUME TypeOK, NEW c \in Conns, Local(c)
  PROVE  conn' \in [Conns -> ConnRecord]
<1> USE Fields, DataFields, BuffersOf, Constants, UpdateType
<1> USE ConnFields
<1>1. CASE Create(c)
  BY <1>1 DEF Create, IsDoneScan
<1>2. CASE LoopTest(c)
  BY <1>2 DEF LoopTest, Goto, IsDoneScan
<1>3. CASE ReadBit(c)
  <2> DEFINE p == conn[c].cursor
             got == IF p \in conn[c].bitfield /\ state[p] # "Missing"
                    THEN conn[c].fetched \cup {p} ELSE conn[c].fetched
             last == p + 1 = NumPieces
             all == got = conn[c].bitfield
             r1 == [conn[c] EXCEPT !.pc = IF last THEN "loop" ELSE "bitfield",
                                   !.cursor = IF last THEN 0 ELSE p + 1]
             r2 == [r1 EXCEPT !.fetched = got]
             r3 == [r2 EXCEPT !.exhausted = @ \/ (last /\ all)]
             r4 == [r3 EXCEPT !.amInterested = @ \/ (last /\ ~all)]
             r5 == [r4 EXCEPT !.told = @ \/ (last /\ ~all /\ ~conn[c].peerChoking)]
  <2>1. (IF last THEN "loop" ELSE "bitfield") \in Places
    OBVIOUS
  <2>2. (IF last THEN 0 ELSE p + 1) \in Pieces
    OBVIOUS
  <2>3. \A x \in Places, y \in Pieces : [conn[c] EXCEPT !.pc = x, !.cursor = y] \in ConnRecord
    OBVIOUS
  <2>4. r1 \in ConnRecord
    BY ONLY <2>1, <2>2, <2>3
  <2>5. got \in SUBSET Pieces
    OBVIOUS
  <2>6. r2 \in ConnRecord
    BY ONLY <2>4, <2>5, Fields
  <2>7. r3 \in ConnRecord
    BY <2>6
  <2>8. r4 \in ConnRecord
    BY <2>7
  <2>9. (r4.told \/ (last /\ ~all /\ ~conn[c].peerChoking)) \in BOOLEAN
    OBVIOUS
  <2>10. r5 \in ConnRecord
    BY ONLY <2>8, <2>9, Fields
  <2>11. Update(c, r5)
    BY <1>3 DEF ReadBit
  <2>12. QED
    BY <2>10, <2>11
<1>4. CASE IgnoreDone(c)
  BY <1>4 DEF IgnoreDone, Goto
<1>5. CASE RefuseMisfit(c)
  BY <1>5 DEF RefuseMisfit, Goto
<1>6. CASE StoreOnly(c)
  BY <1>6 DEF StoreOnly, Goto
<1>7. CASE StoreAndTake(c)
  <2> DEFINE m == conn[c].msg
             r1 == [conn[c] EXCEPT !.pc = "verify"]
  <2>1. r1 \in ConnRecord
    OBVIOUS
  <2>2. [r1 EXCEPT !.completed = Copied(m.index, m.begin, m.len, m.byte)] \in ConnRecord
    BY <2>1, MessageType
  <2>3. QED
    BY <1>7, <2>2 DEF StoreAndTake
<1>8. CASE VerifyOk(c)
  BY <1>8 DEF VerifyOk, Goto
<1>9. CASE VerifyFail(c)
  BY <1>9 DEF VerifyFail
<1>10. CASE WriteFiles(c)
  BY <1>10 DEF WriteFiles, Goto
<1>11. CASE MarkDone(c)
  <2> DEFINE got == conn[c].fetched \cup {conn[c].msg.index}
             r1 == [conn[c] EXCEPT !.pc = "after", !.completed = NoBuffer, !.fetched = got]
             r2 == [r1 EXCEPT !.exhausted = @ \/ got = conn[c].bitfield]
  <2>1. r1 \in ConnRecord
    OBVIOUS
  <2>2. r2 \in ConnRecord
    BY <2>1
  <2>3. Update(c, r2)
    BY <1>11 DEF MarkDone
  <2>4. QED
    BY <2>2, <2>3
<1>12. CASE AfterPiece(c)
  BY <1>12 DEF AfterPiece
<1>13. CASE ScanFound(c)
  BY <1>13 DEF ScanFound, Goto
<1>14. CASE ScanNext(c)
  BY <1>14 DEF ScanNext
<1>15. CASE ScanNothing(c)
  BY <1>15 DEF ScanNothing, ReturnFalse
<1>16. CASE ClaimLost(c)
  BY <1>16 DEF ClaimLost, ReturnFalse
<1>17. CASE Claim(c)
  <2> DEFINE p == conn[c].cursor
             r1 == [conn[c] EXCEPT !.pc = "loop", !.cursor = 0, !.caller = "unchoke"]
             more == [r \in Requests |->
                        IF r.index = p THEN conn[c].owed[r] + 1 ELSE conn[c].owed[r]]
  <2>1. r1 \in ConnRecord
    OBVIOUS
  <2>2. more \in [Requests -> Nat]
    OBVIOUS
  <2>3. [r1 EXCEPT !.owed = more] \in ConnRecord
    BY <2>1, <2>2
  <2>4. Update(c, [r1 EXCEPT !.owed = more])
    BY <1>17 DEF Claim
  <2>5. QED
    BY <2>3, <2>4
<1>18. QED
  BY <1>1, <1>2, <1>3, <1>4, <1>5, <1>6, <1>7, <1>8, <1>9, <1>10, <1>11, <1>12, <1>13, <1>14, <1>15, <1>16, <1>17 DEF Local

(* What a coroutine does to the table and the files keeps them typed.      *)
LEMMA LocalTableType ==
  ASSUME TypeOK, NEW c \in Conns, Local(c)
  PROVE  TableTypeOK' /\ UNCHANGED <<clears, chokes>>
<1>1. CASE UNCHANGED <<table, disk, clears, chokes>>
  BY <1>1, TableUnchanged DEF table
<1>2. CASE RefuseMisfit(c)
  BY <1>2, MessageType, BuffersOf DEF RefuseMisfit, RefuseBlock, TypeOK, TableTypeOK, IsBuffer
<1>3. CASE StoreOnly(c)
  <2> DEFINE m == conn[c].msg
             p == m.index
             copied == Copied(p, m.begin, m.len, m.byte)
  <2>1. /\ p \in Pieces /\ m.len \in Nat
        /\ copied \in [Offsets(p) -> Byte] /\ copied \in Buffers
    BY MessageType, BuffersOf
  <2>2. /\ downloaded' = [downloaded EXCEPT ![p] = @ + m.len]
        /\ buffer' = [buffer EXCEPT ![p] = copied]
        /\ UNCHANGED <<state, disk, clears, chokes>>
    BY <1>3 DEF StoreOnly, StoreBlock
  <2>3. QED
    BY <2>1, <2>2 DEF TypeOK, TableTypeOK, IsBuffer
<1>4. CASE StoreAndTake(c)
  BY <1>4, MessageType, BuffersOf DEF StoreAndTake, TakeBuffer, TypeOK, TableTypeOK, IsBuffer
<1>5. CASE VerifyFail(c)
  BY <1>5, MessageType, BuffersOf DEF VerifyFail, ResetPiece, TypeOK, TableTypeOK, IsBuffer
<1>6. CASE WriteFiles(c)
  BY <1>6, ConnFields DEF WriteFiles, TypeOK, TableTypeOK, table
<1>7. CASE MarkDone(c)
  BY <1>7, MessageType, BuffersOf DEF MarkDone, SetState, TypeOK, TableTypeOK, IsBuffer
<1>8. CASE Claim(c)
  BY <1>8, ConnFields DEF Claim, SetState, TypeOK, TableTypeOK, IsBuffer
<1>9. QED
  BY <1>1, <1>2, <1>3, <1>4, <1>5, <1>6, <1>7, <1>8
     DEF Local, Create, LoopTest, IsDoneScan, ReadBit, IgnoreDone, VerifyOk, AfterPiece,
         ScanFound, ScanNext, ScanNothing, ClaimLost

(* A message that is received keeps everything typed.                      *)
LEMMA RemoteTypeOK ==
  ASSUME TypeOK, NEW c \in Conns, Remote(c)
  PROVE  TypeOK'
<1> USE Fields, DataFields, BuffersOf, Constants, UpdateType, ConnFields
<1>1. UNCHANGED <<table, disk, clears, chokes>>
  BY DEF Remote, RecvUnchoke, RecvHave, RecvBitfield, RecvPiece
<1>2. SUFFICES conn' \in [Conns -> ConnRecord]
  BY <1>1, TableUnchanged DEF TypeOK
<1>3. CASE RecvUnchoke(c)
  BY <1>3 DEF RecvUnchoke
<1>4. CASE RecvHave(c)
  <2>1. PICK p \in Has[c] :
          LET heeded == conn[c].gotBitfield /\ p \notin conn[c].bitfield
          IN  Update(c, [conn[c] EXCEPT
                !.pc = "loop",
                !.heard = @ \cup {p},
                !.bitfield = IF heeded THEN @ \cup {p} ELSE @,
                !.fetched = IF heeded /\ state[p] # "Missing" THEN @ \cup {p} ELSE @])
    BY <1>4 DEF RecvHave
  <2> DEFINE heeded == conn[c].gotBitfield /\ p \notin conn[c].bitfield
             bits == IF heeded THEN conn[c].bitfield \cup {p} ELSE conn[c].bitfield
             got == IF heeded /\ state[p] # "Missing"
                    THEN conn[c].fetched \cup {p} ELSE conn[c].fetched
             heard == conn[c].heard \cup {p}
             r == [conn[c] EXCEPT !.pc = "loop", !.heard = heard]
  <2>2. p \in Pieces
    BY PeersAssumption
  <2>3. bits \in SUBSET Pieces /\ got \in SUBSET Pieces /\ heard \in SUBSET Pieces
    BY <2>2
  <2>4. r \in ConnRecord
    BY <2>3
  <2>5. [r EXCEPT !.bitfield = bits, !.fetched = got] \in ConnRecord
    BY ONLY <2>3, <2>4, Fields
  <2>6. Update(c, [r EXCEPT !.bitfield = bits, !.fetched = got])
    BY ONLY <2>1
  <2>7. QED
    BY <2>5, <2>6
<1>5. CASE RecvBitfield(c)
  BY <1>5 DEF RecvBitfield
<1>6. CASE RecvPiece(c)
  <2>0. PICK r \in Requests :
          /\ conn[c].owed[r] > 0
          /\ \E m \in Answers(c, r) :
               Update(c, [conn[c] EXCEPT !.pc = "handle", !.msg = m,
                                         !.wasDone = state[r.index] = "Done",
                                         !.owed[r] = @ - 1])
    BY <1>6 DEF RecvPiece
  <2>1. PICK m \in Answers(c, r) :
             Update(c, [conn[c] EXCEPT !.pc = "handle", !.msg = m,
                                       !.wasDone = state[r.index] = "Done",
                                       !.owed[r] = @ - 1])
    BY <2>0
  <2> DEFINE left == [conn[c].owed EXCEPT ![r] = @ - 1]
             r1 == [conn[c] EXCEPT !.pc = "handle", !.msg = m]
  <2>2. m \in [index : Pieces, begin : Nat, len : Nat, byte : Byte]
    BY LenAtType DEF Answers, Requests, BlocksOf, Offsets, Byte
  <2>3. r1 \in ConnRecord
    BY <2>2
  <2>4. [r1 EXCEPT !.wasDone = state[r.index] = "Done"] \in ConnRecord
    BY ONLY <2>3, Fields
  <2>5. left \in [Requests -> Nat]
    BY <2>0
  <2>6. [[r1 EXCEPT !.wasDone = state[r.index] = "Done"] EXCEPT !.owed = left] \in ConnRecord
    BY ONLY <2>4, <2>5, DataFields
  <2>7. Update(c, [[r1 EXCEPT !.wasDone = state[r.index] = "Done"] EXCEPT !.owed = left])
    BY <2>1
  <2>8. QED
    BY <2>6, <2>7
<1>7. QED
  BY <1>3, <1>4, <1>5, <1>6 DEF Remote

(* Every step keeps the types.                                             *)
LEMMA NextTypeOK == TypeOK /\ [Next]_vars => TypeOK'
<1> SUFFICES ASSUME TypeOK, [Next]_vars PROVE TypeOK'
  OBVIOUS
<1>1. ASSUME NEW c \in Conns, Local(c) PROVE TypeOK'
  BY <1>1, LocalConnType, LocalTableType DEF TypeOK
<1>2. ASSUME NEW c \in Conns, Remote(c) PROVE TypeOK'
  BY <1>2, RemoteTypeOK
<1>3. ASSUME NEW c \in Conns, RecvChoke(c) PROVE TypeOK'
  <2>1. UNCHANGED <<table, disk, clears>> /\ chokes' = [chokes EXCEPT ![c] = @ + 1]
    BY <1>3 DEF RecvChoke
  <2>2. conn' \in [Conns -> ConnRecord]
    BY <1>3, Fields, DataFields, Constants, UpdateType DEF RecvChoke
  <2>3. TableTypeOK'
    BY <2>1, TableUnchanged
  <2>4. chokes' \in [Conns -> Nat] /\ clears' \in Nat
    BY <2>1 DEF TypeOK
  <2>5. QED
    BY <2>2, <2>3, <2>4 DEF TypeOK
<1>4. ASSUME NEW c \in Conns, RecvOther(c) PROVE TypeOK'
  <2>1. UNCHANGED <<table, disk, clears, chokes>>
    BY <1>4 DEF RecvOther
  <2>2. conn' \in [Conns -> ConnRecord]
    BY <1>4, Fields, Constants, UpdateType DEF RecvOther, Goto
  <2>3. QED
    BY <2>1, <2>2, TableUnchanged DEF TypeOK
<1>5. ASSUME NEW c \in Conns, Drop(c) PROVE TypeOK'
  <2>1. UNCHANGED <<table, disk, clears, chokes>>
    BY <1>5 DEF Drop
  <2>2. conn' \in [Conns -> ConnRecord]
    BY <1>5, NewConnType, Fields, Constants, UpdateType DEF Drop
  <2>3. QED
    BY <2>1, <2>2, TableUnchanged DEF TypeOK
<1>6. CASE ClearDownloading
  <2>1. UNCHANGED <<disk, conn, chokes>> /\ clears' = clears + 1
    BY <1>6 DEF ClearDownloading
  <2>2. TableTypeOK'
    BY <1>6, BuffersOf
       DEF ClearDownloading, ClearDownloadingPieces, TypeOK, TableTypeOK, IsBuffer
  <2>3. QED
    BY <2>1, <2>2 DEF TypeOK
<1>7. CASE UNCHANGED vars
  BY <1>7, TableUnchanged DEF vars, connVars, TypeOK
<1>8. QED
  BY <1>1, <1>2, <1>3, <1>4, <1>5, <1>6, <1>7 DEF Next

(* The table, the files and every connection keep their types.             *)
THEOREM TypeCorrect == Spec => []TypeOK
  BY InitTypeOK, NextTypeOK, PTL DEF Spec

-----------------------------------------------------------------------------
(* DoneOnDisk and FullCountIsDecided                                       *)
(*                                                                         *)
(* DoneOnDisk is not inductive: MarkDone needs to know what the connection *)
(* wrote two steps before, which is HeldContent.  HeldContent is, because  *)
(* the buffer was moved out of the table: nothing another connection does  *)
(* reaches it, and what another connection writes to the piece's files is  *)
(* the same verified content.                                              *)

Kept == TypeOK /\ HeldContent /\ DoneOnDisk

(* The part that a restart keeps, and the part that it does not: a count   *)
(* comes back from the state file, its buffer and its connection do not.   *)
Inv == Kept /\ FullCountIsDecided

InHand == {"verify", "write", "mark"}

(* A step of c that touches no shared state, outside the part of           *)
(* handle_piece that follows the first critical section.                   *)
Quiet(c) ==
  /\ UNCHANGED <<table, disk>>
  /\ \A d \in Conns \ {c} : conn'[d] = conn[d]
  /\ conn[c].pc \notin InHand /\ conn'[c].pc \notin InHand

(* A quiet step keeps the invariant: no buffer changes hands.              *)
LEMMA QuietKeeps ==
  ASSUME Kept, TypeOK', NEW c \in Conns, Quiet(c)
  PROVE  Kept' /\ (FullCountIsDecided => FullCountIsDecided')
<1>1. state' = state /\ downloaded' = downloaded /\ disk' = disk
  BY DEF Quiet, table
<1>2. HeldContent'
  BY <1>1 DEF Quiet, Kept, HeldContent, InHand
<1>3. DoneOnDisk'
  BY <1>1 DEF Kept, DoneOnDisk
<1>4. ASSUME NEW p \in Pieces PROVE Deciding(p) \subseteq Deciding(p)'
  BY DEF Quiet, Deciding, InHand
<1>5. FullCountIsDecided => FullCountIsDecided'
  BY <1>1, <1>4 DEF FullCountIsDecided
<1>6. QED
  BY <1>2, <1>3, <1>5 DEF Kept

(* Most of what a coroutine does by itself, and all it does when it        *)
(* receives a message, is quiet.                                           *)
LEMMA LocalQuiet ==
  ASSUME TypeOK, NEW c \in Conns,
         \/ Create(c) \/ LoopTest(c) \/ ReadBit(c) \/ IgnoreDone(c) \/ AfterPiece(c)
         \/ ScanFound(c) \/ ScanNext(c) \/ ScanNothing(c) \/ ClaimLost(c)
         \/ Remote(c) \/ RecvChoke(c) \/ RecvOther(c) \/ Drop(c)
  PROVE  Quiet(c)
<1> USE DEF Quiet, InHand, At, Update
<1>0. conn = [d \in Conns |-> conn[d]] /\ "pc" \in DOMAIN conn[c]
  BY DEF TypeOK, ConnRecord
<1>a. ASSUME conn[c].pc \notin InHand, NEW x, x \notin InHand, IsDoneScan(c, x)
      PROVE  Quiet(c)
  <2> DEFINE p == conn[c].cursor
  <2>1. CASE state[p] # "Done"
    <3>1. /\ conn' = [conn EXCEPT ![c] = [conn[c] EXCEPT !.pc = x, !.cursor = 0]]
          /\ UNCHANGED <<table, disk>>
      BY <2>1, <1>a DEF IsDoneScan
    <3>2. conn'[c].pc = x /\ \A d \in Conns \ {c} : conn'[d] = conn[d]
      BY <3>1, <1>0
    <3>3. QED
      BY <3>1, <3>2, <1>a
  <2>2. CASE state[p] = "Done" /\ p + 1 < NumPieces
    BY <2>2, <1>a, <1>0 DEF IsDoneScan
  <2>3. CASE state[p] = "Done" /\ ~(p + 1 < NumPieces)
    BY <2>3, <1>a, <1>0 DEF IsDoneScan
  <2>4. QED
    BY <2>1, <2>2, <2>3
<1>1. CASE Create(c)
  BY <1>1, <1>a DEF Create
<1>2. CASE LoopTest(c)
  BY <1>2, <1>a, <1>0 DEF LoopTest, Goto
<1>3. CASE ReadBit(c)
  BY <1>3, <1>0 DEF ReadBit
<1>4. CASE IgnoreDone(c)
  BY <1>4, <1>0 DEF IgnoreDone, Goto
<1>5. CASE AfterPiece(c)
  BY <1>5, <1>0 DEF AfterPiece
<1>6. CASE ScanFound(c)
  BY <1>6, <1>0 DEF ScanFound, Goto
<1>7. CASE ScanNext(c)
  BY <1>7, <1>0 DEF ScanNext
<1>8. CASE ScanNothing(c)
  BY <1>8, <1>0 DEF ScanNothing, ReturnFalse
<1>9. CASE ClaimLost(c)
  BY <1>9, <1>0 DEF ClaimLost, ReturnFalse
<1>10. CASE Remote(c)
  <2>1. CASE RecvUnchoke(c)
    BY <2>1, <1>0 DEF RecvUnchoke
  <2>2. CASE RecvHave(c)
    <3>1. PICK p \in Has[c] :
            LET heeded == conn[c].gotBitfield /\ p \notin conn[c].bitfield
            IN  Update(c, [conn[c] EXCEPT
                  !.pc = "loop",
                  !.heard = @ \cup {p},
                  !.bitfield = IF heeded THEN @ \cup {p} ELSE @,
                  !.fetched = IF heeded /\ state[p] # "Missing" THEN @ \cup {p} ELSE @])
      BY <2>2 DEF RecvHave
    <3> DEFINE heeded == conn[c].gotBitfield /\ p \notin conn[c].bitfield
    <3>2. CASE heeded /\ state[p] # "Missing"
      BY <2>2, <3>1, <3>2, <1>0 DEF RecvHave
    <3>3. CASE heeded /\ state[p] = "Missing"
      BY <2>2, <3>1, <3>3, <1>0 DEF RecvHave
    <3>4. CASE ~heeded
      BY <2>2, <3>1, <3>4, <1>0 DEF RecvHave
    <3>5. QED
      BY <3>2, <3>3, <3>4
  <2>3. CASE RecvBitfield(c)
    BY <2>3, <1>0 DEF RecvBitfield
  <2>4. CASE RecvPiece(c)
    <3>1. PICK r \in Requests : \E m \in Answers(c, r) :
            Update(c, [conn[c] EXCEPT !.pc = "handle", !.msg = m,
                                      !.wasDone = state[r.index] = "Done",
                                      !.owed[r] = @ - 1])
      BY <2>4 DEF RecvPiece
    <3>2. PICK m \in Answers(c, r) :
            Update(c, [conn[c] EXCEPT !.pc = "handle", !.msg = m,
                                      !.wasDone = state[r.index] = "Done",
                                      !.owed[r] = @ - 1])
      BY <3>1
    <3>3. conn[c].pc = "idle" /\ UNCHANGED <<table, disk>>
      BY <2>4 DEF RecvPiece
    <3>4. QED
      BY <3>2, <3>3, <1>0
  <2>5. QED
    BY <1>10, <2>1, <2>2, <2>3, <2>4 DEF Remote
<1>11. CASE RecvChoke(c)
  BY <1>11, <1>0 DEF RecvChoke
<1>12. CASE RecvOther(c)
  BY <1>12, <1>0 DEF RecvOther, Goto
<1>13. CASE Drop(c)
  BY <1>13, <1>0 DEF Drop, NewConn
<1>14. QED
  BY <1>1, <1>2, <1>3, <1>4, <1>5, <1>6, <1>7, <1>8, <1>9, <1>10, <1>11, <1>12, <1>13

(* The step takes c from one place to another, in the same message, and    *)
(* leaves the other connections where they are.                            *)
Moves(c, from, to) ==
  /\ conn[c].pc = from /\ conn'[c].pc = to
  /\ conn'[c].msg = conn[c].msg
  /\ \A d \in Conns \ {c} : conn'[d] = conn[d]

(* The steps of handle_piece that are not quiet move one connection from a *)
(* place to the next one and leave its message and the other connections   *)
(* alone.                                                                  *)
LEMMA HandlerMoves ==
  ASSUME TypeOK, NEW c \in Conns
  PROVE  /\ RefuseMisfit(c) \/ StoreOnly(c) => Moves(c, "handle", "after")
         /\ StoreAndTake(c) => Moves(c, "handle", "verify")
         /\ VerifyOk(c) => /\ Moves(c, "verify", "write")
                           /\ conn'[c].completed = conn[c].completed
         /\ VerifyFail(c) => Moves(c, "verify", "after")
         /\ WriteFiles(c) => Moves(c, "write", "mark")
         /\ MarkDone(c) => Moves(c, "mark", "after")
         /\ Claim(c) => Moves(c, "claim", "loop")
<1> USE DEF At, Update, Goto, Moves
<1>0. conn = [d \in Conns |-> conn[d]] /\ {"pc", "msg", "completed"} \subseteq DOMAIN conn[c]
  BY DEF TypeOK, ConnRecord
<1>1. RefuseMisfit(c) \/ StoreOnly(c) => Moves(c, "handle", "after")
  BY <1>0 DEF RefuseMisfit, StoreOnly
<1>2. StoreAndTake(c) => Moves(c, "handle", "verify")
  BY <1>0 DEF StoreAndTake
<1>3. VerifyOk(c) => Moves(c, "verify", "write") /\ conn'[c].completed = conn[c].completed
  BY <1>0 DEF VerifyOk
<1>4. VerifyFail(c) => Moves(c, "verify", "after")
  BY <1>0 DEF VerifyFail
<1>5. WriteFiles(c) => Moves(c, "write", "mark")
  BY <1>0 DEF WriteFiles
<1>6. ASSUME MarkDone(c) PROVE Moves(c, "mark", "after")
  <2>1. conn[c].pc = "mark"
    BY <1>6 DEF MarkDone
  <2>2. PICK g, e : conn' = [conn EXCEPT ![c] =
                      [conn[c] EXCEPT !.pc = "after", !.completed = NoBuffer,
                                      !.fetched = g, !.exhausted = e]]
    BY <1>6 DEF MarkDone
  <2>3. QED
    BY <1>0, <2>1, <2>2
<1>7. Claim(c) => Moves(c, "claim", "loop")
  BY <1>0 DEF Claim
<1>8. QED
  BY <1>1, <1>2, <1>3, <1>4, <1>5, <1>6, <1>7

(* The steps of handle_piece and the claim keep the invariant.             *)
LEMMA HandlerKeeps ==
  ASSUME Kept, TypeOK', NEW c \in Conns,
         \/ RefuseMisfit(c) \/ StoreOnly(c) \/ StoreAndTake(c) \/ VerifyOk(c)
         \/ VerifyFail(c) \/ WriteFiles(c) \/ MarkDone(c) \/ Claim(c)
  PROVE  Kept' /\ (FullCountIsDecided => FullCountIsDecided')
<1> DEFINE p == conn[c].msg.index
<1>0. /\ TypeOK /\ HeldContent /\ DoneOnDisk
      /\ p \in Pieces /\ TotalSize(p) \in Nat \ {0} /\ downloaded \in [Pieces -> Nat]
      /\ state \in [Pieces -> {"Missing", "Downloading", "Done"}]
      /\ disk \in [Pieces -> Buffers] /\ conn[c].msg.len \in Nat
  BY MessageType, TotalSizeType DEF Kept, TypeOK, TableTypeOK
<1>1. CASE RefuseMisfit(c) \/ StoreOnly(c)
  <2>1. Moves(c, "handle", "after") /\ UNCHANGED <<state, disk>>
    BY <1>0, <1>1, HandlerMoves DEF RefuseMisfit, StoreOnly, RefuseBlock, StoreBlock
  <2>2. HeldContent' /\ DoneOnDisk'
    BY <1>0, <2>1 DEF Moves, HeldContent, DoneOnDisk
  <2>3. \A q \in Pieces : Deciding(q) \subseteq Deciding(q)'
    BY <2>1 DEF Moves, Deciding
  <2>4. \A q \in Pieces : downloaded'[q] >= TotalSize(q) => downloaded'[q] = downloaded[q]
    BY <1>0, <1>1 DEF RefuseMisfit, RefuseBlock, StoreOnly, StoreBlock
  <2>5. FullCountIsDecided => FullCountIsDecided'
    BY <1>0, <2>1, <2>3, <2>4 DEF FullCountIsDecided
  <2>6. QED
    BY <2>2, <2>5 DEF Kept
<1>2. CASE StoreAndTake(c)
  <2>1. Moves(c, "handle", "verify") /\ UNCHANGED <<state, disk>>
    BY <1>0, <1>2, HandlerMoves DEF StoreAndTake, TakeBuffer
  <2>2. HeldContent' /\ DoneOnDisk'
    BY <1>0, <2>1 DEF Moves, HeldContent, DoneOnDisk
  <2>3. \A q \in Pieces : Deciding(q) \subseteq Deciding(q)'
    BY <2>1 DEF Moves, Deciding
  <2>4. \A q \in Pieces : q = p => c \in Deciding(q)'
    BY <2>1 DEF Moves, Deciding
  <2>5. \A q \in Pieces \ {p} : downloaded'[q] = downloaded[q]
    BY <1>0, <1>2 DEF StoreAndTake, TakeBuffer
  <2>6. ASSUME FullCountIsDecided
        PROVE  \A q \in Pieces \ {p} :
                 downloaded'[q] >= TotalSize(q) /\ state'[q] # "Done" => Deciding(q)' # {}
    BY <1>0, <2>1, <2>3, <2>5, <2>6 DEF FullCountIsDecided
  <2>7. FullCountIsDecided => FullCountIsDecided'
    BY <2>4, <2>6 DEF FullCountIsDecided
  <2>8. QED
    BY <2>2, <2>7 DEF Kept
<1>3. CASE VerifyOk(c)
  <2>1. /\ Moves(c, "verify", "write") /\ UNCHANGED <<state, downloaded, disk>>
        /\ conn'[c].completed = Content(p)
    BY <1>0, <1>3, HandlerMoves DEF VerifyOk, Verified, table
  <2>2. HeldContent' /\ DoneOnDisk'
    BY <1>0, <2>1 DEF Moves, HeldContent, DoneOnDisk
  <2>3. \A q \in Pieces : Deciding(q) \subseteq Deciding(q)'
    BY <2>1 DEF Moves, Deciding
  <2>4. FullCountIsDecided => FullCountIsDecided'
    BY <1>0, <2>1, <2>3 DEF FullCountIsDecided
  <2>5. QED
    BY <2>2, <2>4 DEF Kept
<1>4. CASE VerifyFail(c)
  <2>1. /\ Moves(c, "verify", "after") /\ UNCHANGED disk
        /\ state' = [state EXCEPT ![p] = "Missing"]
        /\ downloaded' = [downloaded EXCEPT ![p] = 0]
    BY <1>0, <1>4, HandlerMoves DEF VerifyFail, ResetPiece
  <2>2. HeldContent' /\ DoneOnDisk'
    BY <1>0, <2>1 DEF Moves, HeldContent, DoneOnDisk
  <2>3. \A q \in Pieces \ {p} : Deciding(q) \subseteq Deciding(q)'
    BY <2>1 DEF Moves, Deciding
  <2>4. FullCountIsDecided => FullCountIsDecided'
    BY <1>0, <2>1, <2>3 DEF FullCountIsDecided
  <2>5. QED
    BY <2>2, <2>4 DEF Kept
<1>5. CASE WriteFiles(c)
  <2>1. /\ Moves(c, "write", "mark") /\ UNCHANGED <<state, downloaded>>
        /\ \/ disk' = [disk EXCEPT ![p] = conn[c].completed]
           \/ p \in LossyPieces /\ UNCHANGED disk
    BY <1>0, <1>5, HandlerMoves DEF WriteFiles, table
  <2>2. conn[c].completed = Content(p)
    BY <1>0, <2>1 DEF Moves, HeldContent
  <2>3. /\ \A q \in Pieces : disk[q] = Content(q) => disk'[q] = Content(q)
        /\ p \notin LossyPieces => disk'[p] = Content(p)
    BY <1>0, <2>1, <2>2
  <2>4. HeldContent'
    <3>1. \A d \in Conns : conn[d].msg.index \in Pieces
      BY <1>0, ConnFields
    <3>2. QED
      BY <1>0, <2>1, <2>3, <3>1 DEF Moves, HeldContent
  <2>5. DoneOnDisk'
    BY <1>0, <2>1, <2>3 DEF DoneOnDisk
  <2>6. \A q \in Pieces : Deciding(q) \subseteq Deciding(q)'
    BY <2>1 DEF Moves, Deciding
  <2>7. FullCountIsDecided => FullCountIsDecided'
    BY <1>0, <2>1, <2>6 DEF FullCountIsDecided
  <2>8. QED
    BY <2>4, <2>5, <2>7 DEF Kept
<1>6. CASE MarkDone(c)
  <2>1. /\ Moves(c, "mark", "after") /\ UNCHANGED <<downloaded, disk>>
        /\ state' = [state EXCEPT ![p] = "Done"]
    BY <1>0, <1>6, HandlerMoves DEF MarkDone, SetState
  <2>2. HeldContent' /\ DoneOnDisk'
    BY <1>0, <2>1 DEF Moves, HeldContent, DoneOnDisk
  <2>3. \A q \in Pieces \ {p} : Deciding(q) \subseteq Deciding(q)'
    BY <2>1 DEF Moves, Deciding
  <2>4. FullCountIsDecided => FullCountIsDecided'
    BY <1>0, <2>1, <2>3 DEF FullCountIsDecided
  <2>5. QED
    BY <2>2, <2>4 DEF Kept
<1>7. CASE Claim(c)
  <2>1. /\ Moves(c, "claim", "loop") /\ UNCHANGED <<downloaded, disk>>
        /\ \A q \in Pieces : state'[q] = "Done" <=> state[q] = "Done"
    BY <1>0, <1>7, HandlerMoves DEF Claim, StillMissing, SetState
  <2>2. HeldContent' /\ DoneOnDisk'
    BY <1>0, <2>1 DEF Moves, HeldContent, DoneOnDisk
  <2>3. \A q \in Pieces : Deciding(q) \subseteq Deciding(q)'
    BY <2>1 DEF Moves, Deciding
  <2>4. FullCountIsDecided => FullCountIsDecided'
    BY <1>0, <2>1, <2>3 DEF FullCountIsDecided
  <2>5. QED
    BY <2>2, <2>4 DEF Kept
<1>8. QED
  BY <1>1, <1>2, <1>3, <1>4, <1>5, <1>6, <1>7

(* A clear resets only pieces that are Downloading, and empties no hands.  *)
LEMMA ClearKeeps ==
  ASSUME Kept, TypeOK', ClearDownloadingPieces, UNCHANGED <<disk, conn>>
  PROVE  Kept' /\ (FullCountIsDecided => FullCountIsDecided')
<1>0. /\ TypeOK /\ HeldContent /\ DoneOnDisk
      /\ \A p \in Pieces : TotalSize(p) \in Nat \ {0}
  BY TotalSizeType DEF Kept
<1>1. /\ UNCHANGED <<disk, conn>>
      /\ \A p \in Pieces : state'[p] = "Done" <=> state[p] = "Done"
  BY DEF ClearDownloadingPieces
<1>2. HeldContent' /\ DoneOnDisk'
  BY <1>0, <1>1 DEF HeldContent, DoneOnDisk
<1>3. \A p \in Pieces : Deciding(p)' = Deciding(p)
  BY <1>1 DEF Deciding
<1>4. ASSUME NEW p \in Pieces, downloaded'[p] >= TotalSize(p)
      PROVE  downloaded'[p] = downloaded[p]
  <2>1. downloaded'[p] # 0
    BY <1>0, <1>4
  <2>2. downloaded'[p] = IF state[p] = "Downloading" THEN 0 ELSE downloaded[p]
    BY DEF ClearDownloadingPieces
  <2>3. QED
    BY <2>1, <2>2
<1>5. FullCountIsDecided => FullCountIsDecided'
  BY <1>0, <1>1, <1>3, <1>4 DEF FullCountIsDecided
<1>6. QED
  BY <1>2, <1>5 DEF Kept

(* Nothing is Done, counted or in anybody's hands at first.                *)
LEMMA InitInv == Init => Inv
<1> SUFFICES ASSUME Init PROVE Inv
  OBVIOUS
<1>1. TypeOK
  BY InitTypeOK
<1>2. HeldContent
  BY DEF Init, HeldContent, NewConn
<1>3. DoneOnDisk
  BY DEF Init, TableInit, DoneOnDisk
<1>4. FullCountIsDecided
  BY TotalSizeType DEF Init, TableInit, FullCountIsDecided
<1>5. QED
  BY <1>1, <1>2, <1>3, <1>4 DEF Inv, Kept

(* Every step keeps both parts of the invariant.                           *)
LEMMA NextKeeps ==
  ASSUME Kept, [Next]_vars
  PROVE  Kept' /\ (FullCountIsDecided => FullCountIsDecided')
<1>1. TypeOK /\ TypeOK'
  BY NextTypeOK DEF Kept
<1>2. ASSUME NEW c \in Conns, Local(c) \/ Remote(c) \/ RecvChoke(c) \/ RecvOther(c) \/ Drop(c)
      PROVE  Kept' /\ (FullCountIsDecided => FullCountIsDecided')
  BY <1>1, <1>2, LocalQuiet, QuietKeeps, HandlerKeeps DEF Local
<1>3. CASE ClearDownloading
  BY <1>1, <1>3, ClearKeeps DEF ClearDownloading
<1>4. CASE UNCHANGED vars
  BY <1>1, <1>4 DEF vars, connVars, table, Kept, HeldContent, DoneOnDisk,
                    FullCountIsDecided, Deciding
<1>5. QED
  BY <1>2, <1>3, <1>4 DEF Next

LEMMA NextInv == Inv /\ [Next]_vars => Inv'
  BY NextKeeps DEF Inv

(* The invariant holds in every reachable state.                           *)
THEOREM InvCorrect == Spec => []Inv
  BY InitInv, NextInv, PTL DEF Spec

(* A piece that is Done is in the files, whatever the connections, clears, *)
(* chokes, failures and wrong blocks before it was marked.                 *)
THEOREM DoneIsOnDisk == Spec => []DoneOnDisk
  BY InvCorrect, PTL DEF Inv, Kept

(* A full byte count is never left for nobody to resolve.                  *)
THEOREM FullCountGetsDecided == Spec => []FullCountIsDecided
  BY InvCorrect, PTL DEF Inv, Kept

(* What is written was verified, and stays in the files until it is marked.*)
THEOREM ContentIsHeld == Spec => []HeldContent
  BY InvCorrect, PTL DEF Inv, Kept

-----------------------------------------------------------------------------
(* The connections implement PieceStore                                    *)

(* The abstract store is empty at first: the files hold nothing.           *)
LEMMA InitImplements == TableInit => Store!Init
<1> SUFFICES ASSUME TableInit PROVE Stored = {} /\ Had = {}
  BY DEF Store!Init
<1>1. \A p \in Pieces : 0 \in DOMAIN Content(p) /\ 0 \notin DOMAIN NoBuffer
  BY TotalSizeType DEF Content, Offsets, NoBuffer
<1>2. \A p \in Pieces : disk[p] = NoBuffer /\ state[p] = "Missing"
  BY DEF TableInit
<1>3. QED
  BY <1>1, <1>2 DEF Stored, Had

(* A step that leaves the files and the Done pieces alone is a stutter.    *)
LEMMA StutterImplements ==
  ASSUME UNCHANGED disk, \A p \in Pieces : state'[p] = "Done" <=> state[p] = "Done"
  PROVE  UNCHANGED <<Stored, Had>>
  BY DEF Stored, Had

(* A step of a connection is a step of the store or leaves it alone: a write   *)
(* stores a piece, a mark reports it, a failed verification may forget it. *)
LEMMA ConnImplements ==
  ASSUME Kept, NEW d \in Conns,
         Local(d) \/ Remote(d) \/ RecvChoke(d) \/ RecvOther(d) \/ Drop(d)
  PROVE  Store!Next \/ UNCHANGED <<Stored, Had>>
<1>0. /\ TypeOK /\ HeldContent
      /\ state \in [Pieces -> {"Missing", "Downloading", "Done"}]
      /\ disk \in [Pieces -> Buffers]
  BY DEF Kept, TypeOK, TableTypeOK
<1>1. ASSUME NEW c \in Conns, WriteFiles(c)
      PROVE  Store!Next \/ UNCHANGED <<Stored, Had>>
  <2> DEFINE p == conn[c].msg.index
  <2>1. /\ p \in Pieces /\ UNCHANGED state /\ conn[c].completed = Content(p)
        /\ disk' = [disk EXCEPT ![p] = conn[c].completed] \/ UNCHANGED disk
    BY <1>0, <1>1, ConnFields DEF WriteFiles, At, HeldContent, table
  <2>2. Had' = Had
    BY <2>1 DEF Had
  <2>3. CASE disk' = [disk EXCEPT ![p] = conn[c].completed]
    <3>1. Stored' = Stored \cup {p}
      BY <1>0, <2>1, <2>3 DEF Stored
    <3>2. QED
      BY <2>1, <2>2, <3>1 DEF Store!Next, Store!Store
  <2>4. QED
    BY <2>1, <2>3, StutterImplements
<1>2. ASSUME NEW c \in Conns, MarkDone(c)
      PROVE  Store!Next
  <2> DEFINE p == conn[c].msg.index
  <2>1. /\ p \in Pieces /\ UNCHANGED disk /\ state' = [state EXCEPT ![p] = "Done"]
        /\ p \notin LossyPieces => disk[p] = Content(p)
    BY <1>0, <1>2, ConnFields DEF MarkDone, SetState, At, HeldContent
  <2>2. Stored' = Stored /\ Had' = Had \cup {p} /\ p \in Stored \cup LossyPieces
    BY <1>0, <2>1 DEF Stored, Had
  <2>3. QED
    BY <2>1, <2>2 DEF Store!Next, Store!Report
<1>3. ASSUME NEW c \in Conns, VerifyFail(c)
      PROVE  Store!Next
  <2> DEFINE p == conn[c].msg.index
  <2>1. p \in Pieces /\ UNCHANGED disk /\ state' = [state EXCEPT ![p] = "Missing"]
    BY <1>0, <1>3, ConnFields DEF VerifyFail, ResetPiece
  <2>2. Stored' = Stored /\ Had' = Had \ {p}
    BY <1>0, <2>1 DEF Stored, Had
  <2>3. QED
    BY <2>1, <2>2 DEF Store!Next, Store!Forget
<1>4. ASSUME NEW c \in Conns, Claim(c) \/ RefuseMisfit(c) \/ StoreOnly(c)
                              \/ StoreAndTake(c) \/ VerifyOk(c)
      PROVE  UNCHANGED <<Stored, Had>>
  <2>1. UNCHANGED disk /\ \A p \in Pieces : state'[p] = "Done" <=> state[p] = "Done"
    BY <1>0, <1>4, ConnFields DEF Claim, StillMissing, SetState, RefuseMisfit, RefuseBlock, StoreOnly,
       StoreBlock, StoreAndTake, TakeBuffer, VerifyOk, table
  <2>2. QED
    BY <2>1, StutterImplements
<1>5. ASSUME NEW c \in Conns, Local(c) \/ Remote(c) \/ RecvChoke(c) \/ RecvOther(c) \/ Drop(c)
      PROVE  Store!Next \/ UNCHANGED <<Stored, Had>>
  <2>1. Quiet(c) => UNCHANGED <<Stored, Had>>
    BY StutterImplements DEF Quiet, table
  <2>2. QED
    BY <1>0, <1>1, <1>2, <1>3, <1>4, <1>5, <2>1, LocalQuiet DEF Local
<1>6. QED
  BY <1>5

(* Nothing changes in a clear of the hung pieces.                                 *)
LEMMA ClearImplements ==
  ASSUME Kept, ClearDownloadingPieces, UNCHANGED disk
  PROVE  UNCHANGED <<Stored, Had>>
<1>1. \A p \in Pieces : state'[p] = "Done" <=> state[p] = "Done"
  BY DEF ClearDownloadingPieces
<1>2. QED
  BY <1>1, StutterImplements

(* So the whole next-state relation implements that of the store.          *)
LEMMA NextImplements ==
  Kept /\ [Next]_vars => Store!Next \/ UNCHANGED <<Stored, Had>>
<1> SUFFICES ASSUME Kept, [Next]_vars PROVE Store!Next \/ UNCHANGED <<Stored, Had>>
  OBVIOUS
<1>1. ASSUME NEW c \in Conns, Local(c) \/ Remote(c) \/ RecvChoke(c) \/ RecvOther(c) \/ Drop(c)
      PROVE  Store!Next \/ UNCHANGED <<Stored, Had>>
  BY <1>1, ConnImplements
<1>2. CASE ClearDownloading
  BY <1>2, ClearImplements DEF ClearDownloading
<1>3. CASE UNCHANGED vars
  BY <1>3, StutterImplements DEF vars, table
<1>4. QED
  BY <1>1, <1>2, <1>3 DEF Next

(* Content that is in the files stays there: whatever is written again was *)
(* verified.                                                               *)
LEMMA StoredGrows == Kept /\ [Next]_vars => Stored \subseteq Stored'
<1>1. Store!Next => Stored \subseteq Stored'
  BY DEF Store!Next, Store!Store, Store!Report, Store!Forget
<1>2. QED
  BY <1>1, NextImplements

(* A piece the table calls Done is stored, unless its writes may fail.     *)
LEMMA DoneIsStored ==
  ASSUME Kept, NEW p \in Pieces \ LossyPieces, state[p] = "Done"
  PROVE  p \in Stored
  BY DEF Kept, DoneOnDisk, Stored

(* Any number of connections that race for the pieces behave as the        *)
(* abstract store: content first, report after, and content never lost.    *)
THEOREM StoreImplemented == Spec => ImplementsStore
<1>1. Inv /\ [Next]_vars => [Store!Next]_<<Stored, Had>>
  BY NextImplements DEF Inv
<1>2. Init => TableInit
  BY DEF Init
<1>3. QED
  BY <1>1, <1>2, InitImplements, InvCorrect, PTL DEF Spec, ImplementsStore, Store!Spec

-----------------------------------------------------------------------------
(***************************************************************************)
(* Without clears and wrong blocks: each piece is fetched by one           *)
(* connection, each of its blocks arrives once, and the count of bytes is  *)
(* exact.  For any number of connections, pieces and chokes, and any sizes.*)
(***************************************************************************)

(* What of piece p has been received and is in the table.                  *)
Got(p) == {o \in Offsets(p) : buffer[p] # NoBuffer /\ buffer[p][o] = "good"}

(* The bytes that a request asks for.                                      *)
BytesOf(r) == r.begin .. r.begin + LenAt(r.index, r.begin) - 1

Awaits(c, r) == conn[c].pc # "closed" /\ conn[c].owed[r] > 0
Holds(c, p) == conn[c].pc \in {"handle", "verify", "write", "mark"} /\ conn[c].msg.index = p

(***************************************************************************)
(* OneFetcher is not inductive.  That the piece a connection claims is     *)
(* fetched by nobody follows from its state, if every piece that is        *)
(* fetched is Downloading; that the connection which takes a buffer has    *)
(* nothing more to receive of the piece follows from the count, if that is *)
(* exact; and the count is exact because a block that is still awaited is  *)
(* not in the buffer.  All of this is said of one piece at a time, and a   *)
(* step changes it for one piece at most.                                  *)
(***************************************************************************)
FetchedOnce(p) ==
  /\ \A c, d \in Fetching(p) : c = d
  /\ Fetching(p) # {} => state[p] = "Downloading"

Untouched(p) == state[p] = "Missing" => Fetching(p) = {} /\ buffer[p] = NoBuffer

AwaitedIsNew(p) ==
  \A c \in Conns, r \in Requests : r.index = p /\ Awaits(c, r) =>
    conn[c].owed[r] = 1 /\ BytesOf(r) \cap Got(p) = {}

(* The message answers request r of connection c, as it was asked.         *)
IsAnswer(c, r) ==
  conn[c].msg = [index |-> r.index, begin |-> r.begin,
                 len |-> LenAt(r.index, r.begin), byte |-> "good"]

HandledIsNew(p) ==
  \A c \in Conns : At(c, "handle") /\ conn[c].msg.index = p =>
    \E r \in Requests :
      r.index = p /\ IsAnswer(c, r) /\ conn[c].owed[r] = 0 /\ BytesOf(r) \cap Got(p) = {}

TakenIsWhole(p) ==
  \A c \in Deciding(p) :
    /\ conn[c].completed = Content(p)
    /\ \A r \in Requests : r.index = p => conn[c].owed[r] = 0

CountIsGot(p) ==
  /\ downloaded[p] <= TotalSize(p)
  /\ state[p] # "Done" /\ Deciding(p) = {} => downloaded[p] = Cardinality(Got(p))

PieceInv(p) ==
  /\ FetchedOnce(p) /\ Untouched(p) /\ AwaitedIsNew(p) /\ HandledIsNew(p)
  /\ TakenIsWhole(p) /\ CountIsGot(p)

FetchInv == \A p \in Pieces : PieceInv(p)

-----------------------------------------------------------------------------
(* Blocks                                                                  *)

(* Who fetches a piece, in terms of what each connection awaits and holds. *)
LEMMA FetchingIs ==
  \A p \in Pieces :
    Fetching(p) = {c \in Conns : Holds(c, p) \/ \E r \in Requests : r.index = p /\ Awaits(c, r)}
  BY DEF Fetching, Holds, Awaits

(* A request names a piece, and its block begins within it.                *)
LEMMA RequestType ==
  ASSUME NEW r \in Requests
  PROVE  /\ r.index \in Pieces /\ r.begin \in BlocksOf(r.index)
         /\ r = [index |-> r.index, begin |-> r.begin]
         /\ r.begin \in Nat /\ r.begin < TotalSize(r.index)
         /\ TotalSize(r.index) \in Nat \ {0}
         /\ r.begin % BlockLen = 0
<1>1. r.index \in Pieces /\ r.begin \in BlocksOf(r.index) /\ r = [index |-> r.index, begin |-> r.begin]
  BY DEF Requests
<1>2. TotalSize(r.index) \in Nat \ {0}
  BY <1>1, TotalSizeType
<1>3. QED
  BY <1>1, <1>2 DEF BlocksOf, Offsets

(* A request asks for at least one byte of its piece, and for no more than *)
(* BlockLen.                                                               *)
LEMMA BlockInside ==
  ASSUME NEW r \in Requests
  PROVE  /\ LenAt(r.index, r.begin) \in 1 .. BlockLen
         /\ Fits(r.index, r.begin, LenAt(r.index, r.begin))
         /\ BytesOf(r) \subseteq Offsets(r.index)
         /\ r.begin \in BytesOf(r)
  BY RequestType DEF LenAt, Fits, BytesOf, Offsets

(* Multiples of BlockLen are at least BlockLen apart.                      *)
LEMMA Multiples ==
  ASSUME NEW m \in Nat, NEW n \in Nat, m % BlockLen = 0, n % BlockLen = 0, m < n
  PROVE  m + BlockLen <= n
<1> DEFINE i == m \div BlockLen
           j == n \div BlockLen
<1>1. i \in Int /\ j \in Int /\ m = BlockLen * i /\ n = BlockLen * j
  OBVIOUS
<1> HIDE DEF i, j
<1>2. i < j
  BY <1>1
<1>3. i + 1 <= j
  BY <1>1, <1>2
<1>4. BlockLen * (i + 1) <= BlockLen * j
  BY <1>1, <1>3
<1>5. BlockLen * (i + 1) = BlockLen * i + BlockLen
  BY <1>1
<1>6. QED
  BY <1>1, <1>4, <1>5

(* Two requests of a piece have no byte in common.                         *)
LEMMA BlocksDisjoint ==
  ASSUME NEW r \in Requests, NEW q \in Requests, r.index = q.index, r # q
  PROVE  BytesOf(r) \cap BytesOf(q) = {}
<1>1. r.begin # q.begin
  BY RequestType
<1>2. r.begin + BlockLen <= q.begin \/ q.begin + BlockLen <= r.begin
  <2>1. CASE r.begin < q.begin
    BY <2>1, RequestType, Multiples
  <2>2. CASE q.begin < r.begin
    BY <2>2, RequestType, Multiples
  <2>3. QED
    BY <1>1, <2>1, <2>2, RequestType
<1>3. /\ r.begin \in Nat /\ q.begin \in Nat
      /\ LenAt(r.index, r.begin) \in 1 .. BlockLen /\ LenAt(q.index, q.begin) \in 1 .. BlockLen
  BY RequestType, BlockInside
<1>4. QED
  BY <1>2, <1>3 DEF BytesOf

-----------------------------------------------------------------------------
(* Steps that leave a piece alone                                          *)

(* The entry of p stays as it is, no connection begins to await or to hold *)
(* something of p, and none that decides on p stops.                       *)
Leaves(p) ==
  /\ state'[p] = state[p] /\ buffer'[p] = buffer[p] /\ downloaded'[p] = downloaded[p]
  /\ \A c \in Conns, r \in Requests : r.index = p /\ Awaits(c, r)' =>
       Awaits(c, r) /\ conn'[c].owed[r] = conn[c].owed[r]
  /\ \A c \in Conns : Holds(c, p)' \/ c \in Deciding(p) => conn'[c] = conn[c]

(* What is said of a piece stays true when a step leaves it alone.         *)
LEMMA LeavesKeeps ==
  ASSUME NEW p \in Pieces, PieceInv(p), Leaves(p)
  PROVE  PieceInv(p)'
<1>1. \A c \in Conns : Holds(c, p)' => Holds(c, p) /\ conn'[c] = conn[c]
  BY DEF Leaves, Holds
<1>2. Fetching(p)' \subseteq Fetching(p)
  BY <1>1 DEF Leaves, Fetching, Awaits, Holds
<1>3. Deciding(p)' = Deciding(p)
  BY <1>1 DEF Leaves, Deciding, Holds
<1>4. Got(p)' = Got(p)
  BY DEF Leaves, Got
<1>5. FetchedOnce(p)' /\ Untouched(p)'
  BY <1>2 DEF PieceInv, FetchedOnce, Untouched, Leaves
<1>6. AwaitedIsNew(p)'
  BY <1>4 DEF PieceInv, AwaitedIsNew, Leaves
<1>7. HandledIsNew(p)'
  <2> SUFFICES ASSUME NEW c \in Conns, conn'[c].pc = "handle", conn'[c].msg.index = p
               PROVE  \E r \in Requests : /\ r.index = p /\ IsAnswer(c, r)'
                                          /\ conn'[c].owed[r] = 0 /\ BytesOf(r) \cap Got(p)' = {}
    BY DEF HandledIsNew, At, BytesOf
  <2>1. conn'[c] = conn[c]
    BY <1>1 DEF Holds
  <2>2. PICK r \in Requests : /\ r.index = p /\ IsAnswer(c, r)
                              /\ conn[c].owed[r] = 0 /\ BytesOf(r) \cap Got(p) = {}
    BY <2>1 DEF PieceInv, HandledIsNew, At
  <2>3. IsAnswer(c, r)'
    BY <2>1, <2>2 DEF IsAnswer
  <2>4. QED
    BY <1>4, <2>1, <2>2, <2>3
<1>8. TakenIsWhole(p)'
  <2>1. \A c \in Deciding(p) : c \in Conns /\ conn'[c] = conn[c]
    BY DEF Leaves, Deciding
  <2>2. QED
    BY <1>3, <2>1 DEF PieceInv, TakenIsWhole
<1>9. CountIsGot(p)'
  BY <1>3, <1>4 DEF PieceInv, CountIsGot, Leaves
<1>10. QED
  BY <1>5, <1>6, <1>7, <1>8, <1>9 DEF PieceInv

(* A step of c that neither takes nor handles a Piece message, nor touches *)
(* the table.                                                              *)
Calm(c) ==
  /\ UNCHANGED table
  /\ \A d \in Conns \ {c} : conn'[d] = conn[d]
  /\ conn[c].pc # "closed" /\ conn[c].pc \notin InHand
  /\ conn'[c].pc \notin InHand /\ conn'[c].pc # "handle"
  /\ conn'[c].owed = conn[c].owed \/ conn'[c].owed = [r \in Requests |-> 0]

(* So a step that takes no block and no buffer keeps it for every piece.   *)
LEMMA CalmKeeps ==
  ASSUME FetchInv, NEW c \in Conns, Calm(c)
  PROVE  FetchInv'
<1>1. ASSUME NEW d \in Conns, NEW r \in Requests, Awaits(d, r)'
      PROVE  Awaits(d, r) /\ conn'[d].owed[r] = conn[d].owed[r]
  <2>1. CASE d = c
    BY <1>1, <2>1 DEF Calm, Awaits
  <2>2. CASE d # c
    BY <1>1, <2>2 DEF Calm, Awaits
  <2>3. QED
    BY <2>1, <2>2
<1>2. ASSUME NEW p \in Pieces PROVE Leaves(p)
  <2>1. \A d \in Conns : Holds(d, p)' \/ d \in Deciding(p) => conn'[d] = conn[d]
    BY DEF Calm, Holds, Deciding, InHand
  <2>2. QED
    BY <1>1, <2>1 DEF Calm, Leaves, table
<1>3. QED
  BY <1>2, LeavesKeeps DEF FetchInv

(* All a coroutine does but to take a Piece message and handle it is calm. *)
LEMMA CalmSteps ==
  ASSUME TypeOK, NEW c \in Conns,
         \/ Create(c) \/ LoopTest(c) \/ ReadBit(c) \/ IgnoreDone(c) \/ AfterPiece(c)
         \/ ScanFound(c) \/ ScanNext(c) \/ ScanNothing(c) \/ ClaimLost(c)
         \/ RecvUnchoke(c) \/ RecvHave(c) \/ RecvBitfield(c)
         \/ RecvChoke(c) \/ RecvOther(c) \/ Drop(c)
  PROVE  Calm(c)
<1> USE DEF At, Update
<1> DEFINE Still == conn'[c].owed = conn[c].owed \/ conn'[c].owed = [r \in Requests |-> 0]
<1>1. Quiet(c)
  BY LocalQuiet DEF Remote
<1>2. conn = [d \in Conns |-> conn[d]] /\ {"pc", "owed"} \subseteq DOMAIN conn[c]
  BY DEF TypeOK, ConnRecord
<1>3. SUFFICES conn[c].pc # "closed" /\ conn'[c].pc # "handle" /\ Still
  BY <1>1 DEF Calm, Quiet
<1>4. ASSUME conn[c].pc # "closed", NEW x, x # "handle", conn[c].pc # "handle", IsDoneScan(c, x)
      PROVE  conn'[c].pc # "handle" /\ Still
  <2> DEFINE p == conn[c].cursor
  <2>1. CASE state[p] # "Done"
    <3>1. conn' = [conn EXCEPT ![c] = [conn[c] EXCEPT !.pc = x, !.cursor = 0]]
      BY <2>1, <1>4 DEF IsDoneScan
    <3>2. QED
      BY <3>1, <1>2, <1>4
  <2>2. CASE state[p] = "Done" /\ p + 1 < NumPieces
    BY <2>2, <1>2, <1>4 DEF IsDoneScan
  <2>3. CASE state[p] = "Done" /\ ~(p + 1 < NumPieces)
    BY <2>3, <1>2, <1>4 DEF IsDoneScan
  <2>4. QED
    BY <2>1, <2>2, <2>3
<1>5. CASE Create(c)
  BY <1>4, <1>5 DEF Create
<1>6. CASE LoopTest(c)
  BY <1>2, <1>4, <1>6 DEF LoopTest, Goto
<1>7. CASE ReadBit(c)
  BY <1>2, <1>7 DEF ReadBit
<1>8. CASE IgnoreDone(c) \/ AfterPiece(c)
  <2>1. CASE IgnoreDone(c)
    BY <1>2, <2>1 DEF IgnoreDone, Goto
  <2>2. CASE AfterPiece(c)
    BY <1>2, <2>2 DEF AfterPiece
  <2>3. QED
    BY <1>8, <2>1, <2>2
<1>9. CASE ScanFound(c) \/ ScanNext(c)
  BY <1>2, <1>9 DEF ScanFound, ScanNext, Goto
<1>10. CASE ScanNothing(c) \/ ClaimLost(c)
  <2>1. CASE ScanNothing(c)
    BY <1>2, <2>1 DEF ScanNothing, ReturnFalse
  <2>2. CASE ClaimLost(c)
    BY <1>2, <2>2 DEF ClaimLost, ReturnFalse
  <2>3. QED
    BY <1>10, <2>1, <2>2
<1>11. CASE RecvUnchoke(c)
  BY <1>2, <1>11 DEF RecvUnchoke
<1>12. CASE RecvHave(c)
  <2>1. conn[c].pc = "idle"
    BY <1>12 DEF RecvHave
  <2>2. PICK h, b, f : conn' = [conn EXCEPT ![c] =
            [conn[c] EXCEPT !.pc = "loop", !.heard = h, !.bitfield = b, !.fetched = f]]
    BY <1>12 DEF RecvHave
  <2>3. QED
    BY <1>2, <2>1, <2>2
<1>13. CASE RecvBitfield(c)
  BY <1>2, <1>13 DEF RecvBitfield
<1>14. CASE RecvChoke(c)
  BY <1>2, <1>14 DEF RecvChoke
<1>15. CASE RecvOther(c)
  BY <1>2, <1>15 DEF RecvOther, Goto
<1>16. CASE Drop(c)
  BY <1>2, <1>16 DEF Drop, NewConn
<1>17. QED
  BY <1>5, <1>6, <1>7, <1>8, <1>9, <1>10, <1>11, <1>12, <1>13, <1>14, <1>15, <1>16

-----------------------------------------------------------------------------
(* The Piece message of an honest peer, and the piece it completes         *)

(* Receiving a block moves it from what is awaited to what is held.        *)
LEMMA RecvPieceKeeps ==
  ASSUME BadPeers = {}, TypeOK, FetchInv, NEW c \in Conns, RecvPiece(c)
  PROVE  FetchInv'
<1> USE DEF At, Update
<1>1. PICK r \in Requests :
        /\ conn[c].owed[r] > 0
        /\ \E m \in Answers(c, r) :
             conn' = [conn EXCEPT ![c] = [conn[c] EXCEPT
                         !.pc = "handle", !.msg = m, !.wasDone = state[r.index] = "Done",
                         !.owed[r] = @ - 1]]
  BY DEF RecvPiece
<1>2. PICK m \in Answers(c, r) :
             conn' = [conn EXCEPT ![c] = [conn[c] EXCEPT
                         !.pc = "handle", !.msg = m, !.wasDone = state[r.index] = "Done",
                         !.owed[r] = @ - 1]]
  BY <1>1
<1> DEFINE p == r.index
<1>3. UNCHANGED table /\ conn[c].pc = "idle" /\ p \in Pieces
  BY RequestType DEF RecvPiece
<1>4. m = [index |-> p, begin |-> r.begin, len |-> LenAt(p, r.begin), byte |-> "good"]
  BY DEF Answers
<1>5. /\ \A d \in Conns \ {c} : conn'[d] = conn[d]
      /\ conn'[c].pc = "handle" /\ conn'[c].msg = m
      /\ conn'[c].owed = [conn[c].owed EXCEPT ![r] = @ - 1]
      /\ conn[c].owed \in [Requests -> Nat]
  BY <1>2, ConnFields DEF TypeOK, ConnRecord
<1>6. Awaits(c, r) /\ conn[c].owed[r] = 1 /\ BytesOf(r) \cap Got(p) = {}
  BY <1>1, <1>3 DEF FetchInv, PieceInv, AwaitedIsNew, Awaits
<1>7. conn'[c].owed[r] = 0 /\ \A q \in Requests \ {r} : conn'[c].owed[q] = conn[c].owed[q]
  BY <1>5, <1>6
<1>8. ASSUME NEW d \in Conns, NEW q \in Requests, Awaits(d, q)'
      PROVE  Awaits(d, q) /\ conn'[d].owed[q] = conn[d].owed[q]
  <2>1. CASE d = c
    BY <1>3, <1>7, <1>8, <2>1 DEF Awaits
  <2>2. CASE d # c
    BY <1>5, <1>8, <2>2 DEF Awaits
  <2>3. QED
    BY <2>1, <2>2
<1>9. state' = state /\ downloaded' = downloaded /\ buffer' = buffer
  BY <1>3 DEF table
<1>10. ASSUME NEW q \in Pieces \ {p} PROVE PieceInv(q)'
  <2>1. \A d \in Conns : Holds(d, q)' \/ d \in Deciding(q) => conn'[d] = conn[d]
    BY <1>3, <1>4, <1>5 DEF Holds, Deciding
  <2>2. Leaves(q)
    BY <1>8, <1>9, <2>1 DEF Leaves
  <2>3. QED
    BY <2>2, LeavesKeeps DEF FetchInv
<1>11. PieceInv(p)'
  <2>0. PieceInv(p)
    BY <1>3 DEF FetchInv
  <2>1. Fetching(p)' \subseteq Fetching(p)
    <3> SUFFICES ASSUME NEW d \in Fetching(p)' PROVE d \in Fetching(p)
      OBVIOUS
    <3>1. d \in Conns /\ (Holds(d, p)' \/ \E q \in Requests : q.index = p /\ Awaits(d, q)')
      BY DEF Fetching, Holds, Awaits
    <3>2. d # c /\ Holds(d, p)' => Holds(d, p)
      BY <1>5, <3>1 DEF Holds
    <3>3. QED
      BY <1>3, <1>6, <1>8, <3>1, <3>2, FetchingIs
  <2>2. Deciding(p)' = Deciding(p) /\ Got(p)' = Got(p)
    BY <1>3, <1>5, <1>9 DEF Deciding, Got
  <2>3. FetchedOnce(p)' /\ Untouched(p)'
    BY <1>9, <2>0, <2>1 DEF PieceInv, FetchedOnce, Untouched
  <2>4. AwaitedIsNew(p)'
    BY <1>8, <2>0, <2>2 DEF PieceInv, AwaitedIsNew
  <2>5. HandledIsNew(p)'
    <3> SUFFICES ASSUME NEW d \in Conns, conn'[d].pc = "handle", conn'[d].msg.index = p
                 PROVE  \E q \in Requests : /\ q.index = p /\ IsAnswer(d, q)'
                                            /\ conn'[d].owed[q] = 0 /\ BytesOf(q) \cap Got(p)' = {}
      BY DEF HandledIsNew, BytesOf
    <3>1. CASE d = c
      BY <1>4, <1>5, <1>6, <1>7, <2>2, <3>1 DEF IsAnswer
    <3>2. CASE d # c
      <4>1. conn'[d] = conn[d]
        BY <1>5, <3>2
      <4>2. PICK q \in Requests : /\ q.index = p /\ IsAnswer(d, q)
                                  /\ conn[d].owed[q] = 0 /\ BytesOf(q) \cap Got(p) = {}
        BY <2>0, <4>1 DEF PieceInv, HandledIsNew
      <4>3. IsAnswer(d, q)'
        BY <4>1, <4>2 DEF IsAnswer
      <4>4. QED
        BY <2>2, <4>1, <4>2, <4>3
    <3>3. QED
      BY <3>1, <3>2
  <2>6. TakenIsWhole(p)'
    BY <1>3, <1>5, <2>0, <2>2 DEF PieceInv, TakenIsWhole, Deciding
  <2>7. CountIsGot(p)'
    BY <1>9, <2>0, <2>2 DEF PieceInv, CountIsGot
  <2>8. QED
    BY <2>3, <2>4, <2>5, <2>6, <2>7 DEF PieceInv
<1>12. QED
  BY <1>10, <1>11 DEF FetchInv

(* A block that arrives is of a piece that only its connection fetches; it *)
(* adds its length to what is there, and if the count is full then, the    *)
(* buffer is the content of the piece.                                     *)
LEMMA BlockArrives ==
  ASSUME TypeOK, FetchInv, NEW c \in Conns, At(c, "handle"),
         NEW r \in Requests, IsAnswer(c, r), BytesOf(r) \cap Got(r.index) = {}
  PROVE  LET p == r.index
             len == LenAt(p, r.begin)
             copied == Copied(p, r.begin, len, "good")
         IN  /\ state[p] = "Downloading" /\ Fetching(p) = {c} /\ Deciding(p) = {}
             /\ copied \in [Offsets(p) -> Byte]
             /\ {o \in Offsets(p) : copied[o] = "good"} = Got(p) \cup BytesOf(r)
             /\ Cardinality(Got(p) \cup BytesOf(r)) = downloaded[p] + len
             /\ downloaded[p] + len <= TotalSize(p)
             /\ downloaded[p] + len = TotalSize(p) => copied = Content(p)
<1> DEFINE p == r.index
           len == LenAt(p, r.begin)
           copied == Copied(p, r.begin, len, "good")
           all == Got(p) \cup BytesOf(r)
<1>1. p \in Pieces /\ len \in Nat /\ r.begin \in Nat /\ TotalSize(p) \in Nat \ {0}
  BY RequestType, BlockInside
<1>2. Holds(c, p)
  BY DEF Holds, IsAnswer, At
<1>3. Fetching(p) = {c}
  BY <1>1, <1>2, FetchingIs DEF FetchInv, PieceInv, FetchedOnce
<1>4. state[p] = "Downloading"
  BY <1>1, <1>3 DEF FetchInv, PieceInv, FetchedOnce
<1>5. Deciding(p) = {}
  BY <1>3 DEF Deciding, Fetching, At
<1>6. IsBuffer(p, buffer[p])
  BY <1>1 DEF TypeOK, TableTypeOK
<1>7. copied \in [Offsets(p) -> Byte]
  BY <1>1, <1>6, CopiedType DEF Byte
<1>8. \A o \in Offsets(p) : Room(p)[o] = "good" <=> o \in Got(p)
  BY <1>6 DEF Room, Got, IsBuffer
<1>9. \A o \in Offsets(p) : copied[o] = "good" <=> o \in all
  BY <1>8 DEF Copied, BytesOf
<1>10. all \subseteq Offsets(p)
  BY BlockInside DEF Got
<1>11. {o \in Offsets(p) : copied[o] = "good"} = all
  BY <1>9, <1>10
<1>12. IsFiniteSet(Offsets(p)) /\ Cardinality(Offsets(p)) = TotalSize(p)
  <2>1. TotalSize(p) - 1 \in Int /\ ~(0 > TotalSize(p) - 1)
    BY <1>1
  <2>2. /\ IsFiniteSet(0 .. TotalSize(p) - 1)
        /\ Cardinality(0 .. TotalSize(p) - 1) = (TotalSize(p) - 1) - 0 + 1
    BY <2>1, FS_Interval
  <2>3. QED
    BY <1>1, <2>2 DEF Offsets
<1>13. IsFiniteSet(BytesOf(r)) /\ Cardinality(BytesOf(r)) = len
  <2>1. r.begin \in Int /\ r.begin + len - 1 \in Int /\ ~(r.begin > r.begin + len - 1)
    BY <1>1, BlockInside
  <2>2. /\ IsFiniteSet(r.begin .. r.begin + len - 1)
        /\ Cardinality(r.begin .. r.begin + len - 1) = (r.begin + len - 1) - r.begin + 1
    BY <2>1, FS_Interval
  <2>3. QED
    BY <1>1, <2>2 DEF BytesOf
<1>14. IsFiniteSet(Got(p)) /\ Cardinality(Got(p)) = downloaded[p]
  <2>1. Got(p) \in SUBSET Offsets(p)
    BY DEF Got
  <2>2. QED
    BY <1>1, <1>4, <1>5, <1>12, <2>1, FS_Subset DEF FetchInv, PieceInv, CountIsGot
<1>15. Cardinality(all) = downloaded[p] + len
  <2>1. Cardinality(all) = Cardinality(Got(p)) + Cardinality(BytesOf(r)) - Cardinality(Got(p) \cap BytesOf(r))
    BY <1>13, <1>14, FS_Union
  <2>2. Cardinality(Got(p) \cap BytesOf(r)) = 0
    BY FS_EmptySet
  <2>3. downloaded[p] \in Nat
    BY <1>1 DEF TypeOK, TableTypeOK
  <2>4. QED
    BY <1>1, <1>13, <1>14, <2>1, <2>2, <2>3
<1>16. /\ Cardinality(all) <= TotalSize(p)
       /\ Cardinality(all) = TotalSize(p) => all = Offsets(p)
  BY <1>10, <1>12, FS_Subset
<1>17. all = Offsets(p) => copied = Content(p)
  BY <1>7, <1>9 DEF Content
<1>18. QED
  BY <1>3, <1>4, <1>5, <1>7, <1>11, <1>15, <1>16, <1>17

(* A step of handle_piece is about the piece of the message it handles.    *)
Handles(c, p) ==
  /\ Holds(c, p)
  /\ conn'[c].msg = conn[c].msg /\ conn'[c].owed = conn[c].owed
  /\ \A d \in Conns \ {c} : conn'[d] = conn[d]
  /\ \A q \in Pieces \ {p} :
       state'[q] = state[q] /\ buffer'[q] = buffer[q] /\ downloaded'[q] = downloaded[q]

(* And one that concerns one piece, if it keeps what is said of that one.  *)
LEMMA HandlesKeeps ==
  ASSUME FetchInv, NEW c \in Conns, NEW p \in Pieces, Handles(c, p), PieceInv(p)'
  PROVE  FetchInv'
<1>1. ASSUME NEW d \in Conns, NEW r \in Requests, Awaits(d, r)'
      PROVE  Awaits(d, r) /\ conn'[d].owed[r] = conn[d].owed[r]
  BY <1>1 DEF Handles, Holds, Awaits
<1>2. ASSUME NEW q \in Pieces \ {p} PROVE PieceInv(q)'
  <2>1. \A d \in Conns : Holds(d, q)' \/ d \in Deciding(q) => d # c /\ conn'[d] = conn[d]
    BY DEF Handles, Holds, Deciding
  <2>2. Leaves(q)
    BY <1>1, <2>1 DEF Handles, Leaves
  <2>3. QED
    BY <2>2, LeavesKeeps DEF FetchInv
<1>3. QED
  BY <1>2 DEF FetchInv

(* The same with the fields of the connection.                             *)
LEMMA HandlerSteps ==
  ASSUME TypeOK, NEW c \in Conns,
         \/ RefuseMisfit(c) \/ StoreOnly(c) \/ StoreAndTake(c) \/ VerifyOk(c)
         \/ WriteFiles(c) \/ MarkDone(c)
  PROVE  Handles(c, conn[c].msg.index)
<1> USE DEF At, Update, Goto
<1> DEFINE p == conn[c].msg.index
           Same == /\ conn'[c].msg = conn[c].msg /\ conn'[c].owed = conn[c].owed
                   /\ \A d \in Conns \ {c} : conn'[d] = conn[d]
<1>0. conn = [d \in Conns |-> conn[d]] /\ {"pc", "owed", "msg"} \subseteq DOMAIN conn[c]
  BY DEF TypeOK, ConnRecord
<1>1. /\ state \in [Pieces -> {"Missing", "Downloading", "Done"}]
      /\ downloaded \in [Pieces -> Nat] /\ buffer \in [Pieces -> Buffers]
  BY DEF TypeOK, TableTypeOK
<1>2. CASE RefuseMisfit(c)
  <2>1. Same
    BY <1>0, <1>2 DEF RefuseMisfit
  <2>2. QED
    BY <1>1, <1>2, <2>1 DEF RefuseMisfit, RefuseBlock, Handles, Holds
<1>3. CASE StoreOnly(c)
  <2>1. Same
    BY <1>0, <1>3 DEF StoreOnly
  <2>2. QED
    BY <1>1, <1>3, <2>1 DEF StoreOnly, StoreBlock, Handles, Holds
<1>4. CASE StoreAndTake(c)
  <2>1. Same
    BY <1>0, <1>4 DEF StoreAndTake
  <2>2. QED
    BY <1>1, <1>4, <2>1 DEF StoreAndTake, TakeBuffer, Handles, Holds
<1>5. CASE VerifyOk(c)
  <2>1. Same
    BY <1>0, <1>5 DEF VerifyOk
  <2>2. QED
    BY <1>1, <1>5, <2>1 DEF VerifyOk, Handles, Holds, table
<1>6. CASE WriteFiles(c)
  <2>1. Same
    BY <1>0, <1>6 DEF WriteFiles
  <2>2. QED
    BY <1>1, <1>6, <2>1 DEF WriteFiles, Handles, Holds, table
<1>7. CASE MarkDone(c)
  <2>1. PICK f, e : conn' = [conn EXCEPT ![c] =
            [conn[c] EXCEPT !.pc = "after", !.completed = NoBuffer,
                            !.fetched = f, !.exhausted = e]]
    BY <1>7 DEF MarkDone
  <2>2. Same
    BY <1>0, <2>1
  <2>3. QED
    BY <1>1, <1>7, <2>2 DEF MarkDone, SetState, Handles, Holds
<1>8. QED
  BY <1>2, <1>3, <1>4, <1>5, <1>6, <1>7

(* What a connection handles is a block that was asked for and is new.     *)
LEMMA HandledRequest ==
  ASSUME TypeOK, FetchInv, NEW c \in Conns, At(c, "handle")
  PROVE  \E r \in Requests :
           /\ r.index = conn[c].msg.index /\ IsAnswer(c, r)
           /\ conn[c].owed[r] = 0 /\ BytesOf(r) \cap Got(r.index) = {}
  BY ConnFields DEF FetchInv, PieceInv, HandledIsNew

(* A block of a piece that lacks others too.                               *)
LEMMA StoreOnlyKeeps ==
  ASSUME TypeOK, FetchInv, NEW c \in Conns, StoreOnly(c)
  PROVE  FetchInv'
<1>1. At(c, "handle") /\ Moves(c, "handle", "after") /\ Handles(c, conn[c].msg.index)
  BY HandlerMoves, HandlerSteps DEF StoreOnly
<1>2. PICK r \in Requests :
           /\ r.index = conn[c].msg.index /\ IsAnswer(c, r)
           /\ conn[c].owed[r] = 0 /\ BytesOf(r) \cap Got(r.index) = {}
  BY <1>1, HandledRequest
<1> DEFINE p == r.index
           len == LenAt(p, r.begin)
           copied == Copied(p, r.begin, len, "good")
<1>3. /\ p \in Pieces /\ len \in Nat /\ Handles(c, p)
      /\ conn[c].msg.begin = r.begin /\ conn[c].msg.len = len /\ conn[c].msg.byte = "good"
  BY <1>1, <1>2, RequestType, BlockInside DEF IsAnswer
<1>4. /\ state[p] = "Downloading" /\ Fetching(p) = {c} /\ Deciding(p) = {}
      /\ copied \in [Offsets(p) -> Byte]
      /\ {o \in Offsets(p) : copied[o] = "good"} = Got(p) \cup BytesOf(r)
      /\ Cardinality(Got(p) \cup BytesOf(r)) = downloaded[p] + len
      /\ downloaded[p] + len <= TotalSize(p)
  BY <1>1, <1>2, BlockArrives
<1>5. /\ buffer'[p] = copied /\ downloaded'[p] = downloaded[p] + len /\ state' = state
  BY <1>2, <1>3 DEF StoreOnly, StoreBlock, TypeOK, TableTypeOK
<1>6. copied # NoBuffer
  BY <1>3, <1>4, TotalSizeType DEF NoBuffer, Offsets
<1>7. Got(p)' = Got(p) \cup BytesOf(r)
  BY <1>4, <1>5, <1>6 DEF Got
<1>8. Fetching(p)' \subseteq {c} /\ Deciding(p)' = {}
  BY <1>1, <1>4 DEF Moves, Fetching, Deciding
<1>9. FetchedOnce(p)' /\ Untouched(p)'
  BY <1>4, <1>5, <1>8 DEF FetchedOnce, Untouched
<1>10. AwaitedIsNew(p)'
  <2> SUFFICES ASSUME NEW d \in Conns, NEW q \in Requests, q.index = p, Awaits(d, q)'
               PROVE  conn'[d].owed[q] = 1 /\ BytesOf(q) \cap Got(p)' = {}
    BY DEF AwaitedIsNew, BytesOf
  <2>1. d \in Fetching(p)'
    BY DEF Fetching, Awaits
  <2>2. d = c /\ conn'[c].owed[q] = conn[c].owed[q] /\ Awaits(c, q)
    BY <1>1, <1>3, <1>8, <2>1 DEF Handles, Awaits, At
  <2>3. conn[c].owed[q] = 1 /\ BytesOf(q) \cap Got(p) = {} /\ q # r
    BY <1>2, <1>3, <2>2 DEF FetchInv, PieceInv, AwaitedIsNew, Awaits
  <2>4. BytesOf(q) \cap BytesOf(r) = {}
    BY <2>3, BlocksDisjoint
  <2>5. QED
    BY <1>7, <2>2, <2>3, <2>4
<1>11. HandledIsNew(p)' /\ TakenIsWhole(p)'
  BY <1>1, <1>8 DEF HandledIsNew, TakenIsWhole, At, Moves, Fetching
<1>12. CountIsGot(p)'
  BY <1>4, <1>5, <1>7 DEF CountIsGot
<1>13. PieceInv(p)'
  BY <1>9, <1>10, <1>11, <1>12 DEF PieceInv
<1>14. QED
  BY <1>3, <1>13, HandlesKeeps

(* The block that completes a piece: what is taken is its content.         *)
LEMMA StoreAndTakeKeeps ==
  ASSUME TypeOK, FetchInv, NEW c \in Conns, StoreAndTake(c)
  PROVE  FetchInv'
<1>1. At(c, "handle") /\ Moves(c, "handle", "verify") /\ Handles(c, conn[c].msg.index)
  BY HandlerMoves, HandlerSteps DEF StoreAndTake
<1>2. PICK r \in Requests :
           /\ r.index = conn[c].msg.index /\ IsAnswer(c, r)
           /\ conn[c].owed[r] = 0 /\ BytesOf(r) \cap Got(r.index) = {}
  BY <1>1, HandledRequest
<1> DEFINE p == r.index
           len == LenAt(p, r.begin)
           copied == Copied(p, r.begin, len, "good")
<1>3. /\ p \in Pieces /\ len \in Nat /\ Handles(c, p) /\ downloaded[p] \in Nat
      /\ conn[c].msg.begin = r.begin /\ conn[c].msg.len = len /\ conn[c].msg.byte = "good"
      /\ TotalSize(p) \in Nat \ {0}
  BY <1>1, <1>2, RequestType, BlockInside DEF IsAnswer, TypeOK, TableTypeOK
<1>4. /\ state[p] = "Downloading" /\ Fetching(p) = {c}
      /\ Cardinality(Got(p) \cup BytesOf(r)) = downloaded[p] + len
      /\ downloaded[p] + len <= TotalSize(p)
      /\ downloaded[p] + len = TotalSize(p) => copied = Content(p)
  BY <1>1, <1>2, BlockArrives
<1>5. /\ downloaded[p] + len >= TotalSize(p)
      /\ buffer'[p] = NoBuffer /\ downloaded'[p] = downloaded[p] + len /\ state' = state
  BY <1>2, <1>3 DEF StoreAndTake, TakeBuffer, TypeOK, TableTypeOK
<1>6. copied = Content(p)
  BY <1>3, <1>4, <1>5
<1>7. conn'[c].completed = Content(p)
  <2>1. "completed" \in DOMAIN conn[c] /\ conn = [d \in Conns |-> conn[d]]
    BY DEF TypeOK, ConnRecord
  <2>2. conn'[c].completed = copied
    BY <1>2, <1>3, <2>1 DEF StoreAndTake, Update
  <2>3. QED
    BY <1>6, <2>2
<1>8. Fetching(p)' \subseteq {c} /\ Deciding(p)' = {c}
  BY <1>1, <1>2, <1>4 DEF Moves, Fetching, Deciding
<1>9. FetchedOnce(p)' /\ Untouched(p)'
  BY <1>4, <1>5, <1>8 DEF FetchedOnce, Untouched
<1>10. Got(p)' = {}
  BY <1>5 DEF Got
<1>11. \A q \in Requests : q.index = p => conn'[c].owed[q] = 0
  <2> SUFFICES ASSUME NEW q \in Requests, q.index = p, conn[c].owed[q] # 0 PROVE FALSE
    BY <1>3 DEF Handles
  <2>1. Awaits(c, q)
    BY <1>1, ConnFields DEF Awaits, At
  <2>2. BytesOf(q) \cap Got(p) = {} /\ q # r
    BY <1>2, <1>3, <2>1 DEF FetchInv, PieceInv, AwaitedIsNew
  <2>3. BytesOf(q) \cap BytesOf(r) = {}
    BY <2>2, BlocksDisjoint
  <2>4. q.begin \in BytesOf(q) /\ q.begin \in Offsets(p)
    BY BlockInside
  <2>5. q.begin \in {o \in Offsets(p) : copied[o] = "good"}
    BY <1>6, <2>4 DEF Content
  <2>6. q.begin \in Got(p) \cup BytesOf(r)
    BY <1>1, <1>2, <2>5, BlockArrives
  <2>7. QED
    BY <2>2, <2>3, <2>4, <2>6
<1>12. AwaitedIsNew(p)'
  <2> SUFFICES ASSUME NEW d \in Conns, NEW q \in Requests, q.index = p, Awaits(d, q)' PROVE FALSE
    BY DEF AwaitedIsNew, BytesOf
  <2>1. d \in Fetching(p)'
    BY DEF Fetching, Awaits
  <2>2. QED
    BY <1>8, <1>11, <2>1 DEF Awaits
<1>13. HandledIsNew(p)'
  BY <1>1, <1>8 DEF HandledIsNew, At, Moves, Fetching
<1>14. TakenIsWhole(p)'
  BY <1>7, <1>8, <1>11 DEF TakenIsWhole
<1>15. CountIsGot(p)'
  BY <1>3, <1>4, <1>5, <1>8 DEF CountIsGot
<1>16. PieceInv(p)'
  BY <1>9, <1>12, <1>13, <1>14, <1>15 DEF PieceInv
<1>17. QED
  BY <1>3, <1>16, HandlesKeeps

(* A verification, and a write to the files: the buffer stays where it is. *)
LEMMA VerifyAndWriteKeep ==
  ASSUME TypeOK, FetchInv, NEW c \in Conns, VerifyOk(c) \/ WriteFiles(c)
  PROVE  FetchInv'
<1>0. PICK p \in Pieces : p = conn[c].msg.index
  BY ConnFields
<1>1. /\ Handles(c, p) /\ UNCHANGED table /\ p \in Pieces
      /\ conn[c].pc \in InHand /\ conn'[c].pc \in InHand /\ conn[c].pc # "handle"
      /\ conn'[c].completed = conn[c].completed
  <2>1. {"pc", "completed"} \subseteq DOMAIN conn[c] /\ conn = [d \in Conns |-> conn[d]]
    BY DEF TypeOK, ConnRecord
  <2>2. Handles(c, p) /\ UNCHANGED table /\ p \in Pieces
    BY <1>0, HandlerSteps DEF VerifyOk, WriteFiles
  <2>3. CASE VerifyOk(c)
    BY <2>1, <2>2, <2>3 DEF VerifyOk, At, Goto, Update, InHand
  <2>4. CASE WriteFiles(c)
    BY <2>1, <2>2, <2>4 DEF WriteFiles, At, Goto, Update, InHand
  <2>5. QED
    BY <2>3, <2>4
<1>2. PieceInv(p)
  BY <1>1 DEF FetchInv
<1>3. /\ \A d \in Conns : conn'[d].msg = conn[d].msg /\ conn'[d].owed = conn[d].owed
                         /\ conn'[d].completed = conn[d].completed
      /\ \A d \in Conns \ {c} : conn'[d] = conn[d]
  BY <1>1 DEF Handles
<1>4. \A d \in Conns, r \in Requests : Awaits(d, r)' <=> Awaits(d, r)
  BY <1>1, <1>3 DEF Awaits, InHand
<1>5. Fetching(p)' = Fetching(p) /\ Deciding(p)' = Deciding(p)
  BY <1>1, <1>3, <1>4 DEF Fetching, Awaits, Deciding, InHand
<1>6. state' = state /\ buffer' = buffer /\ downloaded' = downloaded /\ Got(p)' = Got(p)
  BY <1>1 DEF table, Got
<1>7. FetchedOnce(p)' /\ Untouched(p)' /\ CountIsGot(p)'
  BY <1>2, <1>5, <1>6 DEF PieceInv, FetchedOnce, Untouched, CountIsGot
<1>8. AwaitedIsNew(p)'
  BY <1>2, <1>3, <1>4, <1>6 DEF PieceInv, AwaitedIsNew
<1>9. HandledIsNew(p)'
  <2>1. c \in Deciding(p)'
    BY <1>0, <1>1, <1>3, <1>5 DEF Deciding, InHand
  <2>2. \A d \in Conns : conn'[d].pc = "handle" /\ conn'[d].msg.index = p => d \in Fetching(p)
    BY <1>5 DEF Fetching
  <2>3. Fetching(p) \subseteq {c}
    BY <1>2, <1>5, <2>1 DEF PieceInv, FetchedOnce, Deciding, Fetching
  <2>4. QED
    BY <1>1, <2>2, <2>3 DEF HandledIsNew, At, InHand
<1>10. TakenIsWhole(p)'
  BY <1>2, <1>3, <1>5 DEF PieceInv, TakenIsWhole, Deciding
<1>11. PieceInv(p)'
  BY <1>7, <1>8, <1>9, <1>10 DEF PieceInv
<1>12. QED
  BY <1>1, <1>11, HandlesKeeps

(* The piece is Done: nothing of it is awaited any more.                   *)
LEMMA MarkDoneKeeps ==
  ASSUME TypeOK, FetchInv, NEW c \in Conns, MarkDone(c)
  PROVE  FetchInv'
<1>0. PICK p \in Pieces : p = conn[c].msg.index
  BY ConnFields
<1>1. /\ Handles(c, p) /\ Moves(c, "mark", "after") /\ c \in Deciding(p) /\ PieceInv(p)
      /\ state'[p] = "Done" /\ downloaded' = downloaded
  BY <1>0, HandlerSteps, HandlerMoves
     DEF MarkDone, SetState, Deciding, At, FetchInv, TypeOK, TableTypeOK
<1>2. Fetching(p) \subseteq {c} /\ Deciding(p) \subseteq {c}
  BY <1>1 DEF PieceInv, FetchedOnce, Deciding, Fetching
<1>3. \A r \in Requests : r.index = p => conn'[c].owed[r] = 0
  BY <1>1 DEF PieceInv, TakenIsWhole, Handles
<1>4. Fetching(p)' = {} /\ Deciding(p)' = {}
  BY <1>1, <1>2, <1>3 DEF Fetching, Deciding, Moves
<1>5. PieceInv(p)'
  BY <1>1, <1>4 DEF PieceInv, FetchedOnce, Untouched, AwaitedIsNew, HandledIsNew, TakenIsWhole,
                    CountIsGot, Fetching, Awaits, At
<1>6. QED
  BY <1>1, <1>5, HandlesKeeps

(* A claim: the piece was Missing, so nothing of it is awaited or there.   *)
LEMMA ClaimKeeps ==
  ASSUME TypeOK, FetchInv, NEW c \in Conns, Claim(c)
  PROVE  FetchInv'
<1>0. PICK p \in Pieces : p = conn[c].cursor
  BY ConnFields
<1> DEFINE owed == [r \in Requests |->
                      IF r.index = p THEN conn[c].owed[r] + 1 ELSE conn[c].owed[r]]
<1>1. /\ Moves(c, "claim", "loop") /\ conn'[c].owed = owed
      /\ state[p] = "Missing" /\ state' = [state EXCEPT ![p] = "Downloading"]
      /\ UNCHANGED <<buffer, downloaded>>
  <2>1. "owed" \in DOMAIN conn[c] /\ conn = [d \in Conns |-> conn[d]]
    BY DEF TypeOK, ConnRecord
  <2>2. conn'[c].owed = owed
    BY <1>0, <2>1 DEF Claim, Update
  <2>3. QED
    BY <1>0, <2>2, HandlerMoves DEF Claim, SetState, StillMissing
<1>2. /\ state'[p] = "Downloading"
      /\ \A q \in Pieces \ {p} : state'[q] = state[q]
  BY <1>1 DEF TypeOK, TableTypeOK
<1>3. ASSUME NEW d \in Conns, NEW r \in Requests, Awaits(d, r)', r.index # p \/ d # c
      PROVE  Awaits(d, r) /\ conn'[d].owed[r] = conn[d].owed[r]
  <2>1. CASE d = c
    BY <1>1, <1>3, <2>1 DEF Awaits, Moves
  <2>2. CASE d # c
    BY <1>1, <1>3, <2>2 DEF Awaits, Moves
  <2>3. QED
    BY <2>1, <2>2
<1>4. ASSUME NEW q \in Pieces \ {p} PROVE PieceInv(q)'
  <2>1. \A d \in Conns : Holds(d, q)' \/ d \in Deciding(q) => conn'[d] = conn[d]
    BY <1>1 DEF Moves, Holds, Deciding
  <2>2. Leaves(q)
    BY <1>1, <1>2, <1>3, <2>1 DEF Leaves
  <2>3. QED
    BY <2>2, LeavesKeeps DEF FetchInv
<1>5. PieceInv(p)'
  <2>1. PieceInv(p) /\ Fetching(p) = {} /\ buffer[p] = NoBuffer
    BY <1>1 DEF FetchInv, PieceInv, Untouched
  <2>2. Fetching(p)' \subseteq {c}
    <3> SUFFICES ASSUME NEW d \in Fetching(p)', d # c PROVE FALSE
      OBVIOUS
    <3>1. d \in Conns /\ conn'[d] = conn[d]
      BY <1>1 DEF Fetching, Moves
    <3>2. d \in Fetching(p)
      BY <3>1 DEF Fetching
    <3>3. QED
      BY <2>1, <3>2
  <2>3. Deciding(p) = {} /\ Deciding(p)' = {} /\ Got(p)' = {} /\ Got(p) = {}
    BY <1>1, <2>1, <2>2 DEF Fetching, Deciding, Got, Moves
  <2>4. \A r \in Requests : r.index = p => conn[c].owed[r] = 0
    BY <1>1, <2>1, ConnFields DEF Fetching, Moves
  <2>5. AwaitedIsNew(p)'
    <3> SUFFICES ASSUME NEW d \in Conns, NEW r \in Requests, r.index = p, Awaits(d, r)'
                 PROVE  conn'[d].owed[r] = 1
      BY <2>3 DEF AwaitedIsNew
    <3>1. d = c
      BY <2>2 DEF Fetching, Awaits
    <3>2. QED
      BY <1>1, <2>4, <3>1
  <2>6. FetchedOnce(p)' /\ Untouched(p)' /\ CountIsGot(p)'
    BY <1>1, <1>2, <2>1, <2>2, <2>3 DEF PieceInv, FetchedOnce, Untouched, CountIsGot
  <2>7. HandledIsNew(p)' /\ TakenIsWhole(p)'
    BY <1>1, <2>2, <2>3 DEF HandledIsNew, TakenIsWhole, Fetching, At, Moves
  <2>8. QED
    BY <2>5, <2>6, <2>7 DEF PieceInv
<1>6. QED
  BY <1>4, <1>5 DEF FetchInv

(* No block is too long, and no verification fails.                        *)
LEMMA NothingWrong ==
  ASSUME TypeOK, FetchInv, NEW c \in Conns
  PROVE  ~RefuseMisfit(c) /\ ~VerifyFail(c)
<1>1. ASSUME RefuseMisfit(c) PROVE FALSE
  <2>1. At(c, "handle")
    BY <1>1 DEF RefuseMisfit
  <2>2. PICK r \in Requests : r.index = conn[c].msg.index /\ IsAnswer(c, r)
    BY <2>1, HandledRequest
  <2>3. Fits(r.index, r.begin, LenAt(r.index, r.begin))
    BY BlockInside
  <2>4. QED
    BY <1>1, <2>2, <2>3 DEF RefuseMisfit, IsAnswer
<1>2. ASSUME VerifyFail(c) PROVE FALSE
  <2>1. conn[c].msg.index \in Pieces /\ conn[c].pc = "verify"
        /\ conn[c].completed # Content(conn[c].msg.index)
    BY <1>2, ConnFields DEF VerifyFail, Verified, At
  <2>2. c \in Deciding(conn[c].msg.index)
    BY <2>1 DEF Deciding
  <2>3. QED
    BY <2>1, <2>2 DEF FetchInv, PieceInv, TakenIsWhole
<1>3. QED
  BY <1>1, <1>2

-----------------------------------------------------------------------------
(* The invariant                                                           *)

(* At first nothing is fetched and nothing has arrived.                    *)
LEMMA InitFetchInv == Init => FetchInv
<1> SUFFICES ASSUME Init, NEW p \in Pieces PROVE PieceInv(p)
  BY DEF FetchInv
<1>1. \A c \in Conns : conn[c].pc = "new" /\ \A r \in Requests : conn[c].owed[r] = 0
  BY DEF Init, NewConn
<1>2. state[p] = "Missing" /\ buffer[p] = NoBuffer /\ downloaded[p] = 0
  BY DEF Init, TableInit
<1>3. Fetching(p) = {} /\ Deciding(p) = {} /\ Got(p) = {}
  BY <1>1, <1>2 DEF Fetching, Deciding, Got
<1>4. Cardinality(Got(p)) = 0 /\ TotalSize(p) \in Nat
  BY <1>3, FS_EmptySet, TotalSizeType
<1>5. QED
  BY <1>1, <1>2, <1>3, <1>4
     DEF PieceInv, FetchedOnce, Untouched, AwaitedIsNew, HandledIsNew, TakenIsWhole, CountIsGot,
         Awaits, At

(* Every step but a clear keeps it, if no peer is bad.                     *)
LEMMA NextFetchInv ==
  ASSUME BadPeers = {}, TypeOK, FetchInv, [Next]_vars, ~ClearDownloading
  PROVE  FetchInv'
<1>1. ASSUME NEW c \in Conns, Local(c) \/ Remote(c) \/ RecvChoke(c) \/ RecvOther(c) \/ Drop(c)
      PROVE  FetchInv'
  BY <1>1, CalmSteps, CalmKeeps, RecvPieceKeeps, StoreOnlyKeeps, StoreAndTakeKeeps,
     VerifyAndWriteKeep, MarkDoneKeeps, ClaimKeeps, NothingWrong DEF Local, Remote
<1>2. CASE UNCHANGED vars
  <2>1. ASSUME NEW p \in Pieces PROVE Leaves(p)
    BY <1>2 DEF vars, connVars, table, Leaves, Awaits
  <2>2. QED
    BY <2>1, LeavesKeeps DEF FetchInv
<1>3. QED
  BY <1>1, <1>2 DEF Next

(* clears counts the clears.                                               *)
UntilClear == TypeOK /\ (clears = 0 => FetchInv)

(* Any step keeps it, as the first clear ends what it promises.            *)
LEMMA NextUntilClear ==
  ASSUME BadPeers = {}, UntilClear, [Next]_vars
  PROVE  UntilClear'
<1>1. TypeOK'
  BY NextTypeOK DEF UntilClear
<1>2. CASE ClearDownloading
  BY <1>1, <1>2 DEF ClearDownloading, UntilClear, TypeOK
<1>3. CASE ~ClearDownloading
  <2>1. clears' = clears
    BY <1>3, LocalTableType
       DEF UntilClear, Next, Remote, RecvUnchoke, RecvHave, RecvBitfield, RecvPiece, RecvChoke,
           RecvOther, Drop, vars, connVars
  <2>2. QED
    BY <1>1, <1>3, <2>1, NextFetchInv DEF UntilClear
<1>4. QED
  BY <1>2, <1>3

(* So it holds until the first clear.                                      *)
LEMMA FetchInvCorrect ==
  ASSUME BadPeers = {}
  PROVE  Spec => []UntilClear
<1>1. Init => UntilClear
  BY InitTypeOK, InitFetchInv DEF UntilClear
<1>2. UntilClear /\ [Next]_vars => UntilClear'
  BY NextUntilClear
<1>3. QED
  BY <1>1, <1>2, PTL DEF Spec

-----------------------------------------------------------------------------
(* What follows from it                                                    *)

(* Until the first clear, and among honest peers, no two connections fetch *)
(* the same piece, although each looks for its next piece without the      *)
(* mutex.                                                                  *)
THEOREM FetchedByOne ==
  ASSUME BadPeers = {}
  PROVE  Spec => [](clears = 0 => OneFetcher)
<1>1. UntilClear => (clears = 0 => OneFetcher)
  BY DEF UntilClear, FetchInv, PieceInv, FetchedOnce, OneFetcher
<1>2. QED
  BY <1>1, FetchInvCorrect, PTL

(* Until then, the buffer that is taken away to be verified has no byte    *)
(* that was not received.                                                  *)
THEOREM WholeWhenVerified ==
  ASSUME BadPeers = {}
  PROVE  Spec => [](clears = 0 => FullyDownloadedBeforeVerify)
<1>1. UntilClear => (clears = 0 => FullyDownloadedBeforeVerify)
  <2> SUFFICES ASSUME TypeOK, FetchInv, NEW c \in Conns, conn[c].pc = "verify",
                      NEW o \in Offsets(conn[c].msg.index)
               PROVE  conn[c].completed[o] # "zero"
    BY DEF UntilClear, FullyDownloadedBeforeVerify
  <2>1. conn[c].msg.index \in Pieces /\ c \in Deciding(conn[c].msg.index)
    BY ConnFields DEF Deciding
  <2>2. conn[c].completed = Content(conn[c].msg.index)
    BY <2>1 DEF FetchInv, PieceInv, TakenIsWhole
  <2>3. QED
    BY <2>2 DEF Content
<1>2. QED
  BY <1>1, FetchInvCorrect, PTL

(* The last piece is what is left of the torrent after the others.         *)
LEMMA LastSize == TotalSize(NumPieces - 1) = TotalLength - PieceLength * (NumPieces - 1)
<1> DEFINE k == NumPieces - 1
           q == TotalLength \div PieceLength
           m == TotalLength % PieceLength
<1>1. /\ k \in Nat /\ q \in Int /\ m \in 0 .. PieceLength - 1
      /\ TotalLength = PieceLength * q + m
  OBVIOUS
<1>2. PieceLength * (k + 1) = PieceLength * k + PieceLength /\ PieceLength * k \in Nat
  BY <1>1
<1>3. PieceLength * k < TotalLength /\ TotalLength <= PieceLength * k + PieceLength
  BY <1>1, <1>2
<1> HIDE DEF q, m, k
<1>4. CASE m = 0
  <2>1. TotalLength = PieceLength * q
    BY <1>1, <1>4
  <2>2. k < q /\ q <= k + 1
    BY <1>1, <1>2, <1>3, <2>1
  <2>3. q = k + 1
    BY <1>1, <2>2
  <2>4. QED
    BY <1>2, <1>4, <2>1, <2>3 DEF TotalSize, m, k
<1>5. CASE m # 0
  <2>1. q <= k
    <3>1. ASSUME q >= k + 1 PROVE FALSE
      <4>1. PieceLength * q >= PieceLength * (k + 1)
        BY <1>1, <3>1
      <4>2. QED
        BY <1>1, <1>2, <1>3, <1>5, <4>1
    <3>2. QED
      BY <1>1, <3>1
  <2>2. q >= k
    <3>1. ASSUME q + 1 <= k PROVE FALSE
      <4>1. PieceLength * (q + 1) <= PieceLength * k
        BY <1>1, <3>1
      <4>2. PieceLength * (q + 1) = PieceLength * q + PieceLength
        BY <1>1
      <4>3. QED
        BY <1>1, <1>3, <4>1, <4>2
    <3>2. QED
      BY <1>1, <3>1
  <2>3. q = k
    BY <1>1, <2>1, <2>2
  <2>4. m = TotalLength - PieceLength * k
    BY <1>1, <1>2, <2>3
  <2>5. QED
    BY <1>5, <2>4 DEF TotalSize, m, k
<1>6. QED
  BY <1>4, <1>5

(* Counts that are within the sizes of their pieces add up to no more than *)
(* the torrent has.                                                        *)
LEMMA CountsAddUp ==
  ASSUME TypeOK, \A p \in Pieces : downloaded[p] <= TotalSize(p)
  PROVE  Downloaded <= TotalLength
<1> DEFINE last == NumPieces - 1
           S == {p \in Pieces : state[p] # "Missing"}
           R == S \ {last}
           sum == SumFunctionOnSet(downloaded, R)
<1>1. \A p \in Pieces : downloaded[p] \in Nat
  BY DEF TypeOK, TableTypeOK
<1>2. last \in Nat
  OBVIOUS
<1>3. IsFiniteSet(0 .. last - 1) /\ Cardinality(0 .. last - 1) = last
  <2>1. /\ IsFiniteSet(0 .. last - 1)
        /\ Cardinality(0 .. last - 1) = IF 0 > last - 1 THEN 0 ELSE (last - 1) - 0 + 1
    BY FS_Interval
  <2>2. QED
    BY <2>1
<1>4. R \in SUBSET (0 .. last - 1)
  BY DEF Pieces
<1>5. IsFiniteSet(R) /\ Cardinality(R) \in Nat /\ Cardinality(R) <= last
  BY <1>3, <1>4, FS_Subset, FS_CardinalityType
<1>6. \A p \in R : downloaded[p] \in 0 .. PieceLength
  BY <1>1, <1>4 DEF Pieces, TotalSize
<1>7. sum <= Cardinality(R) * PieceLength /\ sum \in Nat
  <2>1. sum <= Cardinality(R) * PieceLength
    BY <1>5, <1>6, SumBound
  <2>2. QED
    BY <1>1, <1>5, <2>1, SumType DEF Pieces
<1>8. Cardinality(R) * PieceLength <= PieceLength * last /\ PieceLength * last \in Nat
      /\ Cardinality(R) * PieceLength \in Nat
  <2> DEFINE n == Cardinality(R)
  <2>1. n \in Nat /\ n <= last /\ last \in Nat
    BY <1>5
  <2> HIDE DEF n, last
  <2>2. n * PieceLength <= PieceLength * last /\ n * PieceLength \in Nat /\ PieceLength * last \in Nat
    BY <2>1
  <2>3. QED
    BY <2>2 DEF n
<1>9. sum <= PieceLength * last
  BY <1>7, <1>8
<1>10. CASE last \in S
  <2>1. IsFiniteSet(S)
    <3>1. S = R \cup {last}
      BY <1>10
    <3>2. QED
      BY <1>5, <3>1, FS_AddElement
  <2>2. Downloaded = downloaded[last] + sum
    BY <1>1, <1>10, <2>1, SumRemove DEF Downloaded
  <2>3. downloaded[last] <= TotalLength - PieceLength * last
    BY <1>10, LastSize
  <2>4. downloaded[last] \in Nat
    BY <1>1, <1>10
  <2>5. QED
    BY <1>7, <1>8, <1>9, <2>2, <2>3, <2>4
<1>11. CASE last \notin S
  <2>1. Downloaded = sum
    BY <1>11 DEF Downloaded
  <2>2. QED
    BY <1>7, <1>8, <1>9, <2>1
<1>12. QED
  BY <1>10, <1>11

(* Until the first clear, the bytes that are left are not a negative       *)
(* number, which the tracker would be told as an enormous one.             *)
THEOREM LeftIsNatural ==
  ASSUME BadPeers = {}
  PROVE  Spec => [](clears = 0 => LeftNeverWraps)
<1>1. UntilClear => (clears = 0 => LeftNeverWraps)
  BY CountsAddUp DEF UntilClear, FetchInv, PieceInv, CountIsGot, LeftNeverWraps
<1>2. QED
  BY <1>1, FetchInvCorrect, PTL
-----------------------------------------------------------------------------
(* Without a clear, no report is taken back                                *)

(* Only a clear and a failed verification take a piece's state back, a     *)
(* clear not that of a Done piece, and no verification fails.              *)
LEMMA DoneStays ==
  ASSUME TypeOK, FetchInv, [Next]_vars
  PROVE  Had \subseteq Had'
<1> SUFFICES ASSUME NEW p \in Pieces, state[p] = "Done" PROVE state'[p] = "Done"
  BY DEF Had
<1>1. state \in [Pieces -> {"Missing", "Downloading", "Done"}]
  BY DEF TypeOK, TableTypeOK
<1>2. ASSUME NEW c \in Conns, Local(c) \/ Remote(c) \/ RecvChoke(c) \/ RecvOther(c) \/ Drop(c)
      PROVE  state'[p] = "Done"
  <2>1. CASE Quiet(c)
    BY <2>1 DEF Quiet, table
  <2>2. CASE StoreOnly(c) \/ StoreAndTake(c) \/ VerifyOk(c) \/ WriteFiles(c)
    BY <2>2 DEF StoreOnly, StoreBlock, StoreAndTake, TakeBuffer, VerifyOk, WriteFiles, table
  <2>3. CASE MarkDone(c) \/ Claim(c)
    BY <1>1, <2>3, ConnFields DEF MarkDone, Claim, SetState, StillMissing
  <2>4. QED
    BY <1>2, <2>1, <2>2, <2>3, LocalQuiet, NothingWrong DEF Local
<1>3. CASE ClearDownloading
  BY <1>3 DEF ClearDownloading, ClearDownloadingPieces
<1>4. CASE UNCHANGED vars
  BY <1>4 DEF vars, table
<1>5. QED
  BY <1>2, <1>3, <1>4 DEF Next

(* No clear has happened, where none may.                                  *)
LEMMA NoClearCorrect ==
  ASSUME BadPeers = {}, MaxClears = 0
  PROVE  Spec => [](TypeOK /\ FetchInv)
<1>1. Init => TypeOK /\ FetchInv
  BY InitTypeOK, InitFetchInv
<1>2. TypeOK /\ FetchInv /\ [Next]_vars => TypeOK' /\ FetchInv'
  <2>1. TypeOK => ~ClearDownloading
    BY DEF TypeOK, ClearDownloading
  <2>2. QED
    BY <2>1, NextTypeOK, NextFetchInv
<1>3. QED
  BY <1>1, <1>2, PTL DEF Spec

(* A piece that is Done stays Done among honest peers, if no piece is ever *)
(* cleared.  (The run done_lost shows that it need not otherwise.)         *)
THEOREM DoneIsStable ==
  ASSUME BadPeers = {}, MaxClears = 0
  PROVE  Spec => DoneStable
<1>1. TypeOK /\ FetchInv /\ [Next]_vars =>
        [\A p \in Pieces : state[p] = "Done" => state'[p] = "Done"]_vars
  BY DoneStays DEF Had
<1>2. QED
  BY <1>1, NoClearCorrect, PTL DEF Spec, DoneStable

(* And then any number of connections that race for the pieces implement   *)
(* the strict store, in which no report is ever taken back.                *)
THEOREM StrictStoreImplemented ==
  ASSUME BadPeers = {}, MaxClears = 0
  PROVE  Spec => ImplementsStrictStore
<1>1. Inv /\ TypeOK /\ FetchInv /\ [Next]_vars => [StrictStore!Next]_<<Stored, Had>>
  <2> SUFFICES ASSUME Inv, TypeOK, FetchInv, [Next]_vars
               PROVE  StrictStore!Next \/ UNCHANGED <<Stored, Had>>
    OBVIOUS
  <2>1. Store!Next \/ UNCHANGED <<Stored, Had>>
    BY NextImplements DEF Inv
  <2>2. Had \subseteq Had'
    BY DoneStays
  <2>3. ASSUME NEW p \in Pieces, Store!Forget(p) PROVE UNCHANGED <<Stored, Had>>
    BY <2>2, <2>3 DEF Store!Forget
  <2>4. ASSUME NEW p \in Pieces, Store!Store(p) \/ Store!Report(p) PROVE StrictStore!Next
    BY <2>4 DEF Store!Store, Store!Report, StrictStore!Next, StrictStore!Store, StrictStore!Report
  <2>5. QED
    BY <2>1, <2>3, <2>4 DEF Store!Next
<1>2. Init => StrictStore!Init
  BY InitImplements DEF Init, Store!Init, StrictStore!Init
<1>3. QED
  BY <1>1, <1>2, InvCorrect, NoClearCorrect, PTL DEF Spec, ImplementsStrictStore, StrictStore!Spec
=============================================================================
