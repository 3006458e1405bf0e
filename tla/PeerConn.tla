------------------------------ MODULE PeerConn ------------------------------
(***************************************************************************)
(* The connections that download a torrent: one coroutine PeerConn2::run   *)
(* per peer, all of them over the piece table of TorrentState.             *)
(*                                                                         *)
(* A coroutine runs alone from one co_await to the next, but two           *)
(* coroutines run in parallel on two threads, so a step here is one        *)
(* critical section under pieces_mutex, or one unlocked access to the      *)
(* shared table or to the files; what only touches the coroutine's own     *)
(* state joins the step before it.  A message is one step from the wait    *)
(* in recv_message to the first access of its handler.                     *)
(*                                                                         *)
(* The peer at the other end is external: it announces the pieces it has,  *)
(* chokes and unchokes, and answers the requests it was sent in any order. *)
(***************************************************************************)
EXTENDS TorrentState

CONSTANTS
    Conns,         \* the connections ever opened, a reconnection being another one
    Has,           \* Has[c]: the pieces the peer of c has
    First,         \* First[c]: those it lists in its Bitfield; it announces the others
    BadPeers,      \* connections whose peer may send wrong or too long blocks
    Orderly,       \* connections whose peer sends its Bitfield before it unchokes
    Polite,        \* connections whose peer unchokes only after an Interested
    Droppable,     \* connections that may fail or be cancelled
    MaxClears,     \* bound: calls of clear_downloading_pieces
    MaxChokes      \* bound: times each peer chokes again

ASSUME PeersAssumption ==
    /\ Has \in [Conns -> SUBSET Pieces]
    /\ First \in [Conns -> SUBSET Pieces]
    /\ \A c \in Conns : First[c] \subseteq Has[c]
    /\ BadPeers \cup Orderly \cup Polite \cup Droppable \subseteq Conns
    /\ MaxClears \in Nat /\ MaxChokes \in Nat

(* A Request message; the length is LenAt(index, begin).                   *)
Requests == UNION {[index : {p}, begin : BlocksOf(p)] : p \in Pieces}

VARIABLES
    conn,     \* conn[c]: the coroutine's locals and the members of its PeerConn2
    clears,   \* calls of clear_downloading_pieces so far
    chokes    \* chokes[c]: Choke messages received so far

connVars == <<conn, clears, chokes>>
vars == <<table, disk, connVars>>

(* Where a coroutine stands:                                               *)
(*   new       PeerConn2::create reads is_done()                           *)
(*   loop      the loop condition of run                                   *)
(*   idle      waiting in recv_message                                     *)
(*   bitfield  comparing a Bitfield with the table                         *)
(*   handle    handle_piece before its first critical section              *)
(*   verify    it has moved the buffer out and computes its SHA1           *)
(*   write     it writes the buffer to the files                           *)
(*   mark      it is about to mark the piece Done                          *)
(*   after     run reads the piece's state again                           *)
(*   scan      next_missing_piece, one entry at a time                     *)
(*   claim     request_next_piece has found a piece and takes the mutex    *)
(*   closed    the coroutine has ended                                     *)
Places == {"new", "loop", "idle", "bitfield", "handle", "verify", "write",
           "mark", "after", "scan", "claim", "closed"}

NoMsg == [index |-> 0, begin |-> 0, len |-> 0, byte |-> "good"]

NewConn ==
    [pc |-> "new",
     cursor |-> 0,               \* the entry an unlocked scan reads next
     caller |-> "unchoke",       \* which case of run called request_next_piece
     msg |-> NoMsg,              \* the Piece message being handled
     wasDone |-> FALSE,
     completed |-> NoBuffer,     \* completed_buffer of handle_piece
     peerChoking |-> TRUE,
     amInterested |-> FALSE,
     told |-> FALSE,             \* an Interested message was sent
     gotBitfield |-> FALSE,      \* ~bitfield.empty()
     bitfield |-> {},            \* the pieces whose bit is set
     fetched |-> {},             \* the member "downloaded", as a set
     exhausted |-> FALSE,        \* downloaded_all_what_can
     heard |-> {},               \* the pieces the peer announced, heeded or not
     owed |-> [r \in Requests |-> 0]]  \* the requests the peer has yet to answer

Init ==
    /\ TableInit
    /\ conn = [c \in Conns |-> NewConn]
    /\ clears = 0
    /\ chokes = [c \in Conns |-> 0]

At(c, place) == conn[c].pc = place

Update(c, r) == conn' = [conn EXCEPT ![c] = r]

Goto(c, place) == Update(c, [conn[c] EXCEPT !.pc = place])

(* The condition of the loop in run, and the test of create: is_done()     *)
(* reads the table without the mutex and stops at the first entry that is  *)
(* not Done.                                                               *)
IsDoneScan_PastEnd(c, notDone) ==
    /\ Update(c, IF state[conn[c].cursor] # "Done"
                 THEN [conn[c] EXCEPT !.pc = notDone, !.cursor = 0]
                 ELSE [conn[c] EXCEPT !.cursor = @ + 1])
    /\ UNCHANGED <<table, disk, clears, chokes>>
IsDoneScan(c, notDone) ==
    LET p == conn[c].cursor
    IN  /\ IF state[p] # "Done"
           THEN Update(c, [conn[c] EXCEPT !.pc = notDone, !.cursor = 0])
           ELSE IF p + 1 < NumPieces
           THEN Update(c, [conn[c] EXCEPT !.cursor = p + 1])
           ELSE Update(c, [conn[c] EXCEPT !.pc = "closed", !.cursor = 0])
        /\ UNCHANGED <<table, disk, clears, chokes>>

(* create throws when the torrent is done; else it connects, and run sends *)
(* and checks the handshakes.                                              *)
Create(c) == At(c, "new") /\ IsDoneScan(c, "idle")

(* The loop ends when the torrent is done and the flag is set.             *)
LoopTest_ExhaustedAlone(c) ==
    /\ At(c, "loop")
    /\ Goto(c, IF conn[c].exhausted THEN "closed" ELSE "idle")
    /\ UNCHANGED <<table, disk, clears, chokes>>
LoopTest(c) ==
    /\ At(c, "loop")
    /\ IF conn[c].exhausted
       THEN IsDoneScan(c, "idle")
       ELSE Goto(c, "idle") /\ UNCHANGED <<table, disk, clears, chokes>>

(* The connection fails, is refused, or is cancelled by reconnect_peers: a *)
(* co_await throws and the coroutine ends.  Nothing in the table changes.  *)
(* handle_piece has no co_await of its own that suspends, and a failure    *)
(* while requests are being sent is one right after: nobody answers.       *)
Drop(c) ==
    /\ c \in Droppable
    /\ conn[c].pc \in {"new", "idle"}
    /\ Update(c, [NewConn EXCEPT !.pc = "closed"])
    /\ UNCHANGED <<table, disk, clears, chokes>>

-----------------------------------------------------------------------------
(* Messages other than Piece                                               *)

RecvChoke(c) ==
    /\ At(c, "idle") /\ ~conn[c].peerChoking
    /\ chokes[c] < MaxChokes
    /\ chokes' = [chokes EXCEPT ![c] = @ + 1]
    /\ Update(c, [conn[c] EXCEPT !.pc = "loop", !.peerChoking = TRUE,
                            !.owed = [r \in Requests |-> 0]])
    /\ UNCHANGED <<table, disk, clears>>

(* Both branches go on to request a piece; the one for a connection that   *)
(* is not interested yet sends Interested, and does not remember it.       *)
RecvUnchoke(c) ==
    /\ At(c, "idle") /\ conn[c].peerChoking
    /\ c \in Orderly => conn[c].gotBitfield
    /\ c \in Polite => conn[c].told
    /\ Update(c, [conn[c] EXCEPT !.pc = "scan", !.cursor = 0,
                            !.caller = "unchoke", !.peerChoking = FALSE,
                            !.told = @ \/ ~conn[c].amInterested])
    /\ UNCHANGED <<table, disk, clears, chokes>>

(* KeepAlive, which is answered, and every message run has no case for,    *)
(* a Request among them, only bring it back to the loop condition.         *)
RecvOther(c) ==
    /\ At(c, "idle")
    /\ Goto(c, "loop")
    /\ UNCHANGED <<table, disk, clears, chokes>>

(* A Have is heeded only after a Bitfield.                                 *)
RecvHave(c) ==
    \E p \in Has[c] \ (conn[c].heard \cup First[c]) :
        /\ At(c, "idle")
        /\ LET heeded == conn[c].gotBitfield /\ p \notin conn[c].bitfield
           IN  Update(c, [conn[c] EXCEPT
                 !.pc = "loop",
                 !.heard = @ \cup {p},
                 !.bitfield = IF heeded THEN @ \cup {p} ELSE @,
                 !.fetched = IF heeded /\ state[p] # "Missing" THEN @ \cup {p} ELSE @])
        /\ UNCHANGED <<table, disk, clears, chokes>>

(* A peer sends its Bitfield at most once, and only if it has a piece.     *)
RecvBitfield(c) ==
    /\ At(c, "idle") /\ ~conn[c].gotBitfield /\ First[c] # {}
    /\ Update(c, [conn[c] EXCEPT !.pc = "bitfield", !.cursor = 0,
                            !.gotBitfield = TRUE, !.bitfield = First[c],
                            !.heard = @ \cup First[c]])
    /\ UNCHANGED <<table, disk, clears, chokes>>

(* Bit by bit: a piece the peer has counts as fetched when the table, read *)
(* without the mutex, does not say Missing.  At the end the connection is  *)
(* exhausted or becomes interested; it says so only to a peer that has     *)
(* unchoked it already.                                                    *)
ReadBit(c) ==
    LET p    == conn[c].cursor
        got  == IF p \in conn[c].bitfield /\ state[p] # "Missing"
                THEN conn[c].fetched \cup {p} ELSE conn[c].fetched
        last == p + 1 = NumPieces
        all  == got = conn[c].bitfield
    IN  /\ At(c, "bitfield")
        /\ Update(c, [conn[c] EXCEPT
             !.pc = IF last THEN "loop" ELSE "bitfield",
             !.cursor = IF last THEN 0 ELSE p + 1,
             !.fetched = got,
             !.exhausted = @ \/ (last /\ all),
             !.amInterested = @ \/ (last /\ ~all),
             !.told = @ \/ (last /\ ~all /\ ~conn[c].peerChoking)])
        /\ UNCHANGED <<table, disk, clears, chokes>>

-----------------------------------------------------------------------------
(* A Piece message: the case of run and handle_piece                       *)

(* The blocks the peer of c may answer request r with.                     *)
Answers(c, r) ==
    LET len == LenAt(r.index, r.begin)
    IN  [index : {r.index}, begin : {r.begin},
         len : IF c \in BadPeers THEN {len, len + 1} ELSE {len},
         byte : IF c \in BadPeers THEN {"good", "bad"} ELSE {"good"}]

(* was_done is read before handle_piece, without the mutex.                *)
RecvPiece(c) ==
    /\ At(c, "idle") /\ ~conn[c].peerChoking
    /\ \E r \in {q \in Requests : conn[c].owed[q] > 0} : \E m \in Answers(c, r) :
         Update(c, [conn[c] EXCEPT !.pc = "handle", !.msg = m,
                              !.wasDone = state[r.index] = "Done",
                              !.owed[r] = @ - 1])
    /\ UNCHANGED <<table, disk, clears, chokes>>

(* Blocks of a Done piece do not enter the table.                          *)
Refuses(p) == state[p] = "Done"

(* The first critical section: a block of a Done piece is ignored, ...     *)
IgnoreDone(c) ==
    /\ At(c, "handle") /\ Refuses(conn[c].msg.index)
    /\ Goto(c, "after")
    /\ UNCHANGED <<table, disk, clears, chokes>>

(* ... a block that does not fit is refused, ...                           *)
RefuseMisfit(c) ==
    LET m == conn[c].msg
    IN  /\ At(c, "handle") /\ ~Refuses(m.index)
        /\ ~Fits(m.index, m.begin, m.len)
        /\ RefuseBlock(m.index)
        /\ Goto(c, "after")
        /\ UNCHANGED <<disk, clears, chokes>>

(* ... any other block is stored, whether the piece is Downloading or not. *)
StoreOnly(c) ==
    LET m == conn[c].msg
    IN  /\ At(c, "handle") /\ ~Refuses(m.index)
        /\ Fits(m.index, m.begin, m.len)
        /\ StoreBlock(m.index, m.begin, m.len, m.byte)
        /\ Goto(c, "after")
        /\ UNCHANGED <<disk, clears, chokes>>

(* The connection whose block completes the count takes the buffer away.   *)
StoreAndTake(c) ==
    LET m == conn[c].msg
    IN  /\ At(c, "handle") /\ ~Refuses(m.index)
        /\ Fits(m.index, m.begin, m.len)
        /\ TakeBuffer(m.index, m.len)
        /\ Update(c, [conn[c] EXCEPT !.pc = "verify",
                      !.completed = Copied(m.index, m.begin, m.len, m.byte)])
        /\ UNCHANGED <<disk, clears, chokes>>

Verified(c) == conn[c].completed = Content(conn[c].msg.index)

VerifyOk_Unchecked(c) ==
    At(c, "verify") /\ Goto(c, "write") /\ UNCHANGED <<table, disk, clears, chokes>>
VerifyOk(c) ==
    /\ At(c, "verify") /\ Verified(c)
    /\ Goto(c, "write")
    /\ UNCHANGED <<table, disk, clears, chokes>>

(* A wrong SHA1: the piece is Missing again, whatever it was by now.       *)
VerifyFail(c) ==
    /\ At(c, "verify") /\ ~Verified(c)
    /\ ResetPiece(conn[c].msg.index)
    /\ Update(c, [conn[c] EXCEPT !.pc = "after", !.completed = NoBuffer])
    /\ UNCHANGED <<disk, clears, chokes>>

(* The writes to the piece's files; the result of a write is not looked at.*)
WriteFiles(c) ==
    LET p == conn[c].msg.index
    IN  /\ At(c, "write")
        /\ \/ disk' = [disk EXCEPT ![p] = conn[c].completed]
           \/ p \in LossyPieces /\ UNCHANGED disk
        /\ Goto(c, "mark")
        /\ UNCHANGED <<table, clears, chokes>>

MarkDone(c) ==
    LET p   == conn[c].msg.index
        got == conn[c].fetched \cup {p}
    IN  /\ At(c, "mark")
        /\ SetState(p, "Done")
        /\ Update(c, [conn[c] EXCEPT !.pc = "after", !.completed = NoBuffer,
                                !.fetched = got,
                                !.exhausted = @ \/ got = conn[c].bitfield])
        /\ UNCHANGED <<disk, clears, chokes>>

(* Back in run: the state is read again, without the mutex, and decides    *)
(* whether to request another piece.                                       *)
AfterPiece_NoNext(c) ==
    /\ At(c, "after")
    /\ Update(c, [conn[c] EXCEPT !.pc = "loop", !.msg = NoMsg, !.wasDone = FALSE])
    /\ UNCHANGED <<table, disk, clears, chokes>>
AfterPiece(c) ==
    LET more == ~conn[c].peerChoking /\ (conn[c].wasDone \/ state[conn[c].msg.index] = "Done")
    IN  /\ At(c, "after")
        /\ Update(c, [conn[c] EXCEPT !.pc = IF more THEN "scan" ELSE "loop",
                                !.cursor = 0, !.caller = IF more THEN "piece" ELSE @,
                                !.msg = NoMsg, !.wasDone = FALSE])
        /\ UNCHANGED <<table, disk, clears, chokes>>

-----------------------------------------------------------------------------
(* request_next_piece                                                      *)

(* It returned false: only the Piece case sets downloaded_all_what_can.    *)
ReturnFalse(c) ==
    Update(c, [conn[c] EXCEPT !.pc = "loop", !.cursor = 0, !.caller = "unchoke",
                         !.exhausted = @ \/ conn[c].caller = "piece"])

Wanted(c, p) == state[p] = "Missing" /\ p \in conn[c].bitfield

(* next_missing_piece reads the table without the mutex, from the start.   *)
ScanFound(c) ==
    /\ At(c, "scan") /\ Wanted(c, conn[c].cursor)
    /\ Goto(c, "claim")
    /\ UNCHANGED <<table, disk, clears, chokes>>

ScanNext(c) ==
    /\ At(c, "scan") /\ ~Wanted(c, conn[c].cursor)
    /\ conn[c].cursor + 1 < NumPieces
    /\ Update(c, [conn[c] EXCEPT !.cursor = @ + 1])
    /\ UNCHANGED <<table, disk, clears, chokes>>

ScanNothing(c) ==
    /\ At(c, "scan") /\ ~Wanted(c, conn[c].cursor)
    /\ conn[c].cursor + 1 = NumPieces
    /\ ReturnFalse(c)
    /\ UNCHANGED <<table, disk, clears, chokes>>

(* Under the mutex the state is read again; another thread may have taken  *)
(* the piece.                                                              *)
StillMissing_Assumed(p) == TRUE
StillMissing(p) == state[p] = "Missing"

ClaimLost(c) ==
    /\ At(c, "claim") /\ ~StillMissing(conn[c].cursor)
    /\ ReturnFalse(c)
    /\ UNCHANGED <<table, disk, clears, chokes>>

(* The claim keeps whatever count and buffer the entry has, and every      *)
(* block of the piece is requested at once.                                *)
Claim(c) ==
    LET p == conn[c].cursor
    IN  /\ At(c, "claim") /\ StillMissing(p)
        /\ SetState(p, "Downloading")
        /\ Update(c, [conn[c] EXCEPT !.pc = "loop", !.cursor = 0, !.caller = "unchoke",
                      !.owed = [r \in Requests |-> IF r.index = p THEN @[r] + 1 ELSE @[r]]])
        /\ UNCHANGED <<disk, clears, chokes>>

-----------------------------------------------------------------------------
(* The downloader's check of hung pieces (Downloader::run, every 30 s).    *)
ClearDownloading ==
    /\ clears < MaxClears
    /\ clears' = clears + 1
    /\ ClearDownloadingPieces
    /\ UNCHANGED <<disk, conn, chokes>>

(* The steps a coroutine takes by itself, and those that need its peer.    *)
Local(c) ==
    \/ Create(c) \/ LoopTest(c) \/ ReadBit(c)
    \/ IgnoreDone(c) \/ RefuseMisfit(c) \/ StoreOnly(c) \/ StoreAndTake(c)
    \/ VerifyOk(c) \/ VerifyFail(c) \/ WriteFiles(c) \/ MarkDone(c) \/ AfterPiece(c)
    \/ ScanFound(c) \/ ScanNext(c) \/ ScanNothing(c) \/ ClaimLost(c) \/ Claim(c)

Remote(c) == RecvUnchoke(c) \/ RecvHave(c) \/ RecvBitfield(c) \/ RecvPiece(c)

Next ==
    \/ \E c \in Conns : Local(c) \/ Remote(c) \/ RecvChoke(c) \/ RecvOther(c) \/ Drop(c)
    \/ ClearDownloading

Spec == Init /\ [][Next]_vars

(* io_context runs every ready coroutine (Local).  A peer sends what it    *)
(* owes after finitely many other messages, and the socket keeps their     *)
(* order, so each message is received if run waits for it again and again. *)
(* No peer need choke, send a message run ignores, or fail.                *)
Fairness ==
    \A c \in Conns :
        /\ WF_vars(Local(c))
        /\ SF_vars(RecvUnchoke(c)) /\ SF_vars(RecvHave(c))
        /\ SF_vars(RecvBitfield(c)) /\ SF_vars(RecvPiece(c))

FairSpec == Spec /\ Fairness

-----------------------------------------------------------------------------
(* Properties                                                              *)

ConnRecord ==
    [pc : Places, cursor : Pieces, caller : {"unchoke", "piece"},
     msg : [index : Pieces, begin : Nat, len : Nat, byte : Byte],
     wasDone : BOOLEAN,
     completed : Buffers,
     peerChoking : BOOLEAN, amInterested : BOOLEAN, told : BOOLEAN,
     gotBitfield : BOOLEAN, bitfield : SUBSET Pieces, fetched : SUBSET Pieces,
     exhausted : BOOLEAN, heard : SUBSET Pieces, owed : [Requests -> Nat]]

(* Every variable has its type.                                            *)
TypeOK ==
    /\ TableTypeOK
    /\ conn \in [Conns -> ConnRecord]
    /\ clears \in Nat
    /\ chokes \in [Conns -> Nat]

(* A piece the table calls Done has its verified content in the files,     *)
(* unless a write to them may fail: no order of blocks, hash checks,       *)
(* clears and claims lets handle_piece mark a piece whose bytes are        *)
(* missing, wrong or still on their way.                                   *)
DoneOnDisk ==
    \A p \in Pieces \ LossyPieces : state[p] = "Done" => disk[p] = Content(p)

(* What a connection writes was verified, and what it is about to mark     *)
(* Done is in the files, whatever the others wrote, cleared or marked      *)
(* since: the moved-out buffer is its own.                                 *)
HeldContent ==
    \A c \in Conns :
        LET p == conn[c].msg.index
        IN  /\ conn[c].pc = "write" => conn[c].completed = Content(p)
            /\ conn[c].pc = "mark" /\ p \notin LossyPieces => disk[p] = Content(p)

(* The connections that have taken the buffer of p and still decide on it. *)
Deciding(p) ==
    {c \in Conns : conn[c].pc \in {"verify", "write", "mark"} /\ conn[c].msg.index = p}

(* A piece whose byte count is full and that is not Done is in the hands   *)
(* of some connection that will mark it Done or reset it: handle_piece     *)
(* leaves the count standing outside the mutex, and no interleaving leaves *)
(* it standing with nobody to resolve it (every later block would then be  *)
(* taken for the last one).                                                *)
FullCountIsDecided ==
    \A p \in Pieces :
        downloaded[p] >= TotalSize(p) /\ state[p] # "Done" => Deciding(p) # {}

(* When handle_piece takes a buffer to verify it, every byte of the piece  *)
(* has been received ("If the piece is fully downloaded, checks sha1").    *)
FullyDownloadedBeforeVerify ==
    \A c \in Conns :
        conn[c].pc = "verify" =>
            \A o \in Offsets(conn[c].msg.index) : conn[c].completed[o] # "zero"

(* A piece that is Done stays Done.                                        *)
DoneStable ==
    [][\A p \in Pieces : state[p] = "Done" => state'[p] = "Done"]_vars

(* total_length - downloaded(), the "left" that is announced to the        *)
(* tracker as an unsigned number, never wraps.                             *)
LeftNeverWraps == Downloaded <= TotalLength

(* The connections a piece still has to arrive on: blocks are owed, or one *)
(* is being handled.                                                       *)
Fetching(p) ==
    {c \in Conns :
        \/ conn[c].pc # "closed" /\ \E r \in Requests : r.index = p /\ conn[c].owed[r] > 0
        \/ conn[c].pc \in {"handle", "verify", "write", "mark"} /\ conn[c].msg.index = p}

(* The second look under the mutex in request_next_piece gives each piece  *)
(* to one connection: no two connections fetch the same one.               *)
OneFetcher ==
    \A p \in Pieces : \A c, d \in Fetching(p) : c = d

(* Every piece is Done in the end.                                         *)
EventuallyDone == <>(\A p \in Pieces : state[p] = "Done")

Stored == {p \in Pieces : disk[p] = Content(p)}
Had == {p \in Pieces : state[p] = "Done"}

(* The connections implement the abstract store, and where no report may   *)
(* be taken back, the strict one.                                          *)
Store == INSTANCE PieceStore WITH
            Unreliable <- LossyPieces, MayForget <- TRUE, stored <- Stored, have <- Had
StrictStore == INSTANCE PieceStore WITH
            Unreliable <- LossyPieces, MayForget <- FALSE, stored <- Stored, have <- Had

ImplementsStore == Store!Spec
ImplementsStrictStore == StrictStore!Spec
=============================================================================
