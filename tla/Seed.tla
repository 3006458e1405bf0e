-------------------------------- MODULE Seed --------------------------------
(***************************************************************************)
(* Seeding: SeedServer accepts connections and runs a SeedConn for each,   *)
(* over the piece table and the files that the connections of PeerConn go  *)
(* on filling.  A seed tells the leecher once which pieces it has, reading *)
(* the table entry by entry without the mutex, and answers its Requests:   *)
(* it reads the state, and then the files, of the piece asked for.         *)
(*                                                                         *)
(* The leecher is external; it asks for blocks as Requests lists them, of  *)
(* pieces it was told of or not.  What it sends besides, KeepAlives among  *)
(* it, changes nothing in the seed.                                        *)
(***************************************************************************)
EXTENDS PeerConn

CONSTANTS Leechers   \* the connections to leechers

VARIABLES seed       \* seed[l]: the coroutine SeedConn::run of connection l

seedVars == <<vars, seed>>

(* Where a seed's coroutine stands:                                        *)
(*   closed     it has ended, or not begun                                 *)
(*   handshake  waiting for the leecher's handshake                        *)
(*   bitfield   send_bitfield, one entry at a time; it has sent Unchoke    *)
(*   idle       waiting in recv_message                                    *)
(*   check      handle_request reads the state                             *)
(*   read       get_piece_by_index                                         *)
(*   send       it sends the block                                         *)
SeedPlaces == {"closed", "handshake", "bitfield", "idle", "check", "read", "send"}

NoRequest == [index |-> 0, begin |-> 0]

ClosedSeed ==
    [pc |-> "closed",
     cursor |-> 0,
     told |-> {},           \* the pieces of the Bitfield
     asked |-> NoRequest,   \* the Request being handled
     block |-> NoBuffer]    \* the bytes of the answer

SeedInit ==
    /\ Init
    /\ seed = [l \in Leechers |-> ClosedSeed]

SeedAt(l, place) == seed[l].pc = place

SeedUpdate(l, r) == seed' = [seed EXCEPT ![l] = r] /\ UNCHANGED vars

Accept(l) ==
    /\ SeedAt(l, "closed")
    /\ SeedUpdate(l, [ClosedSeed EXCEPT !.pc = "handshake"])

(* The handshake is one for a torrent of torrent_map.                      *)
Handshake(l) ==
    /\ SeedAt(l, "handshake")
    /\ SeedUpdate(l, [seed[l] EXCEPT !.pc = "bitfield"])

(* It is not, the leecher leaves, or the connection fails.                 *)
Hangup(l) ==
    /\ seed[l].pc \in {"handshake", "idle"}
    /\ SeedUpdate(l, ClosedSeed)

(* A bit of the Bitfield.                                                  *)
Announces_Had(p) == state[p] # "Missing"
Announces(p) == state[p] = "Done"

LastBit_PastEnd(p) == p = NumPieces
LastBit(p) == p + 1 = NumPieces

SendBit(l) ==
    LET p == seed[l].cursor
    IN  /\ SeedAt(l, "bitfield")
        /\ SeedUpdate(l, [seed[l] EXCEPT
             !.pc = IF LastBit(p) THEN "idle" ELSE "bitfield",
             !.cursor = IF LastBit(p) THEN 0 ELSE p + 1,
             !.told = IF Announces(p) THEN @ \cup {p} ELSE @])

RecvRequest(l) ==
    /\ SeedAt(l, "idle")
    /\ \E r \in Requests : SeedUpdate(l, [seed[l] EXCEPT !.pc = "check", !.asked = r])

(* handle_request serves a piece that is Done, ...                         *)
Serves_Always(p) == TRUE
Serves(p) == state[p] = "Done"

CheckDone(l) ==
    /\ SeedAt(l, "check") /\ Serves(seed[l].asked.index)
    /\ SeedUpdate(l, [seed[l] EXCEPT !.pc = "read"])

(* ... and for any other closes the socket, which ends run at its next     *)
(* message.                                                                *)
Refuse(l) ==
    /\ SeedAt(l, "check") /\ ~Serves(seed[l].asked.index)
    /\ SeedUpdate(l, ClosedSeed)

(* The files were made as long as the torrent, of zeros.                   *)
OnDisk(p) == IF disk[p] = NoBuffer THEN [o \in Offsets(p) |-> "zero"] ELSE disk[p]

ReadBlock(l) ==
    LET r == seed[l].asked
    IN  /\ SeedAt(l, "read")
        /\ SeedUpdate(l, [seed[l] EXCEPT !.pc = "send",
             !.block = [o \in r.begin .. r.begin + LenAt(r.index, r.begin) - 1 |->
                          OnDisk(r.index)[o]]])

SendBlock(l) ==
    /\ SeedAt(l, "send")
    /\ SeedUpdate(l, [seed[l] EXCEPT !.pc = "idle", !.asked = NoRequest, !.block = NoBuffer])

Serve(l) ==
    \/ Accept(l) \/ Handshake(l) \/ Hangup(l) \/ SendBit(l) \/ RecvRequest(l)
    \/ CheckDone(l) \/ Refuse(l) \/ ReadBlock(l) \/ SendBlock(l)

SeedNext == (Next /\ UNCHANGED seed) \/ \E l \in Leechers : Serve(l)

SeedSpec == SeedInit /\ [][SeedNext]_seedVars

-----------------------------------------------------------------------------
(* Properties                                                              *)

(* Every variable has its type.                                            *)
SeedTypeOK ==
    /\ TypeOK
    /\ DOMAIN seed = Leechers
    /\ \A l \in Leechers :
        /\ seed[l].pc \in SeedPlaces
        /\ seed[l].cursor \in Pieces
        /\ seed[l].told \subseteq Pieces
        /\ seed[l].asked \in Requests

(* The pieces a leecher was told of are in the files, however the table    *)
(* changed while the Bitfield was put together and since.                  *)
ToldIsStored ==
    \A l \in Leechers : seed[l].told \ LossyPieces \subseteq Stored

(* Every block that is sent is the torrent's, also when its piece is       *)
(* cleared, fetched and written once more between the check and the read.  *)
SentIsRight ==
    \A l \in Leechers :
        SeedAt(l, "send") /\ seed[l].asked.index \notin LossyPieces =>
            \A o \in DOMAIN seed[l].block : seed[l].block[o] = "good"

(* No leecher is thrown out for asking for a piece it was told of: the     *)
(* connections that race for the pieces never take back what a seed has    *)
(* promised (as long as peers are honest and no piece is cleared).         *)
KeepsItsWord ==
    [][\A l \in Leechers :
         SeedAt(l, "check") /\ seed'[l].pc = "closed" =>
             seed[l].asked.index \notin seed[l].told]_seedVars
=============================================================================
