----------------------------- MODULE SeedProofs -----------------------------
(***************************************************************************)
(* What a seed tells and sends, for any number of connections and          *)
(* leechers, whatever the downloading connections do meanwhile.            *)
(***************************************************************************)
EXTENDS Seed, PeerConnProofs

USE SizesAssumption

(***************************************************************************)
(* The invariant.  A seed reads the state of a piece without the mutex and *)
(* acts on it later, when the piece need not be Done any more.  What it    *)
(* needs is weaker and does not change: the piece was Done, so its content *)
(* was in the files (DoneOnDisk), and content in the files stays there     *)
(* (StoredGrows).                                                          *)
(***************************************************************************)
SeedFields == {"pc", "cursor", "told", "asked", "block"}

SeedTypes ==
    /\ DOMAIN seed = Leechers
    /\ \A l \in Leechers :
        /\ DOMAIN seed[l] = SeedFields
        /\ seed[l].pc \in SeedPlaces
        /\ seed[l].cursor \in Pieces
        /\ seed[l].told \subseteq Pieces
        /\ seed[l].asked \in Requests

ReadsStored ==
    \A l \in Leechers :
        SeedAt(l, "read") /\ seed[l].asked.index \notin LossyPieces =>
            seed[l].asked.index \in Stored

SeedInv == SeedTypes /\ ToldIsStored /\ ReadsStored /\ SentIsRight

-----------------------------------------------------------------------------
(* The request that stands for none is one.                                *)
LEMMA NoRequestType == NoRequest \in Requests
<1>1. 0 \in Pieces /\ TotalSize(0) \in Nat \ {0}
  BY TotalSizeType DEF Pieces
<1>2. 0 \in BlocksOf(0)
  BY <1>1 DEF BlocksOf, Offsets
<1> QED
  BY <1>1, <1>2 DEF NoRequest, Requests

(* A request lies within its piece.                                        *)
LEMMA RequestFits ==
  ASSUME NEW r \in Requests
  PROVE  /\ r.index \in Pieces
         /\ r.begin .. r.begin + LenAt(r.index, r.begin) - 1 \subseteq Offsets(r.index)
<1>1. PICK p \in Pieces : r \in [index : {p}, begin : BlocksOf(p)]
  BY DEF Requests
<1>2. r.index = p /\ r.begin \in Offsets(p) /\ TotalSize(p) \in Nat
  BY <1>1, TotalSizeType DEF BlocksOf
<1> QED
  BY <1>2 DEF Offsets, LenAt

-----------------------------------------------------------------------------
(* No seed has promised or read anything at first.                         *)
LEMMA SeedInitInv == SeedInit => SeedInv
<1> SUFFICES ASSUME SeedInit PROVE SeedInv
  OBVIOUS
<1>1. \A l \in Leechers : seed[l] = ClosedSeed
  BY DEF SeedInit
<1>2. 0 \in Pieces
  BY DEF Pieces
<1>3. SeedTypes
  BY <1>1, <1>2, NoRequestType DEF SeedInit, SeedTypes, ClosedSeed, SeedPlaces, SeedFields
<1> QED
  BY <1>1, <1>3 DEF SeedInv, ToldIsStored, ReadsStored, SentIsRight, ClosedSeed, SeedAt

(* What the downloading connections do keeps a seed's promises.            *)
LEMMA NextKeepsSeed == Inv /\ SeedInv /\ [Next]_vars /\ UNCHANGED seed => SeedInv'
<1> SUFFICES ASSUME Inv, SeedInv, [Next]_vars, UNCHANGED seed PROVE SeedInv'
  OBVIOUS
<1>1. Stored \subseteq Stored'
  BY StoredGrows DEF Inv
<1> QED
  BY <1>1 DEF SeedInv, SeedTypes, ToldIsStored, ReadsStored, SentIsRight, SeedAt

(* A seed that becomes r keeps the invariant if r does.                    *)
LEMMA SeedUpdateKeeps ==
  ASSUME SeedInv, NEW l \in Leechers, NEW r, SeedUpdate(l, r),
         DOMAIN r = SeedFields, r.pc \in SeedPlaces, r.cursor \in Pieces, r.told \subseteq Pieces, r.asked \in Requests,
         r.told \ LossyPieces \subseteq Stored,
         r.pc = "read" /\ r.asked.index \notin LossyPieces => r.asked.index \in Stored,
         r.pc = "send" /\ r.asked.index \notin LossyPieces =>
            \A o \in DOMAIN r.block : r.block[o] = "good"
  PROVE  SeedInv'
<1>1. /\ DOMAIN seed' = Leechers /\ seed'[l] = r
      /\ \A k \in Leechers \ {l} : seed'[k] = seed[k]
  BY DEF SeedUpdate, SeedInv, SeedTypes
<1>2. Stored' = Stored
  BY DEF SeedUpdate, vars, Stored
<1>3. SeedTypes'
  BY <1>1 DEF SeedInv, SeedTypes
<1>4. ToldIsStored'
  BY <1>1, <1>2 DEF SeedInv, ToldIsStored
<1>5. ReadsStored'
  BY <1>1, <1>2 DEF SeedInv, ReadsStored, SeedAt
<1>6. SentIsRight'
  BY <1>1 DEF SeedInv, SentIsRight, SeedAt
<1> QED
  BY <1>3, <1>4, <1>5, <1>6 DEF SeedInv
(* Every step of a seed keeps the invariant.                               *)
LEMMA ServeKeepsSeed ==
  ASSUME Inv, SeedInv, NEW l \in Leechers, Serve(l)
  PROVE  SeedInv'
<1> DEFINE s == seed[l]
<1>1. /\ DOMAIN s = SeedFields /\ s.pc \in SeedPlaces /\ s.cursor \in Pieces
      /\ s.told \subseteq Pieces /\ s.asked \in Requests
      /\ s.told \ LossyPieces \subseteq Stored
  BY DEF SeedInv, SeedTypes, ToldIsStored
<1>2. /\ DOMAIN ClosedSeed = SeedFields /\ ClosedSeed.cursor \in Pieces
      /\ ClosedSeed.pc = "closed" /\ ClosedSeed.told = {} /\ ClosedSeed.asked \in Requests
  BY NoRequestType DEF ClosedSeed, Pieces, SeedFields
<1>3. CASE Accept(l)
  <2> DEFINE r == [ClosedSeed EXCEPT !.pc = "handshake"]
  <2>1. SeedUpdate(l, r)
    BY <1>3 DEF Accept
  <2>2. /\ DOMAIN r = SeedFields /\ r.pc = "handshake" /\ r.cursor \in Pieces
        /\ r.told = {} /\ r.asked \in Requests
    BY <1>2 DEF SeedFields
  <2> QED
    BY <2>1, <2>2, SeedUpdateKeeps DEF SeedPlaces
<1>4. CASE Hangup(l) \/ Refuse(l)
  <2>1. SeedUpdate(l, ClosedSeed)
    BY <1>4 DEF Hangup, Refuse
  <2> QED
    BY <1>2, <2>1, SeedUpdateKeeps DEF SeedPlaces
<1>5. CASE Handshake(l)
  <2> DEFINE r == [s EXCEPT !.pc = "bitfield"]
  <2>1. SeedUpdate(l, r)
    BY <1>5 DEF Handshake
  <2>2. /\ DOMAIN r = SeedFields /\ r.pc = "bitfield" /\ r.cursor = s.cursor
        /\ r.told = s.told /\ r.asked = s.asked
    BY <1>1 DEF SeedFields
  <2> QED
    BY <1>1, <2>1, <2>2, SeedUpdateKeeps DEF SeedPlaces
<1>6. CASE SendBit(l)
  <2> DEFINE p == s.cursor
             told == IF Announces(p) THEN s.told \cup {p} ELSE s.told
             r == [s EXCEPT !.pc = IF LastBit(p) THEN "idle" ELSE "bitfield",
                            !.cursor = IF LastBit(p) THEN 0 ELSE p + 1,
                            !.told = IF Announces(p) THEN @ \cup {p} ELSE @]
  <2>1. SeedUpdate(l, r)
    BY <1>6 DEF SendBit
  <2>2. /\ DOMAIN r = SeedFields /\ r.pc \in {"idle", "bitfield"}
        /\ r.cursor = (IF LastBit(p) THEN 0 ELSE p + 1)
        /\ r.told = told /\ r.asked = s.asked
    BY <1>1 DEF SeedFields
  <2>3. r.cursor \in Pieces
    BY <1>1, <2>2 DEF LastBit, Pieces
  <2>4. told \subseteq Pieces /\ told \ LossyPieces \subseteq Stored
    BY <1>1, DoneIsStored DEF Announces, Inv
  <2> QED
    BY <1>1, <2>1, <2>2, <2>3, <2>4, SeedUpdateKeeps DEF SeedPlaces
<1>7. CASE RecvRequest(l)
  <2>1. PICK q \in Requests : SeedUpdate(l, [s EXCEPT !.pc = "check", !.asked = q])
    BY <1>7 DEF RecvRequest
  <2> DEFINE r == [s EXCEPT !.pc = "check", !.asked = q]
  <2>2. /\ DOMAIN r = SeedFields /\ r.pc = "check" /\ r.cursor = s.cursor
        /\ r.told = s.told /\ r.asked = q
    BY <1>1 DEF SeedFields
  <2> QED
    BY <1>1, <2>1, <2>2, SeedUpdateKeeps DEF SeedPlaces
<1>8. CASE CheckDone(l)
  <2> DEFINE r == [s EXCEPT !.pc = "read"]
  <2>1. SeedUpdate(l, r) /\ state[s.asked.index] = "Done"
    BY <1>8 DEF CheckDone, Serves
  <2>2. /\ DOMAIN r = SeedFields /\ r.pc = "read" /\ r.cursor = s.cursor
        /\ r.told = s.told /\ r.asked = s.asked
    BY <1>1 DEF SeedFields
  <2>3. s.asked.index \notin LossyPieces => s.asked.index \in Stored
    BY <1>1, <2>1, RequestFits, DoneIsStored DEF Inv
  <2> QED
    BY <1>1, <2>1, <2>2, <2>3, SeedUpdateKeeps DEF SeedPlaces
<1>9. CASE ReadBlock(l)
  <2> DEFINE q == s.asked
             block == [o \in q.begin .. q.begin + LenAt(q.index, q.begin) - 1 |->
                         OnDisk(q.index)[o]]
             r == [s EXCEPT !.pc = "send", !.block = block]
  <2>1. SeedUpdate(l, r) /\ SeedAt(l, "read")
    BY <1>9 DEF ReadBlock
  <2>2. /\ DOMAIN r = SeedFields /\ r.pc = "send" /\ r.cursor = s.cursor
        /\ r.told = s.told /\ r.asked = q /\ r.block = block
    BY <1>1 DEF SeedFields
  <2>3. ASSUME q.index \notin LossyPieces
        PROVE  \A o \in DOMAIN block : block[o] = "good"
    <3>1. q.index \in Stored
      BY <2>1, <2>3 DEF SeedInv, ReadsStored
    <3>2. disk[q.index] = [o \in Offsets(q.index) |-> "good"] /\ q.index \in Pieces
      BY <3>1 DEF Stored, Content
    <3>3. disk[q.index] # NoBuffer
      <4>1. 0 \in DOMAIN disk[q.index] /\ 0 \notin DOMAIN NoBuffer
        BY <3>2, TotalSizeType DEF Offsets, NoBuffer
      <4> QED
        BY <4>1
    <3>4. OnDisk(q.index) = [o \in Offsets(q.index) |-> "good"]
      BY <3>2, <3>3 DEF OnDisk
    <3>5. q.begin .. q.begin + LenAt(q.index, q.begin) - 1 \subseteq Offsets(q.index)
      BY <1>1, RequestFits
    <3> QED
      BY <3>4, <3>5
  <2> HIDE DEF block
  <2> QED
    BY <1>1, <2>1, <2>2, <2>3, SeedUpdateKeeps DEF SeedPlaces
<1>10. CASE SendBlock(l)
  <2> DEFINE r == [s EXCEPT !.pc = "idle", !.asked = NoRequest, !.block = NoBuffer]
  <2>1. SeedUpdate(l, r)
    BY <1>10 DEF SendBlock
  <2>2. /\ DOMAIN r = SeedFields /\ r.pc = "idle" /\ r.cursor = s.cursor
        /\ r.told = s.told /\ r.asked = NoRequest
    BY <1>1 DEF SeedFields
  <2> QED
    BY <1>1, <2>1, <2>2, NoRequestType, SeedUpdateKeeps DEF SeedPlaces
<1> QED
  BY <1>3, <1>4, <1>5, <1>6, <1>7, <1>8, <1>9, <1>10 DEF Serve

-----------------------------------------------------------------------------
(* To the downloading connections, a step of a seed is a stutter.          *)
LEMMA SeedNextIsNext ==
  [SeedNext]_seedVars =>
    /\ [Next]_vars
    /\ UNCHANGED seed \/ \E l \in Leechers : Serve(l)
<1>1. ASSUME NEW l \in Leechers, Serve(l) PROVE UNCHANGED vars
  BY <1>1 DEF Serve, Accept, Handshake, Hangup, SendBit, RecvRequest, CheckDone, Refuse,
              ReadBlock, SendBlock, SeedUpdate
<1> QED
  BY <1>1 DEF SeedNext, seedVars

LEMMA SeedInvCorrect == SeedSpec => [](Inv /\ SeedInv)
<1>1. SeedInit => Inv /\ SeedInv
  BY InitInv, SeedInitInv DEF SeedInit
<1>2. Inv /\ SeedInv /\ [SeedNext]_seedVars => Inv' /\ SeedInv'
  BY SeedNextIsNext, NextInv, NextKeepsSeed, ServeKeepsSeed
<1> QED
  BY <1>1, <1>2, PTL DEF SeedSpec

(* The connections are a store of pieces while seeds read from it: serving *)
(* takes no content back and reports no piece.                             *)
THEOREM ServedStore == SeedSpec => ImplementsStore
<1>1. Inv /\ [SeedNext]_seedVars => [Store!Next]_<<Stored, Had>>
  BY SeedNextIsNext, NextImplements DEF Inv
<1>2. SeedInit => TableInit
  BY DEF SeedInit, Init
<1>3. SeedSpec => []Inv
  BY SeedInvCorrect, PTL
<1> QED
  BY <1>1, <1>2, <1>3, InitImplements, PTL DEF SeedSpec, ImplementsStore, Store!Spec

(* Every variable has its type, whatever leechers ask for.                 *)
THEOREM SeedTypeCorrect == SeedSpec => []SeedTypeOK
<1>1. Inv /\ SeedInv => SeedTypeOK
  BY DEF Inv, Kept, SeedInv, SeedTypes, SeedTypeOK
<1> QED
  BY <1>1, SeedInvCorrect, PTL

(* What a leecher is told of is in the files, and stays there.             *)
THEOREM ToldStaysStored == SeedSpec => []ToldIsStored
<1>1. Inv /\ SeedInv => ToldIsStored
  BY DEF SeedInv
<1> QED
  BY <1>1, SeedInvCorrect, PTL

(* No leecher is sent a byte that is not the torrent's, however stale the  *)
(* state is that the seed has read.                                        *)
THEOREM SentBlocksAreRight == SeedSpec => []SentIsRight
<1>1. Inv /\ SeedInv => SentIsRight
  BY DEF SeedInv
<1> QED
  BY <1>1, SeedInvCorrect, PTL

-----------------------------------------------------------------------------
(* Keeping the word                                                        *)

(* Without a clear, and among honest peers, what a leecher was told of is  *)
(* not only in the files but also still marked, which is what              *)
(* handle_request looks at.                                                *)
ToldIsDone == \A l \in Leechers : seed[l].told \subseteq Had

(* A seed tells only of what is Done, and that stays Done.                 *)
LEMMA ToldStaysDone ==
  ASSUME TypeOK, FetchInv, SeedInv, ToldIsDone, [SeedNext]_seedVars
  PROVE  ToldIsDone'
<1>1. Had \subseteq Had'
  BY SeedNextIsNext, DoneStays
<1>2. CASE UNCHANGED seed
  BY <1>1, <1>2 DEF ToldIsDone
<1>3. ASSUME NEW l \in Leechers, Serve(l) PROVE ToldIsDone'
  <2>1. /\ \A k \in Leechers \ {l} : seed'[k] = seed[k]
        /\ \/ seed'[l].told = seed[l].told \/ seed'[l].told = {}
           \/ /\ seed[l].cursor \in Pieces /\ Announces(seed[l].cursor)
              /\ seed'[l].told = seed[l].told \cup {seed[l].cursor}
    <3>1. /\ DOMAIN seed = Leechers /\ DOMAIN seed[l] = SeedFields
          /\ seed[l].cursor \in Pieces
      BY DEF SeedInv, SeedTypes
    <3>2. CASE Accept(l) \/ Hangup(l) \/ Refuse(l)
      BY <3>1, <3>2 DEF Accept, Hangup, Refuse, SeedUpdate, ClosedSeed
    <3>3. CASE Handshake(l) \/ RecvRequest(l) \/ CheckDone(l) \/ ReadBlock(l) \/ SendBlock(l)
      BY <3>1, <3>3
         DEF Handshake, RecvRequest, CheckDone, ReadBlock, SendBlock, SeedUpdate, SeedFields
    <3>4. CASE SendBit(l)
      BY <3>1, <3>4 DEF SendBit, SeedUpdate, SeedFields
    <3> QED
      BY <1>3, <3>2, <3>3, <3>4 DEF Serve
  <2>2. Announces(seed[l].cursor) /\ seed[l].cursor \in Pieces => seed[l].cursor \in Had
    BY DEF Announces, Had
  <2> QED
    BY <1>1, <2>1, <2>2 DEF ToldIsDone
<1> QED
  BY <1>2, <1>3, SeedNextIsNext

(* handle_request closes the socket only for a piece that is not Done.     *)
LEMMA RefusesOthers ==
  ASSUME SeedInv, ToldIsDone, [SeedNext]_seedVars, NEW l \in Leechers,
         SeedAt(l, "check"), seed'[l].pc = "closed"
  PROVE  seed[l].asked.index \notin seed[l].told
<1>1. DOMAIN seed = Leechers /\ DOMAIN seed[l] = SeedFields
  BY DEF SeedInv, SeedTypes
<1>2. CASE UNCHANGED seed
  BY <1>2 DEF SeedAt
<1>3. ASSUME NEW k \in Leechers, Serve(k)
      PROVE  ~Serves(seed[l].asked.index)
  <2>1. k = l
    BY <1>1, <1>3 DEF Serve, Accept, Handshake, Hangup, SendBit, RecvRequest, CheckDone, Refuse,
                      ReadBlock, SendBlock, SeedUpdate, SeedAt
  <2>2. CheckDone(l) \/ Refuse(l)
    BY <1>3, <2>1 DEF Serve, Accept, Handshake, Hangup, SendBit, RecvRequest, ReadBlock,
                      SendBlock, SeedAt
  <2>3. ~CheckDone(l)
    BY <1>1 DEF CheckDone, SeedUpdate, SeedFields
  <2> QED
    BY <2>2, <2>3 DEF Refuse
<1>4. ~Serves(seed[l].asked.index) => seed[l].asked.index \notin Had
  BY DEF Serves, Had
<1> QED
  BY <1>2, <1>3, <1>4, SeedNextIsNext DEF ToldIsDone

(* No leecher is thrown out for asking for a piece it was told of, however *)
(* many connections race for the pieces, if peers are honest and no piece  *)
(* is cleared.                                                             *)
THEOREM WordIsKept ==
  ASSUME BadPeers = {}, MaxClears = 0
  PROVE  SeedSpec => KeepsItsWord
<1> DEFINE I == TypeOK /\ FetchInv /\ Inv /\ SeedInv /\ ToldIsDone
<1>1. SeedInit => I
  <2>1. SeedInit => Init /\ ToldIsDone
    BY DEF SeedInit, ToldIsDone, ClosedSeed
  <2> QED
    BY <2>1, InitTypeOK, InitFetchInv, InitInv, SeedInitInv
<1>2. I /\ [SeedNext]_seedVars => I'
  <2>1. TypeOK => ~ClearDownloading
    BY DEF TypeOK, ClearDownloading
  <2> QED
    BY <2>1, SeedNextIsNext, NextTypeOK, NextFetchInv, NextInv, NextKeepsSeed, ServeKeepsSeed,
       ToldStaysDone
<1>3. I /\ [SeedNext]_seedVars =>
        [\A l \in Leechers :
           SeedAt(l, "check") /\ seed'[l].pc = "closed" =>
             seed[l].asked.index \notin seed[l].told]_seedVars
  BY RefusesOthers
<1> HIDE DEF I
<1> QED
  BY <1>1, <1>2, <1>3, PTL DEF SeedSpec, KeepsItsWord
=============================================================================
