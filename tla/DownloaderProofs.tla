-------------------------- MODULE DownloaderProofs --------------------------
(***************************************************************************)
(* Safety of the downloader with its connections, for any number of peers, *)
(* frames and pieces, any timers and any answers of the tracker.           *)
(***************************************************************************)
EXTENDS Downloader, PeerConnProofs

USE SizesAssumption

(* The pieces that are in the files, or whose writes may fail.             *)
Safe == Stored \cup LossyPieces

(***************************************************************************)
(* A scan reads the table one entry at a time while others change it, so   *)
(* what it has read need not be so any more when it ends.  The invariant   *)
(* remembers of each entry that was Done what does not change: its content *)
(* is in the files.                                                        *)
(***************************************************************************)
ScanOK(c) ==
    /\ conn[c].pc = "idle" => conn[c].cursor = 0
    /\ conn[c].pc = "loop" =>
        /\ ~conn[c].exhausted => conn[c].cursor = 0
        /\ \A k \in 0 .. conn[c].cursor - 1 : k \in Safe

ConnScans == \A c \in Conns : ScanOK(c)

BossFields == {"pc", "cursor", "started", "peerList", "connected", "bad", "cancelled",
               "pending", "lastDownloaded", "sinceProgress", "sinceClear", "sinceTracker",
               "waited"}

BossShape == DOMAIN boss = BossFields /\ boss.cursor \in Pieces

BossScan ==
    /\ boss.pc \in {"enter", "hail"} => ~boss.started
    /\ boss.pc \notin {"enter", "test"} => boss.cursor = 0
    /\ \A k \in 0 .. boss.cursor - 1 : k \in Safe

(* A connection that was not cancelled is remembered by its peer, which is *)
(* why no second one is spawned.                                           *)
Frames ==
    /\ boss.cancelled \subseteq Live
    /\ \A c \in Live \ boss.cancelled : PeerOf[c] \in boss.connected
    /\ OneConnectionPerPeer

BossInv ==
    /\ Inv /\ ConnScans /\ BossShape /\ BossScan /\ Frames
    /\ PutAsideOnlyAtTheEnd /\ LeavesWhenStored

-----------------------------------------------------------------------------
(* The connections                                                         *)

ConnStep(c) == Local(c) \/ Remote(c) \/ RecvChoke(c) \/ RecvOther(c) \/ Drop(c)

(* A scan of the table by a connection: where it stands afterwards.        *)
LEMMA IsDoneScanSteps ==
  ASSUME TypeOK, NEW c \in Conns, NEW x \in Places, IsDoneScan(c, x)
  PROVE  LET p == conn[c].cursor
         IN  \/ conn'[c].pc = x /\ conn'[c].cursor = 0 /\ state[p] # "Done"
             \/ /\ conn'[c].pc = conn[c].pc /\ conn'[c].cursor = p + 1
                /\ conn'[c].exhausted = conn[c].exhausted
                /\ state[p] = "Done" /\ p + 1 < NumPieces
             \/ conn'[c].pc = "closed" /\ state[p] = "Done" /\ ~(p + 1 < NumPieces)
<1> DEFINE p == conn[c].cursor
<1>1. /\ conn = [d \in Conns |-> conn[d]]
      /\ {"pc", "cursor", "exhausted"} \subseteq DOMAIN conn[c]
  BY DEF TypeOK, ConnRecord
<1>2. CASE state[p] # "Done"
  BY <1>1, <1>2 DEF IsDoneScan, Update
<1>3. CASE state[p] = "Done" /\ p + 1 < NumPieces
  BY <1>1, <1>3 DEF IsDoneScan, Update
<1>4. CASE state[p] = "Done" /\ ~(p + 1 < NumPieces)
  BY <1>1, <1>4 DEF IsDoneScan, Update
<1> QED
  BY <1>2, <1>3, <1>4

(* Where a step takes a connection that it does not take out of the loop   *)
(* condition: the cursor is at the first entry again.                      *)
LEMMA OtherSteps ==
  ASSUME TypeOK, NEW c \in Conns, ConnStep(c), ~At(c, "loop")
  PROVE  /\ conn[c].pc # "closed"
         /\ \A d \in Conns \ {c} : conn'[d] = conn[d]
         /\ conn'[c].pc \in {"idle", "loop"} =>
              conn'[c].cursor = IF conn[c].pc = "idle" THEN conn[c].cursor ELSE 0
<1> USE DEF At, Update, Goto
<1>1. /\ conn = [d \in Conns |-> conn[d]]
      /\ {"pc", "cursor", "exhausted", "msg", "completed"} \subseteq DOMAIN conn[c]
      /\ conn[c].cursor \in Int
  BY DEF TypeOK, ConnRecord, Pieces
<1>2. CASE Create(c)
  <2>1. conn[c].pc = "new" /\ \A d \in Conns \ {c} : conn'[d] = conn[d]
    BY <1>1, <1>2 DEF Create, IsDoneScan
  <2>2. "idle" \in Places
    BY DEF Places
  <2> QED
    BY <1>2, <2>1, <2>2, IsDoneScanSteps DEF Create
<1>3. CASE LoopTest(c)
  BY <1>3 DEF LoopTest
<1>4. CASE ReadBit(c)
  BY <1>1, <1>4 DEF ReadBit
<1>5. CASE IgnoreDone(c) \/ VerifyOk(c) \/ RefuseMisfit(c) \/ StoreOnly(c) \/ StoreAndTake(c)
           \/ VerifyFail(c) \/ WriteFiles(c)
  BY <1>1, <1>5 DEF IgnoreDone, VerifyOk, RefuseMisfit, StoreOnly, StoreAndTake, VerifyFail, WriteFiles
<1>6. CASE MarkDone(c)
  BY <1>6, HandlerMoves DEF Moves
<1>7. CASE AfterPiece(c)
  BY <1>1, <1>7 DEF AfterPiece
<1>8. CASE ScanFound(c) \/ ScanNext(c)
  BY <1>1, <1>8 DEF ScanFound, ScanNext
<1>9. CASE ScanNothing(c) \/ ClaimLost(c)
  BY <1>1, <1>9 DEF ScanNothing, ClaimLost, ReturnFalse
<1>10. CASE Claim(c)
  BY <1>1, <1>10 DEF Claim
<1>11. CASE RecvUnchoke(c)
  BY <1>1, <1>11 DEF RecvUnchoke
<1>15. CASE RecvBitfield(c)
  BY <1>1, <1>15 DEF RecvBitfield
<1>16. CASE RecvChoke(c) \/ RecvOther(c)
  <2>1. CASE RecvChoke(c)
    BY <1>1, <2>1 DEF RecvChoke
  <2>2. CASE RecvOther(c)
    BY <1>1, <2>2 DEF RecvOther
  <2> QED
    BY <1>16, <2>1, <2>2
<1>12. CASE RecvHave(c)
  <2>1. PICK p \in Has[c] :
          LET heeded == conn[c].gotBitfield /\ p \notin conn[c].bitfield
          IN  Update(c, [conn[c] EXCEPT
                !.pc = "loop",
                !.heard = @ \cup {p},
                !.bitfield = IF heeded THEN @ \cup {p} ELSE @,
                !.fetched = IF heeded /\ state[p] # "Missing" THEN @ \cup {p} ELSE @])
    BY <1>12 DEF RecvHave
  <2>2. conn[c].pc = "idle"
    BY <1>12 DEF RecvHave
  <2> QED
    BY <1>1, <2>1, <2>2
<1>13. CASE RecvPiece(c)
  <2>1. conn[c].pc = "idle"
    BY <1>13 DEF RecvPiece
  <2>2. PICK r \in Requests : \E m \in Answers(c, r) :
          Update(c, [conn[c] EXCEPT !.pc = "handle", !.msg = m,
                                    !.wasDone = state[r.index] = "Done",
                                    !.owed[r] = @ - 1])
    BY <1>13 DEF RecvPiece
  <2>3. PICK m \in Answers(c, r) :
          Update(c, [conn[c] EXCEPT !.pc = "handle", !.msg = m,
                                    !.wasDone = state[r.index] = "Done",
                                    !.owed[r] = @ - 1])
    BY <2>2
  <2> QED
    BY <1>1, <2>1, <2>3
<1>14. CASE Drop(c)
  BY <1>1, <1>14 DEF Drop, NewConn
<1> QED
  BY <1>2, <1>3, <1>4, <1>5, <1>6, <1>7, <1>8, <1>9, <1>10, <1>11, <1>12, <1>13, <1>14, <1>15, <1>16
     DEF ConnStep, Local, Remote
(* At the loop condition a connection tests it, and nothing else.          *)
LEMMA LoopSteps ==
  ASSUME NEW c \in Conns, ConnStep(c), At(c, "loop")
  PROVE  LoopTest(c)
  BY DEF ConnStep, Local, Remote, At, Create, ReadBit, IgnoreDone, VerifyOk, RefuseMisfit,
         StoreOnly, StoreAndTake, VerifyFail, WriteFiles, MarkDone, AfterPiece, ScanFound,
         ScanNext, ScanNothing, ClaimLost, Claim, RecvUnchoke, RecvBitfield, RecvChoke,
         RecvOther, RecvHave, RecvPiece, Drop

(* A test of the loop condition leaves the loop only behind the last       *)
(* entry; a scan that goes on has seen one more piece that is safe.        *)
LEMMA LoopTestSteps ==
  ASSUME Inv, ConnScans, NEW c \in Conns, LoopTest(c)
  PROVE  /\ conn[c].pc = "loop"
         /\ \A d \in Conns \ {c} : conn'[d] = conn[d]
         /\ Safe' = Safe
         /\ ScanOK(c)'
         /\ conn'[c].pc = "closed" => Pieces \subseteq Safe
<1> USE DEF At
<1>1. /\ TypeOK /\ conn = [d \in Conns |-> conn[d]]
      /\ {"pc", "cursor", "exhausted"} \subseteq DOMAIN conn[c]
      /\ conn[c].cursor \in Pieces
  BY DEF Inv, Kept, TypeOK, ConnRecord
<1>2. conn[c].pc = "loop" /\ UNCHANGED <<table, disk>>
  BY DEF LoopTest, IsDoneScan
<1>3. \A d \in Conns \ {c} : conn'[d] = conn[d]
  BY <1>1 DEF LoopTest, IsDoneScan, Goto, Update
<1>4. Safe' = Safe
  BY <1>2 DEF Safe, Stored
<1>5. /\ ~conn[c].exhausted => conn[c].cursor = 0
      /\ \A k \in 0 .. conn[c].cursor - 1 : k \in Safe
  BY <1>2 DEF ConnScans, ScanOK
<1>6. CASE ~conn[c].exhausted
  <2>1. conn'[c].pc = "idle" /\ conn'[c].cursor = 0
    BY <1>1, <1>5, <1>6 DEF LoopTest, Goto, Update
  <2> QED
    BY <1>2, <1>3, <1>4, <2>1 DEF ScanOK
<1>7. CASE conn[c].exhausted
  <2> DEFINE p == conn[c].cursor
  <2>1. IsDoneScan(c, "idle") /\ "idle" \in Places
    BY <1>7 DEF LoopTest, Places
  <2>2. state[p] = "Done" => p \in Safe
    BY <1>1, DoneIsStored DEF Inv, Safe
  <2>3. CASE conn'[c].pc = "idle" /\ conn'[c].cursor = 0
    BY <1>2, <1>3, <1>4, <2>3 DEF ScanOK
  <2>4. CASE /\ conn'[c].pc = "loop" /\ conn'[c].cursor = p + 1
             /\ conn'[c].exhausted /\ state[p] = "Done"
    <3>1. \A k \in 0 .. p + 1 - 1 : k \in Safe
      BY <1>1, <1>5, <2>2, <2>4 DEF Pieces
    <3>2. \A k \in 0 .. conn'[c].cursor - 1 : k \in Safe'
      BY <1>1, <1>4, <2>4, <3>1 DEF Pieces
    <3>3. ScanOK(c)'
      BY <2>4, <3>2 DEF ScanOK
    <3> QED
      BY <1>2, <1>3, <1>4, <2>4, <3>3
  <2>5. CASE conn'[c].pc = "closed" /\ state[p] = "Done" /\ ~(p + 1 < NumPieces)
    <3>1. Pieces \subseteq Safe
      BY <1>1, <1>5, <2>2, <2>5 DEF Pieces
    <3> QED
      BY <1>2, <1>3, <1>4, <2>5, <3>1 DEF ScanOK
  <2> QED
    BY <1>1, <1>2, <1>7, <2>1, <2>3, <2>4, <2>5, IsDoneScanSteps
<1> QED
  BY <1>6, <1>7

(* A step of one connection keeps what all of them have seen, and closes   *)
(* from the loop condition only when everything is safe.                   *)
LEMMA ConnStepKeeps ==
  ASSUME Inv, ConnScans, NEW c \in Conns, ConnStep(c)
  PROVE  /\ Inv' /\ ConnScans' /\ Safe \subseteq Safe'
         /\ conn[c].pc # "closed"
         /\ \A d \in Conns \ {c} : conn'[d] = conn[d]
         /\ At(c, "loop") /\ conn'[c].pc = "closed" => Pieces \subseteq Safe'
<1>1. Inv' /\ Safe \subseteq Safe'
  BY NextInv, StoredGrows DEF Next, ConnStep, Safe, Inv
<1>2. ASSUME NEW d \in Conns, conn'[d] = conn[d] PROVE ScanOK(d)'
  BY <1>1, <1>2 DEF ConnScans, ScanOK
<1>3. CASE At(c, "loop")
  <2>1. LoopTest(c)
    BY <1>3, LoopSteps
  <2> QED
    BY <1>1, <1>2, <2>1, LoopTestSteps DEF ConnScans
<1>4. CASE ~At(c, "loop")
  <2>1. /\ conn[c].pc # "closed" /\ \A d \in Conns \ {c} : conn'[d] = conn[d]
        /\ conn'[c].pc \in {"idle", "loop"} =>
              conn'[c].cursor = IF conn[c].pc = "idle" THEN conn[c].cursor ELSE 0
    BY <1>4, OtherSteps DEF Inv, Kept
  <2>2. conn'[c].pc \in {"idle", "loop"} => conn'[c].cursor = 0
    BY <2>1 DEF ConnScans, ScanOK
  <2>3. ScanOK(c)'
    BY <2>2 DEF ScanOK
  <2> QED
    BY <1>1, <1>2, <1>4, <2>1, <2>3 DEF ConnScans
<1> QED
  BY <1>3, <1>4
-----------------------------------------------------------------------------
(* run                                                                     *)

(* b differs from boss in timers and the list of peers only.               *)
SamePeers(b) ==
    /\ DOMAIN b = BossFields
    /\ b.pc = boss.pc /\ b.cursor = boss.cursor /\ b.started = boss.started
    /\ b.connected = boss.connected /\ b.bad = boss.bad /\ b.cancelled = boss.cancelled

(* Time passes in timers only.                                             *)
LEMMA TimersSame == BossShape => SamePeers(boss) /\ SamePeers(Later(boss)) /\ SamePeers(Counted)
<1> SUFFICES ASSUME BossShape PROVE SamePeers(boss) /\ SamePeers(Later(boss)) /\ SamePeers(Counted)
  OBVIOUS
<1>1. SamePeers(boss)
  BY DEF SamePeers, BossShape
<1>2. SamePeers(Later(boss))
  BY DEF SamePeers, BossShape, BossFields, Later
<1>3. SamePeers(Counted)
  BY <1>2 DEF SamePeers, BossFields, Counted
<1> QED
  BY <1>1, <1>2, <1>3

(* A step of run that opens no connection keeps the invariant if its own   *)
(* scan does.                                                              *)
LEMMA BossKeeps ==
  ASSUME BossInv, Inv', UNCHANGED <<disk, conn>>, BossShape', BossScan',
         boss'.bad = boss.bad,
         \/ boss'.cancelled = boss.cancelled /\ boss'.connected = boss.connected
         \/ boss'.cancelled = Live,
         boss'.pc = "farewell" \/ (boss'.pc = "over" /\ boss'.started) =>
            \/ Pieces \subseteq Safe
            \/ boss.pc = "farewell" \/ (boss.pc = "over" /\ boss.started)
  PROVE  BossInv'
<1>1. Stored' = Stored /\ Safe' = Safe /\ Live' = Live
  BY DEF Stored, Safe, Live
<1>2. ConnScans'
  BY <1>1 DEF BossInv, ConnScans, ScanOK
<1>3. Frames'
  BY <1>1 DEF BossInv, Frames, OneConnectionPerPeer
<1>4. PutAsideOnlyAtTheEnd' /\ LeavesWhenStored'
  BY <1>1 DEF BossInv, PutAsideOnlyAtTheEnd, LeavesWhenStored, Safe
<1> QED
  BY <1>2, <1>3, <1>4 DEF BossInv

(* is_done, as run calls it.                                               *)
LEMMA DoneScanKeeps ==
  ASSUME BossInv, NEW done \in {"over", "farewell"}, NEW notDone \in {"hail", "sleep"},
         DoneScan(done, notDone), boss.pc \in {"enter", "test"},
         notDone = "hail" \/ done = "over" => boss.pc = "enter"
  PROVE  BossInv'
<1> DEFINE p == boss.cursor
<1>1. UNCHANGED <<vars, disk, conn>>
  BY DEF DoneScan, vars, connVars
<1>2. Inv'
  BY <1>1, NextInv DEF BossInv
<1>3. /\ BossShape /\ BossScan /\ p \in Pieces /\ Safe' = Safe
  BY <1>1 DEF BossInv, BossShape, Safe, Stored
<1>4. state[p] = "Done" => p \in Safe
  BY <1>3, DoneIsStored DEF BossInv, Inv, Safe
<1>5. CASE state[p] # "Done"
  <2>1. boss' = [boss EXCEPT !.pc = notDone, !.cursor = 0]
    BY <1>5 DEF DoneScan
  <2>2. BossShape' /\ BossScan'
    BY <1>3, <2>1 DEF BossShape, BossScan, BossFields, Pieces
  <2> QED
    BY <1>1, <1>2, <1>3, <2>1, <2>2, BossKeeps DEF BossShape, BossFields
<1>6. CASE state[p] = "Done" /\ p + 1 < NumPieces
  <2>1. boss' = [boss EXCEPT !.cursor = p + 1]
    BY <1>6 DEF DoneScan
  <2>2. boss'.cursor = p + 1 /\ boss'.pc = boss.pc /\ boss'.started = boss.started
        /\ DOMAIN boss' = BossFields
    BY <1>3, <2>1 DEF BossShape, BossFields
  <2>3. \A k \in 0 .. boss'.cursor - 1 : k \in Safe'
    BY <1>3, <1>4, <1>6, <2>2 DEF BossScan, Pieces
  <2>4. BossShape' /\ BossScan'
    BY <1>3, <1>6, <2>2, <2>3 DEF BossShape, BossScan, Pieces
  <2> QED
    BY <1>1, <1>2, <1>3, <2>1, <2>4, BossKeeps DEF BossShape, BossFields
<1>7. CASE state[p] = "Done" /\ ~(p + 1 < NumPieces)
  <2>1. boss' = [boss EXCEPT !.pc = done, !.cursor = 0]
    BY <1>7 DEF DoneScan
  <2>2. BossShape' /\ BossScan'
    BY <1>3, <2>1 DEF BossShape, BossScan, BossFields, Pieces
  <2>3. Pieces \subseteq Safe
    BY <1>3, <1>4, <1>7 DEF BossScan, Pieces
  <2> QED
    BY <1>1, <1>2, <1>3, <2>1, <2>2, <2>3, BossKeeps DEF BossShape, BossFields
<1> QED
  BY <1>5, <1>6, <1>7

(* The steps of run that scan nothing and open no connection.              *)
LEMMA BossAlone ==
  ASSUME BossInv, UNCHANGED vars,
         \/ Enter \/ Test \/ FirstFailure \/ WakeUp \/ WakeUpStalled \/ AnswerFails \/ Goodbye
         \/ LongAnnounce \/ \E ps \in TrackerAnswers : FirstAnswer(ps) \/ Answer(ps)
  PROVE  BossInv'
<1> USE DEF BossAt
<1>1. Inv' /\ UNCHANGED <<disk, conn>>
  BY NextInv DEF BossInv, vars, connVars
<1>2. /\ BossShape /\ BossScan /\ Safe' = Safe /\ SamePeers(boss) /\ SamePeers(Later(boss))
      /\ SamePeers(Counted) /\ 0 \in Pieces
  BY <1>1, TimersSame DEF BossInv, Safe, Stored, Pieces
<1>3. CASE Enter
  BY <1>3, DoneScanKeeps DEF Enter
<1>4. CASE Test
  BY <1>4, DoneScanKeeps DEF Test
<1>5. ASSUME NEW ps, FirstAnswer(ps) PROVE BossInv'
  <2>1. BossShape' /\ BossScan' /\ boss'.pc = "spawn" /\ boss'.bad = boss.bad
        /\ boss'.cancelled = boss.cancelled /\ boss'.connected = boss.connected
    BY <1>2, <1>5 DEF FirstAnswer, BossShape, BossScan, BossFields
  <2> QED
    BY <1>1, <2>1, BossKeeps
<1>6. CASE FirstFailure
  <2>1. BossShape' /\ BossScan' /\ ~boss'.started /\ boss'.pc = "over" /\ boss'.bad = boss.bad
        /\ boss'.cancelled = boss.cancelled /\ boss'.connected = boss.connected
    BY <1>2, <1>6 DEF FirstFailure, BossShape, BossScan, BossFields
  <2> QED
    BY <1>1, <2>1, BossKeeps
<1>7. CASE WakeUp \/ WakeUpStalled
  <2> DEFINE place == ClearOrOn(Counted)
  <2>1. place \in {"clear", "ask", "spawn"} /\ boss.pc = "sleep"
    BY <1>7 DEF WakeUp, WakeUpStalled, Slept, ClearOrOn, AskOrSpawn
  <2>2. boss' = [Counted EXCEPT !.pc = place] \/ boss' = [Reconnect(Counted) EXCEPT !.pc = place]
    BY <1>7 DEF WakeUp, WakeUpStalled
  <2> HIDE DEF place
  <2>3. CASE boss' = [Counted EXCEPT !.pc = place]
    <3>1. BossShape' /\ BossScan' /\ boss'.pc = place /\ boss'.bad = boss.bad
          /\ boss'.cancelled = boss.cancelled /\ boss'.connected = boss.connected
      BY <1>2, <2>1, <2>3 DEF SamePeers, BossShape, BossScan, BossFields
    <3> QED
      BY <1>1, <2>1, <3>1, BossKeeps
  <2>4. CASE boss' = [Reconnect(Counted) EXCEPT !.pc = place]
    <3>1. BossShape' /\ BossScan' /\ boss'.pc = place /\ boss'.bad = boss.bad
          /\ boss'.cancelled = Live
      BY <1>2, <2>1, <2>4 DEF Reconnect, SamePeers, BossShape, BossScan, BossFields
    <3> QED
      BY <1>1, <2>1, <3>1, BossKeeps
  <2> QED
    BY <2>2, <2>3, <2>4
<1>8. CASE AnswerFails \/ \E ps \in TrackerAnswers : Answer(ps)
  <2>1. BossShape' /\ BossScan' /\ boss'.pc = "spawn" /\ boss'.bad = boss.bad
        /\ boss'.cancelled = boss.cancelled /\ boss'.connected = boss.connected
    BY <1>2, <1>8 DEF AnswerFails, Answer, BossShape, BossScan, BossFields
  <2> QED
    BY <1>1, <2>1, BossKeeps
<1>9. CASE Goodbye
  <2>1. BossShape' /\ BossScan' /\ boss.pc = "farewell" /\ boss'.bad = boss.bad
        /\ boss'.cancelled = boss.cancelled /\ boss'.connected = boss.connected
    BY <1>2, <1>9 DEF Goodbye, BossShape, BossScan, BossFields
  <2> QED
    BY <1>1, <2>1, BossKeeps
<1>10. CASE LongAnnounce
  <2>1. BossShape' /\ BossScan' /\ boss'.pc \in {"hail", "ask"} /\ boss'.bad = boss.bad
        /\ boss'.cancelled = boss.cancelled /\ boss'.connected = boss.connected
    BY <1>2, <1>10 DEF LongAnnounce, SamePeers, BossShape, BossScan, BossFields
  <2> QED
    BY <1>1, <2>1, BossKeeps
<1> QED
  BY <1>3, <1>4, <1>5, <1>6, <1>7, <1>8, <1>9, <1>10

(* The check of hung pieces.                                               *)
LEMMA ClearHungKeeps ==
  ASSUME BossInv, ClearHung
  PROVE  BossInv'
<1>1. /\ ClearDownloadingPieces /\ UNCHANGED <<disk, conn, clears, chokes>>
      /\ boss.pc = "clear"
      /\ boss' = [boss EXCEPT !.pc = AskOrSpawn(boss), !.sinceClear = 0]
  BY DEF ClearHung, BossAt, connVars
<1>2. TypeOK'
  <2>1. TableTypeOK'
    BY <1>1, BuffersOf DEF BossInv, Inv, Kept, TypeOK, ClearDownloadingPieces, TableTypeOK, IsBuffer
  <2> QED
    BY <1>1, <2>1 DEF BossInv, Inv, Kept, TypeOK
<1>3. Inv'
  BY <1>1, <1>2, ClearKeeps DEF BossInv, Inv
<1>4. AskOrSpawn(boss) \in {"ask", "spawn"}
  BY DEF AskOrSpawn
<1>5. Safe' = Safe
  BY <1>1 DEF Safe, Stored
<1>6. /\ BossShape' /\ BossScan' /\ boss'.pc \in {"ask", "spawn"} /\ boss'.bad = boss.bad
      /\ boss'.cancelled = boss.cancelled /\ boss'.connected = boss.connected
  BY <1>1, <1>4, <1>5 DEF BossInv, BossShape, BossScan, BossFields
<1> QED
  BY <1>1, <1>3, <1>6, BossKeeps

(* A new coroutine starts in a frame that had ended, and changes nothing   *)
(* for the others.                                                         *)
LEMMA SpawnKeeps ==
  ASSUME BossInv, Spawn
  PROVE  BossInv'
<1> DEFINE new == {FrameFor(q) : q \in ToConnect}
<1>1. /\ UNCHANGED <<state, buffer, downloaded, disk, clears, chokes>>
      /\ boss.pc = "spawn"
      /\ \A q \in ToConnect : \E c \in Conns \ Live : PeerOf[c] = q
      /\ conn' = [c \in Conns |-> IF c \in new THEN NewConn ELSE conn[c]]
      /\ boss' = [boss EXCEPT !.pc = "test", !.connected = @ \cup ToConnect]
  BY DEF Spawn, BossAt, table
<1>2. \A q \in ToConnect : FrameFor(q) \in Conns \ Live /\ PeerOf[FrameFor(q)] = q
  BY <1>1 DEF FrameFor
<1>3. \A c \in new : c \in Conns \ Live /\ PeerOf[c] \in ToConnect /\ c = FrameFor(PeerOf[c])
  BY <1>2
<1>4. /\ \A c \in new : conn'[c] = NewConn /\ conn[c].pc = "closed"
      /\ \A c \in Conns \ new : conn'[c] = conn[c]
  BY <1>1, <1>3 DEF Live
<1>5. NewConn.pc = "new"
  BY DEF NewConn
<1> HIDE DEF new
<1>6. Live' = Live \cup new
  BY <1>3, <1>4, <1>5 DEF Live
<1>7. /\ Inv /\ TypeOK /\ ConnScans /\ BossShape /\ BossScan /\ Frames
      /\ PutAsideOnlyAtTheEnd /\ LeavesWhenStored
      /\ HeldContent /\ DoneOnDisk /\ FullCountIsDecided
  BY DEF BossInv, Inv, Kept
<1>8. TypeOK'
  <2>1. conn' \in [Conns -> ConnRecord]
    BY <1>1, <1>7, NewConnType DEF TypeOK
  <2>2. TableTypeOK'
    BY <1>1, <1>7 DEF TypeOK, TableTypeOK, IsBuffer
  <2> QED
    BY <1>1, <1>7, <2>1, <2>2 DEF TypeOK
<1>9. HeldContent'
  BY <1>1, <1>4, <1>5, <1>7 DEF HeldContent
<1>10. DoneOnDisk'
  BY <1>1, <1>7 DEF DoneOnDisk
<1>11. \A q \in Pieces : Deciding(q) \subseteq Deciding(q)'
  BY <1>4 DEF Deciding
<1>12. FullCountIsDecided'
  BY <1>1, <1>7, <1>11 DEF FullCountIsDecided
<1>13. Stored' = Stored /\ Safe' = Safe
  BY <1>1 DEF Stored, Safe
<1>14. ConnScans'
  BY <1>4, <1>5, <1>7, <1>13 DEF ConnScans, ScanOK
<1>15. /\ boss'.pc = "test" /\ boss'.connected = boss.connected \cup ToConnect
       /\ boss'.cursor = boss.cursor /\ boss'.bad = boss.bad
       /\ boss'.cancelled = boss.cancelled /\ DOMAIN boss' = BossFields
  BY <1>1, <1>7 DEF BossShape, BossFields
<1>16. BossShape' /\ BossScan'
  BY <1>1, <1>7, <1>13, <1>15 DEF BossShape, BossScan
<1>17. Frames'
  <2>1. boss'.cancelled \subseteq Live'
    BY <1>6, <1>7, <1>15 DEF Frames
  <2>2. \A c \in Live' \ boss'.cancelled : PeerOf[c] \in boss'.connected
    BY <1>3, <1>6, <1>7, <1>15 DEF Frames
  <2>3. ASSUME NEW c \in Live' \ boss'.cancelled, NEW d \in Live' \ boss'.cancelled,
               PeerOf[c] = PeerOf[d]
        PROVE  c = d
    <3>1. CASE c \in Live /\ d \in Live
      BY <1>7, <1>15, <2>3, <3>1 DEF Frames, OneConnectionPerPeer
    <3>2. CASE c \in new /\ d \in new
      BY <1>3, <2>3, <3>2
    <3>3. \A e \in Live \ boss.cancelled, g \in new : PeerOf[e] # PeerOf[g]
      BY <1>3, <1>7 DEF Frames, ToConnect
    <3> QED
      BY <1>6, <1>15, <2>3, <3>1, <3>2, <3>3
  <2> QED
    BY <2>1, <2>2, <2>3 DEF Frames, OneConnectionPerPeer
<1>18. PutAsideOnlyAtTheEnd' /\ LeavesWhenStored'
  BY <1>7, <1>13, <1>15 DEF PutAsideOnlyAtTheEnd, LeavesWhenStored
<1> QED
  BY <1>8, <1>9, <1>10, <1>12, <1>14, <1>16, <1>17, <1>18 DEF BossInv, Inv, Kept

(* A step of a connection, and what run's members note of it.              *)
LEMMA ConnKeeps ==
  ASSUME BossInv, NEW c \in Conns, ConnStep(c), Noted(c)
  PROVE  BossInv'
<1>1. /\ Inv' /\ ConnScans' /\ Safe \subseteq Safe'
      /\ conn[c].pc # "closed"
      /\ \A d \in Conns \ {c} : conn'[d] = conn[d]
      /\ At(c, "loop") /\ conn'[c].pc = "closed" => Pieces \subseteq Safe'
  BY ConnStepKeeps DEF BossInv
<1>2. /\ BossShape /\ BossScan /\ Frames /\ PutAsideOnlyAtTheEnd /\ LeavesWhenStored
  BY DEF BossInv
<1>3. /\ DOMAIN boss' = BossFields /\ boss'.pc = boss.pc /\ boss'.cursor = boss.cursor
      /\ boss'.started = boss.started /\ boss'.connected = boss.connected
      /\ boss'.bad = IF Returns(c) THEN boss.bad \cup {PeerOf[c]} ELSE boss.bad
      /\ boss'.cancelled = IF conn'[c].pc = "closed" THEN boss.cancelled \ {c}
                           ELSE boss.cancelled
  BY <1>2 DEF Noted, BossShape, BossFields
<1>4. BossShape' /\ BossScan'
  BY <1>1, <1>2, <1>3 DEF BossShape, BossScan
<1>5. Live' = IF conn'[c].pc = "closed" THEN Live \ {c} ELSE Live
  BY <1>1 DEF Live
<1>6. boss'.cancelled \subseteq Live' /\ Live' \ boss'.cancelled \subseteq Live \ boss.cancelled
  BY <1>2, <1>3, <1>5 DEF Frames
<1>7. Frames'
  BY <1>2, <1>3, <1>6 DEF Frames, OneConnectionPerPeer
<1>8. Pieces \ LossyPieces \subseteq Stored => Pieces \ LossyPieces \subseteq Stored'
  BY <1>1 DEF Safe
<1>9. boss'.bad # {} => Pieces \ LossyPieces \subseteq Stored'
  <2>1. CASE Returns(c)
    BY <1>1, <2>1 DEF Returns, Safe
  <2>2. CASE ~Returns(c)
    BY <1>2, <1>3, <1>8, <2>2 DEF PutAsideOnlyAtTheEnd
  <2> QED
    BY <2>1, <2>2
<1>10. PutAsideOnlyAtTheEnd' /\ LeavesWhenStored'
  BY <1>2, <1>3, <1>8, <1>9 DEF PutAsideOnlyAtTheEnd, LeavesWhenStored
<1> QED
  BY <1>1, <1>4, <1>7, <1>10 DEF BossInv

-----------------------------------------------------------------------------
(* The whole                                                               *)

(* Nothing is Done, spawned, cancelled or put aside at first.              *)
LEMMA BossInitInv == BossInit => BossInv
<1> SUFFICES ASSUME BossInit PROVE BossInv
  OBVIOUS
<1>1. TableInit /\ conn = [c \in Conns |-> [NewConn EXCEPT !.pc = "closed"]]
  BY DEF BossInit
<1>2. \A c \in Conns : conn[c] \in ConnRecord /\ conn[c].pc = "closed"
  BY <1>1, NewConnType, Fields, Constants DEF NewConn
<1>3. TypeOK
  BY <1>1, <1>2, BuffersOf DEF BossInit, TypeOK, TableInit, TableTypeOK, IsBuffer
<1>4. HeldContent
  BY <1>2 DEF HeldContent
<1>5. DoneOnDisk
  BY <1>1 DEF TableInit, DoneOnDisk
<1>6. FullCountIsDecided
  BY <1>1, TotalSizeType DEF TableInit, FullCountIsDecided
<1>7. Live = {} /\ ConnScans
  BY <1>2 DEF Live, ConnScans, ScanOK
<1>8. /\ DOMAIN boss = BossFields /\ boss.cursor = 0 /\ boss.pc = "enter" /\ ~boss.started
      /\ boss.bad = {} /\ boss.cancelled = {}
  BY DEF BossInit, BossFields
<1>9. BossShape /\ BossScan /\ Frames /\ PutAsideOnlyAtTheEnd /\ LeavesWhenStored
  BY <1>7, <1>8, Constants
     DEF BossShape, BossScan, Frames, OneConnectionPerPeer, PutAsideOnlyAtTheEnd,
         LeavesWhenStored
<1> QED
  BY <1>3, <1>4, <1>5, <1>6, <1>7, <1>9 DEF BossInv, Inv, Kept

(* Every step keeps the invariant.                                         *)
LEMMA BossNextInv == BossInv /\ [BossNext]_supervised => BossInv'
<1> SUFFICES ASSUME BossInv, [BossNext]_supervised PROVE BossInv'
  OBVIOUS
<1>1. CASE ClearHung
  BY <1>1, ClearHungKeeps
<1>2. CASE Spawn
  BY <1>2, SpawnKeeps
<1>3. CASE (Boss /\ ~ClearHung /\ ~Spawn) \/ LongAnnounce
  <2>1. UNCHANGED vars
    BY <1>3 DEF Boss, Enter, Test, DoneScan, FirstFailure, WakeUp, WakeUpStalled, AnswerFails,
                Goodbye, LongAnnounce, FirstAnswer, Answer
  <2> QED
    BY <1>3, <2>1, BossAlone DEF Boss
<1>4. ASSUME NEW c \in Conns, Runs(c) \/ Receives(c) \/ Cancels(c) \/ Fails(c)
      PROVE  BossInv'
  BY <1>4, ConnKeeps DEF Runs, Receives, Cancels, Fails, ConnStep
<1>5. CASE UNCHANGED supervised
  <2>1. UNCHANGED <<vars, disk, conn, boss>>
    BY <1>5 DEF supervised, vars, connVars
  <2>2. Inv'
    BY <2>1, NextInv DEF BossInv
  <2>3. BossShape' /\ BossScan'
    BY <2>1 DEF BossInv, BossShape, BossScan, Safe, Stored
  <2> QED
    BY <2>1, <2>2, <2>3, BossKeeps
<1> QED
  BY <1>1, <1>2, <1>3, <1>4, <1>5 DEF BossNext

(* The invariant holds in every reachable state.                           *)
THEOREM BossCorrect == BossSpec => []BossInv
  BY BossInitInv, BossNextInv, PTL DEF BossSpec

(* A peer never has two connections that have not been cancelled, however  *)
(* often run connects again.                                               *)
THEOREM PeersConnectedOnce == BossSpec => []OneConnectionPerPeer
<1>1. BossInv => OneConnectionPerPeer
  BY DEF BossInv, Frames
<1> QED
  BY <1>1, BossCorrect, PTL

(* No peer is put aside while a piece is not in the files.                 *)
THEOREM PeersKeptToTheEnd == BossSpec => []PutAsideOnlyAtTheEnd
<1>1. BossInv => PutAsideOnlyAtTheEnd
  BY DEF BossInv
<1> QED
  BY <1>1, BossCorrect, PTL

(* run ends only when all pieces are in the files, whatever was cleared or *)
(* cancelled while it read their states one by one.                        *)
THEOREM EndsStored == BossSpec => []LeavesWhenStored
<1>1. BossInv => LeavesWhenStored
  BY DEF BossInv
<1> QED
  BY <1>1, BossCorrect, PTL

(* Under the downloader too, a piece that is Done is in the files.         *)
THEOREM SupervisedDoneIsOnDisk == BossSpec => []DoneOnDisk
<1>1. BossInv => DoneOnDisk
  BY DEF BossInv, Inv, Kept
<1> QED
  BY <1>1, BossCorrect, PTL

(* The connections are a store of pieces under the downloader too: what it *)
(* clears, cancels and spawns again takes no content back, and a piece is  *)
(* reported only when it is stored.                                        *)
THEOREM SupervisedStore == BossSpec => ImplementsStore
<1>1. Kept /\ [BossNext]_supervised => [Store!Next]_<<Stored, Had>>
  <2> SUFFICES ASSUME Kept, [BossNext]_supervised PROVE Store!Next \/ UNCHANGED <<Stored, Had>>
    OBVIOUS
  <2>1. CASE ClearHung
    BY <2>1, ClearImplements DEF ClearHung
  <2>2. CASE (Boss /\ ~ClearHung) \/ LongAnnounce \/ UNCHANGED supervised
    <3>1. UNCHANGED <<state, disk>>
      BY <2>2 DEF Boss, Enter, Test, DoneScan, FirstFailure, WakeUp, WakeUpStalled, AnswerFails,
                  Goodbye, LongAnnounce, FirstAnswer, Answer, Spawn, supervised, vars, table
    <3>2. QED
      BY <3>1, StutterImplements
  <2>3. ASSUME NEW c \in Conns, Runs(c) \/ Receives(c) \/ Cancels(c) \/ Fails(c)
        PROVE  Store!Next \/ UNCHANGED <<Stored, Had>>
    BY <2>3, ConnImplements DEF Runs, Receives, Cancels, Fails
  <2>4. QED
    BY <2>1, <2>2, <2>3 DEF BossNext
<1>2. BossInit => TableInit
  BY DEF BossInit
<1>3. BossInv => Kept
  BY DEF BossInv, Inv
<1>4. QED
  BY <1>1, <1>2, <1>3, InitImplements, BossCorrect, PTL DEF BossSpec, ImplementsStore, Store!Spec

-----------------------------------------------------------------------------
(* Type correctness                                                        *)

BossRecord ==
    [pc : BossPlaces, cursor : Pieces, started : BOOLEAN,
     peerList : SUBSET Peers, connected : SUBSET Peers, bad : SUBSET Peers,
     cancelled : SUBSET Conns, pending : SUBSET Conns,
     lastDownloaded : Nat, sinceProgress : Nat, sinceClear : Nat,
     sinceTracker : Nat, waited : Nat]

BossTyped == failures \in 0 .. MaxFailures /\ boss \in BossRecord

(* The bytes that downloaded() sums up are a natural number.               *)
LEMMA DownloadedType == TypeOK => Downloaded \in Nat
<1> SUFFICES ASSUME TypeOK PROVE Downloaded \in Nat
  OBVIOUS
<1> DEFINE S == {p \in Pieces : state[p] # "Missing"}
<1>1. IsFiniteSet(Pieces)
  BY FS_Interval DEF Pieces
<1>2. IsFiniteSet(S)
  BY <1>1, FS_Subset
<1>3. \A p \in S : downloaded[p] \in Nat
  BY DEF TypeOK, TableTypeOK
<1>4. QED
  BY <1>2, <1>3, SumType DEF Downloaded

(* Time that passes, and bytes that are counted, keep the types.           *)
LEMMA TimersType ==
  ASSUME TypeOK, boss \in BossRecord
  PROVE  Later(boss) \in BossRecord /\ Counted \in BossRecord
<1>1. \A t \in Nat : \A limit : UpTo(t, limit) \in Nat
  BY DEF UpTo
<1>2. Later(boss) \in BossRecord
  BY <1>1 DEF Later, BossRecord
<1>3. Counted \in BossRecord
  BY <1>2, DownloadedType DEF Counted, BossRecord
<1>4. QED
  BY <1>2, <1>3

(* A step of run keeps the types.                                          *)
LEMMA BossStepType ==
  ASSUME TypeOK, BossTyped, Boss \/ LongAnnounce
  PROVE  BossTyped'
<1> USE DEF BossTyped
<1>0. /\ boss \in BossRecord /\ Later(boss) \in BossRecord /\ Counted \in BossRecord
      /\ Live \subseteq Conns
  BY TimersType DEF Live
<1>1. CASE Enter \/ Test
  <2>1. PICK x \in BossPlaces, y \in BossPlaces : DoneScan(x, y)
    BY <1>1 DEF Enter, Test, BossPlaces
  <2>2. boss.cursor \in Pieces
    BY <1>0 DEF BossRecord
  <2>3. 0 \in Pieces /\ (boss.cursor + 1 < NumPieces => boss.cursor + 1 \in Pieces)
    BY <2>2 DEF Pieces
  <2>4. CASE state[boss.cursor] # "Done"
    BY <1>0, <2>1, <2>3, <2>4 DEF DoneScan, BossRecord
  <2>5. CASE state[boss.cursor] = "Done" /\ boss.cursor + 1 < NumPieces
    BY <1>0, <2>1, <2>3, <2>5 DEF DoneScan, BossRecord
  <2>6. CASE state[boss.cursor] = "Done" /\ ~(boss.cursor + 1 < NumPieces)
    BY <1>0, <2>1, <2>3, <2>6 DEF DoneScan, BossRecord
  <2>7. QED
    BY <2>4, <2>5, <2>6
<1>2. CASE FirstFailure \/ AnswerFails \/ Goodbye
  BY <1>0, <1>2 DEF FirstFailure, AnswerFails, Goodbye, BossRecord, BossPlaces
<1>3. \A b : ClearOrOn(b) \in BossPlaces /\ AskOrSpawn(b) \in BossPlaces
  BY DEF ClearOrOn, AskOrSpawn, BossPlaces
<1>4. CASE WakeUp
  BY <1>0, <1>3, <1>4 DEF WakeUp, BossRecord
<1>5. CASE WakeUpStalled
  <2>1. Reconnect(Counted) \in BossRecord
    BY <1>0 DEF Reconnect, BossRecord
  <2>2. QED
    BY <1>3, <1>5, <2>1 DEF WakeUpStalled, BossRecord
<1>6. CASE ClearHung
  BY <1>0, <1>3, <1>6 DEF ClearHung, BossRecord
<1>7. CASE Spawn
  <2>1. ToConnect \subseteq Peers
    BY <1>0 DEF ToConnect, BossRecord
  <2>2. QED
    BY <1>0, <1>7, <2>1 DEF Spawn, BossRecord, BossPlaces
<1>8. ASSUME NEW ps \in TrackerAnswers, FirstAnswer(ps) \/ Answer(ps)
      PROVE  BossTyped'
  <2>1. ps \subseteq Peers
    BY DownloaderAssumption
  <2>2. CASE FirstAnswer(ps)
    BY <1>0, <2>1, <2>2 DEF FirstAnswer, BossRecord, BossPlaces
  <2>3. CASE Answer(ps)
    BY <1>0, <2>1, <2>3 DEF Answer, BossRecord, BossPlaces
  <2>4. QED
    BY <1>8, <2>2, <2>3
<1>9. CASE LongAnnounce
  BY <1>0, <1>9 DEF LongAnnounce, UpTo, BossRecord
<1>10. QED
  BY <1>1, <1>2, <1>4, <1>5, <1>6, <1>7, <1>8, <1>9 DEF Boss

(* Every step keeps the types.                                             *)
LEMMA BossNextType ==
  ASSUME TypeOK, BossTyped, [BossNext]_supervised
  PROVE  BossTyped'
<1>1. CASE Boss \/ LongAnnounce
  BY <1>1, BossStepType
<1>2. ASSUME NEW c \in Conns, Runs(c) \/ Receives(c) \/ Cancels(c) \/ Fails(c)
      PROVE  BossTyped'
  <2>1. Noted(c) /\ PeerOf[c] \in Peers
    BY <1>2, DownloaderAssumption DEF Runs, Receives, Cancels, Fails
  <2>2. boss' \in BossRecord
    BY <2>1 DEF BossTyped, Noted, BossRecord
  <2>3. failures' = failures \/ (failures < MaxFailures /\ failures' = failures + 1)
    BY <1>2 DEF Runs, Receives, Cancels, Fails
  <2>4. QED
    BY <2>2, <2>3, DownloaderAssumption DEF BossTyped
<1>3. CASE UNCHANGED supervised
  BY <1>3 DEF BossTyped, supervised
<1>4. QED
  BY <1>1, <1>2, <1>3 DEF BossNext

(* Every variable of the supervised download has its type, the largest     *)
(* byte count that run has seen among them.                                *)
THEOREM BossTypeCorrect == BossSpec => []BossTypeOK
<1>1. BossInit => BossTyped
  BY DownloaderAssumption DEF BossInit, BossTyped, BossRecord, BossPlaces, Pieces
<1>2. BossInv /\ BossTyped /\ [BossNext]_supervised => BossTyped'
  BY BossNextType DEF BossInv, Inv, Kept
<1>3. BossInv /\ BossTyped => BossTypeOK
  BY DEF BossInv, Inv, Kept, BossTyped, BossRecord, BossTypeOK
<1>4. QED
  BY <1>1, <1>2, <1>3, BossCorrect, PTL DEF BossSpec
=============================================================================
