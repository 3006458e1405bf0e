----------------------------- MODULE Downloader -----------------------------
(***************************************************************************)
(* Downloader::run, the coroutine that supervises a torrent: it asks the   *)
(* tracker for peers, spawns one connection per peer, and once a second    *)
(* looks whether the download has stalled (then it cancels every           *)
(* connection and connects again), whether pieces are to be cleared and    *)
(* whether the tracker is due.  It is composed with the connections of     *)
(* PeerConn, which run in parallel to it and share the piece table.        *)
(*                                                                         *)
(* Conns are coroutine frames: each peer has a few, a frame whose          *)
(* coroutine has ended is used again.  Time is counted in wake-ups, the    *)
(* seconds of the code; a timer stops counting past its limit.  Saving the *)
(* table, which changes nothing here, is the module StateFile.             *)
(***************************************************************************)
EXTENDS PeerConn

CONSTANTS
    Peers,           \* the addresses a tracker may name
    PeerOf,          \* PeerOf[c]: the peer the frame c connects to
    TrackerAnswers,  \* the sets of peers an answer may name
    TrackerFails,    \* the announces that may fail: "first", "again"
    StallAfter,      \* 40 in the code
    ClearAfter,      \* 30
    Interval,        \* the tracker's interval, or 30
    Prompt,          \* TRUE: a coroutine's own steps take less than a second, and what a
                     \* peer has to send takes less than StallAfter
    MaxFailures      \* bound: connections that fail by themselves

ASSUME DownloaderAssumption ==
    /\ PeerOf \in [Conns -> Peers]
    /\ TrackerAnswers \subseteq SUBSET Peers
    /\ StallAfter \in Nat /\ ClearAfter \in Nat /\ Interval \in Nat
    /\ Prompt \in BOOLEAN /\ MaxFailures \in Nat

VARIABLES
    boss,     \* the members and locals of Downloader and its run
    failures  \* connections that failed so far

supervised == <<vars, boss, failures>>

(* Where run stands:                                                       *)
(*   enter     is_done() before anything else                              *)
(*   hail      the first announce                                          *)
(*   spawn     spawn_new_peers                                             *)
(*   test      the loop condition                                          *)
(*   sleep     the timer of one second                                     *)
(*   clear     the check of hung pieces                                    *)
(*   ask       a later announce                                            *)
(*   farewell  the announce of the end                                     *)
(*   over      run has returned                                            *)
BossPlaces == {"enter", "hail", "spawn", "test", "sleep", "clear", "ask", "farewell", "over"}

BossInit ==
    /\ TableInit
    /\ conn = [c \in Conns |-> [NewConn EXCEPT !.pc = "closed"]]
    /\ clears = 0
    /\ chokes = [c \in Conns |-> 0]
    /\ failures = 0
    /\ boss = [pc |-> "enter",
               cursor |-> 0,           \* the entry is_done reads next
               started |-> FALSE,
               peerList |-> {},        \* peer_list
               connected |-> {},       \* connected_peers
               bad |-> {},             \* bad_peers
               cancelled |-> {},       \* frames that were sent a cancellation and still run
               pending |-> {},         \* of these, those a message had reached before it
               lastDownloaded |-> 0,
               sinceProgress |-> 0,    \* now - last_progress
               sinceClear |-> 0,       \* now - last_clear
               sinceTracker |-> 0,     \* now - last_tracker_contact
               waited |-> 0]           \* seconds since the last wake-up

BossAt(place) == boss.pc = place

Live == {c \in Conns : conn[c].pc # "closed"}

-----------------------------------------------------------------------------
(* is_done, before the first announce and as the loop condition: one entry *)
(* at a time, without the mutex, up to the first that is not Done.         *)
DoneScan_PastEnd(done, notDone) ==
    /\ boss' = IF state[boss.cursor] # "Done" THEN [boss EXCEPT !.pc = notDone, !.cursor = 0]
               ELSE [boss EXCEPT !.cursor = @ + 1]
    /\ UNCHANGED <<vars, failures>>
DoneScan_Reported(done, notDone) ==
    /\ boss' = [boss EXCEPT !.cursor = 0, !.pc = IF Downloaded = TotalLength THEN done ELSE notDone]
    /\ UNCHANGED <<vars, failures>>
DoneScan(done, notDone) ==
    LET p == boss.cursor
    IN  /\ boss' = IF state[p] # "Done" THEN [boss EXCEPT !.pc = notDone, !.cursor = 0]
                   ELSE IF p + 1 < NumPieces THEN [boss EXCEPT !.cursor = p + 1]
                   ELSE [boss EXCEPT !.pc = done, !.cursor = 0]
        /\ UNCHANGED <<vars, failures>>

Enter == BossAt("enter") /\ DoneScan("over", "hail")
Test == BossAt("test") /\ DoneScan("farewell", "sleep")

(* The first announce; last_clear begins when it is over.                  *)
FirstAnswer(ps) ==
    /\ BossAt("hail")
    /\ boss' = [boss EXCEPT !.pc = "spawn", !.started = TRUE, !.peerList = @ \cup ps,
                            !.sinceClear = 0, !.waited = 0]
    /\ UNCHANGED <<vars, failures>>

(* An announce that fails the first time ends run.                         *)
FirstFailure ==
    /\ BossAt("hail") /\ "first" \in TrackerFails
    /\ boss' = [boss EXCEPT !.pc = "over"]
    /\ UNCHANGED <<vars, failures>>

(* A second that passes, seen from the timers.                             *)
UpTo(t, limit) == IF t <= limit THEN t + 1 ELSE t
Later(b) ==
    [b EXCEPT !.sinceProgress = UpTo(@, StallAfter), !.sinceClear = UpTo(@, ClearAfter),
              !.sinceTracker = UpTo(@, Interval)]

(* What is left of a round: the next of the checks that is due.            *)
AskOrSpawn(b) == IF b.sinceTracker >= Interval THEN "ask" ELSE "spawn"
ClearOrOn(b) == IF b.sinceClear > ClearAfter THEN "clear" ELSE AskOrSpawn(b)

(* A connection with a message on its way: the peer's answer to connect,   *)
(* its Bitfield, its Unchoke or a block.                                   *)
Due(c) ==
    /\ conn[c].pc # "closed"
    /\ \/ At(c, "new") \/ conn[c].peerChoking \/ ~conn[c].gotBitfield
       \/ \E r \in Requests : conn[c].owed[r] > 0

(* The timer fires.  More bytes than ever before are progress.             *)
Counted ==
    LET b == Later(boss)
    IN  IF Downloaded > boss.lastDownloaded
        THEN [b EXCEPT !.lastDownloaded = Downloaded, !.sinceProgress = 0, !.waited = 0]
        ELSE [b EXCEPT !.waited = 0]

Waits(c) == conn[c].pc \in {"loop", "idle", "closed"} \/ (At(c, "new") /\ conn[c].cursor = 0)

Slept == BossAt("sleep") /\ (Prompt => \A c \in Conns : Waits(c))

WakeUp ==
    /\ Slept /\ Counted.sinceProgress <= StallAfter
    /\ boss' = [Counted EXCEPT !.pc = ClearOrOn(Counted)]
    /\ UNCHANGED <<vars, failures>>

(* reconnect_peers cancels every connection and forgets it; the coroutine  *)
(* runs on to its next co_await.  Bound: there is a frame for the next     *)
(* coroutine of each peer, as those cancelled the last time have ended.    *)
Reconnect_Remembers(b) == [b EXCEPT !.cancelled = Live, !.sinceProgress = 0]
Reconnect(b) ==
    [b EXCEPT !.cancelled = Live,
              !.pending = @ \cup {c \in Live \ boss.cancelled : At(c, "idle")},
              !.connected = {}, !.sinceProgress = 0]

WakeUpStalled ==
    /\ Slept /\ Counted.sinceProgress > StallAfter
    /\ boss.cancelled = {}
    /\ Prompt => \A c \in Conns : ~Due(c)
    /\ boss' = [Reconnect(Counted) EXCEPT !.pc = ClearOrOn(Counted)]
    /\ UNCHANGED <<vars, failures>>

(* The check of hung pieces takes back every piece being downloaded.       *)
ClearHung ==
    /\ BossAt("clear")
    /\ ClearDownloadingPieces
    /\ boss' = [boss EXCEPT !.pc = AskOrSpawn(boss), !.sinceClear = 0]
    /\ UNCHANGED <<disk, connVars, failures>>

(* A later announce counts from the wake-up that sent it; one that fails   *)
(* is sent again at the next.                                              *)
Answer(ps) ==
    /\ BossAt("ask")
    /\ boss' = [boss EXCEPT !.pc = "spawn", !.peerList = @ \cup ps, !.sinceTracker = boss.waited]
    /\ UNCHANGED <<vars, failures>>

AnswerFails ==
    /\ BossAt("ask") /\ "again" \in TrackerFails
    /\ boss' = [boss EXCEPT !.pc = "spawn"]
    /\ UNCHANGED <<vars, failures>>

(* Time passes while an announce is under way: it has no timeout.          *)
LongAnnounce ==
    /\ boss.pc \in {"hail", "ask"}
    /\ boss' = [Later(boss) EXCEPT !.waited = UpTo(@, Interval)]
    /\ boss' # boss
    /\ UNCHANGED <<vars, failures>>

(* spawn_new_peers: a coroutine for every peer that has none and has not   *)
(* been put aside.                                                         *)
ToConnect_All == boss.peerList \ boss.bad
ToConnect == (boss.peerList \ boss.connected) \ boss.bad

FrameFor(p) == CHOOSE c \in Conns \ Live : PeerOf[c] = p

Spawn ==
    LET new == {FrameFor(p) : p \in ToConnect}
    IN  /\ BossAt("spawn")
        /\ \A p \in ToConnect : \E c \in Conns \ Live : PeerOf[c] = p
        /\ conn' = [c \in Conns |-> IF c \in new THEN NewConn ELSE conn[c]]
        /\ boss' = [boss EXCEPT !.pc = "test", !.connected = @ \cup ToConnect]
        /\ UNCHANGED <<table, disk, clears, chokes, failures>>

(* The last announce, which may also fail, and the return.                 *)
Goodbye ==
    /\ BossAt("farewell")
    /\ boss' = [boss EXCEPT !.pc = "over"]
    /\ UNCHANGED <<vars, failures>>

Boss ==
    \/ Enter \/ Test \/ FirstFailure \/ WakeUp \/ WakeUpStalled \/ ClearHung
    \/ AnswerFails \/ Spawn \/ Goodbye
    \/ \E ps \in TrackerAnswers : FirstAnswer(ps) \/ Answer(ps)

-----------------------------------------------------------------------------
(* The connections' coroutines                                             *)

(* A coroutine that returns, rather than throws, puts its peer aside if    *)
(* its connection is exhausted.                                            *)
Returns(c) == At(c, "loop") /\ conn'[c].pc = "closed" /\ conn[c].exhausted

Noted(c) ==
    /\ boss' = [boss EXCEPT
         !.bad = IF Returns(c) THEN @ \cup {PeerOf[c]} ELSE @,
         !.cancelled = IF conn'[c].pc = "closed" THEN @ \ {c} ELSE @,
         !.pending = IF At(c, "idle") THEN @ \ {c} ELSE @]

(* A cancelled coroutine runs on, and handles the message that had reached *)
(* it, but no other.                                                       *)
Hears(c) == c \in boss.cancelled => c \in boss.pending

Runs(c) == Local(c) /\ Noted(c) /\ UNCHANGED failures

Receives(c) ==
    /\ Hears(c)
    /\ Remote(c) \/ RecvChoke(c) \/ RecvOther(c)
    /\ Noted(c) /\ UNCHANGED failures

Cancels(c) == c \in boss.cancelled /\ Drop(c) /\ Noted(c) /\ UNCHANGED failures

Fails(c) ==
    /\ c \notin boss.cancelled
    /\ failures < MaxFailures /\ failures' = failures + 1
    /\ Drop(c) /\ Noted(c)

BossNext ==
    \/ Boss \/ LongAnnounce
    \/ \E c \in Conns : Runs(c) \/ Receives(c) \/ Cancels(c) \/ Fails(c)

BossSpec == BossInit /\ [][BossNext]_supervised

(* What a frame waits for again and again, in one incarnation or the next, *)
(* comes in the end: no peer is always too slow for StallAfter.            *)
Delivered(c) == c \notin boss.cancelled /\ Noted(c) /\ UNCHANGED failures

Named(p) == \E ps \in TrackerAnswers : p \in ps /\ Answer(ps)

(* io_context runs run and the coroutines, also to their cancellation, and *)
(* a tracker that is asked again and again names every peer.               *)
BossFairness ==
    /\ SF_supervised(Boss)
    /\ \A p \in Peers : SF_supervised(Named(p))
    /\ \A c \in Conns :
        /\ WF_supervised(Runs(c))
        /\ SF_supervised(Cancels(c))
        /\ SF_supervised(Create(c) /\ Delivered(c))
        /\ SF_supervised(RecvUnchoke(c) /\ Delivered(c))
        /\ SF_supervised(RecvBitfield(c) /\ Delivered(c))
        /\ SF_supervised(RecvPiece(c) /\ Delivered(c))

FairBossSpec == BossSpec /\ BossFairness

-----------------------------------------------------------------------------
(* Properties                                                              *)

(* Every variable has its type.                                            *)
BossTypeOK ==
    /\ TypeOK
    /\ failures \in 0 .. MaxFailures
    /\ boss \in [pc : BossPlaces, cursor : Pieces, started : BOOLEAN,
                 peerList : SUBSET Peers, connected : SUBSET Peers, bad : SUBSET Peers,
                 cancelled : SUBSET Conns, pending : SUBSET Conns,
                 lastDownloaded : Nat, sinceProgress : Nat, sinceClear : Nat,
                 sinceTracker : Nat, waited : Nat]

(* A peer has at most one connection that has not been cancelled, whatever *)
(* the tracker repeats and however often run connects again.               *)
OneConnectionPerPeer ==
    \A c, d \in Live \ boss.cancelled : PeerOf[c] = PeerOf[d] => c = d

(* A peer is put aside for ever ("peers that have nothing more to          *)
(* download", bad_peers) only when the whole torrent is in its files:      *)
(* until then it may be asked again for a piece that is cleared, refused   *)
(* or lost with another connection.                                        *)
PutAsideOnlyAtTheEnd == boss.bad # {} => Pieces \ LossyPieces \subseteq Stored

(* run says goodbye to the tracker, and returns after it has started, only *)
(* when all pieces are in the files, whatever was cleared or cancelled     *)
(* while it read their states one by one.                                  *)
LeavesWhenStored ==
    boss.pc = "farewell" \/ (boss.pc = "over" /\ boss.started) =>
        Pieces \ LossyPieces \subseteq Stored

(* However a connection fails and whatever it had claimed, run returns:    *)
(* stalls are noticed, the claimed pieces are cleared and the peers are    *)
(* connected again, until everything is downloaded (or the first announce  *)
(* has failed).                                                            *)
RunReturns == <>(boss.pc = "over")
=============================================================================
