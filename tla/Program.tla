------------------------------ MODULE Program -------------------------------
(***************************************************************************)
(* The program: App keeps a list of sessions, one per torrent, and runs    *)
(* them on the threads of one io_context.  The main thread adds torrents   *)
(* and then waits in ~App for the threads; a work guard keeps the threads  *)
(* from returning before.  When Downloader::run returns, its deferred      *)
(* blocks run in reverse order: on_complete, which stops the io_context if *)
(* every session's table is done, then set_descriptors_to_readonly and     *)
(* try_save.                                                               *)
(*                                                                         *)
(* io_context::run executes one handler at a time on each thread.  stop()  *)
(* lets the handlers that are being executed finish; no other is started.  *)
(* A coroutine that waits in a co_await needs a thread to go on, and keeps *)
(* it up to its next co_await: through the whole of a tracker's answer,    *)
(* whose body is read with a blocking asio::read.                          *)
(***************************************************************************)
EXTENDS Integers, FiniteSets

CONSTANTS
    NumSessions,  \* the torrents the main thread adds
    Threads,      \* THREAD_COUNT: 4
    Loaded,       \* the sessions whose state file says that they are done
    MaxHanging    \* bound: trackers that keep the connection open after the header

ASSUME ProgramAssumption ==
    /\ NumSessions \in Nat \ {0} /\ Threads \in Nat \ {0}
    /\ Loaded \subseteq 1 .. NumSessions
    /\ MaxHanging \in Nat

Sessions == 1 .. NumSessions

VARIABLES
    hanging,      \* the sessions whose tracker never ends the body of an answer
    unreachable,  \* the sessions whose tracker does not answer the first announce
    added,        \* sessions.size(); sessions are numbered as they are added
    at,           \* at[s]: where Downloader::run of session s stands
    why,          \* why[s]: which announce it makes: start, again or bye
    cursor,       \* cursor[s]: the session its on_complete looks at next
    done,         \* done[s]: is_done() of the session's table
    saved,        \* saved[s]: its state was saved when run returned
    guard,        \* work_guard is held
    stopped,      \* ctx.stop() was called
    alive,        \* the threads have not returned
    exited        \* ~App has joined them

sessionVars == <<at, why, cursor, done, saved>>
vars == <<hanging, unreachable, added, sessionVars, guard, stopped, alive, exited>>

(* Where run of a session stands:                                          *)
(*   absent  the torrent has not been added                                *)
(*   ready   co_spawn has queued it                                        *)
(*   header  an announce, up to the header of the answer                   *)
(*   body    the blocking read of the answer                               *)
(*   loop    the loop, waiting for its timer                               *)
(*   check   it has returned, and on_complete reads the tables             *)
(*   save    the last deferred block                                       *)
(*   gone    its frame is destroyed                                        *)
Places == {"absent", "ready", "header", "body", "loop", "check", "save", "gone"}

Init ==
    /\ hanging \in {h \in SUBSET Sessions : Cardinality(h) <= MaxHanging}
    /\ unreachable \in SUBSET Sessions
    /\ added = 0
    /\ at = [s \in Sessions |-> "absent"]
    /\ why = [s \in Sessions |-> "start"]
    /\ cursor = [s \in Sessions |-> 1]
    /\ done = [s \in Sessions |-> s \in Loaded]
    /\ saved = [s \in Sessions |-> FALSE]
    /\ guard = TRUE
    /\ stopped = FALSE
    /\ alive = TRUE
    /\ exited = FALSE

(* The sessions whose coroutine keeps a thread.                            *)
Running == {s \in Sessions : at[s] \in {"body", "check", "save"}}

(* A queued or waiting coroutine can be resumed.                           *)
FreeThread_MainOnly == alive /\ ~stopped /\ Cardinality(Running) + 1 < Threads
FreeThread == alive /\ ~stopped /\ Cardinality(Running) < Threads

Goto(s, place) == at' = [at EXCEPT ![s] = place]

Announce(s, event) == Goto(s, "header") /\ why' = [why EXCEPT ![s] = event]

Unchanged == UNCHANGED <<hanging, unreachable, added, guard, stopped, alive, exited>>

-----------------------------------------------------------------------------
(* The main thread                                                         *)

(* add_torrent puts a session into the list and spawns its run.            *)
AddTorrent ==
    /\ added < NumSessions
    /\ added' = added + 1
    /\ Goto(added + 1, "ready")
    /\ UNCHANGED <<hanging, unreachable, why, cursor, done, saved, guard, stopped, alive, exited>>

(* run has started the connections of a session; they may wait for their   *)
(* peers long after it has returned.                                       *)
Connected(s) == at[s] = "loop" \/ why[s] # "start"

(* The threads return when the io_context was stopped, or has no work, and *)
(* no handler is being executed.                                           *)
HasWork == guard \/ \E s \in Sessions : at[s] \notin {"absent", "gone"} \/ Connected(s)

ThreadsReturn_AtOnce ==
    /\ alive /\ (stopped \/ ~HasWork)
    /\ alive' = FALSE
    /\ UNCHANGED <<hanging, unreachable, added, sessionVars, guard, stopped, exited>>
ThreadsReturn ==
    /\ alive /\ (stopped \/ ~HasWork) /\ Running = {}
    /\ alive' = FALSE
    /\ UNCHANGED <<hanging, unreachable, added, sessionVars, guard, stopped, exited>>

(* ~App joins them, and the program ends.                                  *)
Exit ==
    /\ added = NumSessions /\ ~alive /\ ~exited
    /\ exited' = TRUE
    /\ UNCHANGED <<hanging, unreachable, added, sessionVars, guard, stopped, alive>>

-----------------------------------------------------------------------------
(* Downloader::run                                                         *)

(* A torrent that is done already is left at once.                         *)
Begin(s) ==
    /\ at[s] = "ready" /\ FreeThread
    /\ IF done[s] THEN Goto(s, "check") /\ UNCHANGED why ELSE Announce(s, "start")
    /\ UNCHANGED <<cursor, done, saved>> /\ Unchanged

(* The header of an answer arrives, ...                                    *)
Header(s) ==
    /\ at[s] = "header" /\ FreeThread
    /\ why[s] = "start" => s \notin unreachable
    /\ Goto(s, "body")
    /\ UNCHANGED <<why, cursor, done, saved>> /\ Unchanged

(* ... or the announce fails: the first one ends run for good.             *)
Unanswered(s) ==
    /\ at[s] = "header" /\ FreeThread
    /\ why[s] = "start" => s \in unreachable
    /\ Goto(s, IF why[s] = "again" THEN "loop" ELSE "check")
    /\ UNCHANGED <<why, cursor, done, saved>> /\ Unchanged

(* The tracker ends the body.                                              *)
Body(s) ==
    /\ at[s] = "body" /\ s \notin hanging
    /\ Goto(s, IF why[s] = "bye" THEN "check" ELSE "loop")
    /\ UNCHANGED <<why, cursor, done, saved>> /\ Unchanged

(* The connections of a session that has started download its torrent,     *)
(* whatever run is waiting for.                                            *)
Download(s) ==
    /\ Connected(s) /\ ~done[s] /\ FreeThread
    /\ done' = [done EXCEPT ![s] = TRUE]
    /\ UNCHANGED <<at, why, cursor, saved>> /\ Unchanged

(* The timer fires: the tracker may be due, or the loop ends.              *)
AnnounceAgain(s) ==
    /\ at[s] = "loop" /\ ~done[s] /\ FreeThread
    /\ Announce(s, "again")
    /\ UNCHANGED <<cursor, done, saved>> /\ Unchanged

LeaveLoop(s) ==
    /\ at[s] = "loop" /\ done[s] /\ FreeThread
    /\ Announce(s, "bye")
    /\ UNCHANGED <<cursor, done, saved>> /\ Unchanged

(* on_complete reads one table after the other, while main may be adding   *)
(* sessions; behind the last it drops the guard and stops the io_context.  *)
NotDone(s) ==
    /\ at[s] = "check" /\ cursor[s] <= added /\ ~done[cursor[s]]
    /\ Goto(s, "save")
    /\ UNCHANGED <<why, cursor, done, saved>> /\ Unchanged

NextTable_EveryOther(s) ==
    /\ at[s] = "check" /\ cursor[s] <= added /\ done[cursor[s]]
    /\ cursor' = [cursor EXCEPT ![s] = @ + 2]
    /\ UNCHANGED <<at, why, done, saved>> /\ Unchanged
NextTable(s) ==
    /\ at[s] = "check" /\ cursor[s] <= added /\ done[cursor[s]]
    /\ cursor' = [cursor EXCEPT ![s] = @ + 1]
    /\ UNCHANGED <<at, why, done, saved>> /\ Unchanged

BehindLast_Off(s) == cursor[s] >= added
BehindLast(s) == cursor[s] > added

Stop_DropsGuardOnly(s) ==
    /\ at[s] = "check" /\ BehindLast(s)
    /\ guard' = FALSE
    /\ Goto(s, "save")
    /\ UNCHANGED <<hanging, unreachable, added, why, cursor, done, saved, stopped, alive, exited>>
Stop(s) ==
    /\ at[s] = "check" /\ BehindLast(s)
    /\ stopped' = TRUE /\ guard' = FALSE
    /\ Goto(s, "save")
    /\ UNCHANGED <<hanging, unreachable, added, why, cursor, done, saved, alive, exited>>

(* The descriptors become read-only, and the state is saved.               *)
Save(s) ==
    /\ at[s] = "save"
    /\ saved' = [saved EXCEPT ![s] = TRUE]
    /\ Goto(s, "gone")
    /\ UNCHANGED <<why, cursor, done>> /\ Unchanged

OnComplete(s) == NotDone(s) \/ NextTable(s) \/ Stop(s)

(* What run does when it gets a thread, and when it has one.               *)
Resumes(s) == Begin(s) \/ Header(s) \/ Unanswered(s) \/ LeaveLoop(s)
GoesOn(s) == Body(s) \/ OnComplete(s) \/ Save(s)

Main == AddTorrent \/ ThreadsReturn \/ Exit

Next == Main \/ \E s \in Sessions : Resumes(s) \/ AnnounceAgain(s) \/ GoesOn(s) \/ Download(s)

Spec == Init /\ [][Next]_vars

(* The threads take up handlers in the order they become ready, so each of *)
(* them gets a thread.  A header, or an error, comes for every announce,   *)
(* and the connections deliver the torrent; only the bodies of hanging     *)
(* trackers do not end.                                                    *)
Fairness ==
    /\ WF_vars(Main)
    /\ \A s \in Sessions :
        SF_vars(Resumes(s)) /\ SF_vars(Download(s)) /\ WF_vars(GoesOn(s))

FairSpec == Spec /\ Fairness

-----------------------------------------------------------------------------
(* Properties                                                              *)

(* Every variable has its type.                                            *)
TypeOK ==
    /\ hanging \subseteq Sessions /\ unreachable \subseteq Sessions
    /\ added \in 0 .. NumSessions
    /\ at \in [Sessions -> Places]
    /\ why \in [Sessions -> {"start", "again", "bye"}]
    /\ cursor \in [Sessions -> 1 .. NumSessions + 1]
    /\ done \in [Sessions -> BOOLEAN] /\ saved \in [Sessions -> BOOLEAN]
    /\ guard \in BOOLEAN /\ stopped \in BOOLEAN /\ alive \in BOOLEAN /\ exited \in BOOLEAN

(* on_complete stops the io_context of all sessions only when each torrent *)
(* added by then is done, although it looks at them one after the other    *)
(* while others are added and downloaded ("we check whether all torrents   *)
(* are ready").                                                            *)
StopsWhenAllDone ==
    [][~stopped /\ stopped' => \A s \in 1 .. added : done[s]]_vars

(* The program does not end under a session that has begun to leave: also  *)
(* the one that stopped the io_context saves its state before main returns.*)
LeaversHaveSaved ==
    exited => \A s \in Sessions : at[s] \in {"check", "save", "gone"} => saved[s]

(* Trackers that never end an answer, as long as there are fewer of them   *)
(* than threads, do not keep another session from returning (unless the    *)
(* io_context is stopped first).                                           *)
OthersReturn ==
    \A s \in Sessions : <>(s \in hanging \/ stopped \/ at[s] = "gone")

(* When every tracker answers, the program ends.                           *)
Ends == (hanging \cup unreachable = {}) ~> exited
=============================================================================
