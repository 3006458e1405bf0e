---------------------------- MODULE ProgramProofs ----------------------------
(***************************************************************************)
(* Safety of Program, for any number of sessions and threads, whatever the *)
(* trackers do and whenever torrents are added.                            *)
(***************************************************************************)
EXTENDS Program, TLAPS

USE ProgramAssumption

(* The actions of a session, under one name.                               *)
Step(s) == Resumes(s) \/ AnnounceAgain(s) \/ GoesOn(s) \/ Download(s)

(***************************************************************************)
(* StopsWhenAllDone needs what on_complete has seen: the tables before the *)
(* one it looks at next are done, and being done is for ever here.  A      *)
(* session that has not yet come to on_complete will begin with the first, *)
(* and one that has not been added has not come anywhere.                  *)
(***************************************************************************)
SeenDone ==
    \A s \in Sessions :
        /\ s > added => at[s] = "absent"
        /\ at[s] \notin {"check", "save", "gone"} => cursor[s] = 1
        /\ \A k \in 1 .. cursor[s] - 1 : done[k]

(* LeaversHaveSaved needs that the threads return only when no handler is  *)
(* being executed, and that nothing is executed after it.                  *)
NothingRuns ==
    /\ exited => ~alive
    /\ ~alive => Running = {}
    /\ \A s \in Sessions : at[s] = "gone" => saved[s]

Inv == TypeOK /\ SeenDone /\ NothingRuns

-----------------------------------------------------------------------------
(* Replacing what is said of one session keeps the types.                  *)
LEMMA StepType ==
  ASSUME TypeOK, NEW s \in Sessions, Step(s)
  PROVE  TypeOK'
<1> USE DEF TypeOK, Places, Sessions, Unchanged, Goto, Announce
<1>1. CASE Begin(s)  BY <1>1 DEF Begin
<1>2. CASE Header(s) \/ Unanswered(s)  BY <1>2 DEF Header, Unanswered
<1>3. CASE AnnounceAgain(s) \/ LeaveLoop(s)  BY <1>3 DEF AnnounceAgain, LeaveLoop
<1>4. CASE Body(s)  BY <1>4 DEF Body
<1>5. CASE NotDone(s) \/ Stop(s)  BY <1>5 DEF NotDone, Stop
<1>6. CASE NextTable(s)  BY <1>6 DEF NextTable
<1>7. CASE Save(s)  BY <1>7 DEF Save
<1>8. CASE Download(s)  BY <1>8 DEF Download
<1> QED
  BY <1>1, <1>2, <1>3, <1>4, <1>5, <1>6, <1>7, <1>8 DEF Step, Resumes, GoesOn, OnComplete

LEMMA MainType == TypeOK /\ Main => TypeOK'
<1> USE DEF TypeOK, Places, Sessions, Goto, sessionVars
<1> SUFFICES ASSUME TypeOK, Main PROVE TypeOK'
  OBVIOUS
<1>1. CASE AddTorrent  BY <1>1 DEF AddTorrent
<1>2. CASE ThreadsReturn  BY <1>2 DEF ThreadsReturn
<1>3. CASE Exit  BY <1>3 DEF Exit
<1> QED
  BY <1>1, <1>2, <1>3 DEF Main

(* What a session does keeps the tables already seen done.                 *)
LEMMA StepSeen ==
  ASSUME TypeOK, SeenDone, NEW s \in Sessions, Step(s)
  PROVE  SeenDone'
<1> USE DEF TypeOK, Sessions, Unchanged, Goto, Announce
<1>1. /\ cursor \in [Sessions -> 1 .. NumSessions + 1] /\ done \in [Sessions -> BOOLEAN]
      /\ at \in [Sessions -> Places] /\ added \in Nat
      /\ added' = added
  BY DEF Step, Resumes, GoesOn, OnComplete, Begin, Header, Unanswered, LeaveLoop,
         AnnounceAgain, Body, NotDone, NextTable, Stop, Save, Download
<1>2. CASE Download(s)
  BY <1>1, <1>2 DEF Download, SeenDone
<1>3. CASE NextTable(s)
  <2>1. /\ cursor' = [cursor EXCEPT ![s] = @ + 1] /\ at' = at /\ done' = done
        /\ at[s] = "check" /\ done[cursor[s]]
    BY <1>3 DEF NextTable
  <2> QED
    BY <1>1, <2>1 DEF SeenDone
<1>4. CASE /\ cursor' = cursor /\ done' = done /\ at[s] # "absent"
           /\ \/ at'[s] \in {"check", "save", "gone"}
              \/ at[s] \notin {"check", "save", "gone"}
           /\ \E place : at' = [at EXCEPT ![s] = place]
  BY <1>1, <1>4 DEF SeenDone
<1>5. CASE Resumes(s) \/ AnnounceAgain(s) \/ Body(s)
  <2>1. at[s] \in {"ready", "header", "body", "loop"} /\ cursor' = cursor /\ done' = done
    BY <1>5 DEF Resumes, Begin, Header, Unanswered, LeaveLoop, AnnounceAgain, Body
  <2>2. \E place : at' = [at EXCEPT ![s] = place]
    BY <1>5 DEF Resumes, Begin, Header, Unanswered, LeaveLoop, AnnounceAgain, Body
  <2> QED
    BY <1>4, <2>1, <2>2
<1>6. CASE NotDone(s) \/ Stop(s) \/ Save(s)
  <2>1. /\ at[s] \in {"check", "save"} /\ at'[s] \in {"save", "gone"}
        /\ cursor' = cursor /\ done' = done
        /\ \E place : at' = [at EXCEPT ![s] = place]
    BY <1>1, <1>6 DEF NotDone, Stop, Save
  <2> QED
    BY <1>4, <2>1
<1> QED
  BY <1>2, <1>3, <1>5, <1>6 DEF Step, GoesOn, OnComplete

(* A session that is added starts with the first table.                    *)
LEMMA MainSeen == TypeOK /\ SeenDone /\ Main => SeenDone'
<1> SUFFICES ASSUME TypeOK, SeenDone, Main PROVE SeenDone'
  OBVIOUS
<1>1. CASE AddTorrent
  <2>1. /\ at' = [at EXCEPT ![added + 1] = "ready"] /\ cursor' = cursor /\ done' = done
        /\ added + 1 \in Sessions /\ added' = added + 1 /\ added \in Nat
    BY <1>1 DEF AddTorrent, Goto, TypeOK, Sessions
  <2>2. at \in [Sessions -> Places] /\ Sessions \subseteq Int
    BY DEF TypeOK, Sessions
  <2>3. at[added + 1] = "absent"
    BY <2>1, <2>2 DEF SeenDone
  <2> QED
    BY <2>1, <2>2, <2>3 DEF SeenDone
<1>2. CASE ThreadsReturn \/ Exit
  BY <1>2 DEF ThreadsReturn, Exit, SeenDone, sessionVars
<1> QED
  BY <1>1, <1>2 DEF Main

(* When the threads have returned no session runs, and none is resumed.    *)
LEMMA StepNothingRuns ==
  ASSUME TypeOK, NothingRuns, NEW s \in Sessions, Step(s)
  PROVE  NothingRuns'
<1>1. /\ alive' = alive /\ exited' = exited
      /\ saved \in [Sessions -> BOOLEAN] /\ at \in [Sessions -> Places]
  BY DEF Step, Resumes, GoesOn, OnComplete, Begin, Header, Unanswered, LeaveLoop, AnnounceAgain,
         Body, NotDone, NextTable, Stop, Save, Download, Unchanged, TypeOK
<1>2. alive
  BY <1>1 DEF Step, Resumes, GoesOn, OnComplete, Begin, Header, Unanswered, LeaveLoop,
              AnnounceAgain, Body, NotDone, NextTable, Stop, Save, Download, FreeThread,
              NothingRuns, Running
<1>3. ASSUME NEW t \in Sessions, at'[t] = "gone"
      PROVE  saved'[t]
  <2>1. CASE Save(s)
    BY <1>1, <1>3, <2>1 DEF Save, Goto, NothingRuns
  <2>2. CASE ~Save(s)
    <3>1. saved' = saved /\ \/ at' = at
                            \/ \E place : place # "gone" /\ at' = [at EXCEPT ![s] = place]
      BY <2>2 DEF Step, Resumes, GoesOn, OnComplete, Begin, Header, Unanswered, LeaveLoop,
                  AnnounceAgain, Body, NotDone, NextTable, Stop, Download, Goto, Announce
    <3> QED
      BY <1>1, <1>3, <3>1 DEF NothingRuns
  <2> QED
    BY <2>1, <2>2
<1> QED
  BY <1>1, <1>2, <1>3 DEF NothingRuns

LEMMA MainNothingRuns == TypeOK /\ SeenDone /\ NothingRuns /\ Main => NothingRuns'
<1> SUFFICES ASSUME TypeOK, SeenDone, NothingRuns, Main PROVE NothingRuns'
  OBVIOUS
<1>1. CASE AddTorrent
  <2>1. /\ at' = [at EXCEPT ![added + 1] = "ready"]
        /\ UNCHANGED <<alive, exited, saved>> /\ at \in [Sessions -> Places]
    BY <1>1 DEF AddTorrent, Goto, TypeOK
  <2> QED
    BY <2>1 DEF NothingRuns, Running
<1>2. CASE ThreadsReturn
  BY <1>2 DEF ThreadsReturn, NothingRuns, Running, sessionVars
<1>3. CASE Exit
  BY <1>3 DEF Exit, NothingRuns, Running, sessionVars
<1> QED
  BY <1>1, <1>2, <1>3 DEF Main

-----------------------------------------------------------------------------
LEMMA InitInv == Init => Inv
<1> SUFFICES ASSUME Init PROVE Inv
  OBVIOUS
<1>1. TypeOK
  <2>1. hanging \subseteq Sessions /\ unreachable \subseteq Sessions
    BY DEF Init
  <2>2. done \in [Sessions -> BOOLEAN] /\ saved \in [Sessions -> BOOLEAN]
    <3>1. done = [s \in Sessions |-> s \in Loaded] /\ saved = [s \in Sessions |-> FALSE]
      BY DEF Init
    <3>2. ASSUME NEW s \in Sessions PROVE (s \in Loaded) \in {TRUE, FALSE}
      <4>1. CASE s \in Loaded
        <5>1. (s \in Loaded) = TRUE  BY <4>1
        <5> QED  BY <5>1, Zenon
      <4>2. CASE s \notin Loaded
        <5>1. (s \in Loaded) = FALSE  BY <4>2
        <5> QED  BY <5>1, Zenon
      <4> QED
        BY <4>1, <4>2
    <3> QED
      BY <3>1, <3>2, Zenon
  <2>3. /\ added \in 0 .. NumSessions /\ cursor \in [Sessions -> 1 .. NumSessions + 1]
        /\ at \in [Sessions -> Places] /\ why \in [Sessions -> {"start", "again", "bye"}]
    BY DEF Init, Places
  <2> QED
    BY <2>1, <2>2, <2>3 DEF Init, TypeOK
<1>2. SeenDone /\ NothingRuns
  BY DEF Init, SeenDone, NothingRuns, Sessions
<1> QED
  BY <1>1, <1>2 DEF Inv

LEMMA NextInv == Inv /\ [Next]_vars => Inv'
<1> SUFFICES ASSUME Inv, [Next]_vars PROVE Inv'
  OBVIOUS
<1>1. CASE Main
  BY <1>1, MainType, MainSeen, MainNothingRuns DEF Inv
<1>2. ASSUME NEW s \in Sessions, Step(s) PROVE Inv'
  BY <1>2, StepType, StepSeen, StepNothingRuns DEF Inv
<1>3. CASE UNCHANGED vars
  BY <1>3 DEF Inv, TypeOK, SeenDone, NothingRuns, Running, vars, sessionVars
<1> QED
  BY <1>1, <1>2, <1>3 DEF Next, Step

LEMMA InvCorrect == Spec => []Inv
  BY InitInv, NextInv, PTL DEF Spec

(* Every reachable state is well typed: no on_complete looks past the list *)
(* of sessions.                                                            *)
THEOREM TypeCorrect == Spec => []TypeOK
  BY InvCorrect, PTL DEF Inv

(* Every session that has begun to leave has saved its state before the    *)
(* program ends.                                                           *)
THEOREM LeaversSave == Spec => []LeaversHaveSaved
<1>1. Inv => LeaversHaveSaved
  BY DEF Inv, NothingRuns, LeaversHaveSaved, Running
<1> QED
  BY <1>1, InvCorrect, PTL

(* The io_context is stopped only when all torrents added by then are done.*)
THEOREM StopsWhenDone == Spec => StopsWhenAllDone
<1>1. ASSUME Inv, [Next]_vars, ~stopped, stopped'
      PROVE  \A s \in 1 .. added : done[s]
  <2>1. PICK s \in Sessions : Stop(s)
    BY <1>1 DEF Next, Main, AddTorrent, ThreadsReturn, Exit, Resumes, GoesOn, OnComplete, Begin,
                Header, Unanswered, LeaveLoop, AnnounceAgain, Body, NotDone, NextTable, Save,
                Download, Unchanged, vars
  <2>2. cursor[s] > added /\ cursor[s] \in Int /\ added \in Int
    BY <1>1, <2>1 DEF Stop, BehindLast, Inv, TypeOK
  <2> QED
    BY <1>1, <2>2 DEF Inv, SeenDone
<1>2. Inv /\ [Next]_vars => [~stopped /\ stopped' => \A s \in 1 .. added : done[s]]_vars
  BY <1>1
<1> QED
  BY <1>2, InvCorrect, PTL DEF Spec, StopsWhenAllDone
==============================================================================
