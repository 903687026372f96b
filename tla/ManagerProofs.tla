--------------------------- MODULE ManagerProofs ---------------------------
(***************************************************************************)
(* Proofs about Manager, for every set of displays and pids and every      *)
(* value of the resources: the types, and the inductive invariant          *)
(* ListAgrees with the safety properties that follow from it.              *)
(***************************************************************************)
EXTENDS Manager, TLAPS

-----------------------------------------------------------------------------
(* Types of the records the model is built from.                           *)

\* a display that NewDisplay has just made is well typed
LEMMA FreshType == Fresh \in Fields
BY DEF Fresh, Fields

\* a free slot of the process table is well typed
LEMMA FreeType == Free \in Processes
BY DEF Free, Processes

\* TerminateProcess keeps the process table well typed
LEMMA TerminatedType ==
  ASSUME proc \in [Pid -> Processes], NEW P
  PROVE  Terminated(P) \in [Pid -> Processes]
BY DEF Terminated, Processes

\* StopDisplay keeps the list and the process table well typed
LEMMA StopDisplaysType ==
  ASSUME TypeOK, NEW S, StopDisplays(S)
  PROVE  /\ displays' \in SUBSET Display /\ dpy' \in [Display -> Fields]
         /\ proc' \in [Pid -> Processes]
<1>1. dpy' \in [Display -> Fields]
  BY FreshType DEF TypeOK, StopDisplays, Fields
<1>2. proc' \in [Pid -> Processes]
  BY TerminatedType DEF TypeOK, StopDisplays
<1> QED
  BY <1>1, <1>2 DEF TypeOK, StopDisplays

\* so does a scan of the servers file
LEMMA ScanServersType ==
  ASSUME TypeOK, ScanServers
  PROVE  displays' \in SUBSET Display /\ dpy' \in [Display -> Fields]
<1>1. dpy' \in [Display -> Fields]
  BY DEF TypeOK, ScanServers, ParseDisplays, Fields
<1> QED
  BY <1>1, ManagerAssumption DEF TypeOK, ScanServers, ParseDisplays, FromFile

\* RemoveDisplay as well
LEMMA RemoveDisplayType ==
  ASSUME TypeOK, NEW d, RemoveDisplay(d)
  PROVE  displays' \in SUBSET Display /\ dpy' \in [Display -> Fields]
BY FreshType DEF TypeOK, RemoveDisplay

\* and fork()
LEMMA ForkType ==
  ASSUME TypeOK, NEW p \in Pid, NEW kind \in {"session", "server"}, cur \in Display,
         Fork(p, kind, cur)
  PROVE  proc' \in [Pid -> Processes]
BY DEF TypeOK, Fork, Processes

-----------------------------------------------------------------------------
(* Type correctness.                                                       *)

USE DEF table, files, flags, ghost, frame

LEMMA InitType == Init => TypeOK
<1> SUFFICES ASSUME Init PROVE TypeOK
  OBVIOUS
<1>1. file \in Files /\ displays \in SUBSET Display /\ todo \in SUBSET Display
  BY ManagerAssumption DEF Init, FromFile
<1>2. dpy \in [Display -> Fields] /\ proc \in [Pid -> Processes]
  BY FreshType, FreeType DEF Init
<1>3. sockets \in BOOLEAN
  BY ManagerAssumption DEF Init
<1> QED
  BY <1>1, <1>2, <1>3 DEF Init, TypeOK, Places

LEMMA StartDisplayType == TypeOK /\ StartDisplaySteps => TypeOK'
<1> SUFFICES ASSUME TypeOK, StartDisplaySteps PROVE TypeOK'
  OBVIOUS
<1>1. ASSUME NEW d \in Display, CheckDisplayStatus(d) PROVE TypeOK'
  <2>1. CASE d \in FromFile /\ dpy[d].state = "MissingEntry"
    BY <1>1, <2>1, StopDisplaysType DEF CheckDisplayStatus, TypeOK
  <2>2. CASE d \notin FromFile \/ dpy[d].state # "MissingEntry"
    <3>1. displays' = displays /\ proc' = proc
      BY <1>1, <2>2 DEF CheckDisplayStatus, FromFile
    <3>2. dpy' \in [Display -> Fields]
      BY <1>1, <2>2 DEF CheckDisplayStatus, FromFile, TypeOK, Fields
    <3>3. pc' \in Places /\ cur' \in Display \cup {NoDisplay} /\ tries' \in Nat
      BY <1>1, <2>2 DEF CheckDisplayStatus, StartAt, FromFile, TypeOK, Places
    <3> QED
      BY <1>1, <3>1, <3>2, <3>3 DEF CheckDisplayStatus, TypeOK
  <2> QED
    BY <2>1, <2>2
<1>2. ASSUME NEW d \in Display, SkipRemoved(d) PROVE TypeOK'
  BY <1>2 DEF SkipRemoved, TypeOK
<1>3. CASE StartDisplaysDone
  BY <1>3 DEF StartDisplaysDone, TypeOK, Places
<1>4. ASSUME NEW p \in Pid, StartServerOnce(p) PROVE TypeOK'
  <2>1. proc' \in [Pid -> Processes]
    BY <1>4 DEF StartServerOnce, Fork, TypeOK, Processes
  <2> QED
    BY <1>4, <2>1 DEF StartServerOnce, TypeOK, Places
<1>5. ASSUME NEW p \in Pid, ForkSession(p) PROVE TypeOK'
  <2>1. proc' \in [Pid -> Processes]
    BY <1>5 DEF ForkSession, Fork, TypeOK, Processes
  <2> QED
    BY <1>5, <2>1 DEF ForkSession, TypeOK, Places
<1>6. CASE ServerForkFails
  BY <1>6 DEF ServerForkFails, TypeOK, Places
<1>7. CASE StartServerFails
  <2>1. displays' \in SUBSET Display /\ dpy' \in [Display -> Fields]
    BY <1>7, RemoveDisplayType DEF StartServerFails, TypeOK
  <2> QED
    BY <1>7, <2>1 DEF StartServerFails, Return, TypeOK, Places
<1>8. CASE RecordServer
  <2>1. dpy' \in [Display -> Fields]
    BY <1>8 DEF RecordServer, TypeOK, Fields
  <2> QED
    BY <1>8, <2>1 DEF RecordServer, TypeOK, Places
<1>9. CASE ServerPause
  <2>1. proc' \in [Pid -> Processes]
    BY <1>9, FreeType DEF ServerPause, TypeOK
  <2> QED
    BY <1>9, <2>1 DEF ServerPause, TypeOK, Places
<1>10. CASE RetryServer
  BY <1>10 DEF RetryServer, TypeOK, Places
<1>11. CASE SessionForkFails
  BY <1>11 DEF SessionForkFails, Return, TypeOK, Places
<1>12. CASE RecordSession
  <2>1. dpy' \in [Display -> Fields]
    BY <1>12 DEF RecordSession, TypeOK, Fields
  <2> QED
    BY <1>12, <2>1 DEF RecordSession, Return, TypeOK, Places
<1> QED
  BY <1>1, <1>2, <1>3, <1>4, <1>5, <1>6, <1>7, <1>8, <1>9, <1>10, <1>11, <1>12
  DEF StartDisplaySteps

\* a rescan leaves a mark of the known kinds
LEMMA AfterRescanType ==
  ASSUME TypeOK PROVE AfterRescan \in {"no", "idle", "rescanned", "between", "racing"}
BY DEF AfterRescan, TypeOK

LEMMA LoopType == TypeOK /\ LoopSteps => TypeOK'
<1> SUFFICES ASSUME TypeOK, LoopSteps PROVE TypeOK'
  OBVIOUS
<1>1. CASE Install \/ LoopTest \/ NoRescan \/ RescanDone
  <2>1. CASE Install
    BY <2>1 DEF Install, TypeOK, Places
  <2>2. CASE LoopTest
    BY <2>2 DEF LoopTest, TypeOK, Places
  <2>3. CASE NoRescan
    BY <2>3 DEF NoRescan, TypeOK, Places
  <2>4. CASE RescanDone
    <3>1. Rescan' \in BOOLEAN
      BY <2>4 DEF RescanDone
    <3> QED
      BY <2>4, <3>1 DEF RescanDone, TypeOK, Places
  <2> QED
    BY <1>1, <2>1, <2>2, <2>3, <2>4
<1>2. CASE RescanServers
  <2>1. displays' \in SUBSET Display /\ dpy' \in [Display -> Fields]
    BY <1>2, ScanServersType DEF RescanServers
  <2>2. stopped' \in {"no", "idle", "rescanned", "between", "racing"}
    BY <1>2, AfterRescanType DEF RescanServers, TypeOK
  <2>3. sockets' \in BOOLEAN
    BY <1>2, ManagerAssumption DEF RescanServers
  <2> QED
    BY <1>2, <2>1, <2>2, <2>3 DEF RescanServers, TypeOK, Places
<1>3. CASE AddDisplay
  <2>1. /\ pc' \in Places /\ todo' \in SUBSET Display
        /\ cont' \in {"install", "rescanned", "added", "afterSelect", "loop"}
        /\ cur' \in Display \cup {NoDisplay} /\ tries' \in Nat
    BY <1>3 DEF AddDisplay, StartAt, TypeOK, Places
  <2> QED
    BY <1>3, <2>1 DEF AddDisplay, TypeOK
<1>4. CASE AddDisplayDone \/ WaitForSomething \/ EnterSelect \/ OtherPacket \/ AfterSelect
  <2>1. CASE AddDisplayDone
    <3>1. AddOne' \in BOOLEAN
      BY <2>1 DEF AddDisplayDone
    <3> QED
      BY <2>1, <3>1 DEF AddDisplayDone, TypeOK, Places
  <2>2. CASE WaitForSomething
    BY <2>2 DEF WaitForSomething, TypeOK, Places
  <2>3. CASE EnterSelect
    BY <2>3 DEF EnterSelect, TypeOK, Places
  <2>4. CASE OtherPacket
    BY <2>4 DEF OtherPacket, TypeOK, Places
  <2>5. CASE AfterSelect
    BY <2>5 DEF AfterSelect, TypeOK, Places
  <2> QED
    BY <1>4, <2>1, <2>2, <2>3, <2>4, <2>5
<1>5. ASSUME NEW d \in Display, Manage(d) PROVE TypeOK'
  <2>1. proc' \in [Pid -> Processes] /\ dpy' \in [Display -> Fields]
    BY <1>5, TerminatedType, FreshType DEF Manage, TypeOK
  <2>2. displays' \in SUBSET Display /\ cur' \in Display /\ todo' \in SUBSET Display
    BY <1>5 DEF Manage, TypeOK
  <2> QED
    BY <1>5, <2>1, <2>2 DEF Manage, TypeOK, Places
<1> QED
  BY <1>1, <1>2, <1>3, <1>4, <1>5 DEF LoopSteps

LEMMA SessionExitedType ==
  ASSUME TypeOK, NEW d \in Display, NEW f \in Fields, NEW next \in {"stop", "restart", "force"},
         SessionExited(d, f, next)
  PROVE  TypeOK'
<1>1. dpy' \in [Display -> Fields]
  BY DEF SessionExited, TypeOK, Fields
<1>2. proc' \in [Pid -> Processes]
  BY FreeType DEF SessionExited, TypeOK
<1> QED
  BY <1>1, <1>2 DEF SessionExited, TypeOK, Places

\* whatever the exit status of a session: the display keeps its status and its
\* server, and is not restarted if it is being stopped
LEMMA ExitOutcome ==
  ASSUME TypeOK, NEW d \in Display,
         ExitUnmanage(d) \/ ExitObeysess(d) \/ ExitOpenFailed(d) \/ ExitReserver(d) \/ ExitRemanage(d)
  PROVE  \E f \in Fields, next \in Ending :
           /\ SessionExited(d, f, next)
           /\ f.status = dpy[d].status /\ f.serverPid = dpy[d].serverPid
           /\ next \in {"restart", "force"} => dpy[d].status # "zombie"
<1> DEFINE Goal == \E f \in Fields, next \in Ending :
             /\ SessionExited(d, f, next)
             /\ f.status = dpy[d].status /\ f.serverPid = dpy[d].serverPid
             /\ next \in {"restart", "force"} => dpy[d].status # "zombie"
<1>0. ASSUME NEW f \in Fields, NEW next \in Ending, SessionExited(d, f, next),
             f.status = dpy[d].status, f.serverPid = dpy[d].serverPid,
             next \in {"restart", "force"} => dpy[d].status # "zombie"
      PROVE  Goal
  BY <1>0
<1>1. dpy[d] \in Fields
  BY DEF TypeOK
<1> SUFFICES Goal
  OBVIOUS
<1> HIDE DEF Goal
<1>2. CASE ExitUnmanage(d)
  BY <1>0, <1>1, <1>2 DEF ExitUnmanage, Ending
<1>3. CASE ExitObeysess(d)
  <2> DEFINE f == [dpy[d] EXCEPT !.startTries = 0, !.reservTries = 0]
  <2>1. f \in Fields /\ f.status = dpy[d].status /\ f.serverPid = dpy[d].serverPid
    BY <1>1 DEF Fields
  <2> QED
    BY <1>0, <1>3, <2>1 DEF ExitObeysess, Ending
<1>4. CASE ExitOpenFailed(d)
  <2> DEFINE n == IF Restartable(d) THEN dpy[d].startTries + 1 ELSE dpy[d].startTries
             f == [dpy[d] EXCEPT !.startTries = n]
  <2>1. f \in Fields /\ f.status = dpy[d].status /\ f.serverPid = dpy[d].serverPid
    BY <1>1 DEF Fields
  <2> QED
    BY <1>0, <1>4, <2>1 DEF ExitOpenFailed, Restartable, Ending
<1>5. CASE ExitReserver(d)
  <2>1. ASSUME ~Restartable(d) PROVE Goal
    <3> DEFINE f == [dpy[d] EXCEPT !.startTries = 0]
    <3>1. f \in Fields /\ f.status = dpy[d].status /\ f.serverPid = dpy[d].serverPid
      BY <1>1 DEF Fields
    <3> QED
      BY <1>0, <1>5, <2>1, <3>1 DEF ExitReserver, Ending
  <2>2. ASSUME Restartable(d), NEW n \in Nat, NEW next \in {"stop", "force"},
               SessionExited(d, [dpy[d] EXCEPT !.startTries = 0, !.reservTries = n,
                                               !.lastReserv = TRUE], next)
        PROVE  Goal
    <3> DEFINE f == [dpy[d] EXCEPT !.startTries = 0, !.reservTries = n, !.lastReserv = TRUE]
    <3>1. f \in Fields /\ f.status = dpy[d].status /\ f.serverPid = dpy[d].serverPid
      BY <1>1 DEF Fields
    <3> QED
      BY <1>0, <2>2, <3>1 DEF Restartable, Ending
  <2>3. dpy[d].reservTries + 1 \in Nat
    BY <1>1 DEF Fields
  <2> QED
    BY <1>5, <2>1, <2>2, <2>3 DEF ExitReserver
<1>6. CASE ExitRemanage(d)
  <2> DEFINE f == [dpy[d] EXCEPT !.startTries = 0]
  <2>1. f \in Fields /\ f.status = dpy[d].status /\ f.serverPid = dpy[d].serverPid
    BY <1>1 DEF Fields
  <2> QED
    BY <1>0, <1>6, <2>1 DEF ExitRemanage, Restartable, Ending
<1> QED
  BY <1>2, <1>3, <1>4, <1>5, <1>6

LEMMA WaitForChildType == TypeOK /\ WaitForChildSteps => TypeOK'
<1> SUFFICES ASSUME TypeOK, WaitForChildSteps PROVE TypeOK'
  OBVIOUS
<1>1. CASE EnterWaitForChild \/ Suspend \/ Woken \/ NoMoreChildren
  <2>1. CASE EnterWaitForChild
    BY <2>1 DEF EnterWaitForChild, TypeOK, Places
  <2>2. CASE Suspend
    BY <2>2 DEF Suspend, TypeOK, Places
  <2>3. CASE Woken
    <3>1. ChildReady' \in BOOLEAN
      BY <2>3 DEF Woken
    <3> QED
      BY <2>3, <3>1 DEF Woken, TypeOK, Places
  <2>4. CASE NoMoreChildren
    <3>1. unseen' \in BOOLEAN
      BY <2>4 DEF NoMoreChildren
    <3> QED
      BY <2>4, <3>1 DEF NoMoreChildren, TypeOK, Places
  <2> QED
    BY <1>1, <2>1, <2>2, <2>3, <2>4
<1>2. ASSUME NEW p \in Pid, WaitPid(p) PROVE TypeOK'
  <2>1. displays' \in SUBSET Display /\ dpy' \in [Display -> Fields] /\ modified' \in BOOLEAN
    BY <1>2, ScanServersType DEF WaitPid, RescanIfMod, TypeOK
  <2>2. sockets' \in BOOLEAN /\ accessModified' \in BOOLEAN
    BY <1>2, ManagerAssumption DEF WaitPid, RescanIfMod, TypeOK
  <2>3. stopped' \in {"no", "idle", "rescanned", "between", "racing"}
    BY <1>2, AfterRescanType DEF WaitPid, RescanIfMod, TypeOK
  <2> QED
    BY <1>2, <2>1, <2>2, <2>3 DEF WaitPid, RescanIfMod, TypeOK, Places
<1>3. ASSUME NEW d \in Display,
             ExitUnmanage(d) \/ ExitObeysess(d) \/ ExitOpenFailed(d) \/ ExitReserver(d) \/ ExitRemanage(d)
      PROVE  TypeOK'
  BY <1>3, ExitOutcome, SessionExitedType DEF Ending
<1>4. ASSUME NEW d \in Display, ServerExited(d) PROVE TypeOK'
  <2>1. proc' \in [Pid -> Processes]
    BY <1>4, TerminatedType, FreeType DEF ServerExited, TypeOK
  <2>2. displays' \in SUBSET Display /\ dpy' \in [Display -> Fields]
    BY <1>4, RemoveDisplayType DEF ServerExited, TypeOK, Fields
  <2> QED
    BY <1>4, <2>1, <2>2 DEF ServerExited, TypeOK, Places
<1>5. CASE Stop
  <2>1. /\ displays' \in SUBSET Display /\ dpy' \in [Display -> Fields]
        /\ proc' \in [Pid -> Processes]
    BY <1>5, StopDisplaysType DEF Stop, TypeOK
  <2> QED
    BY <1>5, <2>1 DEF Stop, Reaped, TypeOK, Places
<1>6. CASE RestartDisplay
  <2>1. proc' \in [Pid -> Processes]
    BY <1>6, TerminatedType DEF RestartDisplay, TypeOK
  <2>2. dpy' \in [Display -> Fields]
    BY <1>6 DEF RestartDisplay, TypeOK, Fields
  <2> QED
    BY <1>6, <2>1, <2>2 DEF RestartDisplay, Reaped, TypeOK, Places
<1>7. CASE UnknownChild
  <2>1. proc' \in [Pid -> Processes]
    BY <1>7, FreeType DEF UnknownChild, TypeOK
  <2> QED
    BY <1>7, <2>1 DEF UnknownChild, TypeOK, Places
<1> QED
  BY <1>1, <1>2, <1>3, <1>4, <1>5, <1>6, <1>7 DEF WaitForChildSteps

\* a signal leaves the master at some place of its code
LEMMA InterruptType == ASSUME pc \in Places, Interrupt PROVE pc' \in Places
BY DEF Interrupt, Places

LEMMA EnvironmentType == TypeOK /\ Environment => TypeOK'
<1> SUFFICES ASSUME TypeOK, Environment PROVE TypeOK'
  OBVIOUS
<1>1. CASE CatchHup
  BY <1>1, InterruptType DEF CatchHup, TypeOK
<1>2. CASE CatchUsr2
  BY <1>2, InterruptType DEF CatchUsr2, TypeOK
<1>3. CASE StopAll
  <2>1. /\ displays' \in SUBSET Display /\ dpy' \in [Display -> Fields]
        /\ proc' \in [Pid -> Processes]
    BY <1>3, StopDisplaysType DEF StopAll
  <2>2. pc' \in Places
    BY <1>3, InterruptType DEF StopAll, TypeOK
  <2>3. stopped' \in {"no", "idle", "rescanned", "between", "racing"} /\ sockets' \in BOOLEAN
    BY <1>3 DEF StopAll, TypeOK
  <2>4. UNCHANGED <<files, installed, flags, unread, unseen, frame>>
    BY <1>3 DEF StopAll
  <2> QED
    BY <2>1, <2>2, <2>3, <2>4 DEF TypeOK, files, flags, frame
<1>4. CASE PacketArrives
  BY <1>4 DEF PacketArrives, TypeOK, Places
<1>5. ASSUME NEW p \in Pid, Die(p) PROVE TypeOK'
  <2>1. proc' \in [Pid -> Processes]
    BY <1>5 DEF Die, TypeOK, Processes
  <2>2. pc' \in Places /\ ChildReady' \in BOOLEAN
    BY <1>5, InterruptType DEF Die, TypeOK
  <2> QED
    BY <1>5, <2>1, <2>2 DEF Die, TypeOK
<1>6. ASSUME NEW f \in Files, EditServers(f) PROVE TypeOK'
  BY <1>6 DEF EditServers, TypeOK
<1>7. CASE EditAccess
  BY <1>7 DEF EditAccess, TypeOK
<1> QED
  BY <1>1, <1>2, <1>3, <1>4, <1>5, <1>6, <1>7 DEF Environment

LEMMA NextType == TypeOK /\ [Next]_vars => TypeOK'
<1> SUFFICES ASSUME TypeOK, [Next]_vars PROVE TypeOK'
  OBVIOUS
<1>1. CASE Master
  BY <1>1, StartDisplayType, LoopType, WaitForChildType DEF Master
<1>2. CASE Environment
  BY <1>2, EnvironmentType
<1>3. CASE Crash
  BY <1>3 DEF Crash, TypeOK, Places
<1>4. CASE UNCHANGED vars
  BY <1>4 DEF vars, TypeOK
<1> QED
  BY <1>1, <1>2, <1>3, <1>4 DEF Next, Over

(***************************************************************************)
(* Every field of every display, every flag of the main loop and every     *)
(* entry of the process table keeps its type, however many displays and    *)
(* processes there are and whatever the resources say.                     *)
(***************************************************************************)
THEOREM TypeCorrect == Spec => []TypeOK
BY InitType, NextType, PTL DEF Spec
-----------------------------------------------------------------------------
(* The inductive invariant.  At the places outside Active the master is in *)
(* the middle of nothing: no display and no child is in its hands.         *)

Active == Starting \cup Ending \cup {"identify"}

\* what TerminateProcess does to one process
LEMMA TerminatedEffect ==
  ASSUME proc \in [Pid -> Processes], NEW P, NEW p \in Pid
  PROVE  /\ Terminated(P)[p].kind = proc[p].kind
         /\ Terminated(P)[p].of = proc[p].of
         /\ Terminated(P)[p].life = IF p \in P /\ proc[p].life = "alive"
                                    THEN "told" ELSE proc[p].life
BY DEF Terminated, Processes

\* the list and the process table agree at the start: both are empty of pids
LEMMA InitLinked == Init => Linked
<1> SUFFICES ASSUME Init PROVE Linked
  OBVIOUS
<1>1. /\ \A d \in Display : dpy[d] = Fresh
      /\ \A p \in Pid : proc[p] = Free
      /\ cur = NoDisplay /\ pc = "start" /\ displays \subseteq Display
  BY ManagerAssumption DEF Init, FromFile
<1>2. ProcWF /\ OffListFresh /\ Recorded
  BY <1>1 DEF ProcWF, OffListFresh, Recorded, Free
<1>3. SessionLink /\ ServerLink /\ ToldWhenEnding /\ ZombieSession
  BY <1>1 DEF SessionLink, ServerLink, ToldWhenEnding, ZombieSession, Fresh
<1>4. CurrentDisplay /\ CurrentChild
  BY <1>1 DEF CurrentDisplay, CurrentChild, Starting, Ending
<1> QED
  BY <1>2, <1>3, <1>4 DEF Linked

\* a step that touches neither the list nor the processes, and takes nothing up
LEMMA QuietLinked ==
  ASSUME Linked, UNCHANGED <<displays, dpy, proc, cur, child>>,
         pc' = pc \/ (pc \notin Active /\ pc' \notin Active)
  PROVE  Linked'
<1>1. CASE pc' = pc
  BY <1>1 DEF Linked, ProcWF, OffListFresh, SessionLink, ServerLink, ToldWhenEnding,
              ZombieSession, Recorded, CurrentDisplay, CurrentChild, IsServer, IsSession,
              Tracked, BeingRecorded, Alive
<1>2. CASE pc \notin Active /\ pc' \notin Active
  <2>1. ProcWF' /\ OffListFresh' /\ SessionLink' /\ ToldWhenEnding' /\ ZombieSession'
    BY DEF Linked, ProcWF, OffListFresh, SessionLink, ToldWhenEnding, ZombieSession, IsSession
  <2>2. ServerLink'
    BY <1>2 DEF Linked, ServerLink, IsServer, Active, Starting
  <2>3. Recorded'
    BY <1>2 DEF Linked, Recorded, Tracked, BeingRecorded, Active, Starting
  <2>4. CurrentDisplay' /\ CurrentChild'
    BY <1>2 DEF Linked, CurrentDisplay, CurrentChild, Active, Starting, Ending
  <2> QED
    BY <2>1, <2>2, <2>3, <2>4 DEF Linked
<1> QED
  BY <1>1, <1>2

\* StopDisplay, on any part of the list, when no process is being recorded
LEMMA StopDisplaysLinked ==
  ASSUME TypeOK, Linked, NEW S \in SUBSET displays, StopDisplays(S),
         pc \notin Starting, pc' \notin Starting \cup Ending, cur' = NoDisplay,
         pc' = "identify" => pc = "identify" /\ child' = child
  PROVE  Linked'
<1>1. /\ displays' \subseteq displays
      /\ \A d \in displays : d \notin displays' <=> d \in S /\ dpy[d].serverPid = NoPid
      /\ \A d \in Display : d \notin S => dpy'[d] = dpy[d]
      /\ \A d \in S : dpy[d].serverPid = NoPid => dpy'[d] = Fresh
  BY DEF StopDisplays, TypeOK
<1>2. \A d \in S : dpy[d].serverPid # NoPid =>
        /\ dpy'[d].status = "zombie"
        /\ dpy'[d].pid = dpy[d].pid /\ dpy'[d].serverPid = dpy[d].serverPid
  BY DEF StopDisplays, TypeOK, Fields
<1>3. \A p \in Pid :
        /\ proc'[p].kind = proc[p].kind /\ proc'[p].of = proc[p].of
        /\ proc'[p].life = IF proc[p].life = "alive" /\ \E d \in S : p \in {dpy[d].pid, dpy[d].serverPid}
                           THEN "told" ELSE proc[p].life
  BY TerminatedEffect DEF StopDisplays, TypeOK
<1>4. displays \subseteq Display /\ NoDisplay \notin Display
  BY ManagerAssumption DEF TypeOK
<1>5. \A d \in displays : dpy[d].serverPid # NoPid => IsServer(dpy[d].serverPid, d)
  BY DEF Linked, ServerLink, Starting
<1>6. \A d \in displays : dpy[d].pid # NoPid => IsSession(dpy[d].pid, d)
  BY DEF Linked, SessionLink
<1>7. ProcWF'
  BY <1>3 DEF Linked, ProcWF
<1>8. OffListFresh'
  BY <1>1, <1>4 DEF Linked, OffListFresh, Fresh
<1>9. SessionLink'
  BY <1>1, <1>2, <1>3, <1>4, <1>6 DEF Linked, SessionLink, IsSession
<1>10. ServerLink'
  BY <1>1, <1>2, <1>3, <1>4, <1>5 DEF ServerLink, IsServer, Starting
<1>11. ToldWhenEnding'
  <2>1. ASSUME NEW d \in displays', d \in S
        PROVE  /\ dpy'[d].status = "zombie" /\ dpy'[d].serverPid # NoPid
               /\ proc'[dpy'[d].serverPid].life \in {"told", "dead"}
    <3>1. dpy[d].serverPid # NoPid /\ IsServer(dpy[d].serverPid, d)
      BY <1>1, <1>5, <2>1
    <3>2. proc[dpy[d].serverPid].life \in {"alive", "told", "dead"}
      BY <3>1 DEF IsServer, TypeOK, Processes
    <3> QED
      BY <1>2, <1>3, <2>1, <3>1, <3>2 DEF IsServer
  <2>2. ASSUME NEW d \in displays', d \notin S, dpy[d].serverPid # NoPid
        PROVE  proc'[dpy[d].serverPid].life = proc[dpy[d].serverPid].life
    BY <1>1, <1>3, <1>5, <1>6, <2>2 DEF IsServer, IsSession
  <2> QED
    BY <1>1, <1>4, <2>1, <2>2 DEF Linked, ToldWhenEnding
<1>12. ZombieSession'
  BY <1>1, <1>2, <1>3, <1>4, <1>6 DEF Linked, ZombieSession, IsSession
<1>13. Recorded'
  <2>1. ASSUME NEW p \in Pid, proc'[p].kind = "server", proc'[p].life # "dead"
        PROVE  Tracked(p)'
    <3>1. Tracked(p)
      BY <1>3, <2>1 DEF Linked, Recorded, BeingRecorded, Starting
    <3> QED
      BY <1>1, <1>2, <1>3, <1>4, <2>1, <3>1, ManagerAssumption DEF Tracked
  <2>2. ASSUME NEW p \in Pid, proc'[p].kind = "session", proc'[p].life = "alive"
        PROVE  Tracked(p)'
    <3>1. Tracked(p)
      BY <1>3, <2>2 DEF Linked, Recorded, BeingRecorded, Starting
    <3> QED
      BY <1>1, <1>3, <1>4, <2>2, <3>1 DEF Tracked
  <2> QED
    BY <2>1, <2>2 DEF Recorded
<1>14. CurrentDisplay'
  BY DEF CurrentDisplay, Starting, Ending
<1>15. CurrentChild'
  BY <1>3 DEF Linked, CurrentChild, Starting
<1> QED
  BY <1>7, <1>8, <1>9, <1>10, <1>11, <1>12, <1>13, <1>14, <1>15 DEF Linked

\* reading the servers file: new displays are fresh, the others keep their pids
LEMMA ScanServersLinked ==
  ASSUME TypeOK, Linked, ScanServers, UNCHANGED <<proc, cur>>,
         pc \notin Active, pc' \notin Starting \cup Ending,
         pc' = "identify" => child' \in Pid /\ proc[child'].life = "dead"
  PROVE  Linked'
<1>1. displays \subseteq displays' /\ displays \subseteq Display
  BY DEF ScanServers, ParseDisplays, TypeOK
<1>2. \A d \in Display \ displays : dpy[d] = Fresh /\ dpy'[d] = Fresh
  BY DEF Linked, OffListFresh, ScanServers, ParseDisplays
<1>3. \A d \in displays : /\ dpy'[d].status = dpy[d].status
                          /\ dpy'[d].pid = dpy[d].pid /\ dpy'[d].serverPid = dpy[d].serverPid
  BY DEF ScanServers, ParseDisplays, TypeOK, Fields
<1>4. displays' \subseteq Display
  BY ScanServersType
<1>5. Fresh.status = "notRunning" /\ Fresh.pid = NoPid /\ Fresh.serverPid = NoPid
  BY DEF Fresh
<1>6. ProcWF' /\ OffListFresh'
  BY <1>1, <1>2 DEF Linked, ProcWF, OffListFresh
<1>7. SessionLink' /\ ZombieSession'
  BY <1>1, <1>2, <1>3, <1>4, <1>5 DEF Linked, SessionLink, ZombieSession, IsSession
<1>8. ServerLink'
  BY <1>1, <1>2, <1>3, <1>4, <1>5 DEF Linked, ServerLink, IsServer, Active, Starting
<1>9. ToldWhenEnding'
  BY <1>1, <1>2, <1>3, <1>4, <1>5 DEF Linked, ToldWhenEnding
<1>10. Recorded'
  BY <1>1, <1>3 DEF Linked, Recorded, Tracked, BeingRecorded, Active, Starting
<1>11. CurrentDisplay' /\ CurrentChild'
  BY DEF Linked, CurrentDisplay, CurrentChild, Active, Starting, Ending
<1> QED
  BY <1>6, <1>7, <1>8, <1>9, <1>10, <1>11 DEF Linked

\* StartDisplay takes up an idle display
LEMMA StartAtLinked ==
  ASSUME TypeOK, Linked, UNCHANGED <<displays, proc, child>>, pc \notin Active,
         NEW d \in displays, StartAt(d), dpy[d].status = "notRunning",
         dpy' \in [Display -> Fields],
         \A e \in Display : e # d => dpy'[e] = dpy[e],
         dpy'[d].status = dpy[d].status, dpy'[d].pid = dpy[d].pid,
         dpy'[d].serverPid = dpy[d].serverPid
  PROVE  Linked'
<1>1. displays \subseteq Display
  BY DEF TypeOK
<1>2. cur' = d /\ pc' \in {"server", "fork"}
  BY DEF StartAt
<1>3. pc' = "server" => d \in Local /\ dpy[d].serverPid = NoPid
  BY DEF StartAt
<1>4. pc' = "fork" /\ d \in Local => dpy[d].serverPid # NoPid
  BY DEF StartAt
<1>5. ProcWF' /\ OffListFresh'
  BY <1>1 DEF Linked, ProcWF, OffListFresh, Fresh
<1>6. SessionLink' /\ ZombieSession' /\ ToldWhenEnding'
  BY <1>1 DEF Linked, SessionLink, ZombieSession, ToldWhenEnding, IsSession
<1>7. ServerLink'
  BY <1>1, <1>2, <1>3, ManagerAssumption
  DEF Linked, ServerLink, IsServer, Active, Starting
<1>8. Recorded'
  BY <1>1 DEF Linked, Recorded, Tracked, BeingRecorded, Active, Starting
<1>9. CurrentDisplay' /\ CurrentChild'
  BY <1>2, <1>3, <1>4 DEF CurrentDisplay, CurrentChild, Starting, Ending
<1> QED
  BY <1>5, <1>6, <1>7, <1>8, <1>9 DEF Linked

\* fork() of a server or a session of the display in hand
LEMMA ForkLinked ==
  ASSUME TypeOK, Linked, UNCHANGED <<displays, dpy, cur>>, NEW p \in Pid,
         \/ pc = "server" /\ pc' = "serverForked" /\ Fork(p, "server", cur)
         \/ pc = "fork" /\ pc' = "forked" /\ Fork(p, "session", cur),
         child' = p
  PROVE  Linked'
<1>1. /\ cur \in displays /\ dpy[cur].status = "notRunning" /\ cur \in Display
      /\ proc[p].life = "free"
      /\ \A q \in Pid : q # p => proc'[q] = proc[q]
  BY DEF Linked, CurrentDisplay, Starting, TypeOK, Fork
<1>2. /\ proc'[p].life = "alive" /\ proc'[p].of = cur
      /\ pc = "server" => proc'[p].kind = "server" /\ cur \in Local
      /\ pc = "fork" => proc'[p].kind = "session"
  BY DEF Linked, CurrentDisplay, Starting, TypeOK, Fork
<1>3. ProcWF'
  BY <1>1, <1>2 DEF Linked, ProcWF
<1>4. OffListFresh'
  BY DEF Linked, OffListFresh
<1>5. SessionLink' /\ ZombieSession'
  BY <1>1 DEF Linked, SessionLink, ZombieSession, IsSession
<1>6. ServerLink'
  BY <1>1 DEF Linked, ServerLink, IsServer, Starting
<1>7. ToldWhenEnding'
  <2>1. ASSUME NEW d \in displays, dpy[d].status \in {"zombie", "phoenix"}
        PROVE  dpy[d].serverPid # NoPid /\ proc'[dpy[d].serverPid].life \in {"told", "dead"}
    <3>1. d # cur
      BY <1>1, <2>1
    <3>2. dpy[d].serverPid # NoPid /\ IsServer(dpy[d].serverPid, d)
      BY <2>1, <3>1 DEF Linked, ToldWhenEnding, ServerLink
    <3> QED
      BY <1>1, <2>1, <3>2 DEF Linked, ToldWhenEnding, IsServer
  <2>2. ASSUME NEW d \in displays, dpy[d].status \notin {"zombie", "phoenix"},
               dpy[d].serverPid # NoPid
        PROVE  proc'[dpy[d].serverPid].life # "told"
    <3>1. dpy[d].serverPid \in Pid
      BY <2>2 DEF TypeOK, Fields
    <3> QED
      BY <1>1, <1>2, <2>2, <3>1 DEF Linked, ToldWhenEnding
  <2> QED
    BY <2>1, <2>2 DEF ToldWhenEnding
<1>8. Recorded'
  BY <1>1, <1>2 DEF Linked, Recorded, Tracked, BeingRecorded
<1>9. CurrentDisplay'
  BY <1>1 DEF Linked, CurrentDisplay, Starting, Ending
<1>10. CurrentChild'
  BY <1>1, <1>2 DEF CurrentChild, IsServer, IsSession
<1> QED
  BY <1>3, <1>4, <1>5, <1>6, <1>7, <1>8, <1>9, <1>10 DEF Linked

-----------------------------------------------------------------------------
(* One lemma for each action that changes the list or the processes.       *)

LEMMA CheckDisplayStatusLinked ==
  ASSUME TypeOK, Linked, NEW d \in Display, CheckDisplayStatus(d)
  PROVE  Linked'
<1>1. /\ pc = "start" /\ d \in displays /\ child' = child /\ cur = NoDisplay
  BY DEF CheckDisplayStatus, Linked, CurrentDisplay, Starting, Ending
<1>2. CASE d \in FromFile /\ dpy[d].state = "MissingEntry"
  <2>1. StopDisplays({d}) /\ pc' = pc /\ cur' = cur
    BY <1>2 DEF CheckDisplayStatus, FromFile
  <2> QED
    BY <1>1, <2>1, StopDisplaysLinked DEF Starting, Ending
<1>3. CASE d \in FromFile /\ dpy[d].state # "MissingEntry"
  <2>1. /\ dpy' = [dpy EXCEPT ![d].state = "OldEntry"]
        /\ UNCHANGED <<displays, proc, child>>
    BY <1>3 DEF CheckDisplayStatus, FromFile
  <2>2. /\ dpy' \in [Display -> Fields]
        /\ \A e \in Display : e # d => dpy'[e] = dpy[e]
        /\ dpy'[d].status = dpy[d].status /\ dpy'[d].pid = dpy[d].pid
        /\ dpy'[d].serverPid = dpy[d].serverPid
    BY <2>1 DEF TypeOK, Fields
  <2>3. CASE d \in Permanent /\ dpy[d].status = "notRunning"
    <3>1. StartAt(d)
      BY <1>3, <2>3 DEF CheckDisplayStatus, FromFile
    <3> QED
      BY <1>1, <2>1, <2>2, <2>3, <3>1, StartAtLinked DEF Active, Starting, Ending
  <2>4. CASE ~(d \in Permanent /\ dpy[d].status = "notRunning")
    <3>1. pc' = "start" /\ cur' = cur
      BY <1>1, <1>3, <2>4 DEF CheckDisplayStatus, FromFile
    <3>2. ProcWF' /\ OffListFresh' /\ SessionLink' /\ ToldWhenEnding' /\ ZombieSession'
      BY <1>1, <2>1, <2>2 DEF Linked, ProcWF, OffListFresh, SessionLink, ToldWhenEnding,
         ZombieSession, IsSession, TypeOK
    <3>3. ServerLink'
      BY <1>1, <2>1, <2>2, <3>1 DEF Linked, ServerLink, IsServer, TypeOK
    <3>4. Recorded'
      BY <1>1, <2>1, <2>2, <3>1 DEF Linked, Recorded, Tracked, BeingRecorded, TypeOK
    <3>5. CurrentDisplay' /\ CurrentChild'
      BY <1>1, <3>1 DEF CurrentDisplay, CurrentChild, Starting, Ending
    <3> QED
      BY <3>2, <3>3, <3>4, <3>5 DEF Linked
  <2> QED
    BY <2>3, <2>4
<1>4. CASE d \in Xdmcp
  <2>1. UNCHANGED <<displays, dpy, proc, cur, child, pc>>
    BY <1>4 DEF CheckDisplayStatus, FromFile
  <2> QED
    BY <2>1, QuietLinked
<1> QED
  BY <1>2, <1>3, <1>4 DEF FromFile

LEMMA StartServerFailsLinked ==
  ASSUME TypeOK, Linked, StartServerFails
  PROVE  Linked'
<1>1. /\ pc = "server" /\ pc' = "start" /\ cur' = NoDisplay
      /\ cur \in displays /\ cur \in Display /\ dpy[cur].status = "notRunning"
      /\ displays' = displays \ {cur} /\ proc' = proc
      /\ dpy' = [dpy EXCEPT ![cur] = Fresh]
  BY DEF StartServerFails, Return, RemoveDisplay, Linked, CurrentDisplay, Starting, TypeOK
<1>2. dpy'[cur] = Fresh /\ \A d \in Display : d # cur => dpy'[d] = dpy[d]
  BY <1>1 DEF TypeOK
<1>3. displays \subseteq Display /\ NoDisplay \notin Display
  BY ManagerAssumption DEF TypeOK
<1>4. dpy[cur].pid = NoPid /\ (dpy[cur].serverPid \in Pid => proc[dpy[cur].serverPid].life = "free")
  BY <1>1 DEF Linked, SessionLink, ServerLink
<1>5. ProcWF' /\ OffListFresh'
  BY <1>1, <1>2, <1>3 DEF Linked, ProcWF, OffListFresh, Fresh
<1>6. SessionLink' /\ ToldWhenEnding' /\ ZombieSession'
  BY <1>1, <1>2, <1>3 DEF Linked, SessionLink, ToldWhenEnding, ZombieSession, IsSession
<1>7. ServerLink'
  BY <1>1, <1>2, <1>3 DEF Linked, ServerLink, IsServer
<1>8. Recorded'
  <2> SUFFICES ASSUME NEW p \in Pid,
                      \/ proc[p].kind = "server" /\ proc[p].life # "dead"
                      \/ proc[p].kind = "session" /\ proc[p].life = "alive"
               PROVE  Tracked(p)'
    BY <1>1 DEF Recorded
  <2>1. Tracked(p) /\ proc[p].life # "free"
    BY <1>1 DEF Linked, Recorded, BeingRecorded, ProcWF
  <2>2. proc[p].of # cur
    BY <1>4, <2>1, ManagerAssumption DEF Tracked
  <2> QED
    BY <1>1, <1>2, <1>3, <2>1, <2>2 DEF Tracked
<1>9. CurrentDisplay' /\ CurrentChild'
  BY <1>1 DEF CurrentDisplay, CurrentChild, Starting, Ending
<1> QED
  BY <1>5, <1>6, <1>7, <1>8, <1>9 DEF Linked

LEMMA RecordServerLinked ==
  ASSUME TypeOK, Linked, RecordServer
  PROVE  Linked'
<1>1. /\ pc = "serverForked" /\ pc' = "pause" /\ UNCHANGED <<displays, proc, cur, child>>
      /\ cur \in displays /\ cur \in Display /\ cur \in Local
      /\ dpy[cur].status = "notRunning"
      /\ IsServer(child, cur) /\ proc[child].life # "told"
  BY DEF RecordServer, Linked, CurrentDisplay, CurrentChild, Starting, TypeOK
<1>2. /\ \A d \in Display : d # cur => dpy'[d] = dpy[d]
      /\ dpy'[cur].serverPid = child
      /\ dpy'[cur].pid = dpy[cur].pid /\ dpy'[cur].status = dpy[cur].status
  BY <1>1 DEF RecordServer, TypeOK, Fields
<1>3. displays \subseteq Display
  BY DEF TypeOK
<1>4. dpy[cur].serverPid \in Pid =>
        dpy[cur].serverPid = child \/ proc[dpy[cur].serverPid].life = "free"
  BY <1>1 DEF Linked, ServerLink
<1>5. ProcWF' /\ OffListFresh'
  BY <1>1, <1>2 DEF Linked, ProcWF, OffListFresh, Fresh
<1>6. SessionLink' /\ ZombieSession'
  BY <1>1, <1>2, <1>3 DEF Linked, SessionLink, ZombieSession, IsSession
<1>7. ServerLink'
  BY <1>1, <1>2, <1>3 DEF Linked, ServerLink, IsServer
<1>8. ToldWhenEnding'
  BY <1>1, <1>2, <1>3 DEF Linked, ToldWhenEnding
<1>9. Recorded'
  <2> SUFFICES ASSUME NEW p \in Pid,
                      \/ proc[p].kind = "server" /\ proc[p].life # "dead"
                      \/ proc[p].kind = "session" /\ proc[p].life = "alive"
               PROVE  Tracked(p)'
    BY <1>1 DEF Recorded
  <2>1. CASE p = child
    BY <1>1, <1>2, <2>1 DEF Tracked, IsServer
  <2>2. CASE p # child
    <3>1. Tracked(p) /\ proc[p].life # "free"
      BY <1>1, <2>2 DEF Linked, Recorded, BeingRecorded, ProcWF
    <3> QED
      BY <1>1, <1>2, <1>3, <1>4, <2>2, <3>1 DEF Tracked
  <2> QED
    BY <2>1, <2>2
<1>10. CurrentDisplay'
  BY <1>1, <1>2 DEF CurrentDisplay, Starting, Ending
<1>11. CurrentChild'
  BY <1>1, <1>2 DEF CurrentChild, IsServer
<1> QED
  BY <1>5, <1>6, <1>7, <1>8, <1>9, <1>10, <1>11 DEF Linked

LEMMA ServerPauseLinked ==
  ASSUME TypeOK, Linked, ServerPause
  PROVE  Linked'
<1>1. /\ pc = "pause" /\ UNCHANGED <<displays, dpy, cur>> /\ child' = NoPid
      /\ cur \in displays /\ cur \in Display /\ cur \in Local
      /\ dpy[cur].status = "notRunning"
      /\ child \in Pid /\ dpy[cur].serverPid = child /\ IsServer(child, cur)
  BY ManagerAssumption
  DEF ServerPause, Linked, CurrentDisplay, CurrentChild, ServerLink, Starting, TypeOK
<1>2. CASE proc[child].life = "dead"
  <2>1. /\ pc' = "retry" /\ proc'[child] = Free
        /\ \A p \in Pid : p # child => proc'[p] = proc[p]
    BY <1>1, <1>2 DEF ServerPause, TypeOK
  <2>2. Free.life = "free" /\ Free.kind = "none"
    BY DEF Free
  <2>3. \A d \in displays : d # cur => dpy[d].serverPid # child
    BY <1>1, ManagerAssumption DEF Linked, ServerLink, IsServer
  <2>4. \A d \in displays : dpy[d].pid # child
    BY <1>1, ManagerAssumption DEF Linked, SessionLink, IsServer, IsSession
  <2>5. ProcWF' /\ OffListFresh'
    BY <1>1, <2>1, <2>2 DEF Linked, ProcWF, OffListFresh
  <2>6. SessionLink' /\ ZombieSession'
    BY <1>1, <2>1, <2>4 DEF Linked, SessionLink, ZombieSession, IsSession
  <2>7. ServerLink'
    BY <1>1, <2>1, <2>2, <2>3 DEF Linked, ServerLink, IsServer
  <2>8. ToldWhenEnding'
    <3>1. ASSUME NEW d \in displays, d # cur, dpy[d].serverPid # NoPid
          PROVE  proc'[dpy[d].serverPid] = proc[dpy[d].serverPid]
      BY <1>1, <2>1, <2>3, <3>1 DEF Linked, ServerLink, IsServer
    <3> QED
      BY <1>1, <2>1, <2>2, <3>1 DEF Linked, ToldWhenEnding
  <2>9. Recorded'
    BY <1>1, <2>1, <2>2 DEF Linked, Recorded, Tracked, BeingRecorded
  <2>10. CurrentDisplay' /\ CurrentChild'
    BY <1>1, <2>1 DEF CurrentDisplay, CurrentChild, Starting, Ending
  <2> QED
    BY <2>5, <2>6, <2>7, <2>8, <2>9, <2>10 DEF Linked
<1>3. CASE proc[child].life # "dead"
  <2>1. pc' = "fork" /\ proc' = proc
    BY <1>1, <1>3 DEF ServerPause
  <2>2. ProcWF' /\ OffListFresh' /\ SessionLink' /\ ToldWhenEnding' /\ ZombieSession'
    BY <1>1, <2>1 DEF Linked, ProcWF, OffListFresh, SessionLink, ToldWhenEnding,
       ZombieSession, IsSession
  <2>3. ServerLink'
    BY <1>1, <2>1 DEF Linked, ServerLink, IsServer
  <2>4. Recorded'
    BY <1>1, <2>1 DEF Linked, Recorded, Tracked, BeingRecorded
  <2>5. CurrentDisplay' /\ CurrentChild'
    BY <1>1, <2>1, ManagerAssumption DEF CurrentDisplay, CurrentChild, Starting, Ending
  <2> QED
    BY <2>2, <2>3, <2>4, <2>5 DEF Linked
<1> QED
  BY <1>2, <1>3

\* back to StartServer's fork(), or on to the next attempt
LEMMA RetryLinked ==
  ASSUME TypeOK, Linked, UNCHANGED <<displays, dpy, proc, cur, child>>,
         pc \in {"server", "retry"}, pc' \in {"server", "retry"}
  PROVE  Linked'
<1>1. ProcWF' /\ OffListFresh' /\ SessionLink' /\ ToldWhenEnding' /\ ZombieSession'
  BY DEF Linked, ProcWF, OffListFresh, SessionLink, ToldWhenEnding, ZombieSession, IsSession
<1>2. ServerLink'
  BY DEF Linked, ServerLink, IsServer
<1>3. Recorded'
  BY DEF Linked, Recorded, Tracked, BeingRecorded
<1>4. CurrentDisplay' /\ CurrentChild'
  BY DEF Linked, CurrentDisplay, CurrentChild, Starting, Ending
<1> QED
  BY <1>1, <1>2, <1>3, <1>4 DEF Linked

LEMMA SessionForkFailsLinked ==
  ASSUME TypeOK, Linked, SessionForkFails
  PROVE  Linked'
<1>1. /\ pc = "fork" /\ pc' = "start" /\ cur' = NoDisplay /\ UNCHANGED <<displays, dpy, proc>>
  BY DEF SessionForkFails, Return
<1>2. ProcWF' /\ OffListFresh' /\ SessionLink' /\ ToldWhenEnding' /\ ZombieSession'
  BY <1>1 DEF Linked, ProcWF, OffListFresh, SessionLink, ToldWhenEnding, ZombieSession, IsSession
<1>3. ServerLink'
  BY <1>1 DEF Linked, ServerLink, IsServer
<1>4. Recorded'
  BY <1>1 DEF Linked, Recorded, Tracked, BeingRecorded
<1>5. CurrentDisplay' /\ CurrentChild'
  BY <1>1 DEF CurrentDisplay, CurrentChild, Starting, Ending
<1> QED
  BY <1>2, <1>3, <1>4, <1>5 DEF Linked

LEMMA RecordSessionLinked ==
  ASSUME TypeOK, Linked, RecordSession
  PROVE  Linked'
<1>1. /\ pc = "forked" /\ pc' = "start" /\ cur' = NoDisplay /\ UNCHANGED <<displays, proc>>
      /\ cur \in displays /\ cur \in Display /\ dpy[cur].status = "notRunning"
      /\ IsSession(child, cur)
  BY DEF RecordSession, Return, Linked, CurrentDisplay, CurrentChild, Starting, TypeOK
<1>2. /\ \A d \in Display : d # cur => dpy'[d] = dpy[d]
      /\ dpy'[cur].serverPid = dpy[cur].serverPid
      /\ dpy'[cur].pid = child /\ dpy'[cur].status = "running"
  BY <1>1 DEF RecordSession, TypeOK, Fields
<1>3. displays \subseteq Display /\ NoDisplay \notin Display
  BY ManagerAssumption DEF TypeOK
<1>4. dpy[cur].pid = NoPid
  BY <1>1 DEF Linked, SessionLink
<1>5. ProcWF' /\ OffListFresh'
  BY <1>1, <1>2 DEF Linked, ProcWF, OffListFresh, Fresh
<1>6. SessionLink' /\ ZombieSession'
  BY <1>1, <1>2, <1>3 DEF Linked, SessionLink, ZombieSession, IsSession
<1>7. ServerLink'
  BY <1>1, <1>2, <1>3 DEF Linked, ServerLink, IsServer
<1>8. ToldWhenEnding'
  BY <1>1, <1>2, <1>3 DEF Linked, ToldWhenEnding
<1>9. Recorded'
  <2> SUFFICES ASSUME NEW p \in Pid,
                      \/ proc[p].kind = "server" /\ proc[p].life # "dead"
                      \/ proc[p].kind = "session" /\ proc[p].life = "alive"
               PROVE  Tracked(p)'
    BY <1>1 DEF Recorded
  <2>1. CASE p = child
    BY <1>1, <1>2, <2>1 DEF Tracked, IsSession
  <2>2. CASE p # child
    <3>1. Tracked(p)
      BY <1>1, <2>2 DEF Linked, Recorded, BeingRecorded
    <3> QED
      BY <1>1, <1>2, <1>3, <1>4, <3>1, ManagerAssumption DEF Tracked
  <2> QED
    BY <2>1, <2>2
<1>10. CurrentDisplay' /\ CurrentChild'
  BY <1>1 DEF CurrentDisplay, CurrentChild, Starting, Ending
<1> QED
  BY <1>5, <1>6, <1>7, <1>8, <1>9, <1>10 DEF Linked

LEMMA AddDisplayLinked ==
  ASSUME TypeOK, Linked, AddDisplay
  PROVE  Linked'
<1>1. pc = "addone" /\ UNCHANGED <<displays, dpy, proc, child>>
  BY DEF AddDisplay
<1>2. CASE \E d \in displays : Addable(d) /\ StartAt(d)
  <2>1. PICK d \in displays : Addable(d) /\ StartAt(d)
    BY <1>2
  <2> QED
    BY <1>1, <2>1, StartAtLinked DEF Addable, Active, Starting, Ending, TypeOK
<1>3. CASE ~\E d \in displays : Addable(d) /\ StartAt(d)
  <2>1. pc' \in {"added", "wait"} /\ cur' = cur
    BY <1>3 DEF AddDisplay
  <2> QED
    BY <1>1, <2>1, QuietLinked DEF Active, Starting, Ending
<1> QED
  BY <1>2, <1>3

LEMMA ManageLinked ==
  ASSUME TypeOK, Linked, NEW d \in Display, Manage(d)
  PROVE  Linked'
<1>1. /\ pc = "packet" /\ pc' = "fork" /\ cur' = d /\ d \in Xdmcp
      /\ displays' = displays \cup {d} /\ displays \subseteq Display
      /\ dpy'[d] = Fresh /\ \A e \in Display : e # d => dpy'[e] = dpy[e]
  BY DEF Manage, TypeOK
<1>2. \A p \in Pid :
        /\ proc'[p].kind = proc[p].kind /\ proc'[p].of = proc[p].of
        /\ proc'[p].life = IF proc[p].life = "alive" /\ p = dpy[d].pid
                           THEN "told" ELSE proc[p].life
  BY TerminatedEffect DEF Manage, TypeOK
<1>3. d \notin Local
  BY <1>1, ManagerAssumption DEF FromFile
<1>4. Fresh.status = "notRunning" /\ Fresh.pid = NoPid /\ Fresh.serverPid = NoPid
  BY DEF Fresh
<1>5. \A e \in displays : dpy[e].serverPid # NoPid => IsServer(dpy[e].serverPid, e)
  BY <1>1 DEF Linked, ServerLink
<1>6. \A e \in displays : dpy[e].pid # NoPid => IsSession(dpy[e].pid, e)
  BY DEF Linked, SessionLink
<1>7. d \in displays => dpy[d].pid = NoPid \/ IsSession(dpy[d].pid, d)
  BY <1>6
<1>8. d \notin displays => dpy[d].pid = NoPid
  BY <1>4 DEF Linked, OffListFresh
<1>9. ProcWF' /\ OffListFresh'
  BY <1>1, <1>2 DEF Linked, ProcWF, OffListFresh
<1>10. SessionLink' /\ ZombieSession'
  BY <1>1, <1>2, <1>4, <1>6 DEF Linked, SessionLink, ZombieSession, IsSession
<1>11. ServerLink'
  BY <1>1, <1>2, <1>4, <1>5 DEF ServerLink, IsServer
<1>12. ToldWhenEnding'
  <2>1. ASSUME NEW e \in displays, dpy[e].serverPid # NoPid
        PROVE  proc'[dpy[e].serverPid].life = proc[dpy[e].serverPid].life
    BY <1>2, <1>5, <1>7, <1>8, <2>1, ManagerAssumption DEF IsServer, IsSession
  <2> QED
    BY <1>1, <1>4, <2>1 DEF Linked, ToldWhenEnding
<1>13. Recorded'
  <2> SUFFICES ASSUME NEW p \in Pid,
                      \/ proc'[p].kind = "server" /\ proc'[p].life # "dead"
                      \/ proc'[p].kind = "session" /\ proc'[p].life = "alive"
               PROVE  Tracked(p)'
    BY DEF Recorded
  <2>1. Tracked(p)
    BY <1>1, <1>2 DEF Linked, Recorded, BeingRecorded
  <2>2. proc[p].of # d
    BY <1>2, <1>3, <2>1 DEF Linked, ProcWF, Tracked
  <2> QED
    BY <1>1, <1>2, <2>1, <2>2 DEF Tracked
<1>14. CurrentDisplay' /\ CurrentChild'
  BY <1>1, <1>3, <1>4 DEF CurrentDisplay, CurrentChild, Starting, Ending
<1> QED
  BY <1>9, <1>10, <1>11, <1>12, <1>13, <1>14 DEF Linked

\* a session is reaped: what WaitForChild does next follows from its exit status
LEMMA SessionExitedLinked ==
  ASSUME TypeOK, Linked, NEW d \in Display, NEW f \in Fields, NEW next \in Ending,
         f.status = dpy[d].status, f.serverPid = dpy[d].serverPid,
         next \in {"restart", "force"} => dpy[d].status # "zombie",
         SessionExited(d, f, next)
  PROVE  Linked'
<1>1. /\ pc = "identify" /\ pc' = next /\ cur' = d /\ d \in displays /\ displays' = displays
      /\ dpy[d].pid = child /\ child \in Pid /\ proc[child].life = "dead"
      /\ displays \subseteq Display
  BY DEF SessionExited, Linked, CurrentChild, TypeOK
<1>2. /\ dpy'[d].pid = NoPid /\ dpy'[d].status = dpy[d].status
      /\ dpy'[d].serverPid = dpy[d].serverPid
      /\ \A e \in Display : e # d => dpy'[e] = dpy[e]
  BY DEF SessionExited, TypeOK, Fields
<1>3. /\ proc'[child].life = "free" /\ proc'[child].kind = "none"
      /\ \A p \in Pid : p # child => proc'[p] = proc[p]
  BY <1>1 DEF SessionExited, Free, TypeOK
<1>4. IsSession(child, d)
  BY <1>1, ManagerAssumption DEF Linked, SessionLink
<1>5. \A e \in displays : dpy[e].serverPid # NoPid =>
        IsServer(dpy[e].serverPid, e) /\ dpy[e].serverPid # child
  BY <1>1, <1>4 DEF Linked, ServerLink, IsServer, IsSession
<1>6. \A e \in displays : e # d => dpy[e].pid # child
  BY <1>4, ManagerAssumption DEF Linked, SessionLink, IsSession
<1>7. ProcWF' /\ OffListFresh'
  BY <1>1, <1>2, <1>3 DEF Linked, ProcWF, OffListFresh
<1>8. SessionLink' /\ ZombieSession'
  BY <1>1, <1>2, <1>3, <1>6 DEF Linked, SessionLink, ZombieSession, IsSession
<1>9. ServerLink'
  BY <1>1, <1>2, <1>3, <1>5 DEF ServerLink, IsServer, Ending
<1>10. ToldWhenEnding'
  <2>1. ASSUME NEW e \in displays, dpy[e].serverPid # NoPid
        PROVE  proc'[dpy[e].serverPid] = proc[dpy[e].serverPid]
    BY <1>3, <1>5, <2>1 DEF IsServer
  <2> QED
    BY <1>1, <1>2, <2>1 DEF Linked, ToldWhenEnding
<1>11. Recorded'
  <2> SUFFICES ASSUME NEW p \in Pid,
                      \/ proc'[p].kind = "server" /\ proc'[p].life # "dead"
                      \/ proc'[p].kind = "session" /\ proc'[p].life = "alive"
               PROVE  Tracked(p)'
    BY DEF Recorded
  <2>1. p # child /\ proc'[p] = proc[p]
    BY <1>3
  <2>2. Tracked(p)
    BY <1>1, <2>1 DEF Linked, Recorded, BeingRecorded
  <2> QED
    BY <1>1, <1>2, <2>1, <2>2 DEF Tracked
<1>12. dpy[d].status \in {"running", "zombie"}
  BY <1>1, ManagerAssumption DEF Linked, SessionLink
<1>13. CurrentDisplay' /\ CurrentChild'
  BY <1>1, <1>2, <1>12 DEF CurrentDisplay, CurrentChild, Starting, Ending
<1> QED
  BY <1>7, <1>8, <1>9, <1>10, <1>11, <1>13 DEF Linked

LEMMA ExitLinked ==
  ASSUME TypeOK, Linked, NEW d \in Display,
         ExitUnmanage(d) \/ ExitObeysess(d) \/ ExitOpenFailed(d) \/ ExitReserver(d) \/ ExitRemanage(d)
  PROVE  Linked'
<1>1. PICK f \in Fields, next \in Ending :
        /\ SessionExited(d, f, next)
        /\ f.status = dpy[d].status /\ f.serverPid = dpy[d].serverPid
        /\ next \in {"restart", "force"} => dpy[d].status # "zombie"
  BY ExitOutcome
<1> QED
  BY <1>1, SessionExitedLinked

LEMMA RestartDisplayLinked ==
  ASSUME TypeOK, Linked, RestartDisplay
  PROVE  Linked'
<1>1. /\ pc \in {"restart", "force"} /\ pc' = "reap" /\ cur' = NoDisplay /\ displays' = displays
      /\ cur \in displays /\ dpy[cur].pid = NoPid /\ dpy[cur].status = "running"
      /\ displays \subseteq Display /\ NoDisplay \notin Display
  BY ManagerAssumption DEF RestartDisplay, Reaped, Linked, CurrentDisplay, Ending, TypeOK
<1>2. /\ \A e \in Display : e # cur => dpy'[e] = dpy[e]
      /\ dpy'[cur].pid = NoPid /\ dpy'[cur].serverPid = dpy[cur].serverPid
  BY <1>1 DEF RestartDisplay, TypeOK, Fields
<1>3. \A e \in displays : dpy[e].serverPid # NoPid => IsServer(dpy[e].serverPid, e)
  BY <1>1 DEF Linked, ServerLink
<1>4. \/ /\ dpy'[cur].status = "phoenix" /\ dpy[cur].serverPid # NoPid
         /\ proc' = Terminated({dpy[cur].serverPid})
      \/ dpy'[cur].status = "notRunning" /\ proc' = proc
  BY <1>1 DEF RestartDisplay, TypeOK, Fields
<1>5. \A p \in Pid :
        /\ proc'[p].kind = proc[p].kind /\ proc'[p].of = proc[p].of
        /\ \/ proc'[p].life = proc[p].life
           \/ /\ p = dpy[cur].serverPid /\ proc[p].life = "alive"
              /\ proc'[p].life = "told" /\ dpy'[cur].status = "phoenix"
  BY <1>4, TerminatedEffect DEF TypeOK
<1>6. ProcWF' /\ OffListFresh'
  BY <1>1, <1>2, <1>5 DEF Linked, ProcWF, OffListFresh
<1>7. SessionLink' /\ ZombieSession'
  BY <1>1, <1>2, <1>4, <1>5 DEF Linked, SessionLink, ZombieSession, IsSession
<1>8. ServerLink'
  BY <1>1, <1>2, <1>3, <1>5 DEF ServerLink, IsServer
<1>9. ToldWhenEnding'
  <2>1. ASSUME NEW e \in displays, e # cur, dpy[e].serverPid # NoPid
        PROVE  proc'[dpy[e].serverPid].life = proc[dpy[e].serverPid].life
    BY <1>1, <1>3, <1>5, <2>1 DEF IsServer
  <2>2. CASE dpy'[cur].status = "phoenix"
    <3>1. dpy[cur].serverPid # NoPid /\ IsServer(dpy[cur].serverPid, cur)
      BY <1>1, <1>3, <1>4, <2>2
    <3>2. proc[dpy[cur].serverPid].life \in {"alive", "told", "dead"}
      BY <3>1 DEF IsServer, TypeOK, Processes
    <3>3. proc'[dpy[cur].serverPid].life \in {"told", "dead"}
      <4> DEFINE s == dpy[cur].serverPid
      <4>1. proc' = Terminated({s}) /\ s \in Pid
        BY <1>4, <2>2, <3>1 DEF IsServer
      <4>2. proc \in [Pid -> Processes]
        BY DEF TypeOK
      <4>3. Terminated({s})[s].life = IF s \in {s} /\ proc[s].life = "alive"
                                     THEN "told" ELSE proc[s].life
        BY <4>1, <4>2, TerminatedEffect
      <4> QED
        BY <3>2, <4>1, <4>3
    <3> QED
      BY <1>1, <1>2, <2>1, <2>2, <3>1, <3>3 DEF Linked, ToldWhenEnding
  <2>3. CASE dpy'[cur].status = "notRunning"
    BY <1>1, <1>2, <1>4, <2>3 DEF Linked, ToldWhenEnding
  <2> QED
    BY <1>4, <2>2, <2>3
<1>10. Recorded'
  <2> SUFFICES ASSUME NEW p \in Pid,
                      \/ proc[p].kind = "server" /\ proc[p].life # "dead"
                      \/ proc[p].kind = "session" /\ proc[p].life = "alive"
               PROVE  Tracked(p)'
    BY <1>5 DEF Recorded
  <2>1. Tracked(p)
    BY <1>1 DEF Linked, Recorded, BeingRecorded
  <2> QED
    BY <1>1, <1>2, <1>5, <2>1 DEF Tracked
<1>11. CurrentDisplay' /\ CurrentChild'
  BY <1>1 DEF CurrentDisplay, CurrentChild, Starting, Ending
<1> QED
  BY <1>6, <1>7, <1>8, <1>9, <1>10, <1>11 DEF Linked

LEMMA ServerExitedLinked ==
  ASSUME TypeOK, Linked, NEW d \in Display, ServerExited(d)
  PROVE  Linked'
<1>1. /\ pc = "identify" /\ pc' = "reap" /\ cur' = cur /\ cur = NoDisplay
      /\ d \in displays /\ displays \subseteq Display /\ NoDisplay \notin Display
      /\ dpy[d].serverPid = child /\ child \in Pid /\ child # NoPid
      /\ \A e \in displays : dpy[e].pid # child
  BY ManagerAssumption
  DEF ServerExited, Linked, CurrentDisplay, CurrentChild, Starting, Ending, TypeOK
<1>2. \A e \in displays : dpy[e].serverPid # NoPid => IsServer(dpy[e].serverPid, e)
  BY <1>1 DEF Linked, ServerLink
<1>3. IsServer(child, d) /\ \A e \in displays : e # d => dpy[e].serverPid # child
  BY <1>1, <1>2 DEF IsServer
<1>4. \A e \in displays : dpy[e].pid # NoPid => IsSession(dpy[e].pid, e)
  BY DEF Linked, SessionLink
<1>5. /\ proc'[child].life = "free" /\ proc'[child].kind = "none"
      /\ \A p \in Pid : p # child =>
           /\ proc'[p].kind = proc[p].kind /\ proc'[p].of = proc[p].of
           /\ \/ proc'[p].life = proc[p].life
              \/ /\ p = dpy[d].pid /\ proc[p].life = "alive" /\ proc'[p].life = "told"
                 /\ dpy[d].status = "running"
  BY <1>1, TerminatedType, TerminatedEffect DEF ServerExited, Free, TypeOK
<1>6. \/ /\ dpy[d].status = "zombie" /\ displays' = displays \ {d} /\ dpy'[d] = Fresh
      \/ /\ dpy[d].status # "zombie" /\ displays' = displays
         /\ dpy'[d].pid = dpy[d].pid /\ dpy'[d].serverPid = NoPid
         /\ dpy'[d].status \in {"notRunning", "running"}
         /\ dpy'[d].status = "running" <=> dpy[d].status = "running"
  BY <1>1 DEF ServerExited, RemoveDisplay, TypeOK, Fields
<1>7. \A e \in Display : e # d => dpy'[e] = dpy[e]
  BY <1>1 DEF ServerExited, RemoveDisplay, TypeOK
<1>8. ProcWF' /\ OffListFresh'
  BY <1>1, <1>5, <1>6, <1>7 DEF Linked, ProcWF, OffListFresh
<1>9. SessionLink' /\ ZombieSession'
  BY <1>1, <1>4, <1>5, <1>6, <1>7 DEF Linked, SessionLink, ZombieSession, IsSession
<1>10. ServerLink'
  BY <1>1, <1>2, <1>3, <1>5, <1>6, <1>7 DEF ServerLink, IsServer
<1>11. ToldWhenEnding'
  <2>1. ASSUME NEW e \in displays, e # d, dpy[e].serverPid # NoPid
        PROVE  proc'[dpy[e].serverPid].life = proc[dpy[e].serverPid].life
    BY <1>1, <1>2, <1>3, <1>4, <1>5, <2>1 DEF IsServer, IsSession
  <2> QED
    BY <1>1, <1>6, <1>7, <2>1 DEF Linked, ToldWhenEnding
<1>12. Recorded'
  <2> SUFFICES ASSUME NEW p \in Pid,
                      \/ proc'[p].kind = "server" /\ proc'[p].life # "dead"
                      \/ proc'[p].kind = "session" /\ proc'[p].life = "alive"
               PROVE  Tracked(p)'
    BY DEF Recorded
  <2>1. p # child /\ proc'[p].kind = proc[p].kind /\ proc'[p].of = proc[p].of
    BY <1>5
  <2>2. Tracked(p)
    BY <1>1, <1>5, <2>1 DEF Linked, Recorded, BeingRecorded
  <2>3. CASE proc[p].of # d
    BY <1>1, <1>6, <1>7, <2>1, <2>2, <2>3 DEF Tracked
  <2>4. CASE proc[p].of = d
    <3>1. proc[p].kind = "session" /\ proc[p].life = "alive" /\ dpy[d].pid = p
      BY <1>1, <1>5, <2>1, <2>2, <2>4 DEF Tracked
    <3>2. dpy[d].status # "zombie"
      BY <1>1, <3>1, ManagerAssumption DEF Linked, ZombieSession
    <3> QED
      BY <1>1, <1>6, <2>1, <2>4, <3>1, <3>2 DEF Tracked
  <2> QED
    BY <2>3, <2>4
<1>13. CurrentDisplay' /\ CurrentChild'
  BY <1>1 DEF CurrentDisplay, CurrentChild, Starting, Ending
<1> QED
  BY <1>8, <1>9, <1>10, <1>11, <1>12, <1>13 DEF Linked

LEMMA UnknownChildLinked ==
  ASSUME TypeOK, Linked, UnknownChild
  PROVE  Linked'
<1>1. /\ pc = "identify" /\ pc' = "reap" /\ cur' = cur /\ cur = NoDisplay
      /\ UNCHANGED <<displays, dpy>> /\ child \in Pid
      /\ \A e \in displays : dpy[e].pid # child /\ dpy[e].serverPid # child
  BY DEF UnknownChild, Linked, CurrentDisplay, CurrentChild, Starting, Ending
<1>2. /\ proc'[child].life = "free" /\ proc'[child].kind = "none"
      /\ \A p \in Pid : p # child => proc'[p] = proc[p]
  BY <1>1 DEF UnknownChild, Free, TypeOK
<1>3. ProcWF' /\ OffListFresh'
  BY <1>1, <1>2 DEF Linked, ProcWF, OffListFresh
<1>4. SessionLink' /\ ZombieSession'
  BY <1>1, <1>2 DEF Linked, SessionLink, ZombieSession, IsSession
<1>5. ServerLink'
  BY <1>1, <1>2 DEF Linked, ServerLink, IsServer
<1>6. ToldWhenEnding'
  <2>1. ASSUME NEW e \in displays, dpy[e].serverPid # NoPid
        PROVE  proc'[dpy[e].serverPid] = proc[dpy[e].serverPid]
    BY <1>1, <1>2, <2>1 DEF Linked, ServerLink, IsServer
  <2> QED
    BY <1>1, <2>1 DEF Linked, ToldWhenEnding
<1>7. Recorded'
  BY <1>1, <1>2 DEF Linked, Recorded, Tracked, BeingRecorded
<1>8. CurrentDisplay' /\ CurrentChild'
  BY <1>1 DEF Linked, CurrentDisplay, CurrentChild, Starting, Ending
<1> QED
  BY <1>3, <1>4, <1>5, <1>6, <1>7, <1>8 DEF Linked

LEMMA DieLinked ==
  ASSUME TypeOK, Linked, NEW p \in Pid, Die(p)
  PROVE  Linked'
<1>1. /\ UNCHANGED <<displays, dpy, cur, child>>
      /\ pc' = pc \/ (pc \notin Active /\ pc' \notin Active)
  BY DEF Die, Interrupt, Active, Starting, Ending
<1>2. /\ proc[p].life \in {"alive", "told"} /\ proc'[p].life = "dead"
      /\ proc'[p].kind = proc[p].kind /\ proc'[p].of = proc[p].of
      /\ \A q \in Pid : q # p => proc'[q] = proc[q]
  BY DEF Die, TypeOK, Processes
<1>3. \A q \in Pid : /\ proc'[q].kind = proc[q].kind /\ proc'[q].of = proc[q].of
                     /\ proc'[q].life = "free" <=> proc[q].life = "free"
                     /\ proc'[q].life \in {proc[q].life, "dead"}
                     /\ proc[q].life = "dead" => proc'[q].life = "dead"
  BY <1>2
<1>4. ProcWF' /\ OffListFresh'
  BY <1>1, <1>3 DEF Linked, ProcWF, OffListFresh
<1>5. SessionLink' /\ ZombieSession'
  BY <1>1, <1>3 DEF Linked, SessionLink, ZombieSession, IsSession
<1>6. ServerLink'
  BY <1>1, <1>3 DEF Linked, ServerLink, IsServer, Active, Starting
<1>7. ToldWhenEnding'
  <2>1. \A d \in displays : dpy[d].serverPid # NoPid => dpy[d].serverPid \in Pid
    BY DEF TypeOK, Fields
  <2> QED
    BY <1>1, <1>3, <2>1 DEF Linked, ToldWhenEnding
<1>8. Recorded'
  BY <1>1, <1>3 DEF Linked, Recorded, Tracked, BeingRecorded, Active, Starting
<1>9. CurrentDisplay' /\ CurrentChild'
  BY <1>1, <1>3 DEF Linked, CurrentDisplay, CurrentChild, IsServer, IsSession, Active, Starting, Ending
<1> QED
  BY <1>4, <1>5, <1>6, <1>7, <1>8, <1>9 DEF Linked

-----------------------------------------------------------------------------
(* Every step of the program and of its environment.                       *)

LEMMA StartDisplayLinked == TypeOK /\ Linked /\ StartDisplaySteps => Linked'
<1> SUFFICES ASSUME TypeOK, Linked, StartDisplaySteps PROVE Linked'
  OBVIOUS
<1>1. ASSUME NEW d \in Display, CheckDisplayStatus(d) PROVE Linked'
  BY <1>1, CheckDisplayStatusLinked
<1>2. ASSUME NEW d \in Display, SkipRemoved(d) PROVE Linked'
  BY <1>2, QuietLinked DEF SkipRemoved
<1>3. CASE StartDisplaysDone
  BY <1>3, QuietLinked DEF StartDisplaysDone, TypeOK, Active, Starting, Ending
<1>4. ASSUME NEW p \in Pid, StartServerOnce(p) PROVE Linked'
  BY <1>4, ForkLinked DEF StartServerOnce
<1>5. ASSUME NEW p \in Pid, ForkSession(p) PROVE Linked'
  BY <1>5, ForkLinked DEF ForkSession
<1>6. CASE ServerForkFails
  BY <1>6, RetryLinked DEF ServerForkFails
<1>7. CASE StartServerFails
  BY <1>7, StartServerFailsLinked
<1>8. CASE RecordServer
  BY <1>8, RecordServerLinked
<1>9. CASE ServerPause
  BY <1>9, ServerPauseLinked
<1>10. CASE RetryServer
  BY <1>10, RetryLinked DEF RetryServer
<1>11. CASE SessionForkFails
  BY <1>11, SessionForkFailsLinked
<1>12. CASE RecordSession
  BY <1>12, RecordSessionLinked
<1> QED
  BY <1>1, <1>2, <1>3, <1>4, <1>5, <1>6, <1>7, <1>8, <1>9, <1>10, <1>11, <1>12
  DEF StartDisplaySteps

LEMMA LoopLinked == TypeOK /\ Linked /\ LoopSteps => Linked'
<1> SUFFICES ASSUME TypeOK, Linked, LoopSteps PROVE Linked'
  OBVIOUS
<1> USE DEF Active, Starting, Ending
<1>1. CASE Install
  BY <1>1, QuietLinked DEF Install
<1>2. CASE LoopTest
  BY <1>2, QuietLinked DEF LoopTest
<1>3. CASE RescanServers
  BY <1>3, ScanServersLinked DEF RescanServers
<1>4. CASE NoRescan
  BY <1>4, QuietLinked DEF NoRescan
<1>5. CASE RescanDone
  BY <1>5, QuietLinked DEF RescanDone
<1>6. CASE AddDisplay
  BY <1>6, AddDisplayLinked
<1>7. CASE AddDisplayDone
  BY <1>7, QuietLinked DEF AddDisplayDone
<1>8. CASE WaitForSomething
  BY <1>8, QuietLinked DEF WaitForSomething
<1>9. CASE EnterSelect
  BY <1>9, QuietLinked DEF EnterSelect
<1>10. ASSUME NEW d \in Display, Manage(d) PROVE Linked'
  BY <1>10, ManageLinked
<1>11. CASE OtherPacket
  BY <1>11, QuietLinked DEF OtherPacket
<1>12. CASE AfterSelect
  BY <1>12, QuietLinked DEF AfterSelect
<1> QED
  BY <1>1, <1>2, <1>3, <1>4, <1>5, <1>6, <1>7, <1>8, <1>9, <1>10, <1>11, <1>12 DEF LoopSteps

LEMMA WaitForChildLinked == TypeOK /\ Linked /\ WaitForChildSteps => Linked'
<1> SUFFICES ASSUME TypeOK, Linked, WaitForChildSteps PROVE Linked'
  OBVIOUS
<1>1. CASE EnterWaitForChild
  BY <1>1, QuietLinked DEF EnterWaitForChild, Active, Starting, Ending
<1>2. CASE Suspend
  BY <1>2, QuietLinked DEF Suspend, Active, Starting, Ending
<1>3. CASE Woken
  BY <1>3, QuietLinked DEF Woken, Active, Starting, Ending
<1>4. CASE NoMoreChildren
  BY <1>4, QuietLinked DEF NoMoreChildren, Active, Starting, Ending
<1>5. ASSUME NEW p \in Pid, WaitPid(p) PROVE Linked'
  <2>1. /\ pc = "reap" /\ pc' = "identify" /\ child' = p /\ proc[p].life = "dead"
        /\ UNCHANGED <<proc, cur>>
        /\ ScanServers \/ UNCHANGED <<displays, dpy>>
    BY <1>5 DEF WaitPid, RescanIfMod
  <2>2. CASE ScanServers
    BY <2>1, <2>2, ScanServersLinked DEF Active, Starting, Ending
  <2>3. CASE UNCHANGED <<displays, dpy>>
    <3>1. ProcWF' /\ OffListFresh' /\ SessionLink' /\ ToldWhenEnding' /\ ZombieSession'
      BY <2>1, <2>3 DEF Linked, ProcWF, OffListFresh, SessionLink, ToldWhenEnding,
         ZombieSession, IsSession
    <3>2. ServerLink'
      BY <2>1, <2>3 DEF Linked, ServerLink, IsServer
    <3>3. Recorded'
      BY <2>1, <2>3 DEF Linked, Recorded, Tracked, BeingRecorded
    <3>4. CurrentDisplay' /\ CurrentChild'
      BY <2>1 DEF Linked, CurrentDisplay, CurrentChild, Starting, Ending
    <3> QED
      BY <3>1, <3>2, <3>3, <3>4 DEF Linked
  <2> QED
    BY <2>1, <2>2, <2>3
<1>6. ASSUME NEW d \in Display,
             ExitUnmanage(d) \/ ExitObeysess(d) \/ ExitOpenFailed(d) \/ ExitReserver(d) \/ ExitRemanage(d)
      PROVE  Linked'
  BY <1>6, ExitLinked
<1>7. ASSUME NEW d \in Display, ServerExited(d) PROVE Linked'
  BY <1>7, ServerExitedLinked
<1>8. CASE Stop
  <2>1. /\ StopDisplays({cur}) /\ cur \in displays
        /\ pc = "stop" /\ pc' = "reap" /\ cur' = NoDisplay
    BY <1>8 DEF Stop, Reaped, Linked, CurrentDisplay, Ending
  <2> QED
    BY <2>1, StopDisplaysLinked DEF Starting, Ending
<1>9. CASE RestartDisplay
  BY <1>9, RestartDisplayLinked
<1>10. CASE UnknownChild
  BY <1>10, UnknownChildLinked
<1> QED
  BY <1>1, <1>2, <1>3, <1>4, <1>5, <1>6, <1>7, <1>8, <1>9, <1>10 DEF WaitForChildSteps

LEMMA EnvironmentLinked ==
  TypeOK /\ Linked /\ Environment /\ stopped' # "racing" => Linked'
<1> SUFFICES ASSUME TypeOK, Linked, Environment, stopped' # "racing" PROVE Linked'
  OBVIOUS
<1> USE DEF Active, Starting, Ending
<1>1. CASE CatchHup
  BY <1>1, QuietLinked DEF CatchHup, Interrupt
<1>2. CASE CatchUsr2
  BY <1>2, QuietLinked DEF CatchUsr2, Interrupt
<1>3. CASE StopAll
  <2>1. /\ cur = NoDisplay /\ StopDisplays(displays) /\ UNCHANGED <<cur, child>>
        /\ pc' = pc \/ pc' \in {"afterSelect", "woken"}
    BY <1>3 DEF StopAll, Interrupt
  <2>2. pc \notin Starting \cup Ending
    BY <2>1, ManagerAssumption DEF Linked, CurrentDisplay, TypeOK
  <2> QED
    BY <2>1, <2>2, StopDisplaysLinked
<1>4. CASE PacketArrives
  BY <1>4, QuietLinked DEF PacketArrives
<1>5. ASSUME NEW p \in Pid, Die(p) PROVE Linked'
  BY <1>5, DieLinked
<1>6. ASSUME NEW f \in Files, EditServers(f) PROVE Linked'
  BY <1>6, QuietLinked DEF EditServers
<1>7. CASE EditAccess
  BY <1>7, QuietLinked DEF EditAccess
<1> QED
  BY <1>1, <1>2, <1>3, <1>4, <1>5, <1>6, <1>7 DEF Environment

\* once SIGTERM has come in the middle of StartDisplay or WaitForChild, it has
LEMMA RacingStays == [Next]_vars /\ stopped = "racing" => stopped' = "racing"
<1> SUFFICES ASSUME [Next]_vars, stopped = "racing" PROVE stopped' = "racing"
  OBVIOUS
<1>1. CASE StartDisplaySteps
  BY <1>1 DEF StartDisplaySteps, CheckDisplayStatus, SkipRemoved, StartDisplaysDone,
     StartServerOnce, ForkSession, ServerForkFails, StartServerFails, RecordServer,
     ServerPause, RetryServer, SessionForkFails, RecordSession
<1>2. CASE LoopSteps
  BY <1>2 DEF LoopSteps, Install, LoopTest, RescanServers, NoRescan, RescanDone, AddDisplay,
     AddDisplayDone, WaitForSomething, EnterSelect, Manage, OtherPacket, AfterSelect, AfterRescan
<1>3. CASE WaitForChildSteps
  BY <1>3 DEF WaitForChildSteps, EnterWaitForChild, Suspend, Woken, NoMoreChildren, WaitPid, RescanIfMod,
     AfterRescan, ExitUnmanage, ExitObeysess, ExitOpenFailed, ExitReserver, ExitRemanage,
     SessionExited, ServerExited, Stop, RestartDisplay, UnknownChild
<1>4. CASE Environment
  BY <1>4 DEF Environment, CatchHup, CatchUsr2, StopAll, PacketArrives, Die, EditServers, EditAccess
<1>5. CASE Crash \/ Over \/ UNCHANGED vars
  BY <1>5 DEF Crash, Over, vars
<1> QED
  BY <1>1, <1>2, <1>3, <1>4, <1>5 DEF Next, Master

LEMMA NextLinked == TypeOK /\ Linked /\ [Next]_vars /\ stopped' # "racing" => Linked'
<1> SUFFICES ASSUME TypeOK, Linked, [Next]_vars, stopped' # "racing" PROVE Linked'
  OBVIOUS
<1>1. CASE Master
  BY <1>1, StartDisplayLinked, LoopLinked, WaitForChildLinked DEF Master
<1>2. CASE Environment
  BY <1>2, EnvironmentLinked
<1>3. CASE Crash
  <2>1. PICK d \in Display : pc = "start" /\ d \in todo \ displays /\ UNCHANGED <<displays, dpy, proc, cur, child>> /\ pc' = "crashed"
    BY <1>3 DEF Crash, Dangling, Linked, CurrentDisplay, Starting, Ending, TypeOK
  <2> QED
    BY <2>1, QuietLinked DEF Active, Starting, Ending
<1>4. CASE UNCHANGED vars
  BY <1>4, QuietLinked DEF vars
<1> QED
  BY <1>1, <1>2, <1>3, <1>4 DEF Next, Over

(***************************************************************************)
(* The pids in the list of displays and the table of processes agree in    *)
(* every state until a SIGTERM interrupts StartDisplay or WaitForChild,    *)
(* for any number of displays and processes.                               *)
(***************************************************************************)
THEOREM ListAlwaysAgrees == Spec => []ListAgrees
<1>1. Init => ListAgrees
  BY InitLinked DEF ListAgrees
<1>2. TypeOK /\ ListAgrees /\ [Next]_vars => ListAgrees'
  BY RacingStays, NextLinked DEF ListAgrees
<1> QED
  BY <1>1, <1>2, TypeCorrect, PTL DEF Spec

-----------------------------------------------------------------------------
(* The safety properties.                                                  *)

(***************************************************************************)
(* No session or server process that still runs is forgotten by the list.  *)
(***************************************************************************)
THEOREM NoChildLost == Spec => []NoLostChild
<1>1. TypeOK /\ ListAgrees => NoLostChild
  <2> SUFFICES ASSUME TypeOK, Linked, NEW p \in Pid, Alive(p)
               PROVE  Tracked(p) \/ BeingRecorded(p)
    BY DEF ListAgrees, NoLostChild
  <2>1. proc[p].kind \in {"session", "server"} /\ proc[p].life = "alive"
    BY DEF Alive, Linked, ProcWF, TypeOK, Processes
  <2> QED
    BY <2>1 DEF Linked, Recorded
<1> QED
  BY <1>1, TypeCorrect, ListAlwaysAgrees, PTL

(***************************************************************************)
(* StartServer never starts a second server for a display whose first one  *)
(* still runs.                                                             *)
(***************************************************************************)
THEOREM ServersUnique == Spec => []OneServer
<1>1. TypeOK /\ ListAgrees => OneServer
  <2> SUFFICES ASSUME TypeOK, Linked, NEW p \in Pid, NEW q \in Pid,
                      proc[p].kind = "server", proc[q].kind = "server",
                      proc[p].life # "dead", proc[q].life # "dead", proc[p].of = proc[q].of,
                      p # q
               PROVE  FALSE
    BY DEF ListAgrees, OneServer
  <2>1. /\ proc[p].life # "free" /\ proc[q].life # "free"
        /\ Tracked(p) \/ BeingRecorded(p)
        /\ Tracked(q) \/ BeingRecorded(q)
    BY DEF Linked, ProcWF, Recorded
  <2>2. ~(Tracked(p) /\ Tracked(q))
    BY DEF Tracked
  <2>3. ~(BeingRecorded(p) /\ BeingRecorded(q))
    BY DEF BeingRecorded
  <2>4. ASSUME NEW r \in Pid, NEW s \in Pid, r # s, proc[r].kind = "server",
               proc[s].kind = "server", proc[r].of = proc[s].of, proc[s].life # "free",
               BeingRecorded(r), Tracked(s)
        PROVE  FALSE
    BY <2>4 DEF BeingRecorded, Tracked, Linked, ServerLink
  <2> QED
    BY <2>1, <2>2, <2>3, <2>4
<1> QED
  BY <1>1, TypeCorrect, ListAlwaysAgrees, PTL

(***************************************************************************)
(* A phoenix or a zombie display never waits for a server that nobody has  *)
(* told to terminate.                                                      *)
(***************************************************************************)
THEOREM PhoenixAlwaysBurns == Spec => []PhoenixBurns
<1>1. ListAgrees => PhoenixBurns
  <2> SUFFICES ASSUME Linked, NEW d \in displays, dpy[d].status \in {"phoenix", "zombie"}
               PROVE  /\ dpy[d].serverPid # NoPid
                      /\ proc[dpy[d].serverPid].of = d
                      /\ proc[dpy[d].serverPid].life \in {"told", "dead"}
    BY DEF ListAgrees, PhoenixBurns
  <2>1. ~(d = cur /\ pc \in {"server", "serverForked", "retry"})
    BY DEF Linked, CurrentDisplay, Starting
  <2> QED
    BY <2>1 DEF Linked, ToldWhenEnding, ServerLink, IsServer
<1> QED
  BY <1>1, ListAlwaysAgrees, PTL

(***************************************************************************)
(* A display that can be started has no session on record.                 *)
(***************************************************************************)
THEOREM IdleHasNoSession == Spec => []RestartHasNoSession
<1>1. ListAgrees => RestartHasNoSession
  BY DEF ListAgrees, RestartHasNoSession, Linked, SessionLink
<1> QED
  BY <1>1, ListAlwaysAgrees, PTL

\* the main loop ends when the list is empty, and nothing is put on it afterwards
EmptyAtExit == pc = "exit" => displays = {}

LEMMA ExitIsEmpty == Spec => []EmptyAtExit
<1>1. Init => EmptyAtExit
  BY DEF Init, EmptyAtExit
<1>2. TypeOK /\ EmptyAtExit /\ [Next]_vars => EmptyAtExit'
  <2> SUFFICES ASSUME TypeOK, EmptyAtExit, [Next]_vars, pc' = "exit" PROVE displays' = {}
    BY DEF EmptyAtExit
  <2> USE DEF EmptyAtExit
  <2>0. cont # "exit"
    BY DEF TypeOK
  <2>1. CASE StartDisplaySteps
    BY <2>0, <2>1 DEF StartDisplaySteps, CheckDisplayStatus, StartAt, SkipRemoved, StartDisplaysDone,
       StartServerOnce, ForkSession, ServerForkFails, StartServerFails, RecordServer,
       ServerPause, RetryServer, SessionForkFails, RecordSession, Return
  <2>2. CASE LoopTest
    <3>1. displays' = displays /\ (sockets \/ displays # {} => pc' = "rescan")
      BY <2>2 DEF LoopTest
    <3> QED
      BY <3>1
  <2>3. CASE LoopSteps
    BY <2>2, <2>3 DEF LoopSteps, Install, RescanServers, NoRescan, RescanDone, AddDisplay,
       StartAt, AddDisplayDone, WaitForSomething, EnterSelect, Manage, OtherPacket, AfterSelect
  <2>4. CASE WaitForChildSteps
    BY <2>4 DEF WaitForChildSteps, EnterWaitForChild, Suspend, Woken, NoMoreChildren, WaitPid, RescanIfMod,
       ExitUnmanage, ExitObeysess, ExitOpenFailed, ExitReserver, ExitRemanage,
       SessionExited, ServerExited, Stop, RestartDisplay, UnknownChild, Reaped
  <2>5. CASE Environment
    BY <2>5 DEF Environment, CatchHup, CatchUsr2, StopAll, PacketArrives, Die, EditServers,
       EditAccess, Interrupt, Running
  <2>6. CASE Crash \/ Over \/ UNCHANGED vars
    BY <2>6 DEF Crash, Over, vars
  <2> QED
    BY <2>1, <2>2, <2>3, <2>4, <2>5, <2>6 DEF Next, Master
<1> QED
  BY <1>1, <1>2, TypeCorrect, PTL DEF Spec

(***************************************************************************)
(* The master leaves no process behind that it has not told to terminate.  *)
(***************************************************************************)
THEOREM ExitIsClean == Spec => []ExitLeavesNothing
<1>1. NoLostChild /\ EmptyAtExit => ExitLeavesNothing
  BY DEF NoLostChild, EmptyAtExit, ExitLeavesNothing, Tracked, BeingRecorded
<1> QED
  BY <1>1, NoChildLost, ExitIsEmpty, PTL

\* a zombie stays a zombie in this step, or leaves the list
ZombieKept ==
  \A d \in displays : dpy[d].status = "zombie" =>
    d \notin displays' \/ dpy'[d].status = "zombie"

LEMMA StopDisplaysKeepZombies ==
  ASSUME TypeOK, NEW S, StopDisplays(S) PROVE ZombieKept
BY DEF ZombieKept, StopDisplays, TypeOK, Fields

LEMMA ScanServersKeepZombies ==
  ASSUME TypeOK, ScanServers PROVE ZombieKept
BY DEF ZombieKept, ScanServers, ParseDisplays, TypeOK, Fields

LEMMA StartDisplayKeepsZombies == TypeOK /\ Linked /\ StartDisplaySteps => ZombieKept
<1> SUFFICES ASSUME TypeOK, Linked, StartDisplaySteps PROVE ZombieKept
  OBVIOUS
<1>1. ASSUME NEW d \in Display, CheckDisplayStatus(d) PROVE ZombieKept
  <2>1. CASE StopDisplays({d})
    BY <2>1, StopDisplaysKeepZombies
  <2>2. CASE dpy' = [dpy EXCEPT ![d].state = "OldEntry"]
    BY <2>2 DEF ZombieKept, TypeOK, Fields
  <2>3. CASE UNCHANGED dpy
    BY <2>3 DEF ZombieKept
  <2> QED
    BY <1>1, <2>1, <2>2, <2>3 DEF CheckDisplayStatus
<1>2. CASE RecordServer
  BY <1>2 DEF RecordServer, ZombieKept, TypeOK, Fields
<1>3. CASE RecordSession
  <2>1. dpy[cur].status = "notRunning" /\ dpy' = [dpy EXCEPT ![cur].pid = child, ![cur].status = "running"]
    BY <1>3 DEF RecordSession, Linked, CurrentDisplay, Starting
  <2> QED
    BY <2>1 DEF ZombieKept, TypeOK
<1>4. CASE StartServerFails
  BY <1>4 DEF StartServerFails, RemoveDisplay, ZombieKept, TypeOK
<1>5. CASE UNCHANGED <<displays, dpy>>
  BY <1>5 DEF ZombieKept
<1> QED
  BY <1>1, <1>2, <1>3, <1>4, <1>5
  DEF StartDisplaySteps, SkipRemoved, StartDisplaysDone, StartServerOnce, ForkSession,
      ServerForkFails, ServerPause, RetryServer, SessionForkFails

LEMMA LoopKeepsZombies == TypeOK /\ Linked /\ LoopSteps => ZombieKept
<1> SUFFICES ASSUME TypeOK, Linked, LoopSteps PROVE ZombieKept
  OBVIOUS
<1>1. CASE RescanServers
  BY <1>1, ScanServersKeepZombies DEF RescanServers
<1>2. ASSUME NEW d \in Display, Manage(d) PROVE ZombieKept
  <2>1. d \notin Local /\ pc = "packet"
    BY <1>2, ManagerAssumption DEF Manage, FromFile
  <2>2. d \in displays => dpy[d].status # "zombie"
    BY <2>1 DEF Linked, ToldWhenEnding, ServerLink, IsServer, ProcWF
  <2> QED
    BY <1>2, <2>2 DEF Manage, ZombieKept, TypeOK
<1>3. CASE UNCHANGED <<displays, dpy>>
  BY <1>3 DEF ZombieKept
<1> QED
  BY <1>1, <1>2, <1>3
  DEF LoopSteps, Install, LoopTest, NoRescan, RescanDone, AddDisplay, AddDisplayDone,
      WaitForSomething, EnterSelect, OtherPacket, AfterSelect

LEMMA WaitForChildKeepsZombies == TypeOK /\ Linked /\ WaitForChildSteps => ZombieKept
<1> SUFFICES ASSUME TypeOK, Linked, WaitForChildSteps PROVE ZombieKept
  OBVIOUS
<1>1. ASSUME NEW d \in Display,
             ExitUnmanage(d) \/ ExitObeysess(d) \/ ExitOpenFailed(d) \/ ExitReserver(d) \/ ExitRemanage(d)
      PROVE  ZombieKept
  <2>1. PICK f \in Fields, next \in Ending : SessionExited(d, f, next) /\ f.status = dpy[d].status
    BY <1>1, ExitOutcome
  <2> QED
    BY <2>1 DEF SessionExited, ZombieKept, TypeOK, Fields
<1>2. ASSUME NEW d \in Display, ServerExited(d) PROVE ZombieKept
  <2>1. d \in displays /\ displays \subseteq Display /\ dpy[d] \in Fields
    BY <1>2 DEF ServerExited, TypeOK
  <2>2. CASE RemoveDisplay(d)
    BY <2>2 DEF RemoveDisplay, ZombieKept, TypeOK
  <2>3. CASE /\ dpy[d].status # "zombie"
             /\ dpy' = [dpy EXCEPT ![d].serverPid = NoPid, ![d].status = "notRunning"]
    BY <2>3 DEF ZombieKept, TypeOK
  <2>4. CASE dpy' = [dpy EXCEPT ![d].serverPid = NoPid]
    BY <2>4 DEF ZombieKept, TypeOK, Fields
  <2> QED
    BY <1>2, <2>2, <2>3, <2>4 DEF ServerExited
<1>3. CASE Stop
  BY <1>3, StopDisplaysKeepZombies DEF Stop, ZombieKept
<1>4. CASE RestartDisplay
  <2>1. dpy[cur].status = "running" /\ cur \in displays
    BY <1>4 DEF RestartDisplay, Linked, CurrentDisplay, Ending
  <2>2. \A d \in displays : d # cur => dpy'[d] = dpy[d]
    BY <1>4, <2>1 DEF RestartDisplay, TypeOK
  <2> QED
    BY <2>1, <2>2 DEF ZombieKept
<1>5. ASSUME NEW p \in Pid, WaitPid(p) PROVE ZombieKept
  BY <1>5, ScanServersKeepZombies DEF WaitPid, RescanIfMod, ZombieKept
<1>6. CASE UNCHANGED <<displays, dpy>>
  BY <1>6 DEF ZombieKept
<1> QED
  BY <1>1, <1>2, <1>3, <1>4, <1>5, <1>6
  DEF WaitForChildSteps, EnterWaitForChild, Suspend, Woken, NoMoreChildren, UnknownChild

(***************************************************************************)
(* StopDisplay is final: a zombie is never restarted.                      *)
(***************************************************************************)
THEOREM StoppedStaysStopped == Spec => ZombieStays
<1> DEFINE Kept == stopped' # "racing" => ZombieKept
<1>1. TypeOK /\ ListAgrees /\ [Next]_vars => [Kept]_vars
  <2> SUFFICES ASSUME TypeOK, Linked, [Next]_vars, stopped' # "racing" PROVE ZombieKept \/ UNCHANGED vars
    BY RacingStays DEF ListAgrees
  <2>1. CASE Master
    BY <2>1, StartDisplayKeepsZombies, LoopKeepsZombies, WaitForChildKeepsZombies DEF Master
  <2>2. CASE StopAll
    BY <2>2, StopDisplaysKeepZombies DEF StopAll
  <2>3. CASE UNCHANGED <<displays, dpy>>
    BY <2>3 DEF ZombieKept
  <2> QED
    BY <2>1, <2>2, <2>3
    DEF Next, Environment, CatchHup, CatchUsr2, PacketArrives, Die, EditServers, EditAccess,
        Crash, Over
<1>2. Spec => [][Kept]_vars
  BY <1>1, TypeCorrect, ListAlwaysAgrees, PTL DEF Spec
<1> QED
  BY <1>2 DEF ZombieStays, ZombieKept

\* no process becomes a session in this step
NoNewSession == \A p \in Pid : proc'[p].kind = "session" => proc[p].kind = "session"

LEMMA TerminatedKind ==
  ASSUME TypeOK, NEW P, NEW p \in Pid PROVE Terminated(P)[p].kind = proc[p].kind
BY DEF Terminated, TypeOK, Processes

\* only ForkSession starts a session
LEMMA OthersStartNoSession ==
  ASSUME TypeOK, [Next]_vars, \A p \in Pid : ~ForkSession(p)
  PROVE  NoNewSession
<1>1. ASSUME NEW P, proc' = Terminated(P) PROVE NoNewSession
  BY <1>1, TerminatedKind DEF NoNewSession
<1>2. CASE UNCHANGED proc
  BY <1>2 DEF NoNewSession
<1>3. CASE proc' = [proc EXCEPT ![child] = Free]
  BY <1>3 DEF NoNewSession, Free, TypeOK
<1>4. CASE StartDisplaySteps
  <2>1. ASSUME NEW p \in Pid, StartServerOnce(p) PROVE NoNewSession
    BY <2>1 DEF StartServerOnce, Fork, NoNewSession, TypeOK
  <2> QED
    BY <1>1, <1>2, <1>3, <1>4, <2>1
    DEF StartDisplaySteps, CheckDisplayStatus, StopDisplays, SkipRemoved, StartDisplaysDone,
        ServerForkFails, StartServerFails, RecordServer, ServerPause, RetryServer,
        SessionForkFails, RecordSession
<1>5. CASE LoopSteps
  BY <1>1, <1>2, <1>5
  DEF LoopSteps, Install, LoopTest, RescanServers, NoRescan, RescanDone, AddDisplay,
      AddDisplayDone, WaitForSomething, EnterSelect, Manage, OtherPacket, AfterSelect
<1>6. CASE WaitForChildSteps
  <2>1. ASSUME NEW d \in Display, ServerExited(d) PROVE NoNewSession
    <3>1. CASE proc' = [Terminated({dpy[d].pid}) EXCEPT ![child] = Free]
      <4>1. Terminated({dpy[d].pid}) \in [Pid -> Processes]
        BY TerminatedType DEF TypeOK
      <4> QED
        BY <3>1, <4>1, TerminatedKind DEF NoNewSession, Free
    <3> QED
      BY <1>3, <2>1, <3>1 DEF ServerExited
  <2>2. CASE Stop \/ RestartDisplay
    BY <1>1, <1>2, <2>2 DEF Stop, StopDisplays, RestartDisplay
  <2> QED
    BY <1>2, <1>3, <1>6, <2>1, <2>2
    DEF WaitForChildSteps, EnterWaitForChild, Suspend, Woken, NoMoreChildren, WaitPid, RescanIfMod,
        ExitUnmanage, ExitObeysess, ExitOpenFailed, ExitReserver, ExitRemanage,
        SessionExited, UnknownChild
<1>7. CASE Environment
  <2>1. ASSUME NEW p \in Pid, Die(p) PROVE NoNewSession
    BY <2>1 DEF Die, NoNewSession, TypeOK, Processes
  <2> QED
    BY <1>1, <1>2, <1>7, <2>1
    DEF Environment, CatchHup, CatchUsr2, StopAll, StopDisplays, PacketArrives, EditServers, EditAccess
<1> QED
  BY <1>2, <1>4, <1>5, <1>6, <1>7 DEF Next, Master, Crash, Over, vars

(***************************************************************************)
(* A session of a local display is only started on a server that nobody    *)
(* has told to terminate.                                                  *)
(***************************************************************************)
THEOREM SessionsHaveServers == Spec => SessionOnLiveServer
<1> DEFINE Served ==
      \A p \in Pid :
        proc'[p].kind = "session" /\ proc[p].kind # "session" /\ proc'[p].of \in Local =>
          LET s == dpy[proc'[p].of].serverPid IN s # NoPid /\ proc[s].life # "told"
<1>1. TypeOK /\ ListAgrees /\ [Next]_vars => [stopped' # "racing" => Served]_vars
  <2> SUFFICES ASSUME TypeOK, Linked, [Next]_vars PROVE Served
    BY RacingStays DEF ListAgrees
  <2>1. ASSUME NEW q \in Pid, ForkSession(q) PROVE Served
    <3>1. /\ pc = "fork" /\ cur \in displays /\ dpy[cur].status = "notRunning"
          /\ cur \in Local => dpy[cur].serverPid # NoPid
      BY <2>1 DEF ForkSession, Linked, CurrentDisplay, Starting
    <3>2. cur \in Local => dpy[cur].serverPid # NoPid /\ proc[dpy[cur].serverPid].life # "told"
      BY <3>1 DEF Linked, ToldWhenEnding
    <3>3. \A p \in Pid : proc'[p].kind = "session" /\ proc[p].kind # "session" => proc'[p].of = cur
      BY <2>1 DEF ForkSession, Fork, TypeOK
    <3> QED
      BY <3>2, <3>3
  <2>2. CASE \A q \in Pid : ~ForkSession(q)
    BY <2>2, OthersStartNoSession DEF NoNewSession
  <2> QED
    BY <2>1, <2>2
<1>2. Spec => [][stopped' # "racing" => Served]_vars
  BY <1>1, TypeCorrect, ListAlwaysAgrees, PTL DEF Spec
<1> QED
  BY <1>2 DEF SessionOnLiveServer
=============================================================================
