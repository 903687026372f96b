------------------------------ MODULE Manager ------------------------------
(***************************************************************************)
(* The xdm master process (xdm/dm.c, xdm/dpylist.c, and the parts of       *)
(* xdm/server.c and xdm/xdmcp.c it runs): the list of displays, one X      *)
(* server process per local display, one session process per display, the  *)
(* main loop that waits for them, and the signals that interrupt it.       *)
(*                                                                         *)
(* pc is the place in the master's code; every place at which a signal     *)
(* handler can observe or change something has its own value.  SIGCHLD,    *)
(* SIGHUP and SIGUSR2 handlers only set a flag; the SIGTERM handler,       *)
(* StopAll, does the whole shutdown wherever it interrupts the master.     *)
(***************************************************************************)
EXTENDS Naturals, FiniteSets

CONSTANTS
  Display,          \* names of displays
  Pid,              \* process identifiers
  NoDisplay, NoPid, \* NULL, and the pid -1
  Local,            \* displays whose server runs on this host
  Permanent,        \* displays whose session is restarted when it exits
  Xdmcp,            \* displays started with XDMCP, not from the servers file
  TerminateServer,  \* displays with the resource terminateServer set
  StartAttempts, ReservAttempts, ServerAttempts, \* the resources so named
  UseXdmcp,         \* request_port # 0
  AutoRescan,       \* the resource autoRescan
  ForkFails,        \* the environment may make fork() fail
  Signals,          \* which of "HUP", "USR2", "TERM" the environment sends
  Files,            \* contents the servers file can have
  NoFile,           \* the servers file cannot be opened
  AccessEdits       \* the access file may change

FromFile == Display \ Xdmcp

ASSUME ManagerAssumption ==
  /\ NoDisplay \notin Display
  /\ NoPid \notin Pid
  /\ Xdmcp \subseteq Display
  /\ Local \subseteq FromFile
  /\ Permanent \subseteq FromFile
  /\ FromFile \ Permanent \subseteq Local
  /\ TerminateServer \subseteq Display
  /\ StartAttempts \in Nat /\ ReservAttempts \in Nat /\ ServerAttempts \in Nat
  /\ UseXdmcp \in BOOLEAN /\ AutoRescan \in BOOLEAN
  /\ ForkFails \in BOOLEAN /\ AccessEdits \in BOOLEAN
  /\ \A f \in Files : f = NoFile \/ f \subseteq FromFile

VARIABLES
  displays,         \* the names on the list of displays
  dpy,              \* the fields of struct display
  proc,             \* the kernel's table of the master's children
  file, modified,   \* the servers file; its mtime differs from ServersModTime
  accessModified,   \* the access file's mtime differs from AccessFileModTime
  sockets,          \* AnyWellKnownSockets()
  installed,        \* handlers of SIGHUP, SIGUSR2 and SIGCHLD are in place
  ChildReady, Rescan, AddOne,
  unread,           \* history: a SIGHUP was caught after the last rescan began
  unseen,           \* history: a child died before ChildNotify was installed and
                    \* WaitForChild has not run since
  stopped,          \* history: StopAll ran: "no"; "idle": only while the master
                    \* was blocked; "rescanned": the same, and a rescan came
                    \* after it; "between": only while the master was at work
                    \* on no display; "racing": while it was
  pc,
  todo, cont,       \* ForEachDisplay: displays still to visit, pc afterwards
  cur,              \* the display StartDisplay or WaitForChild is working on
  child,            \* the pid fork() or waitpid() has just returned
  tries             \* StartServer's loop counter

table == <<displays, dpy>>
files == <<file, modified, accessModified>>
flags == <<ChildReady, Rescan, AddOne>>
ghost == <<unread, unseen, stopped>>
frame == <<todo, cont, cur, child, tries>>
vars  == <<displays, dpy, proc, file, modified, accessModified, sockets, installed,
           ChildReady, Rescan, AddOne, unread, unseen, stopped, pc, todo, cont, cur, child, tries>>

Places == {"start", "server", "serverForked", "pause", "retry", "fork", "forked",
           "install", "loop", "rescan", "rescanned", "addone", "added", "wait",
           "preselect", "select", "packet", "afterSelect", "wfc", "presuspend",
           "suspend", "woken", "reap", "identify", "stop", "restart", "force",
           "exit", "crashed"}

Fields == [status      : {"notRunning", "running", "zombie", "phoenix"},
           state       : {"NewEntry", "OldEntry", "MissingEntry"},
           pid         : Pid \cup {NoPid},
           serverPid   : Pid \cup {NoPid},
           startTries  : Nat,
           reservTries : Nat,
           lastReserv  : BOOLEAN]      \* lastReserv # 0

Processes == [kind : {"none", "session", "server"},
              life : {"free", "alive", "told", "dead"}, \* told: sent a terminating signal
              of   : Display \cup {NoDisplay}]          \* dead: not yet waited for

TypeOK ==
  /\ displays \in SUBSET Display
  /\ dpy \in [Display -> Fields]
  /\ proc \in [Pid -> Processes]
  /\ file \in Files /\ modified \in BOOLEAN /\ accessModified \in BOOLEAN
  /\ sockets \in BOOLEAN /\ installed \in BOOLEAN
  /\ ChildReady \in BOOLEAN /\ Rescan \in BOOLEAN /\ AddOne \in BOOLEAN
  /\ unread \in BOOLEAN /\ unseen \in BOOLEAN /\ stopped \in {"no", "idle", "rescanned", "between", "racing"}
  /\ pc \in Places
  /\ todo \in SUBSET Display
  /\ cont \in {"install", "rescanned", "added", "afterSelect", "loop"}
  /\ cur \in Display \cup {NoDisplay}
  /\ child \in Pid \cup {NoPid}
  /\ tries \in Nat

-----------------------------------------------------------------------------
(* Processes.                                                              *)

Free == [kind |-> "none", life |-> "free", of |-> NoDisplay]

\* fork() returns p, a process of this kind started for display d
Fork(p, kind, d) ==
  /\ proc[p].life = "free"
  /\ proc' = [proc EXCEPT ![p] = [kind |-> kind, life |-> "alive", of |-> d]]

\* fork() returns -1: any time, or for want of a process slot
MayFailToFork == ForkFails \/ \A p \in Pid : proc[p].life # "free"

\* TerminateProcess on every pid in P: dead and unknown pids are not affected
Terminated(P) ==
  [p \in Pid |-> IF p \in P /\ proc[p].life = "alive"
                 THEN [proc[p] EXCEPT !.life = "told"]
                 ELSE proc[p]]

-----------------------------------------------------------------------------
(* The list of displays.                                                   *)

\* mutant of Fresh: NewDisplay forgets d->pid = -1
Fresh_pidZero ==
  [status |-> "notRunning", state |-> "NewEntry", pid |-> 0,
   serverPid |-> NoPid, startTries |-> 0, reservTries |-> 0, lastReserv |-> FALSE]

\* NewDisplay; also what the model keeps for a name that is not on the list
Fresh == [status |-> "notRunning", state |-> "NewEntry", pid |-> NoPid,
          serverPid |-> NoPid, startTries |-> 0, reservTries |-> 0, lastReserv |-> FALSE]

RemoveDisplay(d) ==
  /\ displays' = displays \ {d}
  /\ dpy' = [dpy EXCEPT ![d] = Fresh]

\* mutants of StopDisplays: only the server is told to terminate; the server is
\* not told to; the display leaves the list before its server has gone
StopDisplays_keepSession(S) ==
  /\ proc' = Terminated({dpy[d].serverPid : d \in S})
  /\ displays' = {d \in displays : d \in S => dpy[d].serverPid # NoPid}
  /\ dpy' = [d \in Display |->
               IF d \notin S THEN dpy[d]
               ELSE IF dpy[d].serverPid = NoPid THEN Fresh
               ELSE [dpy[d] EXCEPT !.status = "zombie"]]

StopDisplays_keepServer(S) ==
  /\ proc' = Terminated({dpy[d].pid : d \in S})
  /\ displays' = {d \in displays : d \in S => dpy[d].serverPid # NoPid}
  /\ dpy' = [d \in Display |->
               IF d \notin S THEN dpy[d]
               ELSE IF dpy[d].serverPid = NoPid THEN Fresh
               ELSE [dpy[d] EXCEPT !.status = "zombie"]]

StopDisplays_noZombie(S) ==
  /\ proc' = Terminated({dpy[d].pid : d \in S} \cup {dpy[d].serverPid : d \in S})
  /\ displays' = displays \ S
  /\ dpy' = [d \in Display |-> IF d \in S THEN Fresh ELSE dpy[d]]

\* StopDisplay on every display of S: a display with a server becomes a zombie
\* and stays until its server is reaped, any other leaves the list at once
StopDisplays(S) ==
  /\ proc' = Terminated({dpy[d].pid : d \in S} \cup {dpy[d].serverPid : d \in S})
  /\ displays' = {d \in displays : d \in S => dpy[d].serverPid # NoPid}
  /\ dpy' = [d \in Display |->
               IF d \notin S THEN dpy[d]
               ELSE IF dpy[d].serverPid = NoPid THEN Fresh
               ELSE [dpy[d] EXCEPT !.status = "zombie"]]

\* ParseDisplay on every entry: one that is already on the list becomes OldEntry
\* whatever its status, a new one is put on the list
ParseDisplays(entries) ==
  /\ displays' = displays \cup entries
  /\ dpy' = [d \in Display |->
               IF d \notin displays THEN dpy[d]
               ELSE [dpy[d] EXCEPT !.state =
                       IF d \in entries THEN "OldEntry" ELSE "MissingEntry"]]

\* ForEachDisplay(MarkDisplay); ScanServers: nothing is parsed if the file
\* cannot be opened
ScanServers == ParseDisplays(IF file = NoFile THEN {} ELSE file)

AfterRescan == IF stopped = "idle" THEN "rescanned" ELSE stopped

-----------------------------------------------------------------------------
(* main() up to the loop: the servers file has been scanned, StartDisplays *)
(* runs with only the SIGTERM handler in place.                            *)

Init ==
  /\ file \in Files \ {NoFile}   \* so that ServersModTime is set from here on
  /\ displays = file
  /\ dpy = [d \in Display |-> Fresh]
  /\ proc = [p \in Pid |-> Free]
  /\ modified = FALSE /\ accessModified = FALSE
  /\ sockets = UseXdmcp /\ installed = FALSE
  /\ ChildReady = FALSE /\ Rescan = FALSE /\ AddOne = FALSE
  /\ unread = FALSE /\ unseen = FALSE /\ stopped = "no"
  /\ pc = "start" /\ todo = displays /\ cont = "install"
  /\ cur = NoDisplay /\ child = NoPid /\ tries = 0

\* Signal (SIGHUP, ...); Signal (SIGUSR2, ...); Signal (SIGCHLD, ...)
Install ==
  /\ pc = "install"
  /\ installed' = TRUE
  /\ pc' = "loop"
  /\ UNCHANGED <<table, proc, files, sockets, flags, ghost, frame>>

-----------------------------------------------------------------------------
(* StartDisplays and StartDisplay.                                         *)

\* StartDisplay(d) up to its first fork()
StartAt(d) ==
  /\ cur' = d
  /\ tries' = 0
  /\ pc' = IF d \in Local /\ dpy[d].serverPid = NoPid THEN "server" ELSE "fork"

\* back to the caller: "start" with the displays that are left
Return ==
  /\ pc' = "start"
  /\ cur' = NoDisplay /\ child' = NoPid /\ tries' = 0
  /\ UNCHANGED <<todo, cont>>

CheckDisplayStatus(d) ==
  /\ pc = "start" /\ d \in todo \cap displays
  /\ todo' = todo \ {d}
  /\ \/ /\ d \in FromFile /\ dpy[d].state = "MissingEntry"
        /\ StopDisplays({d})
        /\ UNCHANGED <<pc, cur, tries>>
     \/ /\ d \in FromFile /\ dpy[d].state # "MissingEntry"
        /\ dpy' = [dpy EXCEPT ![d].state = "OldEntry"]
        /\ IF d \in Permanent /\ dpy[d].status = "notRunning"
           THEN StartAt(d) ELSE UNCHANGED <<pc, cur, tries>>
        /\ UNCHANGED <<displays, proc>>
     \/ /\ d \in Xdmcp
        /\ UNCHANGED <<table, proc, pc, cur, tries>>
  /\ UNCHANGED <<files, sockets, installed, flags, ghost, cont, child>>

\* the saved next pointer is a display that StopAll has removed meanwhile
SkipRemoved(d) ==
  /\ pc = "start" /\ d \in todo \ displays
  /\ todo' = todo \ {d}
  /\ UNCHANGED <<table, proc, files, sockets, installed, flags, ghost, pc, cont, cur, child, tries>>

StartDisplaysDone ==
  /\ pc = "start" /\ todo = {}
  /\ pc' = cont
  /\ cont' = "loop"
  /\ UNCHANGED <<table, proc, files, sockets, installed, flags, ghost, todo, cur, child, tries>>

\* StartServer's loop and StartServerOnce's fork()
StartServerOnce(p) ==
  /\ pc = "server"
  /\ ServerAttempts = 0 \/ tries < ServerAttempts
  /\ Fork(p, "server", cur)
  /\ child' = p
  /\ pc' = "serverForked"
  /\ UNCHANGED <<table, files, sockets, installed, flags, ghost, todo, cont, cur, tries>>

ServerForkFails ==
  /\ pc = "server" /\ MayFailToFork
  /\ ServerAttempts = 0 \/ tries < ServerAttempts
  /\ pc' = "retry"
  /\ UNCHANGED <<table, proc, files, sockets, installed, flags, ghost, frame>>

\* every attempt failed: StartDisplay removes the display
StartServerFails ==
  /\ pc = "server"
  /\ ServerAttempts # 0 /\ tries >= ServerAttempts
  /\ IF cur \in displays THEN RemoveDisplay(cur) ELSE UNCHANGED table
  /\ Return
  /\ UNCHANGED <<proc, files, sockets, installed, flags, ghost>>

\* d->serverPid = pid
RecordServer ==
  /\ pc = "serverForked"
  /\ IF cur \in displays
     THEN dpy' = [dpy EXCEPT ![cur].serverPid = child] ELSE UNCHANGED dpy
  /\ pc' = "pause"
  /\ UNCHANGED <<displays, proc, files, sockets, installed, flags, ghost, frame>>

\* serverPause: the server died and is reaped here, or it is alive when
\* SIGUSR1 or the alarm comes
ServerPause ==
  /\ pc = "pause"
  /\ \/ /\ proc[child].life = "dead"
        /\ proc' = [proc EXCEPT ![child] = Free]
        /\ pc' = "retry"
     \/ /\ proc[child].life # "dead"
        /\ pc' = "fork"
        /\ UNCHANGED proc
  /\ child' = NoPid
  /\ UNCHANGED <<table, files, sockets, installed, flags, ghost, todo, cont, cur, tries>>

\* sleep (d->openDelay); i++
RetryServer ==
  /\ pc = "retry"
  /\ tries' = IF ServerAttempts = 0 THEN 0 ELSE tries + 1
  /\ pc' = "server"
  /\ UNCHANGED <<table, proc, files, sockets, installed, flags, ghost, todo, cont, cur, child>>

\* StartDisplay's fork() of the session process
ForkSession(p) ==
  /\ pc = "fork"
  /\ Fork(p, "session", cur)
  /\ child' = p
  /\ pc' = "forked"
  /\ UNCHANGED <<table, files, sockets, installed, flags, ghost, todo, cont, cur, tries>>

SessionForkFails ==
  /\ pc = "fork" /\ MayFailToFork
  /\ Return
  /\ UNCHANGED <<table, proc, files, sockets, installed, flags, ghost>>

\* d->pid = pid; d->status = running, whatever the status has become
RecordSession ==
  /\ pc = "forked"
  /\ IF cur \in displays
     THEN dpy' = [dpy EXCEPT ![cur].pid = child, ![cur].status = "running"]
     ELSE UNCHANGED dpy
  /\ Return
  /\ UNCHANGED <<displays, proc, files, sockets, installed, flags, ghost>>

-----------------------------------------------------------------------------
(* The main loop and WaitForSomething.                                     *)

LoopTest ==
  /\ pc = "loop"
  /\ pc' = IF sockets \/ displays # {} THEN "rescan" ELSE "exit"
  /\ UNCHANGED <<table, proc, files, sockets, installed, flags, ghost, frame>>

\* RescanServers up to its StartDisplays; UpdateListenSockets opens the
\* sockets again if they were closed
RescanServers ==
  /\ pc = "rescan" /\ Rescan
  /\ ScanServers
  /\ unread' = FALSE
  /\ accessModified' = FALSE
  /\ sockets' = UseXdmcp
  /\ todo' = displays' /\ cont' = "rescanned" /\ pc' = "start"
  /\ stopped' = AfterRescan
  /\ UNCHANGED <<proc, file, modified, installed, flags, unseen, cur, child, tries>>

NoRescan ==
  /\ pc = "rescan" /\ ~Rescan
  /\ pc' = "addone"
  /\ UNCHANGED <<table, proc, files, sockets, installed, flags, ghost, frame>>

\* Rescan = 0, after the rescan
RescanDone ==
  /\ pc = "rescanned"
  /\ Rescan' = FALSE
  /\ pc' = "addone"
  /\ UNCHANGED <<table, proc, files, sockets, installed, ChildReady, AddOne, ghost, frame>>

\* AddDynamicDisplay accepts d
Addable(d) == d \in FromFile \ Permanent /\ dpy[d].status = "notRunning"

\* AddDisplay starts the first such display of the list
AddDisplay ==
  /\ pc = "addone"
  /\ \/ /\ AddOne
        /\ \E d \in displays : Addable(d) /\ StartAt(d)
        /\ todo' = {} /\ cont' = "added"
     \/ /\ AddOne /\ \A d \in displays : ~Addable(d)
        /\ pc' = "added"
        /\ UNCHANGED <<todo, cont, cur, tries>>
     \/ /\ ~AddOne
        /\ pc' = "wait"
        /\ UNCHANGED <<todo, cont, cur, tries>>
  /\ UNCHANGED <<table, proc, files, sockets, installed, flags, ghost, child>>

AddDisplayDone ==
  /\ pc = "added"
  /\ AddOne' = FALSE
  /\ pc' = "wait"
  /\ UNCHANGED <<table, proc, files, sockets, installed, ChildReady, Rescan, ghost, frame>>

\* WaitForSomething tests ChildReady, and only then calls select()
WaitForSomething ==
  /\ pc = "wait"
  /\ pc' = IF sockets /\ ~ChildReady THEN "preselect" ELSE "wfc"
  /\ UNCHANGED <<table, proc, files, sockets, installed, flags, ghost, frame>>

\* select() fails at once if StopAll closed the sockets after their mask was
\* copied, and blocks on an empty mask if it did so before
EnterSelect ==
  /\ pc = "preselect"
  /\ pc' \in {"select"} \cup (IF sockets THEN {} ELSE {"afterSelect"})
  /\ UNCHANGED <<table, proc, files, sockets, installed, flags, ghost, frame>>

\* a datagram or a chooser connection arrives
PacketArrives ==
  /\ pc = "select" /\ sockets
  /\ pc' = "packet"
  /\ UNCHANGED <<table, proc, files, sockets, installed, flags, ghost, frame>>

\* mutant of Manage: the old display is dropped without StopDisplay
Manage_noStop(d) ==
  /\ pc = "packet" /\ d \in Xdmcp
  /\ displays' = displays \cup {d}
  /\ dpy' = [dpy EXCEPT ![d] = Fresh]
  /\ cur' = d /\ tries' = 0 /\ pc' = "fork"
  /\ todo' = {} /\ cont' = "afterSelect"
  /\ UNCHANGED <<proc, files, sockets, installed, flags, ghost, child>>

\* manage(): the session that runs on d is stopped and replaced
Manage(d) ==
  /\ pc = "packet" /\ d \in Xdmcp
  /\ proc' = Terminated({dpy[d].pid})
  /\ displays' = displays \cup {d}
  /\ dpy' = [dpy EXCEPT ![d] = Fresh]
  /\ cur' = d /\ tries' = 0 /\ pc' = "fork"
  /\ todo' = {} /\ cont' = "afterSelect"
  /\ UNCHANGED <<files, sockets, installed, flags, ghost, child>>

\* any packet that starts no session
OtherPacket ==
  /\ pc = "packet"
  /\ pc' = "afterSelect"
  /\ UNCHANGED <<table, proc, files, sockets, installed, flags, ghost, frame>>

AfterSelect ==
  /\ pc = "afterSelect"
  /\ pc' = IF ChildReady THEN "wfc" ELSE "loop"
  /\ UNCHANGED <<table, proc, files, sockets, installed, flags, ghost, frame>>

-----------------------------------------------------------------------------
(* WaitForChild.  From "wfc" to "woken" SIGCHLD and SIGHUP are blocked     *)
(* except inside sigsuspend(); one that arrives at "presuspend" is         *)
(* delivered by sigsuspend(), so its flag is tested there.                 *)

EnterWaitForChild ==
  /\ pc = "wfc"
  /\ pc' = IF ChildReady \/ Rescan THEN "woken" ELSE "presuspend"
  /\ UNCHANGED <<table, proc, files, sockets, installed, flags, ghost, frame>>

\* mutant of Suspend: the flags are tested before the signals are blocked
Suspend_untested ==
  /\ pc = "presuspend"
  /\ pc' = "suspend"
  /\ UNCHANGED <<table, proc, files, sockets, installed, flags, ghost, frame>>

Suspend ==
  /\ pc = "presuspend"
  /\ pc' = IF ChildReady \/ Rescan THEN "woken" ELSE "suspend"
  /\ UNCHANGED <<table, proc, files, sockets, installed, flags, ghost, frame>>

SomeDead == \E p \in Pid : proc[p].life = "dead"

\* ChildReady = 0; then the signals are unblocked, and a SIGCHLD that was
\* pending sets the flag again
Woken ==
  /\ pc = "woken"
  /\ ChildReady' \in {FALSE} \cup (IF SomeDead THEN {TRUE} ELSE {})
  /\ pc' = "reap"
  /\ UNCHANGED <<table, proc, files, sockets, installed, Rescan, AddOne, ghost, frame>>

RescanIfMod ==
  /\ IF modified /\ file # NoFile
     THEN ScanServers /\ modified' = FALSE
     ELSE UNCHANGED <<table, modified>>
  /\ IF accessModified
     THEN sockets' = UseXdmcp /\ accessModified' = FALSE
     ELSE UNCHANGED <<sockets, accessModified>>
  /\ stopped' = IF modified' # modified \/ accessModified' # accessModified
                THEN AfterRescan ELSE stopped

\* waitpid() returns p; autoRescan looks at the files before p is looked up
WaitPid(p) ==
  /\ pc = "reap" /\ proc[p].life = "dead"
  /\ child' = p
  /\ pc' = "identify"
  /\ IF AutoRescan THEN RescanIfMod
     ELSE UNCHANGED <<table, modified, sockets, accessModified, stopped>>
  /\ UNCHANGED <<proc, file, installed, flags, unread, unseen, todo, cont, cur, tries>>

\* mutant of NoMoreChildren: no StartDisplays at the end of WaitForChild
NoMoreChildren_noStart ==
  /\ pc = "reap" /\ ~SomeDead
  /\ todo' = {} /\ cont' = "loop" /\ pc' = "start"
  /\ unseen' = FALSE
  /\ UNCHANGED <<table, proc, files, sockets, installed, flags, unread, stopped, cur, child, tries>>

\* waitpid() returns 0
NoMoreChildren ==
  /\ pc = "reap" /\ ~SomeDead
  /\ todo' = displays /\ cont' = "loop" /\ pc' = "start"
  /\ unseen' = FALSE
  /\ UNCHANGED <<table, proc, files, sockets, installed, flags, unread, stopped, cur, child, tries>>

\* mutant of SessionExited: d->pid is not reset
SessionExited_keepPid(d, f, next) ==
  /\ pc = "identify"
  /\ d \in displays /\ dpy[d].pid = child
  /\ dpy' = [dpy EXCEPT ![d] = f]
  /\ proc' = [proc EXCEPT ![child] = Free]
  /\ cur' = d /\ child' = NoPid /\ pc' = next
  /\ UNCHANGED <<displays, files, sockets, installed, flags, ghost, todo, cont, tries>>

\* the session of d exited: d->pid = -1, counters become those of f, and
\* WaitForChild goes on to stop or restart d
SessionExited(d, f, next) ==
  /\ pc = "identify"
  /\ d \in displays /\ dpy[d].pid = child
  /\ dpy' = [dpy EXCEPT ![d] = [f EXCEPT !.pid = NoPid]]
  /\ proc' = [proc EXCEPT ![child] = Free]
  /\ cur' = d /\ child' = NoPid /\ pc' = next
  /\ UNCHANGED <<displays, files, sockets, installed, flags, ghost, todo, cont, tries>>

\* mutant of Restartable: a display that is being stopped is restarted
Restartable_zombie(d) == d \in FromFile

\* neither an XDMCP display nor one that is being stopped
Restartable(d) == d \in FromFile /\ dpy[d].status # "zombie"

\* UNMANAGE_DISPLAY, or an exit status nobody knows
ExitUnmanage(d) == SessionExited(d, dpy[d], "stop")

ExitObeysess(d) ==
  SessionExited(d, [dpy[d] EXCEPT !.startTries = 0, !.reservTries = 0],
                IF d \in Permanent /\ dpy[d].status # "zombie" THEN "restart" ELSE "stop")

\* OPENFAILED_DISPLAY, or killed by SIGTERM
ExitOpenFailed(d) ==
  LET n == IF Restartable(d) THEN dpy[d].startTries + 1 ELSE dpy[d].startTries
  IN  SessionExited(d, [dpy[d] EXCEPT !.startTries = n],
                    IF Restartable(d) /\ n < StartAttempts THEN "force" ELSE "stop")

\* RESERVER_DISPLAY: crash says that the last one is less than
\* XDM_BROKEN_INTERVAL ago
ExitReserver(d) ==
  IF ~Restartable(d)
  THEN SessionExited(d, [dpy[d] EXCEPT !.startTries = 0], "stop")
  ELSE \E crash \in {FALSE, dpy[d].lastReserv} :
         LET n == IF crash THEN dpy[d].reservTries + 1 ELSE 0
         IN  SessionExited(d, [dpy[d] EXCEPT !.startTries = 0, !.reservTries = n,
                                             !.lastReserv = TRUE],
                           IF crash /\ n >= ReservAttempts THEN "stop" ELSE "force")

ExitRemanage(d) ==
  SessionExited(d, [dpy[d] EXCEPT !.startTries = 0],
                IF Restartable(d) THEN "restart" ELSE "stop")

Reaped == cur' = NoDisplay /\ pc' = "reap" /\ UNCHANGED <<todo, cont, child, tries>>

Stop ==
  /\ pc = "stop"
  /\ IF cur \in displays THEN StopDisplays({cur}) ELSE UNCHANGED <<table, proc>>
  /\ Reaped
  /\ UNCHANGED <<files, sockets, installed, flags, ghost>>

\* mutants of RestartDisplay: the server is not told to terminate; the display
\* is restarted without waiting for the server it has terminated
RestartDisplay_keepServer ==
  /\ pc \in {"restart", "force"}
  /\ IF cur \notin displays THEN UNCHANGED dpy
     ELSE dpy' = [dpy EXCEPT ![cur].status =
       IF dpy[cur].serverPid # NoPid /\ (pc = "force" \/ cur \in TerminateServer)
       THEN "phoenix" ELSE "notRunning"]
  /\ Reaped
  /\ UNCHANGED <<displays, proc, files, sockets, installed, flags, ghost>>

RestartDisplay_noPhoenix ==
  /\ pc \in {"restart", "force"}
  /\ IF cur \notin displays THEN UNCHANGED <<dpy, proc>>
     ELSE /\ dpy' = [dpy EXCEPT ![cur].status = "notRunning"]
          /\ IF pc = "force" \/ cur \in TerminateServer
             THEN proc' = Terminated({dpy[cur].serverPid}) ELSE UNCHANGED proc
  /\ Reaped
  /\ UNCHANGED <<displays, files, sockets, installed, flags, ghost>>

\* RestartDisplay (d, forceReserver)
RestartDisplay ==
  /\ pc \in {"restart", "force"}
  /\ IF cur \notin displays THEN UNCHANGED <<dpy, proc>>
     ELSE IF dpy[cur].serverPid # NoPid /\ (pc = "force" \/ cur \in TerminateServer)
     THEN /\ proc' = Terminated({dpy[cur].serverPid})
          /\ dpy' = [dpy EXCEPT ![cur].status = "phoenix"]
     ELSE /\ dpy' = [dpy EXCEPT ![cur].status = "notRunning"]
          /\ UNCHANGED proc
  /\ Reaped
  /\ UNCHANGED <<displays, files, sockets, installed, flags, ghost>>

\* the server of d exited
ServerExited(d) ==
  /\ pc = "identify"
  /\ \A e \in displays : dpy[e].pid # child
  /\ d \in displays /\ dpy[d].serverPid = child
  /\ \/ /\ dpy[d].status = "zombie"
        /\ RemoveDisplay(d)
        /\ proc' = [proc EXCEPT ![child] = Free]
     \/ /\ dpy[d].status \in {"phoenix", "notRunning"}
        /\ dpy' = [dpy EXCEPT ![d].serverPid = NoPid, ![d].status = "notRunning"]
        /\ proc' = [proc EXCEPT ![child] = Free]
        /\ UNCHANGED displays
     \/ /\ dpy[d].status = "running"
        /\ dpy' = [dpy EXCEPT ![d].serverPid = NoPid]
        /\ proc' = [Terminated({dpy[d].pid}) EXCEPT ![child] = Free]
        /\ UNCHANGED displays
  /\ child' = NoPid /\ pc' = "reap"
  /\ UNCHANGED <<files, sockets, installed, flags, ghost, todo, cont, cur, tries>>

UnknownChild ==
  /\ pc = "identify"
  /\ \A d \in displays : dpy[d].pid # child /\ dpy[d].serverPid # child
  /\ proc' = [proc EXCEPT ![child] = Free]
  /\ child' = NoPid /\ pc' = "reap"
  /\ UNCHANGED <<table, files, sockets, installed, flags, ghost, todo, cont, cur, tries>>

-----------------------------------------------------------------------------
(* Signals, and the rest of the environment.                               *)

Running == pc \notin {"exit", "crashed"}

\* a caught signal ends select() and sigsuspend()
Interrupt ==
  pc' = CASE pc = "select"  -> "afterSelect"
          [] pc = "suspend" -> "woken"
          [] OTHER          -> pc

\* RescanNotify
CatchHup ==
  /\ "HUP" \in Signals /\ Running /\ installed
  /\ Rescan' = TRUE /\ unread' = TRUE
  /\ Interrupt
  /\ UNCHANGED <<table, proc, files, sockets, installed, ChildReady, AddOne, unseen, stopped, frame>>

\* AddRequest
CatchUsr2 ==
  /\ "USR2" \in Signals /\ Running /\ installed
  /\ AddOne' = TRUE
  /\ Interrupt
  /\ UNCHANGED <<table, proc, files, sockets, installed, ChildReady, Rescan, ghost, frame>>

\* StopAll, in the master
StopAll ==
  /\ "TERM" \in Signals /\ Running
  /\ sockets' = FALSE
  /\ StopDisplays(displays)
  /\ stopped' = IF stopped = "racing" \/ cur # NoDisplay THEN "racing"
                ELSE IF stopped # "between" /\ pc \in {"select", "suspend"} THEN "idle"
                ELSE "between"
  /\ Interrupt
  /\ UNCHANGED <<files, installed, flags, unread, unseen, frame>>

\* the display record the master is using is no longer on the list, or a
\* saved pointer into the list is stale: the write may abort the master
Dangling ==
  \/ /\ pc \in {"server", "serverForked", "pause", "retry", "fork", "forked",
                "stop", "restart", "force"}
     /\ cur \notin displays
  \/ pc = "start" /\ ~(todo \subseteq displays)

Crash ==
  /\ Dangling
  /\ pc' = "crashed"
  /\ UNCHANGED <<table, proc, files, sockets, installed, flags, ghost, frame>>

\* a session or server process ends; ChildNotify runs if it is installed
Die(p) ==
  /\ proc[p].life \in {"alive", "told"}
  /\ proc' = [proc EXCEPT ![p].life = "dead"]
  /\ IF installed /\ Running
     THEN ChildReady' = TRUE /\ Interrupt
     ELSE UNCHANGED <<ChildReady, pc>>
  /\ unseen' = (unseen \/ ~installed)
  /\ UNCHANGED <<table, files, sockets, installed, Rescan, AddOne, unread, stopped, frame>>

\* somebody edits the servers file
EditServers(f) ==
  /\ Running /\ f # file
  /\ file' = f /\ modified' = TRUE
  /\ UNCHANGED <<table, proc, accessModified, sockets, installed, flags, ghost, pc, frame>>

EditAccess ==
  /\ Running /\ AccessEdits
  /\ accessModified' = TRUE
  /\ UNCHANGED <<table, proc, file, modified, sockets, installed, flags, ghost, pc, frame>>

\* the master has exited
Over == ~Running /\ UNCHANGED vars

-----------------------------------------------------------------------------
StartDisplaySteps ==
  \/ \E d \in Display : CheckDisplayStatus(d) \/ SkipRemoved(d)
  \/ StartDisplaysDone
  \/ \E p \in Pid : StartServerOnce(p) \/ ForkSession(p)
  \/ ServerForkFails \/ StartServerFails \/ RecordServer \/ ServerPause \/ RetryServer
  \/ SessionForkFails \/ RecordSession

LoopSteps ==
  \/ Install \/ LoopTest \/ RescanServers \/ NoRescan \/ RescanDone
  \/ AddDisplay \/ AddDisplayDone \/ WaitForSomething \/ EnterSelect
  \/ \E d \in Display : Manage(d)
  \/ OtherPacket \/ AfterSelect

WaitForChildSteps ==
  \/ EnterWaitForChild \/ Suspend \/ Woken \/ NoMoreChildren
  \/ \E p \in Pid : WaitPid(p)
  \/ \E d \in Display : \/ ExitUnmanage(d) \/ ExitObeysess(d) \/ ExitOpenFailed(d)
                        \/ ExitReserver(d) \/ ExitRemanage(d) \/ ServerExited(d)
  \/ Stop \/ RestartDisplay \/ UnknownChild

Master == StartDisplaySteps \/ LoopSteps \/ WaitForChildSteps

Environment ==
  \/ CatchHup \/ CatchUsr2 \/ StopAll \/ PacketArrives
  \/ \E p \in Pid : Die(p)
  \/ \E f \in Files : EditServers(f)
  \/ EditAccess

Next == Master \/ Environment \/ Crash \/ Over

Spec == Init /\ [][Next]_vars

\* a process that was told to terminate, and a session whose server is gone
Doomed(p) ==
  \/ proc[p].life = "told"
  \/ /\ proc[p].life = "alive" /\ proc[p].kind = "session"
     /\ proc[p].of \in Local
     /\ \A q \in Pid : ~(/\ proc[q].kind = "server" /\ proc[q].of = proc[p].of
                         /\ proc[q].life \in {"alive", "told"})

\* The master is never stopped between two blocking calls, a server obeys
\* its termSignal, a session ends after SIGTERM and after it loses its server.
\* Nothing makes a packet or a signal arrive, or a healthy process exit.
Fairness ==
  /\ WF_vars(Master)
  /\ \A p \in Pid : WF_vars(Doomed(p) /\ Die(p))

FairSpec == Spec /\ Fairness

-----------------------------------------------------------------------------
(* Properties.                                                             *)

Alive(p) == proc[p].life = "alive"

\* fork() has returned p and the next statement will store it
BeingRecorded(p) == child = p /\ cur = proc[p].of
                    /\ pc = (IF proc[p].kind = "server" THEN "serverForked" ELSE "forked")

\* the display p was started for knows p
Tracked(p) ==
  LET d == proc[p].of
  IN  d \in displays /\ p = (IF proc[p].kind = "server" THEN dpy[d].serverPid ELSE dpy[d].pid)

(***************************************************************************)
(* Until SIGTERM comes, every session and server process that nobody has   *)
(* told to terminate is recorded in the display it was started for, so     *)
(* that WaitForChild recognises its exit and StopDisplay can terminate it. *)
(***************************************************************************)
NoLostChild ==
  stopped # "racing" => \A p \in Pid : Alive(p) => Tracked(p) \/ BeingRecorded(p)

(***************************************************************************)
(* Until SIGTERM comes, StartServer never starts a server for a display    *)
(* while an earlier server process of that display, even one that was told *)
(* to terminate, still runs and holds the display number.                  *)
(***************************************************************************)
OneServer ==
  stopped # "racing" =>
    \A p, q \in Pid :
      /\ proc[p].kind = "server" /\ proc[q].kind = "server"
      /\ proc[p].life # "dead" /\ proc[q].life # "dead"
      /\ proc[p].of = proc[q].of
      => p = q

(***************************************************************************)
(* Until SIGTERM comes, a phoenix or zombie display has a server that is   *)
(* dead or was told to die: WaitForChild's switch on d->status will reach  *)
(* the display and restart or remove it, so no display waits for nothing.  *)
(***************************************************************************)
PhoenixBurns ==
  stopped # "racing" =>
    \A d \in displays :
      dpy[d].status \in {"phoenix", "zombie"} =>
        /\ dpy[d].serverPid # NoPid
        /\ proc[dpy[d].serverPid].of = d
        /\ proc[dpy[d].serverPid].life \in {"told", "dead"}

(***************************************************************************)
(* Until SIGTERM comes, a display that StartDisplays or AddDisplay may     *)
(* start (notRunning), or that will be restarted (phoenix), has no session *)
(* process on record: starting it cannot overwrite the pid of a live one.  *)
(***************************************************************************)
RestartHasNoSession ==
  stopped # "racing" =>
    \A d \in displays :
      dpy[d].status \in {"notRunning", "phoenix"} => dpy[d].pid = NoPid

(***************************************************************************)
(* Whether nothing was left to do, or SIGTERM came while the master was    *)
(* waiting, no process that was not told to terminate survives the master. *)
(***************************************************************************)
ExitLeavesNothing ==
  pc = "exit" /\ stopped # "racing" => \A p \in Pid : ~Alive(p)

(***************************************************************************)
(* Until SIGTERM comes, StopDisplay is final: a zombie stays a zombie      *)
(* until it leaves the list, whatever WaitForChild or a rescan does.       *)
(***************************************************************************)
ZombieStays ==
  [][stopped' # "racing" =>
       \A d \in displays : dpy[d].status = "zombie" =>
         d \notin displays' \/ dpy'[d].status = "zombie"]_vars

(***************************************************************************)
(* RESERVER and OPENFAILED restart a local display with a new server: a    *)
(* session process is only started on a server that nobody has told to     *)
(* terminate.                                                              *)
(***************************************************************************)
SessionOnLiveServer ==
  [][stopped' # "racing" =>
       \A p \in Pid :
         proc'[p].kind = "session" /\ proc[p].kind # "session" /\ proc'[p].of \in Local =>
           LET s == dpy[proc'[p].of].serverPid
           IN  s # NoPid /\ proc[s].life # "told"]_vars

-----------------------------------------------------------------------------
(* Why the safety properties hold: what the list of displays and the       *)
(* processes say of each other at every place of the master.               *)

IsServer(p, d)  == p \in Pid /\ proc[p].kind = "server" /\ proc[p].of = d /\ proc[p].life # "free"
IsSession(p, d) == p \in Pid /\ proc[p].kind = "session" /\ proc[p].of = d /\ proc[p].life # "free"

Starting == {"server", "serverForked", "pause", "retry", "fork", "forked"}
Ending   == {"stop", "restart", "force"}

\* no process without a display, no server but for a local display
ProcWF ==
  \A p \in Pid :
    /\ (proc[p].kind = "none") <=> (proc[p].life = "free")
    /\ proc[p].life # "free" => proc[p].of \in Display
    /\ proc[p].kind = "server" => proc[p].of \in Local

OffListFresh == \A d \in Display \ displays : dpy[d] = Fresh

\* d->pid is a session of d; only a display that is up or being stopped has one
SessionLink ==
  \A d \in displays :
    dpy[d].pid # NoPid => IsSession(dpy[d].pid, d) /\ dpy[d].status \in {"running", "zombie"}

\* d->serverPid is a server of d; StartServer leaves the pid of a reaped one in it
ServerLink ==
  \A d \in displays :
    LET s == dpy[d].serverPid
    IN  IF d = cur /\ pc \in {"server", "serverForked", "retry"}
        THEN s \in Pid => proc[s].life = "free" \/ (pc = "serverForked" /\ s = child)
        ELSE s # NoPid => IsServer(s, d)

\* a server is told to terminate exactly when its display stops or waits for it
ToldWhenEnding ==
  \A d \in displays :
    IF dpy[d].status \in {"zombie", "phoenix"}
    THEN dpy[d].serverPid # NoPid /\ proc[dpy[d].serverPid].life \in {"told", "dead"}
    ELSE dpy[d].serverPid # NoPid => proc[dpy[d].serverPid].life # "told"

ZombieSession ==
  \A d \in displays :
    dpy[d].status = "zombie" /\ dpy[d].pid # NoPid => proc[dpy[d].pid].life # "alive"

\* servers that still run, and sessions nobody has stopped, are on record
Recorded ==
  \A p \in Pid :
    \/ proc[p].kind = "server" /\ proc[p].life # "dead"
    \/ proc[p].kind = "session" /\ proc[p].life = "alive"
    => Tracked(p) \/ BeingRecorded(p)

\* what StartDisplay and WaitForChild know of the display they work on
CurrentDisplay ==
  /\ pc \in Starting =>
       /\ cur \in displays /\ dpy[cur].status = "notRunning"
       /\ pc \notin {"fork", "forked"} => cur \in Local
       /\ pc \in {"fork", "forked"} /\ cur \in Local => dpy[cur].serverPid # NoPid
  /\ pc \in Ending => cur \in displays /\ dpy[cur].pid = NoPid
  /\ pc \in {"restart", "force"} => dpy[cur].status = "running"
  /\ pc \notin Starting \cup Ending => cur = NoDisplay

CurrentChild ==
  /\ pc = "serverForked" => IsServer(child, cur) /\ proc[child].life # "told"
  /\ pc = "pause" => child \in Pid /\ dpy[cur].serverPid = child
  /\ pc = "forked" => IsSession(child, cur)
  /\ pc = "identify" => child \in Pid /\ proc[child].life = "dead"

Linked ==
  /\ ProcWF /\ OffListFresh /\ SessionLink /\ ServerLink /\ ToldWhenEnding
  /\ ZombieSession /\ Recorded /\ CurrentDisplay /\ CurrentChild

(***************************************************************************)
(* Until SIGTERM comes in the middle of StartDisplay or WaitForChild, the  *)
(* pids in the list and the processes agree: the inductive invariant from  *)
(* which the properties above follow.                                      *)
(***************************************************************************)
ListAgrees == stopped # "racing" => Linked

-----------------------------------------------------------------------------
(* Progress.                                                               *)

(***************************************************************************)
(* A set ChildReady makes the master wait for its children, or it finds    *)
(* that no display is left.                                                *)
(***************************************************************************)
ChildReadyServed == ChildReady ~> pc = "reap" \/ ~Running

(***************************************************************************)
(* A permanent display of the servers file that is idle, or waits for its  *)
(* server to end, gets a session or is removed.                            *)
(***************************************************************************)
PermanentServed ==
  \A d \in Permanent :
    installed /\ ~unseen /\ d \in displays /\ dpy[d].status \in {"notRunning", "phoenix"}
      ~> d \notin displays \/ dpy[d].status = "running" \/ stopped # "no"

(***************************************************************************)
(* A display that is being stopped leaves the list: StopDisplay's zombie   *)
(* is always reaped by a later WaitForChild.                               *)
(***************************************************************************)
ZombieGoes ==
  \A d \in Display :
    installed /\ ~unseen /\ d \in displays /\ dpy[d].status = "zombie"
      ~> d \notin displays \/ stopped \in {"between", "racing"}

(***************************************************************************)
(* A SIGTERM that finds the master waiting makes it exit, unless a rescan  *)
(* of an edited file or on a SIGHUP comes in between.                      *)
(***************************************************************************)
IdleStopExits ==
  stopped = "idle" /\ ~unseen ~> pc = "exit" \/ stopped # "idle"

-----------------------------------------------------------------------------
(* What the documentation says and the code does not do.                   *)

(***************************************************************************)
(* "When sent a SIGTERM, xdm terminates all sessions in progress and       *)
(* exits" (man/xdm.man:1367): when the signal finds the master waiting.    *)
(***************************************************************************)
StopExits ==
  stopped = "idle" /\ ~unseen ~> pc = "exit" \/ stopped \in {"between", "racing"}

(***************************************************************************)
(* The same sentence, wherever the signal finds the master: once it has    *)
(* exited, no process is left that it has not told to terminate.           *)
(***************************************************************************)
StopLeavesNothing == pc = "exit" => \A p \in Pid : ~Alive(p)

(***************************************************************************)
(* "Keep a sub-daemon running for each entry" (xdm/dm.c:255, in main): the *)
(* death of the session of a permanent display is acted upon.              *)
(***************************************************************************)
SessionDied(d) ==
  d \in displays /\ dpy[d].pid # NoPid /\ proc[dpy[d].pid].life = "dead"

SessionReplaced(d) == d \notin displays \/ dpy[d].pid = NoPid \/ Alive(dpy[d].pid)

SubDaemonKept == \A d \in Permanent : SessionDied(d) ~> SessionReplaced(d)

(***************************************************************************)
(* The same sentence, for a session that dies while the handler of SIGCHLD *)
(* is in place, in a master that also listens for XDMCP.                   *)
(***************************************************************************)
SubDaemonRestarted ==
  \A d \in Permanent : SessionDied(d) /\ installed /\ ~unseen ~> SessionReplaced(d)

(***************************************************************************)
(* "When sent a SIGHUP, xdm rereads the configuration file, the access     *)
(* control file, and the servers file" (man/xdm.man:1357).                 *)
(***************************************************************************)
HupServed == unread ~> ~unread \/ ~Running
=============================================================================
