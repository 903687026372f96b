# A TLA+ development of xdm

xdm is a display manager: one master process keeps a login session on every
display it knows, local ones whose X server it runs itself, foreign ones of the
servers file, and X terminals that ask for a session with XDMCP.  This
directory models it in TLA+, checks the models with TLC on small instances and
proves the safety properties of its core with TLAPS for every instance.

Paths below are relative to the repository; `PROJECT.json` lists the
components, the runs, the lines each definition stands for, the hazards and the
theorems.

## 1. Inventory

| component | files | state | operations | interacts with |
|---|---|---|---|---|
| display manager | `xdm/dm.c`, `xdm/dpylist.c` | the list of `struct display` (status, pid, serverPid, state, counters), flags `Rescan`, `AddOne`, `ChildReady`, file times | main loop, `StartDisplays`, `StartDisplay`, `StopDisplay`, `RestartDisplay`, `WaitForChild`, `RescanServers`, `RescanIfMod`, `AddDisplay`, five signal handlers | forks servers and sessions, learns of their end by exit status |
| X servers | `xdm/server.c` | `receivedUsr1`, alarms | `StartServer`, `serverPause`; in the session: `WaitForServer`, `PingServer` | called by `StartDisplay`; server tells by SIGUSR1 that it is ready |
| servers file | `xdm/file.c` | none | `ParseDisplay` marks and creates displays | called by the scans |
| XDMCP master | `xdm/xdmcp.c`, `xdm/protodpy.c` | `protoDisplays` with a 30 minute timeout, `globalSessionID` | query, request, manage, forward, keepalive | datagrams; `manage` stops and starts displays |
| indirect queries | `xdm/choose.c` | `indirectUsers`, `choices` with `choiceTimeout` | remember, forget, register and look up a choice | connection from a chooser; consulted by XDMCP queries |
| access control | `xdm/access.c` | `database` | first match, aliases to depth 32, broadcast hosts, listen addresses | policy, sockets, indirect queries |
| policy | `xdm/policy.c` | none | `Willing`, `Accept`, choice of connection and authorization | `request_respond` |
| sockets | `xdm/socket.c` | `listensocks` with reference marks | mark and sweep to the access file's LISTEN lines | the main loop's `select()` |
| session | `xdm/session.c`, `xdm/reset.c` | `clientPid`, longjmp targets | `ManageSession`, `StartClient`, `AbortClient`, `SessionExit` | forked by the master; exit status says what to do next |
| greeter | `greeter/*.c` | `done`, `code`, PAM handle | `GreetUser`, `Verify`, `pamconv` | loaded into the session |
| authorization files | `xdm/auth.c` | `~/.Xauthority` and its lock, server authority files | merge, install by unlink and link, remove | session, `StartDisplay` |
| authorization data | `xdm/genauth.c`, `prngc.c`, `mitauth.c`, `xdmauth.c`, `krb5auth.c`, `rpcauth.c` | random pool, keys | make cookies and keys | requests, local displays |
| chooser | `chooser/chooser.c` | `hostNamedb`, `pingTry` | ping, collect answers, report the choice | queries managers, connects to the master |
| rest | `xdmshell`, `xdm/resource.c`, `daemon.c`, `error.c`, `netaddr.c`, `util.c` | resources | reading, formatting, logging | - |

What is hard in this code, and what makes each component correct:

- **display manager**: a signal can interrupt the master anywhere.  SIGCHLD,
  SIGHUP and SIGUSR2 only set flags, tested before blocking calls (lost wakeups);
  SIGTERM's handler walks and changes the list under whatever code it
  interrupts.  Correct means: no child is forgotten, no display number gets two
  servers, a display being stopped stays stopped, every wait ends.
- **XDMCP**: datagrams are lost, repeated, reordered and late.  Correct means:
  one session per accepted request, duplicates are harmless, a refused request
  starts nothing, the cookie of the session is one the display was sent.
- **indirect queries, access, sockets**: entries that expire between two
  lookups, first-match rules and recursion, sockets kept exactly as configured.
- **session, greeter**: alarms and SIGTERM leave `wait()` by longjmp; an exit
  that was reaped may be lost; the exit status must match what happened.
- **authorization files**: sessions of one user merge one file; the lock and
  the unlink/link sequence must never lose somebody's entries.

The full list, each at its line, is `hazards` in `PROJECT.json`.

## 2. Modules

| module | models | uses |
|---|---|---|
| `Manager` | the master: its list, children, signals | - |
| `ManagerProofs` | theorems about it | `Manager` |
| `Sessions` | abstract: what becomes of a session id | - |
| `Access` | reading and asking the access file | - |
| `Listen` | the file while xdm runs, the sockets | `Access` |
| `AccessProofs` | lemmas about reading a file and about aliases, induction | `Access` |
| `ListenProofs` | theorems about the answers and the types | `Listen`, `AccessProofs` |
| `SocketProofs` | the theorem about the sockets | `ListenProofs` |
| `Xdmcp` | the XDMCP master with choices and policy, over a network | `Access`, `Sessions` |
| `XdmcpProofs` | theorems about sessions, that it implements `Sessions` | `Xdmcp` |
| `ChoiceProofs` | theorems about its indirect queries and all its types | `XdmcpProofs`, `AccessProofs` |
| `Login` | the Login widget, as functions | - |
| `UserAuth` | the steps on `~/.Xauthority` | - |
| `LoginProofs` | lemmas about the widget's operations | `Login` |
| `Session` | a session process: greeter, client, pings, signals | `Login`, `UserAuth` |
| `SessionProofs` | theorems about it | `Session`, `LoginProofs` |
| `MCManager`, `MCAccess`, `MCXdmcp`, `MCSession` | the instances TLC checks | the module of the name |

`Manager` takes what a session exits with as an input and `Session` shows how it comes
about; `Manager` takes that a packet manages a display, `Xdmcp` which
packets do.  The two views of the master share `manage()` and `WaitForChild`: `Manager`
has every place a signal can interrupt and no protocol, `Xdmcp` the whole protocol
with each packet handled at once.

Left of the plan: an abstract life cycle of a display that `Manager` implements, the
pid file, the chooser's own process.

## 3. The module Manager

### State

`displays` and `dpy` are the list and the fields of `struct display` that decide
anything (a name that is not on the list keeps `Fresh`).  `lastReserv` is kept as
"there was one": whether it is recent is a free choice.  `proc` is the kernel's
table: what each pid is, and whether it is free, alive, told to terminate
(sent a signal that ends it) or dead and not yet waited for.  `file`, `modified`
and `accessModified` are the servers file and whether the times xdm remembers
are out of date; `sockets` is `AnyWellKnownSockets()`.  `pc` is the place in the
master's code, with one value for every place where a signal makes a difference;
`todo`, `cont`, `cur`, `child` and `tries` are its local variables.

Three history variables serve the properties: `unread` (a SIGHUP came after the
last rescan began), `unseen` (a child died before `ChildNotify` was installed and
`WaitForChild` has not run since) and `stopped` (whether SIGTERM came and what it
interrupted: a blocking call only, work on no display, or work on a display).

### Actions

Each action is the code between two places.  `main` before the loop is `Init`
(the file has been scanned, the SIGTERM handler is in place), `StartDisplays`
runs with `cont = "install"`, `Install` sets the other handlers.
`CheckDisplayStatus`, `StartServerOnce`, `RecordServer`, `ServerPause`,
`RetryServer`, `ForkSession`, `RecordSession` are `StartDisplay` with a place
before and after every `fork()`.  `LoopTest` to `AddDisplayDone` are the loop;
`WaitForSomething`, `EnterSelect`, `PacketArrives`, `Manage`, `AfterSelect` are the
function of that name; `EnterWaitForChild` to `UnknownChild` are `WaitForChild`,
with one action per exit status of a session.  SIGCHLD and SIGHUP are blocked
from `sigprocmask` to `sigsuspend`: a handler that runs at `presuspend` in the
model is the delivery at the start of `sigsuspend`, which is why `Suspend` looks
at the flags.  `StopAll` may run at every place; when it has removed the display
the interrupted code goes on with, `Dangling` holds: the code writes to freed
memory, which either changes nothing the model keeps or aborts the master
(`Crash`).

Abstracted: names, resources and command lines (constants and sets), the order
of the list (any), the reread of the configuration file, `SetLocalAuthorization`
and `resetSignal`, and SIGTERM inside `manage()` between `StopDisplay` and
`NewDisplay`.  XDMCP displays and those of the servers file have different
names.  A process that is sent SIGTERM or `termSignal` ends under the fairness
assumption, and a pid is not reused before `waitpid` returned it.

### Properties

`TypeOK` is the type invariant.  The others:

| property | kind | what it says |
|---|---|---|
| `NoLostChild` | invariant | a running process nobody told to end is on record |
| `OneServer` | invariant | never two running servers for one display |
| `PhoenixBurns` | invariant | a display waiting for its server's end waits for one that is dead or told to die |
| `RestartHasNoSession` | invariant | a display that may be started has no session |
| `ExitLeavesNothing` | invariant | when the master exits nothing healthy is left |
| `ListAgrees` | invariant | the inductive invariant, section 8 |
| `ZombieStays` | action | a display being stopped is never restarted |
| `SessionOnLiveServer` | action | a session starts only on a server nobody told to end |
| `ChildReadyServed` | liveness | a noticed child is waited for |
| `PermanentServed` | liveness | an idle permanent display gets a session |
| `ZombieGoes` | liveness | a stopped display leaves the list |
| `IdleStopExits` | liveness | SIGTERM on a waiting master makes it exit |

The safety properties hold until a SIGTERM interrupts work on a display
(`stopped = "racing"`); what happens then is the subject of `ManagerStopRace`.

## 4. The modules Session, Login and UserAuth

### State and actions

`Session` is one process from `WaitForServer` to `SessionExit`.  `pc` is the place in
the code; `server` is the X server as its connection finds it, `client` the process
`StartClient` forks, from `fork()` (`born`), through `setsid` (`starting`) and
`SetUserAuthorization` (`entering`) to the user's program (`running`), `told` and
`killed` by `AbortClient`, `dead` and `reaped`.  `handler` and `alarm` say what SIGTERM and
SIGALRM do, `handle` is the static PAM handle, `exitWith` the argument of
`SessionExit`.

The greeter is a loop of attempts: `PamStart`, messages and questions of the
modules (`PamConv`), keys (`GreetEvent`, `GreetOk`, `GreetAbort`), `PamReturns` for each of
authenticate, account management, a new password and credentials,
`Verified` or `FailedLogin`, and after `Verified`, which draws its "Login Successful",
`GreetLeaves`, the `CloseGreet` before the startup script.  PAM modules may do anything: the outcome of every
function is a free choice, also after a conversation that the user broke off.
`Login` gives what each event does to the widget; a text is its length, the
cursor, the part shown and whether it was typed without echo.

After the greeter, one action per step between two system calls, with `Term` possible at
every place (`catchTerm` jumps to `AbortClient` from wherever the code is) and
`PingAlarm`, `AbortAlarm` and `DeadAlarm` for the three ways `SIGALRM` leaves `wait()`.

`UserAuth` is the file `~/.Xauthority`: `home` and `new` are its entries and those of the
file written beside it, `lock` XauLockAuth's lock.  `Lock`, `OpenFiles`, `WriteFile`,
`Unlink`, `Link`, `Unlock` are the steps of a writer, taken by the client
(`ClientRuns`) and by the session at its end (`RemoveAuthorization`), with a death or
a jump possible between any two.  The user's other sessions are a third writer
(`OtherWriter`), which takes the same steps one by one in both functions, fails and
dies like the first two, and works whenever the lock is free or its owner dead.

A file can be torn: a writer dies between `unlink` and `link`, or its `link` fails
(`xdm/auth.c:1300`), or `RemoveUserAuthorization` goes on without an old file it could not
open (`xdm/auth.c:595`, `1369`).  All entries of `~/.Xauthority` are then lost, also
those of sessions that had no part in it.  `where` is where the client's
`XAUTHORITY` leads and becomes `lost` when that file is torn; the history variable
`others`, the entries of other sessions that were entered and are owed, becomes empty.

`races` is a history variable.  The code has places where a signal or an alarm
between two steps does real damage; a behaviour that meets one is marked there
and the properties below then promise nothing.  They are:

| value | place | what happens |
|---|---|---|
| `noclient` | `xdm/session.c:459` | SIGTERM before `*pidp` is set: `AbortClient(0)` sends SIGTERM to its own process group, for ever |
| `early` | `xdm/session.c:274` | SIGTERM before the client's `setsid`: it has no process group, survives |
| `late` | `xdm/session.c:617` | SIGTERM in the reset script or `SessionExit`: both run twice, with a freed PAM handle |
| `lost` | `xdm/session.c:485` | the ping alarm after `wait()` has reaped: the exit is lost |
| `alarm` | `xdm/session.c:485` | an alarm that was left on jumps into a frame that has been left |
| `returned` | `xdm/session.c:718` | `StartClient` returns 0 in the child, which goes on as a second session |

Abstracted: the build with PAM and without systemd only; scripts end or are jumped
out of; all characters are one wide; users' names are shorter than the
buffer by two (a longer one meets the write past its end at
`greeter/Login.c:930`); a session has one entry, of an address no other session of the
user has; a writer that lives holds the lock for less than the 10 seconds after which
others break it; the user's other sessions are one writer at a time, as the lock sees to.

### Properties

| property | kind | what it says |
|---|---|---|
| `CursorAlwaysShown` | invariant | the cursor stays inside its text and, where the text is drawn at all (`Painted`), in the shown part, through every key and redraw |
| `SecretHidden` | invariant | what was typed without echo is not drawn in the clear, unless the user broke the conversation off |
| `LoginComplete` | invariant | a client has passed every PAM step, `Verify` and the startup script in one attempt |
| `PamPaired` | invariant | an opened PAM session is closed once at the exit |
| `ResetOnce` | invariant | the reset script ran once when a login ends |
| `ClientGone` | invariant | neither the reset script nor anything of `SessionExit`, nor the end, comes beside a client that goes on |
| `OthersKept` | invariant | no other session's entry is lost, until the file is torn |
| `ClientAuthorized` | invariant | a running client's entry stays in the file, or in the one about to be linked, until the file is torn |
| `AuthorizationRemoved` | invariant | after `RemoveUserAuthorization` the entry is in neither file |
| `LockGivenBack` | invariant | every way out gives the lock back |
| `TermEnds` | liveness | SIGTERM ends the session, whatever the client does |
| `ClientEndNoticed` | liveness | so does the client's end, though pings interrupt `wait()` |
| `ServerDeathNoticed` | liveness | so does the server's death, found by a ping |

What the exceptions of the last section hide is modelled and can be read off the
module: `RemoveUserAuthorization` interrupted by SIGTERM keeps the lock; a client
killed while it holds it makes the session give up on removing the entry; without
`~/.Xauthority` the entry goes to a file in `userAuthDir` that nothing removes
(`xdm/auth.c:1175`, against `man/xdm.man:592`); `link()` that fails sends the client to
`~/.Xauthority-n`, which the next writer unlinks.  What a torn file means for a client is
reachable too: it runs, `where` is `lost` and its entry is nowhere.

## 5. The modules Access and Listen

`Access` is pure: a file is a sequence of lines, a line a sequence of words, and
`ReadAccessDatabase` takes the words one by one into entries as `ReadDisplayEntry` and
`ReadHostEntry` do, with their ways of going on after a word they cannot resolve.
The lookups are functions of the database: `DirectEntry` and `IndirectEntry` (first
match), `IndirectAlias` (macros, cut at `MaxDepth`), `ForEachMatchingIndirectHost`,
`ForEachChooserHost`, `UseChooser`, `AcceptableDisplayAddress`.  Name service and
pattern matching are constants.  `Listen` adds `UpdateListenSockets`: sockets with their
multicast groups, marked by what the database lists and swept, `bind()` failing
where two addresses take one port and where the address is not there.  A macro or
BROADCAST on a LISTEN line is not modelled (`ListenAssumption`): the code takes
its text for an address.

The properties do not look at the database.  They read the file line by line as the
manual page describes it (`FirstLine`, `Served`, `Uses`, `WantedSockets`) and compare:

- `DirectAnswer`: queries, broadcast queries and requests are answered as the first
  line about the client without a host list says;
- `IndirectAnswers`: indirect queries go to the hosts the first line with a list
  leads to, through macros nested or circular, or to the chooser, or nowhere;
- `ListensAsFile`: a rescan leaves exactly the sockets and groups of the file, where
  LISTEN lines name an interface and then groups (`ListenSyntax`) and addresses do not
  overlap; `SocketsMatch`, without the last condition, is violated.

They are about files whose names resolve.  A host that does not is dropped while the
file is read, and an entry whose last host was dropped becomes one for direct
queries: the example `!xtra.lcs.mit.edu dummy` of `man/xdm.man:708`, which is to exclude
a client from indirect service, does not where `dummy` is no host.

## 6. The modules Xdmcp and Sessions

### State

`protos` is the table of `protoDisplays`, `displays` the records of XDMCP displays on the
list, `processes` the children for them (one that was sent SIGTERM stays until it
exits), `indirectUsers` and `choices` the lists of `choose.c`, `lastId` and `now` the
counter of session ids and the clock.  `accepts` and `over` are what terminals may know: the
ACCEPTs that were sent, and the ids that a REFUSE, FAILED or ALIVE declared
dead.  `owner`, `begun`, `reported` and `answer` serve the properties.

### Actions

The network is not a variable.  A packet from a terminal may be lost, repeated and
late, so the ones it may send are enabled for ever: queries and REQUESTs always, a MANAGE
for every ACCEPT, a KEEPALIVE for every session begun.  `Request` is
`request_respond` (find or make the protoDisplay, let old ones expire, choose address and
authorization, accept or decline), `ManageStarts` is `manage()` with the fork of
`StartDisplay`, `ManageRefused` and `ManageFailed` its other answers, a duplicate no
step at all.  `SessionExits` is `WaitForChild`'s part, `ChooserReports` the chooser's
connection, `Rescan` another access file, `Restart` a crash and new start of
the master.

`Sessions` has an id's phases only: offered to one terminal, begun at most once and
while the offer stands, over for good, ids given out in order.  `Phase` maps the
tables to it: open with a record, offered with a protoDisplay, over without either.

Abstracted: an address of a packet determines its family and port (`End`); a terminal
always offers the same addresses and authorization names; names from the
servers file are not those of terminals; no packet has id 0; memory suffices.  Ids
do not wrap, no more than `IdsPerSecond` are given out in a second and the master
starts again in a later second, which is what the code's clock-based start of the
counter relies on.

### Properties

- `RecordsAgree`: one protoDisplay per terminal, one record per name, an id in one
  place, a record running just while its child runs;
- `OverIsFinal`: what a terminal was told not to run does not run, unless it was given a
  newer session since;
- `AuthorizationAgreed`: a session runs with the authorization of the last ACCEPT sent
  for it;
- `ChoiceHonoured`: while a client's last choice is fresh, its indirect queries go there
  and it is shown no chooser;
- `SessionsImplemented`: `Xdmcp` implements `Sessions`.

Met on the way, and kept in the model: after a failed fork the record stays and the
terminal's MANAGE is taken for a duplicate of a session that was started
(`xdm/xdmcp.c:1479`); a duplicate MANAGE of a running session is refused while the
terminal has a newer protoDisplay; protoDisplays expire only when another is made.

## 7. Runs

The first eight instantiate `MCManager`; displays are model values `loc` (permanent,
local), `dyn` (local, transient), `frn` (foreign) and `xd` (XDMCP).

| run | instance | shows |
|---|---|---|
| `ManagerLocal` | `loc`, 3 pids, two tries of everything, failing forks, SIGHUP, SIGUSR2, SIGTERM, a file that changes or vanishes | safety |
| `ManagerMixed` | `dyn` and `xd`, 4 pids, SIGUSR2, SIGTERM, sockets, edited access file, `terminateServer` | safety with XDMCP; a clean exit |
| `ManagerLive` | `loc`, 3 pids, SIGTERM, changing file, `terminateServer` | liveness |
| `ManagerStopRace` | `loc`, SIGTERM | violation of `StopLeavesNothing` |
| `ManagerStopReopen` | `loc`, sockets, edited access file, SIGTERM | violation of `StopExits` |
| `ManagerEarlyDeath` | `frn`, SIGHUP | violation of `SubDaemonKept` |
| `ManagerSelectRace` | `loc` and `xd`, sockets | violation of `SubDaemonRestarted` |
| `ManagerHupLost` | `loc`, SIGHUP, changing file | violation of `HupServed` |
| `Session` | one session, two attempts, two messages in each, two SIGTERMs, another session's writes to the user's file | safety and liveness |
| `Access` | files of up to three lines out of ten, then up to two LISTEN lines out of five | the answers and the sockets |
| `AccessOverlap` | the same | violation of `SocketsMatch` |
| `Xdmcp` | three terminals at one client, two of one name and one without, two access files, three ids, two authorizations, two seconds | safety and the refinement |

Bounds of `Manager`.  A display owns at most one server and one session at a time, plus what
is dying: three pids let a replaced server or session die while its successor
runs, four do the same for the session of a second display.  Counters are bounded by
`StartAttempts`, `ReservAttempts` and `ServerAttempts` as in the code; 2 is the
first value at which "again" and "enough" differ.  One local display reaches
every action except those for dynamic and XDMCP displays, which `ManagerMixed`
adds.  Pids are symmetric in the runs that check safety.

Bounds of the others.  `Session`: two attempts show what one leaves to the next, two
messages fill both prompts, texts of up to four characters over a field of two scroll and
reach the buffer's end, two SIGTERMs let one interrupt the treatment of the other.  The entry
of one other session is enough for one to be lost, by any of the three writers at any of
their steps.  `MaxRaces = 1` lets each of the races of section 4 happen, and none after
another: what comes after the first is promised nothing.  It runs with `GrabServer = FALSE`, the order
with a setup script, and `ResetBy = "pseudo"`, the only way of resetting that can end the
process.  `Access`: three lines are a
wrong first match, two macros that use each other are a cycle, `MaxDepth = 3` is more
than both.  `Xdmcp`: three ids are a session, the one that replaces it and
the one after a restart; timeouts of 0 expire with the first tick; with two
authorizations a REQUEST can be repeated once with a new one; terminals of one address
and two ports, whose names meet, are the case in which records replace each other.

Fairness of `Manager`.  `WF(Master)`: the operating system never stops scheduling the master
between two blocking calls; at `select` and `suspend` no action of the master is enabled,
only a signal or packet moves it, and nothing makes those come.  `WF` of the
death of a process that was told to end, and of a session whose local server is
gone: a server obeys `termSignal`, a session ends on SIGTERM and on the IO error
of its connection.  No fairness for healthy processes, packets, signals or edits.

Fairness of `Session`.  Weak fairness of the steps after the greeter (system calls
return; the greeter itself may wait for ever), of scripts and alarms, and of
the death of a client that was sent SIGKILL; strong fairness of `wait()` returning a dead
client, because the next ping, minutes later, would have to win against it every time.
No fairness for the user, the client or the server.  `Xdmcp` and `Listen` have none and no
liveness property: every step waits for a packet, a process or a person.

`Session` and `Access` are not symmetric; `Session` may stop, so deadlock is not checked
there.

The six violations are disagreements between the code and its documentation:
each quotes the sentence it refutes in `findings`.

- `ManagerStopRace`: SIGTERM after `fork()` and before `d->pid = pid`
  leaves a session nobody terminates (`xdm/dm.c:868`, `897`).
- `ManagerStopReopen`: after `StopAll`, `RescanIfMod` reopens the sockets when the
  access file was edited (`xdm/dm.c:455`), and the master stays.
- `ManagerEarlyDeath`: a session that dies before `xdm/dm.c:271` is not noticed.
- `ManagerSelectRace`: SIGCHLD between `xdm/xdmcp.c:605` and `607` is slept on.
- `ManagerHupLost`: `Rescan = 0` (`xdm/dm.c:286`) erases a SIGHUP that came
  during the rescan.
- `AccessOverlap`: a file that goes from all interfaces to one of them leaves xdm
  without a socket (`xdm/socket.c:504`).

`IdleStopExits` is the part of `StopExits` that the code does keep.

## 8. Proofs

`ManagerProofs` proves, for every set of displays and pids and all values of
the resources, under `ManagerAssumption` only (local and permanent displays come
from the servers file, which names no XDMCP display; those not permanent are
local; counters are natural numbers):

- `TypeCorrect`: `Spec => []TypeOK`;
- `ListAlwaysAgrees`: `Spec => []ListAgrees`;
- from it `NoChildLost`, `ServersUnique`, `PhoenixAlwaysBurns`,
  `IdleHasNoSession`, `ExitIsClean`, and the action properties
  `StoppedStaysStopped` (`ZombieStays`) and `SessionsHaveServers`
  (`SessionOnLiveServer`).

None of the safety properties is inductive alone: that no child is forgotten
needs to know which pid the list holds when a child is reaped, which needs that
two displays never share one, which needs what `StartDisplay` holds in its local
variables between `fork()` and the assignment.  `Linked` collects this: every
pid of the list is a process of its display (`SessionLink`, `ServerLink`, with
the exception of the pid `StartServer` leaves behind when `serverPause` has reaped
it), servers are told to end exactly while their display is a zombie or a phoenix
(`ToldWhenEnding`), sessions of zombies have been told (`ZombieSession`), running
processes are on record (`Recorded`), and what `cur` and `child` mean at each
place (`CurrentDisplay`, `CurrentChild`).  `ListAgrees` is `Linked` until
SIGTERM interrupts work on a display; `RacingStays` shows that this is for good.
The step lemmas follow the actions: `QuietLinked` for those that touch neither
list nor processes, `StopDisplaysLinked` shared by all callers of
`StopDisplay`, `ExitOutcome` and `SessionExitedLinked` shared by all exit statuses.
`ExitIsClean` adds that the list is empty at `exit(0)`.

`XdmcpProofs` proves, for every set of terminals and addresses, any access
files, timeouts and numbers of ids, under `XdmcpAssumption` and `AccessAssumption`:

- `Invariance`: `Spec => []SessionInv`;
- from it `TablesAgree` (`RecordsAgree`), `FinalAnswers` (`OverIsFinal`) and
  `AgreedAuthorizations` (`AuthorizationAgreed`);
- `Refinement`: `Spec => SessionsImplemented`.

`SessionInv` adds to the three properties the types of the tables of sessions
(`SessionTypes`), that every id was given to one terminal and is not above the
counter (`Owned`), that an offer was not begun or, but for a missing name, declared dead
(`OffersOpen`), and that it carries the authorization last sent for it (`OffersAuthorized`): without
the last two a delayed MANAGE could begin a session that is over, or with
another authorization.  Queries and access files touch none of this
(`OtherTablesInv`).  For the refinement, `PhaseOfTables` reads the phase of an id off
the tables, and `EndStep`, `OverStep` and `BeginStep` say once what a step that only ends
sessions, withdraws offers or begins one does; every action is then one of them, an
`Offer` of `Sessions` (`RequestNewStep`) or a stutter.

`SessionProofs` proves every invariant of the run `Session`, for all resources, buffer
and field sizes, bounds and sets of other sessions, under `SessionAssumption`,
`LoginAssumption` and `UserAuthAssumption`:

- `ProcessTypes`: `Spec => []TypeOK`;
- of the greeter `CursorIsShown` (`CursorAlwaysShown`) and `SecretsAreHidden` (`SecretHidden`);
- of the session `LoginsAreComplete`, `PamIsPaired`, `ResetsOnce` and `ClientIsGone`;
- of the user's file `OthersAreKept`, `ClientIsAuthorized`, `AuthorizationIsRemoved` and
  `LockIsGivenBack`.

`CursorIsShown` has a hypothesis, that no key inserts more characters than the field
shows.  `XLookupString` gives one character for a key unless the client rebinds it; an
input method may commit more at once, and where it commits more than the field
shows, `realizeValue` scrolls to where the insertion began and the cursor
is behind what is drawn until the next key.

The inductive invariant is `ProcessInv`.  What it adds to the properties, and why:

- `Phases` cuts the session at `StartupDone`, where the SIGTERM handler is installed:
  before it no client, alarm or file of the user's exists and SIGTERM kills, after it
  the login is complete.  `Passed` ties what the attempt has passed to the PAM
  function that runs and to the handle, for `LoginComplete` and because
  `SessionExit` closes what is open.
- `Undone` says at each place how much of `SessionExit` is done: `closes` and `resets` are
  only known at the exit because they are known everywhere before it.
- `ClientPhase` follows the client through `AbortClient`: a client that was told is
  killed in the next round, and `tries` tells the rounds apart.  `ClientGone` and
  `AuthorizationRemoved` need it, since a client that lives beside
  `RemoveUserAuthorization` could enter its authorization again.
- `Holder` says who may be in the middle of the steps on `~/.Xauthority`: whoever holds the
  lock and is at work there.  With it `FileSteps` reduces every step of the session, its client
  or another session to one of the steps of `UserAuth` by the holder, to one that begins
  while nobody is at work, or to a death.  `Held` says in which file entries are between
  `openFiles` and `link`: in the old one, in the new one, in both.  `OthersSafe` says it of
  what is owed to other sessions, and `OthersStep` proves once for each step that it is
  kept; `OwnThere` says it of the own entry of a running client, which `OthersKeepOwn`
  proves for every step of another session.  `OwnWritten` ties the new file to what its
  writer puts in or takes out, `OwnRemoved` follows the own entry after the session's link.
- `WidgetSound` and `WidgetShown` are the cursor and scroll position of both prompts at every
  step, not only while the user types.  `LoginProofs` proves for each operation of the widget
  that it keeps them; between `SetPrompt` and `SetValue` a prompt is only `Loose`, the cursor
  before the shown part.  `SecretAtPrompt` says where an answer typed without echo can be:
  at the prompt that asks, which the user cannot leave.

`AccessProofs`, `ListenProofs` and `SocketProofs` prove every property of the run
`Access`, for every file, name service, matching and set of addresses, under
`AccessAssumption` and `ListenAssumption`:

- `ListenTypes`: `Spec => []TypeOK`;
- `DirectAnswers`: `Spec => []DirectAnswer`;
- `IndirectAnswered`: `Spec => []IndirectAnswers`, where each file uses at most `MaxDepth`
  macros (`FewMacros`): the code follows no more than `MAX_DEPTH` levels of nesting and
  drops the rest, so the property does not hold for a longer chain;
- `SocketsAsFile`: `Spec => ListensAsFile`.

These are statements about data, and need induction over a file.  The induction
theorems of the library take an operator as a parameter and cannot be used, but
`WFMin` gives a set of numbers its least element, from which `InductionUpTo` follows: a
set that has 0 and with every number its successor has them all.  This is why the model
reads files and lists with recursive functions over numbers instead of folds;
lemmas such as `ReadLineReads` and `IndirectAliasExpands` show that each has its values.
From there:

- `EntryIs` says what an entry has when the words of its line up to `k` are read: type and
  key of the first, flags and hosts of the others, the hosts in order where every
  word is one.  `LineEntry` carries it through a line, `FileEntries` through
  a file whose lines begin with a display that resolves.
- `EntryHosts` and `EntryAbout` turn the tests of the code (no hosts, about the client) into
  those of the manual page, and `SameFirst` first match into first match.
- The macros of a list are the least set that is closed (`UsesIsLeast`).  The sets reached in
  0, 1, ... rounds grow until one round adds nothing (`ReachingGrows`), so a list that uses
  `n` macros has reached all of them after `n` rounds (`AllReached`); a level of
  `IndirectAlias` is such a round (`ExpandWithin`, `ExpandReaches`), and `HostsStand`
  is the answer.  Cycles need no case of their own.
- `Reflects` says where `UpdateListenSockets` stands between two marks: the open sockets are
  the old ones and those asked for, the marked ones are those asked for, and each has joined
  the groups of its lines and none of the old.  `MarkReflects`, `MarkRefused`, `GroupReflects`
  keep it for every mark, `EntryReflects` and `FileReflects` for a line and the file, `Swept`
  reads the result off.  It needs `SocketsInv`: what is open has an address that
  can be bound to, and the wildcard of IPv4 always can.

`ChoiceProofs` proves the rest of the run `Xdmcp`, for all databases that a file can be
read into:

- `QueryInvariance`: `Spec => [](SessionInv /\ QueryInv)`;
- `MasterTypes`: `Spec => []TypeOK`;
- `ChoicesHonoured`: `Spec => ChoiceHonoured`.

`QueryInv` is the type of the tables of `choose.c` and `ChoicesAgree`: a client has
at most one choice, it is the last one reported, and while that is fresh it is on the
list.  Together they are inductive and none is alone: `RegisterIndirectChoice` looks
for an old choice to replace, `IndirectChoice` drops what has timed out while it
searches, and so may drop others than the one asked for.  `Choice` follows a look-up through
the list with `kept`, the list that remains of the entries passed.
`ForEachMatchingIndirectHost` then sends the query to the choice alone, for
every database.

Only model-checked: liveness, as TLAPS cannot reason about `ENABLED` and fairness
(`ChildReadyServed`, `PermanentServed`, `ZombieGoes`, `IdleStopExits`, `TermEnds`,
`ClientEndNoticed`, `ServerDeathNoticed`).  Every other property of a passing run is a theorem.

## 9. Not modelled

`components` says for every part whether and why.  Not modelled: the chooser's own
process and its widgets, the pid file, the server's authorization files and the
enumeration of network interfaces, resources and log formatting, `xdmshell`, random
number generation and cryptography, drawing and geometry, PAM's and Kerberos' own behaviour
(their results are free choices where a session depends on them), paths that memory
or a full disk end.
