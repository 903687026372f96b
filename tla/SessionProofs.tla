--------------------------- MODULE SessionProofs ---------------------------
(***************************************************************************)
(* Proofs about Session: its invariants, for every value of its resources, *)
(* of the widget's sizes and of the bounds.                                *)
(***************************************************************************)
EXTENDS Session, LoginProofs

BeforeLogin == {"open", "xrdb", "init", "setup", "attempt", "pam", "greet", "pamdone", "welcome",
                "startup"}
AfterLogin  == {"opensession", "fork", "forked", "wait", "reaped", "pinging", "abort", "abortwait",
                "reset", "resetting"}
PamClosed   == {"resetserver", "lock", "remove"}   \* where SessionExit has been through pam_end
Gone        == {"none", "killed", "dead", "reaped"}

-----------------------------------------------------------------------------
(* The inductive invariant.                                                *)

\* The loop of WaitForServer counts below openRepeat.
OpenTries == pc = "open" => tries < OpenRepeat

\* ManageSession's handler for SIGTERM divides the session: before it there is no client,
\* no alarm, nothing to reset and no file of the user's, and SIGTERM kills.
Phases ==
  /\ handler = "default" =>
       /\ pc \in BeforeLogin \cup {"closing", "resetserver"} \cup Ended
       /\ client = "none" /\ ~clientPid /\ ~opened /\ alarm = "none" /\ resets = 0
       /\ "startup" \notin granted /\ AuthInit
  /\ handler = "abort" =>
       /\ pc \in AfterLogin \cup {"closing"} \cup PamClosed \cup {"exited", "crashed"}
       /\ granted = Steps

\* What the attempt has passed agrees with the PAM function that runs, and PAM's handle
\* is open from a pam_start that succeeded on.
Passed ==
  /\ pc \in {"pam", "greet"} =>
       /\ pamOk /\ handle = "open"
       /\ \/ call = "auth" /\ granted = {}
          \/ call \in {"acct", "chauthtok"} /\ granted = {"auth"}
          \/ call = "setcred" /\ granted = {"auth", "acct"}
  /\ pc = "pamdone" /\ pamOk => handle = "open" /\ granted = {"auth", "acct", "cred"}
  /\ pc \in {"welcome", "startup"} => handle = "open" /\ granted = Steps \ {"startup"}

\* PAM and the reset script: what has been done of SessionExit at each place.
Undone ==
  /\ pc = "crashed" => races # {}
  /\ races = {} =>
       /\ closes <= 1
       /\ pc \notin PamClosed \cup Ended => closes = 0
       /\ handler = "abort" =>
            /\ pc \in AfterLogin \cup {"closing"} => handle = "open"
            /\ pc \in PamClosed \cup {"exited"} => closes = 1
            /\ resets = IF pc \in {"resetting", "closing", "exited"} \cup PamClosed THEN 1 ELSE 0

\* How far AbortClient's rounds, or wait(), have brought the client.
ClientPhase ==
  /\ pc \in {"opensession", "fork"} => client = "none" /\ ~clientPid
  /\ clientPid \/ pc = "forked" => client # "none"
  /\ pc = "reaped" => client = "reaped"
  /\ races = {} =>
       /\ pc = "abort" /\ tries > 0 => client \in Gone \cup {"told"}
       /\ pc = "abortwait" => client \in Gone \cup IF tries = 0 THEN {"told"} ELSE {}
       /\ handler = "abort" /\ pc \in {"reset", "resetting", "closing", "exited"} \cup PamClosed
            => client \in Gone

\* Who holds the lock on ~/.Xauthority, and is in the middle of its steps.
Holder ==
  /\ client = "entering" => lock = "client" /\ step # "out"
  /\ pc = "remove" => lock = "session" /\ step # "out"
  /\ lock = "client" => client \in {"entering", "told", "killed", "dead", "reaped"}
  /\ lock = "session" => pc = "remove" \/ races # {}
  /\ step # "out" => \/ lock = "client" /\ client = "entering"
                     \/ lock = "session" /\ pc = "remove"
                     \/ lock = "other"

\* Entries are held in the file, or in what is about to become it.
Held(entries) ==
  /\ step # "removed" => entries \subseteq Entries(home)
  /\ step = "opened" => entries \subseteq Entries(old)
  /\ step \in {"written", "removed"} => entries \subseteq new
  /\ step = "removed" => home = NoFile \/ entries \subseteq home

\* Those of other sessions are, until the file is torn.
OthersSafe == Held(others)

\* What SetUserAuthorization adds is in the file that is about to be put in place: the
\* session's own entry is there when its client writes, and not when the session does.
OwnWritten ==
  /\ added # {} => step \in {"written", "removed"}
  /\ step \in {"written", "removed"} =>
       /\ added \subseteq new
       /\ lock = "client" => Own \in new
       /\ lock = "session" => Own \notin new

\* The session's entry is held from the client's link on, until the file is torn.
OwnThere ==
  races = {} /\ where = "home" /\ (client = "running" \/ (client = "entering" /\ step = "linked"))
    => Held({Own})

\* It is gone from the session's link on, which is the end of the session's writing.
OwnRemoved ==
  races = {} /\ tidied =>
    /\ pc \in {"remove", "exited"} /\ (pc = "remove" => step = "linked")
    /\ Own \notin Entries(home) \cup new

\* Until a key ends the session, a secret is only at the prompt pamconv has asked with,
\* without echo, and the user cannot go to the other prompt.
SecretAtPrompt ==
  ~userAborted =>
    /\ ~widget.leaked
    /\ \A i \in PromptId : widget.prompt[i].secret =>
         pc = "greet" /\ i = prompt /\ widget.prompt[i].style = "off"
    /\ pc = "greet" => prompt = PromptOf /\ widget.active = prompt
    /\ pc = "greet" /\ user => widget.prompt[0].style = "info"
    /\ pc \in {"pam", "greet"} /\ ~user => widget.prompt[1].style = "hidden"

WidgetSound == SoundWidget(widget)
WidgetShown == ShownWidget(widget)

-----------------------------------------------------------------------------
(* What the groups of actions leave alone.                                 *)

Early == WaitForServer \/ LoadGreeter \/ InitGreet \/ SetupDone \/ Greeter

Around == \/ PingAlarm \/ DeadAlarm \/ ScriptEnds \/ ClientStarts \/ ClientRuns \/ Impostor
          \/ ClientDies \/ OtherSessions \/ ServerChanges

\* The groups of actions make up the next-state relation.
LEMMA NextCases == [Next]_vars <=> Early \/ Manage \/ Around \/ Term \/ UNCHANGED vars
BY DEF Next, Early, Around, Environment

\* Up to Verify nothing is done for a client.
LEMMA EarlyFrame ==
  ASSUME Early
  PROVE  /\ UNCHANGED <<handler, alarm, clientPid, client, opened, resets, terms, closes, races,
                        authVars>>
         /\ pc \in BeforeLogin \ {"startup"} /\ pc' \in BeforeLogin \cup {"closing", "exited"}
         /\ pc' = "open" => pc = "open"
<1> USE DEF BeforeLogin, clientVars, Exit, SessionExit
<1>1. CASE WaitForServer \/ LoadGreeter
  BY <1>1 DEF WaitForServer, LoadGreeter
<1>2. CASE InitGreet \/ SetupDone
  BY <1>2 DEF InitGreet, SetupDone
<1>3. CASE PamStart \/ PamConv \/ GreetEvent \/ GreetOk \/ GreetAbort
  BY <1>3 DEF PamStart, PamConv, GreetEvent, GreetOk, GreetAbort
<1>4. CASE GreetPing \/ XlibError \/ PamReturns
  BY <1>4 DEF GreetPing, XlibError, PamReturns
<1>5. CASE GreetCode \/ Verified \/ GreetLeaves \/ FailedLogin
  BY <1>5 DEF GreetCode, Verified, GreetLeaves, FailedLogin
<1> QED BY <1>1, <1>2, <1>3, <1>4, <1>5 DEF Early, Greeter

\* Once the startup script runs, the greeter and its conversation are over.
LEMMA ManageFrame ==
  ASSUME Manage
  PROVE  /\ UNCHANGED <<greeterVars, attempts, userAborted, server, terms>>
         /\ pc \in AfterLogin \cup {"startup", "closing"} \cup PamClosed
         /\ pc' \in AfterLogin \cup {"closing", "exited", "crashed"} \cup PamClosed
<1> USE DEF AfterLogin, PamClosed, clientVars, Exit, SessionExit, Waiting, AbortDone
<1>1. CASE StartupDone \/ OpenPamSession \/ ForkClient \/ RecordClient
  BY <1>1 DEF StartupDone, OpenPamSession, ForkClient, RecordClient
<1>2. CASE ReapClient \/ ClientEnded \/ PingServer
  BY <1>2 DEF ReapClient, ClientEnded, PingServer
<1>3. CASE AbortClient \/ AbortReaps \/ AbortAlarm
  BY <1>3 DEF AbortClient, AbortReaps, AbortAlarm
<1>4. CASE RunReset \/ ResetDone \/ ClosePam
  BY <1>4 DEF RunReset, ResetDone, ClosePam
<1>5. CASE ResetServer \/ RemoveAuthorization
  BY <1>5 DEF ResetServer, RemoveAuthorization
<1> QED BY <1>1, <1>2, <1>3, <1>4, <1>5 DEF Manage

\* Alarms move the session to a few places; the client, the scripts, other sessions and
\* the X server do not move it.
LEMMA AroundFrame ==
  ASSUME Around
  PROVE  /\ UNCHANGED <<greeterVars, attempts, handle, userAborted, handler, clientPid, opened,
                        exitWith, status, terms, granted, tries>>
         /\ \/ pc' = pc
            \/ pc' = "crashed" /\ pc \notin Ended
            \/ pc' = "pinging" /\ pc \in {"wait", "reaped", "abort", "reset", "resetting", "closing"}
<1> USE DEF clientVars, sessionVars, greeterVars
<1>1. CASE PingAlarm \/ DeadAlarm
  BY <1>1 DEF PingAlarm, DeadAlarm
<1>2. CASE ScriptEnds \/ ClientStarts \/ ServerChanges
  BY <1>2 DEF ScriptEnds, ClientStarts, ServerChanges
<1>3. CASE ClientRuns
  BY <1>3 DEF ClientRuns
<1>4. CASE Impostor \/ ClientDies \/ OtherSessions
  BY <1>4 DEF Impostor, ClientDies, OtherSessions
<1> QED BY <1>1, <1>2, <1>3, <1>4 DEF Around

-----------------------------------------------------------------------------
(* Types.                                                                  *)

\* Every step on the authorization file keeps the types of its variables.
LEMMA AuthTypesKept ==
  ASSUME AuthTypes, NEW w \in {"client", "session", "other"},
         \/ Lock(w) \/ Writes(w) \/ Unlock \/ Interrupted(w) \/ RemovesNothing
         \/ OpenFails /\ where' \in {"none", "home", "backup", "new", "lost"}
         \/ Backup /\ UNCHANGED <<home, new, lock, step, old, added, others, tidied>>
  PROVE  AuthTypes'
<1> USE DEF Promised, Led
<1>1. CASE Lock(w)
  BY <1>1 DEF Lock, AuthTypes, Files
<1>2. CASE Writes(w)
  <2>1. CASE OpenFiles(w)
    BY <2>1 DEF OpenFiles, AuthTypes, Files
  <2>2. CASE WriteFile(w)
    <3>1. EntryOf(w) \subseteq Others \cup {Own} /\ Entries(old) \subseteq Others \cup {Own}
      BY DEF EntryOf, AuthTypes, Files, Entries
    <3> QED BY <2>2, <3>1 DEF WriteFile, AuthTypes, Files, Merged, Remaining
  <2>3. CASE Unlink
    BY <2>3 DEF Unlink, AuthTypes, Files
  <2>4. CASE Link(w)
    BY <2>4 DEF Link, AuthTypes, Files
  <2> QED BY <1>2, <2>1, <2>2, <2>3, <2>4 DEF Writes
<1>3. CASE Unlock
  BY <1>3 DEF Unlock, Unlocked, AuthTypes, Files
<1>4. CASE Interrupted(w)
  BY <1>4 DEF Interrupted, AuthTypes, Files
<1>5. CASE RemovesNothing
  BY <1>5 DEF RemovesNothing, Unlocked, authVars, AuthTypes, Files, Remaining, Entries
<1>6. CASE OpenFails /\ where' \in {"none", "home", "backup", "new", "lost"}
  BY <1>6 DEF OpenFails, Unlocked, AuthTypes, Files
<1>7. CASE Backup /\ UNCHANGED <<home, new, lock, step, old, added, others, tidied>>
  BY <1>7 DEF Backup, AuthTypes, Files
<1> QED BY <1>1, <1>2, <1>3, <1>4, <1>5, <1>6, <1>7

GreetTypes ==
  /\ code \in {"none", "REMANAGE", "UNMANAGE", "RESERVER"}
  /\ call \in {"none", "auth", "acct", "chauthtok", "setcred"}
  /\ prompt \in PromptId /\ user \in BOOLEAN /\ pamOk \in BOOLEAN
  /\ userAborted \in BOOLEAN

PlaceTypes ==
  /\ pc \in Places /\ script \in BOOLEAN
  /\ server \in {"starting", "up", "hung", "down"}
  /\ exitWith \in Codes \cup {"none"} /\ status \in Codes \cup {"none"}

CountTypes ==
  /\ messages \in 0 .. MaxMessages /\ attempts \in 0 .. MaxAttempts
  /\ tries \in 0 .. Larger(OpenRepeat, 3) /\ terms \in 0 .. MaxTerms

ClientTypes ==
  /\ handler \in {"default", "abort"} /\ alarm \in {"none", "ping", "abort", "dead"}
  /\ clientPid \in BOOLEAN /\ opened \in BOOLEAN
  /\ client \in {"none", "born", "starting", "impostor", "entering", "running", "told", "killed",
                 "dead", "reaped"}
  /\ races \in SUBSET Races

EndTypes ==
  /\ handle \in {"none", "open", "ended"} /\ granted \in SUBSET Steps
  /\ closes \in Nat /\ resets \in Nat

\* The type invariant in parts: what the greeter keeps, the place in the code, the counters
\* and their bounds, the client, and how far SessionExit is.
LEMMA TypesSplit ==
  TypeOK <=> /\ GreetTypes /\ PlaceTypes /\ CountTypes /\ ClientTypes /\ EndTypes
             /\ widget \in Widgets /\ AuthTypes
BY DEF TypeOK, GreetTypes, PlaceTypes, CountTypes, ClientTypes, EndTypes

\* The greeter's variables keep their types.
LEMMA GreetTypesKept ==
  ASSUME GreetTypes, [Next]_vars
  PROVE  GreetTypes'
<1> USE DEF GreetTypes, PromptId
<1>1. CASE Early
  <2> USE DEF greeterVars, clientVars, GreeterLeft
  <2>1. CASE WaitForServer \/ LoadGreeter \/ InitGreet \/ SetupDone
    BY <2>1 DEF WaitForServer, LoadGreeter, InitGreet, SetupDone
  <2>2. CASE PamStart
    BY <2>2 DEF PamStart
  <2>3. CASE PamConv
    BY <2>3 DEF PamConv, PromptOf
  <2>4. CASE GreetEvent \/ GreetOk \/ GreetAbort
    BY <2>4 DEF GreetEvent, GreetOk, GreetAbort
  <2>5. CASE GreetPing \/ XlibError
    BY <2>5 DEF GreetPing, XlibError
  <2>6. CASE PamReturns
    BY <2>6 DEF PamReturns
  <2>7. CASE GreetCode \/ Verified \/ GreetLeaves \/ FailedLogin
    BY <2>7 DEF GreetCode, Verified, GreetLeaves, FailedLogin
  <2> QED BY <1>1, <2>1, <2>2, <2>3, <2>4, <2>5, <2>6, <2>7 DEF Early, Greeter
<1>2. CASE Manage
  BY <1>2, ManageFrame DEF greeterVars
<1>3. CASE Around
  BY <1>3, AroundFrame DEF greeterVars
<1>4. CASE Term
  BY <1>4 DEF Term, GreeterLeft
<1>5. CASE UNCHANGED vars
  BY <1>5 DEF vars, sessionVars
<1> QED BY <1>1, <1>2, <1>3, <1>4, <1>5, NextCases

\* So do the place in the code, the X server and the exit status.
LEMMA PlaceTypesKept ==
  ASSUME PlaceTypes, GreetTypes, [Next]_vars
  PROVE  PlaceTypes'
<1>0. pc' \in Places
  <2>1. CASE Early \/ Manage \/ Around
    BY <2>1, EarlyFrame, ManageFrame, AroundFrame
       DEF BeforeLogin, AfterLogin, PamClosed, Places, Ended, PlaceTypes
  <2>2. CASE Term \/ UNCHANGED vars
    BY <2>2 DEF Term, vars, sessionVars, Places, Ended, PlaceTypes
  <2> QED BY <2>1, <2>2, NextCases
<1> SUFFICES /\ script' \in BOOLEAN
             /\ server' \in {"starting", "up", "hung", "down"}
             /\ exitWith' \in Codes \cup {"none"} /\ status' \in Codes \cup {"none"}
  BY <1>0 DEF PlaceTypes
<1> USE DEF PlaceTypes, Codes
<1>1. CASE Early
  <2> USE DEF Exit, SessionExit, GreetTypes
  <2>1. CASE WaitForServer
    BY <2>1 DEF WaitForServer
  <2>2. CASE LoadGreeter \/ InitGreet \/ SetupDone
    BY <2>2 DEF LoadGreeter, InitGreet, SetupDone
  <2>3. CASE PamStart \/ PamConv \/ GreetEvent \/ GreetOk \/ GreetAbort
    BY <2>3 DEF PamStart, PamConv, GreetEvent, GreetOk, GreetAbort
  <2>4. CASE GreetPing \/ XlibError \/ PamReturns
    BY <2>4 DEF GreetPing, XlibError, PamReturns
  <2>5. CASE GreetCode \/ Verified \/ GreetLeaves \/ FailedLogin
    BY <2>5 DEF GreetCode, Verified, GreetLeaves, FailedLogin
  <2> QED BY <1>1, <2>1, <2>2, <2>3, <2>4, <2>5 DEF Early, Greeter
<1>2. CASE Manage
  <2> USE DEF clientVars, Exit, SessionExit, Waiting, AbortDone
  <2>1. CASE StartupDone \/ OpenPamSession \/ ForkClient \/ RecordClient \/ ReapClient
    BY <2>1 DEF StartupDone, OpenPamSession, ForkClient, RecordClient, ReapClient
  <2>2. CASE ClientEnded \/ PingServer
    BY <2>2 DEF ClientEnded, PingServer
  <2>3. CASE AbortClient \/ AbortReaps \/ AbortAlarm
    BY <2>3 DEF AbortClient, AbortReaps, AbortAlarm
  <2>4. CASE RunReset \/ ResetDone \/ ClosePam
    BY <2>4 DEF RunReset, ResetDone, ClosePam
  <2>5. CASE ResetServer \/ RemoveAuthorization
    BY <2>5 DEF ResetServer, RemoveAuthorization
  <2> QED BY <1>2, <2>1, <2>2, <2>3, <2>4, <2>5 DEF Manage
<1>3. CASE Around
  <2> USE DEF clientVars, sessionVars
  <2>1. CASE PingAlarm \/ DeadAlarm \/ ScriptEnds \/ ClientStarts \/ ServerChanges
    BY <2>1 DEF PingAlarm, DeadAlarm, ScriptEnds, ClientStarts, ServerChanges
  <2>2. CASE ClientRuns \/ Impostor \/ ClientDies \/ OtherSessions
    BY <2>2 DEF ClientRuns, Impostor, ClientDies, OtherSessions
  <2> QED BY <1>3, <2>1, <2>2 DEF Around
<1>4. CASE Term
  BY <1>4 DEF Term
<1>5. CASE UNCHANGED vars
  BY <1>5 DEF vars, sessionVars
<1> QED BY <1>1, <1>2, <1>3, <1>4, <1>5, NextCases

\* The counters stay below their bounds: AbortClient's rounds and WaitForServer's share tries.
LEMMA CountTypesKept ==
  ASSUME CountTypes, OpenTries, [Next]_vars
  PROVE  CountTypes' /\ OpenTries'
<1>1. \/ messages' \in {messages, 0}
      \/ messages < MaxMessages /\ messages' = messages + 1
  <2> USE DEF greeterVars, clientVars, GreeterLeft
  <2>1. CASE WaitForServer \/ LoadGreeter \/ InitGreet \/ SetupDone
    BY <2>1 DEF WaitForServer, LoadGreeter, InitGreet, SetupDone
  <2>2. CASE PamStart \/ PamConv \/ GreetEvent \/ GreetOk \/ GreetAbort \/ PamReturns
    BY <2>2 DEF PamStart, PamConv, GreetEvent, GreetOk, GreetAbort, PamReturns
  <2>3. CASE \/ GreetPing \/ XlibError \/ GreetCode \/ Verified \/ GreetLeaves \/ FailedLogin
              \/ Term
    BY <2>3 DEF GreetPing, XlibError, GreetCode, Verified, GreetLeaves, FailedLogin, Term
  <2>4. CASE Manage \/ Around \/ UNCHANGED vars
    BY <2>4, ManageFrame, AroundFrame DEF vars, sessionVars
  <2> QED BY <2>1, <2>2, <2>3, <2>4, NextCases DEF Early, Greeter
<1>2. \/ attempts' \in {attempts, 0}
      \/ attempts < MaxAttempts /\ attempts' = attempts + 1
  <2> USE DEF GreeterLeft
  <2>1. CASE WaitForServer \/ LoadGreeter \/ InitGreet \/ SetupDone
    BY <2>1 DEF WaitForServer, LoadGreeter, InitGreet, SetupDone
  <2>2. CASE PamStart \/ PamConv \/ GreetEvent \/ GreetOk \/ GreetAbort \/ PamReturns
    BY <2>2 DEF PamStart, PamConv, GreetEvent, GreetOk, GreetAbort, PamReturns
  <2>3. CASE \/ GreetPing \/ XlibError \/ GreetCode \/ Verified \/ GreetLeaves \/ FailedLogin
              \/ Term
    BY <2>3 DEF GreetPing, XlibError, GreetCode, Verified, GreetLeaves, FailedLogin, Term
  <2>4. CASE Manage \/ Around \/ UNCHANGED vars
    BY <2>4, ManageFrame, AroundFrame DEF vars, sessionVars
  <2> QED BY <2>1, <2>2, <2>3, <2>4, NextCases DEF Early, Greeter
<1>3. terms' = terms \/ (terms < MaxTerms /\ terms' = terms + 1)
  <2>1. CASE Early \/ Manage \/ Around \/ UNCHANGED vars
    BY <2>1, EarlyFrame, ManageFrame, AroundFrame DEF vars, sessionVars
  <2>2. CASE Term
    BY <2>2 DEF Term
  <2> QED BY <2>1, <2>2, NextCases
<1>4. /\ \/ tries' \in {tries, 0}
         \/ tries < Larger(OpenRepeat, 3) /\ tries' = tries + 1
      /\ OpenTries'
  <2> USE DEF OpenTries
  <2>1. CASE WaitForServer
    <3>1. tries < OpenRepeat /\ tries \in Nat
      BY <2>1 DEF WaitForServer, CountTypes
    <3>2. tries < Larger(OpenRepeat, 3)
      BY <3>1, SessionAssumption DEF Larger
    <3> QED BY <2>1, <3>2, SessionAssumption DEF WaitForServer, Exit
  <2>2. CASE LoadGreeter \/ InitGreet \/ SetupDone
    BY <2>2 DEF LoadGreeter, InitGreet, SetupDone, Exit, SessionExit
  <2>3. CASE Greeter
    <3>1. UNCHANGED tries
      BY <2>3 DEF Greeter, PamStart, PamConv, GreetEvent, GreetOk, GreetAbort, GreetPing,
                  XlibError, PamReturns, GreetCode, Verified, GreetLeaves, FailedLogin
    <3>2. pc' # "open"
      BY <2>3 DEF Greeter, PamStart, PamConv, GreetEvent, GreetOk, GreetAbort, GreetPing, Exit,
                  XlibError, PamReturns, GreetCode, Verified, GreetLeaves, FailedLogin,
                  SessionExit
    <3> QED BY <3>1, <3>2
  <2>4. CASE Manage
    <3>1. pc' # "open"
      BY <2>4, ManageFrame DEF AfterLogin, PamClosed
    <3>2. CASE AbortAlarm
      <4>1. tries < 3 => tries < Larger(OpenRepeat, 3)
        BY SessionAssumption DEF CountTypes, Larger
      <4> QED BY <3>1, <3>2, <4>1 DEF AbortAlarm
    <3>3. CASE StartupDone \/ OpenPamSession \/ ForkClient \/ RecordClient \/ ReapClient \/ ClientEnded
      BY <3>1, <3>3 DEF StartupDone, OpenPamSession, ForkClient, RecordClient, ReapClient,
                        ClientEnded
    <3>4. CASE PingServer \/ AbortClient \/ AbortReaps \/ RunReset \/ ResetDone
      BY <3>1, <3>4 DEF PingServer, AbortClient, AbortDone, AbortReaps, RunReset, ResetDone
    <3>5. CASE ClosePam \/ ResetServer \/ RemoveAuthorization
      BY <3>1, <3>5 DEF ClosePam, ResetServer, RemoveAuthorization
    <3> QED BY <2>4, <3>2, <3>3, <3>4, <3>5 DEF Manage
  <2>5. CASE Term
    BY <2>5 DEF Term
  <2>6. CASE Around \/ UNCHANGED vars
    BY <2>6, AroundFrame DEF vars, sessionVars
  <2> QED BY <2>1, <2>2, <2>3, <2>4, <2>5, <2>6, NextCases DEF Early
<1>5. messages' \in 0 .. MaxMessages /\ attempts' \in 0 .. MaxAttempts /\ terms' \in 0 .. MaxTerms
  BY <1>1, <1>2, <1>3, SessionAssumption DEF CountTypes
<1>6. tries' \in 0 .. Larger(OpenRepeat, 3)
  <2>1. Larger(OpenRepeat, 3) \in Nat
    BY SessionAssumption DEF Larger
  <2> QED BY <1>4, <2>1 DEF CountTypes
<1> QED BY <1>4, <1>5, <1>6 DEF CountTypes

\* What is known of the client keeps its type.
LEMMA ClientTypesKept ==
  ASSUME ClientTypes, [Next]_vars
  PROVE  ClientTypes'
<1> USE DEF ClientTypes
<1>1. CASE Early
  BY <1>1, EarlyFrame
<1>2. CASE Manage
  <2> USE DEF clientVars, Waiting, AbortDone, Races, Raced
  <2>1. CASE StartupDone \/ OpenPamSession \/ ForkClient \/ RecordClient \/ ReapClient
    BY <2>1 DEF StartupDone, OpenPamSession, ForkClient, RecordClient, ReapClient
  <2>2. CASE ClientEnded \/ PingServer
    BY <2>2 DEF ClientEnded, PingServer
  <2>3. CASE AbortClient
    BY <2>3 DEF AbortClient
  <2>4. CASE AbortReaps \/ AbortAlarm
    BY <2>4 DEF AbortReaps, AbortAlarm
  <2>5. CASE RunReset \/ ResetDone \/ ClosePam \/ ResetServer \/ RemoveAuthorization
    BY <2>5 DEF RunReset, ResetDone, ClosePam, ResetServer, RemoveAuthorization
  <2> QED BY <1>2, <2>1, <2>2, <2>3, <2>4, <2>5 DEF Manage
<1>3. CASE Around
  <2> USE DEF clientVars, sessionVars, Races, Raced
  <2>1. CASE PingAlarm \/ DeadAlarm \/ ScriptEnds \/ ClientStarts \/ ServerChanges
    BY <2>1 DEF PingAlarm, DeadAlarm, ScriptEnds, ClientStarts, ServerChanges
  <2>2. CASE ClientRuns \/ Impostor \/ ClientDies \/ OtherSessions
    BY <2>2 DEF ClientRuns, Impostor, ClientDies, OtherSessions
  <2> QED BY <1>3, <2>1, <2>2 DEF Around
<1>4. CASE Term
  BY <1>4 DEF Term, Races, Raced
<1>5. CASE UNCHANGED vars
  BY <1>5 DEF vars, sessionVars
<1> QED BY <1>1, <1>2, <1>3, <1>4, <1>5, NextCases

\* So do PAM's handle and the counts of what SessionExit does.
LEMMA EndTypesKept ==
  ASSUME EndTypes, [Next]_vars
  PROVE  EndTypes'
<1> USE DEF EndTypes
<1>1. CASE Early
  <2>0. UNCHANGED <<closes, resets>>
    BY <1>1, EarlyFrame
  <2>1. CASE WaitForServer \/ LoadGreeter \/ InitGreet \/ SetupDone
    BY <2>0, <2>1 DEF WaitForServer, LoadGreeter, InitGreet, SetupDone
  <2>2. CASE PamStart \/ PamConv \/ GreetEvent \/ GreetOk \/ GreetAbort
    BY <2>0, <2>2 DEF PamStart, PamConv, GreetEvent, GreetOk, GreetAbort
  <2>3. CASE GreetPing \/ XlibError \/ PamReturns
    BY <2>0, <2>3 DEF GreetPing, XlibError, PamReturns, Steps
  <2>4. CASE GreetCode \/ Verified \/ GreetLeaves \/ FailedLogin
    BY <2>0, <2>4 DEF GreetCode, Verified, GreetLeaves, FailedLogin, Steps
  <2> QED BY <1>1, <2>1, <2>2, <2>3, <2>4 DEF Early, Greeter
<1>2. CASE Manage
  <2> USE DEF clientVars
  <2>1. CASE StartupDone \/ OpenPamSession \/ ForkClient \/ RecordClient \/ ReapClient
    BY <2>1 DEF StartupDone, OpenPamSession, ForkClient, RecordClient, ReapClient, Steps
  <2>2. CASE ClientEnded \/ PingServer \/ AbortClient \/ AbortReaps \/ AbortAlarm
    BY <2>2 DEF ClientEnded, PingServer, AbortClient, AbortReaps, AbortAlarm
  <2>3. CASE RunReset \/ ResetDone \/ ClosePam \/ ResetServer \/ RemoveAuthorization
    BY <2>3 DEF RunReset, ResetDone, ClosePam, ResetServer, RemoveAuthorization
  <2> QED BY <1>2, <2>1, <2>2, <2>3 DEF Manage
<1>3. CASE Around
  <2> USE DEF clientVars, sessionVars
  <2>1. CASE PingAlarm \/ DeadAlarm \/ ScriptEnds \/ ClientStarts \/ ServerChanges
    BY <2>1 DEF PingAlarm, DeadAlarm, ScriptEnds, ClientStarts, ServerChanges
  <2>2. CASE ClientRuns \/ ClientDies \/ OtherSessions
    BY <2>2 DEF ClientRuns, ClientDies, OtherSessions
  <2>3. CASE Impostor
    BY <2>3 DEF Impostor
  <2> QED BY <1>3, <2>1, <2>2, <2>3 DEF Around
<1>4. CASE Term
  BY <1>4 DEF Term
<1>5. CASE UNCHANGED vars
  BY <1>5 DEF vars, sessionVars
<1> QED BY <1>1, <1>2, <1>3, <1>4, <1>5, NextCases

\* The steps of the session that touch the user's files, and those that do not.
LEMMA FilesAlone ==
  ASSUME \/ Early \/ (Manage /\ ~AbortClient /\ ~RemoveAuthorization)
         \/ PingAlarm \/ ScriptEnds \/ ClientStarts \/ ServerChanges \/ UNCHANGED vars
  PROVE  UNCHANGED authVars
<1>1. CASE Early
  BY <1>1, EarlyFrame
<1>2. CASE Manage /\ ~AbortClient /\ ~RemoveAuthorization
  <2>1. CASE StartupDone \/ OpenPamSession \/ ForkClient \/ RecordClient \/ ReapClient
    BY <2>1 DEF StartupDone, OpenPamSession, ForkClient, RecordClient, ReapClient
  <2>2. CASE ClientEnded \/ PingServer \/ AbortReaps \/ AbortAlarm
    BY <2>2 DEF ClientEnded, PingServer, AbortReaps, AbortAlarm
  <2>3. CASE RunReset \/ ResetDone \/ ClosePam \/ ResetServer
    BY <2>3 DEF RunReset, ResetDone, ClosePam, ResetServer
  <2> QED BY <1>2, <2>1, <2>2, <2>3 DEF Manage
<1>3. CASE PingAlarm \/ ScriptEnds \/ ClientStarts \/ ServerChanges
  BY <1>3 DEF PingAlarm, ScriptEnds, ClientStarts, ServerChanges
<1>4. CASE UNCHANGED vars
  BY <1>4 DEF vars
<1> QED BY <1>1, <1>2, <1>3, <1>4

\* Every step of the session keeps the types of the user's authorization file.
LEMMA AuthTypesStep ==
  ASSUME AuthTypes, [Next]_vars
  PROVE  AuthTypes'
<1>0. ASSUME UNCHANGED authVars PROVE AuthTypes'
  BY <1>0 DEF authVars, AuthTypes, Files
<1>1. CASE AbortClient
  BY <1>0, <1>1, AuthTypesKept DEF AbortClient
<1>2. CASE RemoveAuthorization
  BY <1>0, <1>2, AuthTypesKept DEF RemoveAuthorization, AuthTypes
<1>3. CASE DeadAlarm \/ Term
  BY <1>0, <1>3, AuthTypesKept DEF DeadAlarm, Term
<1>4. CASE ClientRuns
  BY <1>4, AuthTypesKept DEF ClientRuns, Backup
<1>5. CASE Impostor \/ ClientDies
  BY <1>5, AuthTypesKept DEF Impostor, ClientDies
<1>6. CASE OtherSessions
  BY <1>6, AuthTypesKept DEF OtherSessions, OtherWriter, AuthTypes
<1> QED
  BY <1>0, <1>1, <1>2, <1>3, <1>4, <1>5, <1>6, FilesAlone, NextCases DEF Around

-----------------------------------------------------------------------------
(* The widget.                                                             *)

\* pamconv's name line, if PAM knows the name, is not secret.
LEMMA NamedSound ==
  ASSUME WidgetSound
  PROVE  /\ SoundWidget(Named) /\ (WidgetShown => ShownWidget(Named))
         /\ NoSecret(widget) => NoSecret(Named) /\ Named.leaked = widget.leaked
         /\ user => Named.prompt[0].style = "info"
         /\ ~user => Named = widget
<1>1. CASE user
  <2>1. 0 \in PromptId /\ NameLength \in 0 .. (TextMax - 2)
    BY SessionAssumption, LoginAssumption DEF PromptId
  <2>2. /\ SoundWidget(Named) /\ ShownWidget(Named)
        /\ NoSecret(widget) => NoSecret(Named) /\ Named.leaked = widget.leaked
        /\ Named.prompt[0].style = "info"
    BY <1>1, <2>1, AskedSound DEF Named, WidgetSound
  <2> QED BY <1>1, <2>2
<1>2. CASE ~user
  BY <1>2 DEF Named, WidgetSound, WidgetShown
<1> QED BY <1>1, <1>2

\* After a message or a question of a module: the cursors are shown, what was secret
\* before is as it was, and a question is put at its prompt.
LEMMA PamConvSound ==
  ASSUME WidgetSound, PamConv
  PROVE  /\ WidgetSound' /\ (WidgetShown => WidgetShown')
         /\ NoSecret(widget) => NoSecret(widget') /\ widget'.leaked = widget.leaked
         /\ pc' = "greet" => /\ widget'.active = PromptOf
                             /\ user => widget'.prompt[0].style = "info"
         /\ ~user => widget'.prompt[1].style = widget.prompt[1].style
<1>1. /\ SoundWidget(Named) /\ (WidgetShown => ShownWidget(Named))
      /\ NoSecret(widget) => NoSecret(Named) /\ Named.leaked = widget.leaked
      /\ user => Named.prompt[0].style = "info"
      /\ ~user => Named = widget
  BY NamedSound
<1>2. PromptOf \in PromptId /\ 0 \in 0 .. (TextMax - 2)
  BY LoginAssumption DEF PromptOf, PromptId
<1>3. Named \in Widgets
  BY <1>1 DEF SoundWidget
<1>4. CASE widget' = ErrorMessage(Named, TRUE) /\ UNCHANGED pc
  <2>1. widget' \in Widgets /\ widget'.prompt = Named.prompt /\ widget'.leaked = Named.leaked
    BY <1>3, <1>4, SamePrompts
  <2>2. pc' # "greet"
    BY <1>4 DEF PamConv
  <2> QED BY <1>1, <2>1, <2>2 DEF WidgetSound, WidgetShown, SoundWidget, ShownWidget, NoSecret
<1>5. CASE \E style \in {"on", "off", "info"} :
             LET v == SetValue(SetPrompt(Named, PromptOf, style), PromptOf, 0)
             IN  \/ widget' = v /\ style = "info" /\ UNCHANGED pc
                 \/ widget' = [v EXCEPT !.allow = FALSE] /\ style # "info"
  <2>1. PICK style \in {"on", "off", "info"} :
             LET v == SetValue(SetPrompt(Named, PromptOf, style), PromptOf, 0)
             IN  \/ widget' = v /\ style = "info" /\ UNCHANGED pc
                 \/ widget' = [v EXCEPT !.allow = FALSE] /\ style # "info"
    BY <1>5
  <2> DEFINE v == SetValue(SetPrompt(Named, PromptOf, style), PromptOf, 0)
  <2>2. /\ SoundWidget(v) /\ ShownWidget(v)
        /\ v.active = IF style = "info" THEN Named.active ELSE PromptOf
        /\ NoSecret(Named) => NoSecret(v) /\ v.leaked = Named.leaked
        /\ v.prompt[PromptOf].style = style
        /\ PromptOf = 0 => v.prompt[1].style = Named.prompt[1].style
        /\ PromptOf = 1 => v.prompt[0].style = Named.prompt[0].style
    <3>1. style \in {"on", "off", "info"}
      BY <2>1
    <3> QED BY <1>1, <1>2, <3>1, AskedSound
  <2> HIDE DEF v
  <2>3. v \in Widgets /\ [v EXCEPT !.allow = FALSE].active = v.active
    BY <2>2 DEF SoundWidget, Widgets
  <2>4. /\ widget' \in Widgets /\ widget'.prompt = v.prompt /\ widget'.leaked = v.leaked
        /\ widget'.active = v.active
    <3>1. CASE widget' = v
      BY <2>3, <3>1
    <3>2. CASE widget' = [v EXCEPT !.allow = FALSE]
      BY <2>3, <3>2, SamePrompts
    <3> QED BY <2>1, <3>1, <3>2 DEF v
  <2>5. /\ WidgetSound' /\ WidgetShown'
        /\ NoSecret(widget) => NoSecret(widget') /\ widget'.leaked = widget.leaked
    BY <1>1, <2>2, <2>4 DEF WidgetSound, WidgetShown, SoundWidget, ShownWidget, NoSecret
  <2>6. pc' = "greet" => widget'.active = PromptOf
    BY <2>1, <2>2, <2>4 DEF PamConv
  <2>7. user => widget'.prompt[0].style = "info"
    BY <1>1, <2>2, <2>4 DEF PromptOf, PromptId
  <2>8. ~user => widget'.prompt[1].style = widget.prompt[1].style
    BY <1>1, <2>2, <2>4 DEF PromptOf, PromptId
  <2> QED BY <2>5, <2>6, <2>7, <2>8
<1> QED
  BY <1>4, <1>5 DEF PamConv

\* The last draw shows its cursors too, and nothing secret if nothing was.
LEMMA WelcomeSound ==
  ASSUME WidgetSound
  PROVE  /\ SoundWidget(Welcome) /\ (WidgetShown => ShownWidget(Welcome))
         /\ NoSecret(widget) => NoSecret(Welcome) /\ Welcome.leaked = widget.leaked
<1>1. 1 \in PromptId /\ 0 \in 0 .. (TextMax - 2)
  BY LoginAssumption DEF PromptId
<1> QED BY <1>1, AskedSound DEF Welcome, WidgetSound

\* The widget that is not there, and the one InitGreet makes.
LEMMA FreshSound ==
  ASSUME NEW w \in {NoWidget, Initialize}
  PROVE  SoundWidget(w) /\ ShownWidget(w) /\ ~w.leaked /\ NoSecret(w)
<1>1. Initialize = [Initialize EXCEPT !.state = "prompting"]
  BY DEF Initialize
<1> QED BY <1>1, InitializeSound DEF NoWidget

\* Every step keeps the prompts sound and, unless a key makes more than the field holds,
\* their cursors shown.
LEMMA WidgetKept ==
  ASSUME WidgetSound, GreetTypes, [Next]_vars
  PROVE  /\ WidgetSound'
         /\ WidgetShown /\ (\A n \in KeyLengths : n <= Field) => WidgetShown'
<1> USE DEF WidgetSound, WidgetShown
<1>1. ASSUME widget' \in {widget, NoWidget, Initialize}
      PROVE  WidgetSound' /\ (WidgetShown => WidgetShown')
  BY <1>1, FreshSound
<1>2. ASSUME widget' \in Widgets, widget'.prompt = widget.prompt
      PROVE  WidgetSound' /\ (WidgetShown => WidgetShown')
  BY <1>2 DEF SoundWidget, ShownWidget
<1>3. widget \in Widgets
  BY DEF SoundWidget
<1>4. CASE WaitForServer \/ LoadGreeter \/ InitGreet \/ SetupDone
  BY <1>1, <1>4 DEF WaitForServer, LoadGreeter, InitGreet, SetupDone, greeterVars
<1>5. CASE PamStart
  <2> DEFINE u == SetPrompt(widget, 0, "hidden")
  <2>1. 0 \in PromptId /\ 1 \in PromptId
    BY DEF PromptId
  <2>2. SoundWidget(u) /\ (ShownWidget(widget) => ShownWidget(u))
    BY <2>1, HiddenSound
  <2>3. widget' = SetPrompt(u, 1, "hidden")
    BY <1>5 DEF PamStart
  <2> HIDE DEF u
  <2> QED BY <2>1, <2>2, <2>3, HiddenSound
<1>6. CASE PamConv
  BY <1>6, PamConvSound
<1>7. CASE GreetEvent
  <2>1. CASE widget' \in Typed(widget)
    BY <2>1, TypedSound
  <2>2. CASE widget' \in {TabField(widget), AllowAccess(widget), FailTimeout(widget),
                          FinishField(widget)}
    BY <1>2, <1>3, <2>2, SamePrompts
  <2>3. CASE widget' = DrawIt(widget)
    <3>1. \A i \in PromptId : Loose(widget.prompt[i])
      BY LoginAssumption DEF SoundWidget, Sound, Loose, Prompts
    <3>2. /\ widget' \in Widgets
          /\ \A i \in PromptId : Sound(widget'.prompt[i]) /\ Shown(widget'.prompt[i])
      BY <1>3, <2>3, <3>1, DrawItSound DEF SoundWidget
    <3> QED BY <3>2 DEF SoundWidget, ShownWidget
  <2> QED BY <1>7, <2>1, <2>2, <2>3 DEF GreetEvent
<1>8. CASE GreetOk
  <2> DEFINE u == FinishField(widget)
  <2>1. u \in Widgets /\ u.prompt = widget.prompt
    BY <1>3, SamePrompts
  <2>2. widget' = SetValue(u, prompt, 0) /\ prompt \in PromptId
    BY <1>8 DEF GreetOk, GreetTypes
  <2> HIDE DEF u
  <2>3. 0 \in 0 .. (TextMax - 2)
    BY LoginAssumption
  <2>4. /\ widget' \in Widgets /\ Sound(widget'.prompt[prompt]) /\ Shown(widget'.prompt[prompt])
        /\ \A j \in PromptId \ {prompt} : widget'.prompt[j] = u.prompt[j]
    BY <2>1, <2>2, <2>3, SetValueSound
  <2> QED BY <2>1, <2>4 DEF SoundWidget, ShownWidget
<1>9. CASE GreetAbort
  BY <1>2, <1>3, <1>9, SamePrompts DEF GreetAbort
<1>10. CASE PamReturns
  BY <1>1, <1>2, <1>3, <1>10, SamePrompts DEF PamReturns
<1>11. CASE FailedLogin
  BY <1>11, DrawFailSound DEF FailedLogin
<1>12. CASE GreetPing \/ XlibError \/ GreetCode \/ GreetLeaves
  BY <1>1, <1>12 DEF GreetPing, XlibError, GreetCode, GreetLeaves, GreeterLeft
<1>13. CASE Manage \/ Around
  BY <1>1, <1>13, ManageFrame, AroundFrame DEF greeterVars
<1>14. CASE Term
  BY <1>1, <1>14 DEF Term, GreeterLeft
<1>15. CASE UNCHANGED vars
  BY <1>1, <1>15 DEF vars, sessionVars
<1>16. CASE Verified
  BY <1>16, WelcomeSound DEF Verified
<1> QED
  BY <1>4, <1>5, <1>6, <1>7, <1>8, <1>9, <1>10, <1>11, <1>12, <1>13, <1>14, <1>15, <1>16, NextCases
     DEF Early, Greeter

\* Before the user presses a key that ends the session, no step draws a secret text.
LEMMA SecretKept ==
  ASSUME SecretAtPrompt, WidgetSound, GreetTypes, ClientTypes, Phases, [Next]_vars
  PROVE  SecretAtPrompt'
<1> SUFFICES ASSUME ~userAborted' PROVE SecretAtPrompt'
  BY DEF SecretAtPrompt
<1>1. ASSUME ~userAborted
      PROVE  /\ ~widget.leaked
             /\ pc # "greet" => NoSecret(widget)
             /\ pc = "greet" => /\ prompt = PromptOf /\ widget.active = prompt
                                /\ user => widget.prompt[0].style = "info"
                                /\ SecretsOff(widget)
             /\ pc \in {"pam", "greet"} /\ ~user => widget.prompt[1].style = "hidden"
  BY <1>1 DEF SecretAtPrompt, NoSecret, SecretsOff
<1>2. ASSUME NoSecret(widget'), ~widget'.leaked, pc' \notin {"pam", "greet"}
      PROVE  SecretAtPrompt'
  BY <1>2 DEF SecretAtPrompt, NoSecret
<1>3. ASSUME NoSecret(widget'), ~widget'.leaked, pc' = "pam",
             ~user' => widget'.prompt[1].style = "hidden"
      PROVE  SecretAtPrompt'
  BY <1>3 DEF SecretAtPrompt, NoSecret
<1>4. ASSUME widget' \in {NoWidget, Initialize}, pc' \notin {"pam", "greet"}
      PROVE  SecretAtPrompt'
  BY <1>2, <1>4, FreshSound
<1>5. ASSUME UNCHANGED <<widget, userAborted>>, pc # "greet", pc' \notin {"pam", "greet"}
      PROVE  SecretAtPrompt'
  BY <1>1, <1>2, <1>5
<1>6. widget \in Widgets /\ 0 \in PromptId /\ 1 \in PromptId
  BY DEF WidgetSound, SoundWidget, PromptId
<1>7. CASE WaitForServer \/ LoadGreeter \/ InitGreet \/ SetupDone
  BY <1>4, <1>5, <1>7
     DEF WaitForServer, LoadGreeter, InitGreet, SetupDone, greeterVars, Exit, SessionExit
<1>8. CASE PamStart
  <2> DEFINE u == SetPrompt(widget, 0, "hidden")
  <2>1. ~userAborted /\ NoSecret(widget) /\ ~widget.leaked
    BY <1>1, <1>8 DEF PamStart
  <2>2. SoundWidget(u) /\ NoSecret(u) /\ ~u.leaked
    BY <1>6, <2>1, HiddenSound DEF WidgetSound
  <2>3. widget' = SetPrompt(u, 1, "hidden") /\ pc' \in {"pam", "pamdone"}
    BY <1>8 DEF PamStart
  <2> HIDE DEF u
  <2>4. NoSecret(widget') /\ ~widget'.leaked /\ widget'.prompt[1].style = "hidden"
    BY <1>6, <2>2, <2>3, HiddenSound
  <2> QED BY <1>2, <1>3, <2>3, <2>4
<1>9. CASE PamConv
  <2>1. /\ ~userAborted /\ NoSecret(widget) /\ ~widget.leaked
        /\ ~user => widget.prompt[1].style = "hidden"
        /\ UNCHANGED user /\ pc' \in {"pam", "greet"} /\ prompt' = PromptOf'
    BY <1>1, <1>9 DEF PamConv, PromptOf
  <2>2. /\ NoSecret(widget') /\ ~widget'.leaked
        /\ pc' = "greet" => /\ widget'.active = PromptOf
                            /\ user => widget'.prompt[0].style = "info"
        /\ ~user => widget'.prompt[1].style = "hidden"
    BY <1>9, <2>1, PamConvSound
  <2> QED BY <2>1, <2>2 DEF SecretAtPrompt, NoSecret, PromptOf
<1>10. CASE GreetEvent
  <2>1. /\ ~userAborted /\ ~widget.leaked /\ prompt = PromptOf /\ widget.active = prompt
        /\ user => widget.prompt[0].style = "info"
        /\ ~user => widget.prompt[1].style = "hidden"
        /\ \A i \in PromptId : widget.prompt[i].secret =>
             i = prompt /\ widget.prompt[i].style = "off"
        /\ pc = "greet" /\ UNCHANGED <<pc, prompt, user, userAborted>>
    BY <1>10 DEF GreetEvent, SecretAtPrompt
  <2>2. SUFFICES
          /\ ~widget'.leaked /\ widget'.active = prompt
          /\ \A i \in PromptId : /\ widget'.prompt[i].style = widget.prompt[i].style
                                 /\ widget'.prompt[i].secret =>
                                      i = prompt /\ widget.prompt[i].style = "off"
    BY <1>6, <2>1 DEF SecretAtPrompt, PromptOf
  <2>3. CASE widget' \in Typed(widget)
    <3>1. /\ widget'.active = widget.active /\ widget'.leaked = widget.leaked
          /\ \A i \in PromptId :
               /\ widget'.prompt[i].style = widget.prompt[i].style
               /\ widget'.prompt[i].secret =>
                    widget.prompt[i].secret \/ (i = widget.active /\ widget.prompt[i].style = "off")
      BY <2>3, TypedSound DEF WidgetSound
    <3> QED BY <2>1, <3>1
  <2>4. CASE widget' \in {TabField(widget), AllowAccess(widget), FailTimeout(widget),
                          FinishField(widget)}
    <3>1. ~TakesText(widget.prompt[1 - widget.active])
      BY <2>1 DEF TakesText, PromptOf
    <3>2. /\ widget'.prompt = widget.prompt /\ widget'.leaked = widget.leaked
          /\ widget'.active = widget.active
      <4>1. CASE widget' \in {AllowAccess(widget), FailTimeout(widget)}
        BY <1>6, <3>1, <4>1, SamePrompts
      <4>2. CASE widget' \in {TabField(widget), FinishField(widget)}
        BY <1>6, <3>1, <4>2, SamePrompts
      <4> QED BY <2>4, <4>1, <4>2
    <3> QED BY <2>1, <3>2
  <2>5. CASE widget' = DrawIt(widget)
    <3>1. \A i \in PromptId : Loose(widget.prompt[i])
      BY LoginAssumption DEF WidgetSound, SoundWidget, Sound, Loose, Prompts
    <3>2. SecretsOff(widget)
      BY <2>1 DEF SecretsOff
    <3> QED BY <1>6, <2>1, <2>5, <3>1, <3>2, DrawItSound
  <2> QED BY <1>10, <2>3, <2>4, <2>5 DEF GreetEvent
<1>11. CASE GreetOk
  <2> DEFINE u == FinishField(widget)
  <2>1. /\ ~userAborted /\ ~widget.leaked
        /\ ~user => widget.prompt[1].style = "hidden"
        /\ \A i \in PromptId : widget.prompt[i].secret => i = prompt
        /\ pc' = "pam" /\ (~user' => ~user) /\ prompt \in PromptId
        /\ widget' = SetValue(u, prompt, 0)
    BY <1>11 DEF GreetOk, SecretAtPrompt, GreetTypes
  <2>2. u \in Widgets /\ u.prompt = widget.prompt /\ u.leaked = widget.leaked
    BY <1>6, SamePrompts
  <2>3. 0 \in 0 .. (TextMax - 2)
    BY LoginAssumption
  <2> HIDE DEF u
  <2>4. /\ widget'.leaked = u.leaked /\ ~widget'.prompt[prompt].secret
        /\ widget'.prompt[prompt].style = u.prompt[prompt].style
        /\ \A j \in PromptId \ {prompt} : widget'.prompt[j] = u.prompt[j]
    BY <2>1, <2>2, <2>3, SetValueSound
  <2>5. NoSecret(widget')
    BY <2>1, <2>2, <2>4 DEF NoSecret
  <2>6. ~user => widget'.prompt[1].style = "hidden"
    BY <1>6, <2>1, <2>2, <2>4
  <2> QED BY <1>3, <2>1, <2>2, <2>4, <2>5, <2>6
<1>12. CASE GreetAbort
  BY <1>12 DEF GreetAbort
<1>13. CASE PamReturns
  <2>1. /\ ~userAborted /\ NoSecret(widget) /\ ~widget.leaked
        /\ ~user => widget.prompt[1].style = "hidden"
        /\ UNCHANGED user /\ pc' \in {"pam", "pamdone"}
        /\ widget' \in {widget, ErrorMessage(widget, FALSE)}
    BY <1>1, <1>13 DEF PamReturns
  <2>2. widget'.prompt = widget.prompt /\ widget'.leaked = widget.leaked
    BY <1>6, <2>1, SamePrompts
  <2> QED BY <1>2, <1>3, <2>1, <2>2 DEF NoSecret
<1>14. CASE FailedLogin
  <2>1. NoSecret(widget') /\ widget'.leaked = widget.leaked
    BY <1>14, DrawFailSound DEF FailedLogin, WidgetSound
  <2> QED BY <1>1, <1>2, <1>14, <2>1 DEF FailedLogin
<1>15. CASE GreetPing \/ XlibError \/ GreetCode \/ GreetLeaves
  BY <1>4, <1>15 DEF GreetPing, XlibError, GreetCode, GreetLeaves, GreeterLeft, Exit, SessionExit
<1>16. CASE Manage
  BY <1>5, <1>16, ManageFrame DEF greeterVars, AfterLogin, PamClosed
<1>17. CASE Around
  <2>1. pc = "greet" => alarm = "none"
    BY DEF Phases, ClientTypes, AfterLogin, PamClosed
  <2>2. pc = "greet" => pc' = pc
    BY <1>17, <2>1, AroundFrame DEF Around, PingAlarm, DeadAlarm, ScriptEnds, ClientStarts,
       ClientRuns, Impostor, ClientDies, OtherSessions, ServerChanges, sessionVars
  <2>3. UNCHANGED <<widget, userAborted, prompt, user>> /\ pc' \in {pc, "crashed", "pinging"}
    BY <1>17, AroundFrame DEF greeterVars
  <2> QED BY <2>2, <2>3 DEF SecretAtPrompt, PromptOf
<1>18. CASE Term
  <2>1. CASE handler = "default"
    BY <1>4, <1>18, <2>1 DEF Term, GreeterLeft
  <2>2. CASE handler # "default"
    <3>1. pc # "greet"
      BY <2>2 DEF Phases, ClientTypes, AfterLogin, PamClosed
    <3> QED BY <1>5, <1>18, <2>2, <3>1 DEF Term
  <2> QED BY <2>1, <2>2
<1>19. CASE UNCHANGED vars
  BY <1>19 DEF vars, sessionVars, SecretAtPrompt, PromptOf
<1>20. CASE Verified
  <2>1. NoSecret(widget) /\ ~widget.leaked /\ widget' = Welcome /\ pc' = "welcome"
    BY <1>1, <1>20 DEF Verified
  <2> QED BY <1>2, <2>1, WelcomeSound
<1> QED
  BY <1>7, <1>8, <1>9, <1>10, <1>11, <1>12, <1>13, <1>14, <1>15, <1>16, <1>17, <1>18, <1>19, <1>20,
     NextCases DEF Early, Greeter

-----------------------------------------------------------------------------
(* The session's phases, and what a login has passed.                      *)

\* Only StartupDone goes from the greeter's half of the session to ManageSession's.
LEMMA PhasesKept ==
  ASSUME Phases, Passed, ClientTypes, [Next]_vars
  PROVE  Phases'
<1>1. CASE Early
  <2>1. handler = "default"
    BY <1>1, EarlyFrame DEF Phases, ClientTypes, BeforeLogin, AfterLogin, PamClosed
  <2>2. "startup" \notin granted'
    <3>1. "startup" \notin granted
      BY <2>1 DEF Phases
    <3>2. CASE WaitForServer \/ LoadGreeter \/ InitGreet \/ SetupDone
      BY <3>1, <3>2 DEF WaitForServer, LoadGreeter, InitGreet, SetupDone
    <3>3. CASE PamStart \/ PamConv \/ GreetEvent \/ GreetOk \/ GreetAbort \/ GreetPing
      BY <3>1, <3>3 DEF PamStart, PamConv, GreetEvent, GreetOk, GreetAbort, GreetPing
    <3>4. CASE XlibError \/ GreetCode \/ Verified \/ GreetLeaves \/ FailedLogin
      BY <3>1, <3>4 DEF XlibError, GreetCode, Verified, GreetLeaves, FailedLogin
    <3>5. CASE PamReturns
      <4>1. \/ granted' = granted
            \/ \E passed \in {"auth", "acct", "cred"} : granted' = granted \cup {passed}
        BY <3>5 DEF PamReturns
      <4> QED BY <3>1, <4>1
    <3> QED BY <1>1, <3>2, <3>3, <3>4, <3>5 DEF Early, Greeter
  <2> QED BY <1>1, <2>1, <2>2, EarlyFrame DEF Phases, AuthInit, authVars, Ended
<1>2. CASE Manage
  <2>1. CASE handler = "default"
    <3>1. StartupDone \/ ClosePam \/ ResetServer
      BY <1>2, <2>1 DEF Phases, BeforeLogin, Ended, Manage, OpenPamSession, ForkClient,
         RecordClient, ReapClient, ClientEnded, PingServer, AbortClient, AbortReaps, AbortAlarm,
         RunReset, ResetDone, RemoveAuthorization
    <3>2. CASE StartupDone
      <4>1. CASE handler' = "abort"
        <5>1. pc' = "opensession" /\ granted' = granted \cup {"startup"}
          BY <2>1, <3>2, <4>1 DEF StartupDone
        <5>2. granted' = Steps
          BY <3>2, <5>1 DEF StartupDone, Passed, Steps
        <5> QED BY <4>1, <5>1, <5>2 DEF Phases, AfterLogin
      <4>2. CASE handler' # "abort"
        BY <2>1, <3>2, <4>2 DEF StartupDone, SessionExit, Phases, AuthInit, authVars
      <4> QED BY <4>1, <4>2
    <3>3. CASE ClosePam
      BY <2>1, <3>3 DEF ClosePam, clientVars, Phases, AuthInit, authVars, Ended
    <3>4. CASE ResetServer
      BY <2>1, <3>4 DEF ResetServer, Exit, Phases, AuthInit, authVars, Ended
    <3> QED BY <3>1, <3>2, <3>3, <3>4
  <2>2. CASE handler = "abort"
    <3>1. pc # "startup"
      BY <2>2 DEF Phases, AfterLogin, PamClosed
    <3>2. UNCHANGED <<handler, granted>>
      <4>1. CASE OpenPamSession \/ ForkClient \/ RecordClient \/ ReapClient \/ ClientEnded
        BY <4>1 DEF OpenPamSession, ForkClient, RecordClient, ReapClient, ClientEnded
      <4>2. CASE PingServer \/ AbortClient \/ AbortReaps \/ AbortAlarm \/ RunReset
        BY <4>2 DEF PingServer, AbortClient, AbortReaps, AbortAlarm, RunReset
      <4>3. CASE ResetDone \/ ClosePam \/ ResetServer \/ RemoveAuthorization
        BY <4>3 DEF ResetDone, ClosePam, ResetServer, RemoveAuthorization, clientVars
      <4> QED BY <1>2, <3>1, <4>1, <4>2, <4>3 DEF Manage, StartupDone
    <3> QED BY <1>2, <2>2, <3>2, ManageFrame DEF Phases
  <2> QED BY <2>1, <2>2 DEF ClientTypes
<1>3. CASE Around
  <2>1. CASE handler = "default"
    <3>1. ScriptEnds \/ ServerChanges
      BY <1>3, <2>1 DEF Phases, Around, PingAlarm, DeadAlarm, ClientStarts, ClientRuns, Impostor,
         ClientDies, OtherSessions
    <3> QED BY <2>1, <3>1 DEF ScriptEnds, ServerChanges, clientVars, Phases, AuthInit, authVars
  <2>2. CASE handler = "abort"
    BY <1>3, <2>2, AroundFrame DEF Phases, AfterLogin
  <2> QED BY <2>1, <2>2 DEF ClientTypes
<1>4. CASE Term
  <2>1. CASE handler = "default"
    BY <1>4, <2>1 DEF Term, Phases, Ended, BeforeLogin, AuthInit, authVars
  <2>2. CASE handler = "abort"
    BY <1>4, <2>2 DEF Term, Phases, AfterLogin
  <2> QED BY <2>1, <2>2 DEF ClientTypes
<1>5. CASE UNCHANGED vars
  BY <1>5 DEF vars, sessionVars, authVars, Phases, AuthInit
<1> QED BY <1>1, <1>2, <1>3, <1>4, <1>5, NextCases

\* An attempt passes PAM's functions one after the other.
LEMMA PassedKept ==
  ASSUME Passed, ClientTypes, Phases, [Next]_vars
  PROVE  Passed'
<1>1. CASE Early
  <2> USE DEF Passed
  <2>1. CASE WaitForServer \/ LoadGreeter \/ InitGreet \/ SetupDone
    BY <2>1 DEF WaitForServer, LoadGreeter, InitGreet, SetupDone, Exit, SessionExit
  <2>2. CASE PamStart
    BY <2>2 DEF PamStart
  <2>3. CASE PamConv \/ GreetEvent \/ GreetOk \/ GreetAbort
    BY <2>3 DEF PamConv, GreetEvent, GreetOk, GreetAbort
  <2>4. CASE GreetPing \/ XlibError \/ GreetCode
    BY <2>4 DEF GreetPing, XlibError, GreetCode, Exit, SessionExit
  <2>5. CASE PamReturns
    BY <2>5 DEF PamReturns
  <2>6. CASE Verified \/ GreetLeaves
    BY <2>6 DEF Verified, GreetLeaves, Steps
  <2>7. CASE FailedLogin
    BY <2>7 DEF FailedLogin
  <2> QED BY <1>1, <2>1, <2>2, <2>3, <2>4, <2>5, <2>6, <2>7 DEF Early, Greeter
<1>2. CASE Manage
  BY <1>2, ManageFrame DEF Passed, AfterLogin, PamClosed
<1>3. CASE Around
  BY <1>3, AroundFrame DEF Passed, greeterVars
<1>4. CASE Term
  BY <1>4 DEF Term, Passed
<1>5. CASE UNCHANGED vars
  BY <1>5 DEF vars, sessionVars, Passed
<1> QED BY <1>1, <1>2, <1>3, <1>4, <1>5, NextCases

-----------------------------------------------------------------------------
(* The end of the session.                                                 *)

\* SessionExit closes PAM once and the reset script runs once, unless a signal comes between.
LEMMA UndoneKept ==
  ASSUME Undone, Phases, Passed, ClientTypes, EndTypes, [Next]_vars
  PROVE  Undone'
<1> USE DEF Undone, PamClosed, Ended
<1>1. CASE Early
  <2>1. /\ UNCHANGED <<handler, resets, closes, races>> /\ handler = "default"
        /\ pc' \in BeforeLogin \cup {"closing", "exited"} /\ pc \in BeforeLogin
    BY <1>1, EarlyFrame DEF Phases, ClientTypes, BeforeLogin, AfterLogin
  <2> QED BY <2>1 DEF BeforeLogin
<1>2. CASE Manage
  <2> USE DEF AfterLogin
  <2>1. CASE StartupDone
    <3>1. handler = "default" /\ handle = "open" /\ resets = 0
      BY <2>1 DEF StartupDone, Phases, Passed, ClientTypes
    <3> QED BY <2>1, <3>1 DEF StartupDone, SessionExit
  <2>2. CASE OpenPamSession \/ ForkClient \/ RecordClient \/ ReapClient
    BY <2>2 DEF OpenPamSession, ForkClient, RecordClient, ReapClient, Waiting
  <2>3. CASE ClientEnded \/ PingServer
    BY <2>3 DEF ClientEnded, PingServer, Waiting
  <2>4. CASE AbortClient
    BY <2>4 DEF AbortClient, Raced, AbortDone
  <2>5. CASE AbortReaps \/ AbortAlarm
    BY <2>5 DEF AbortReaps, AbortAlarm
  <2>6. CASE RunReset
    <3>1. races = {} => resets = 0
      BY <2>6 DEF RunReset, Phases, ClientTypes
    <3> QED BY <2>6, <3>1 DEF RunReset, EndTypes
  <2>7. CASE ResetDone
    BY <2>7 DEF ResetDone, clientVars
  <2>8. CASE ClosePam
    <3>1. races = {} => closes = 0
      BY <2>8 DEF ClosePam
    <3>2. pc' = "crashed" => races # {}
      BY <2>8, <3>1 DEF ClosePam
    <3>3. UNCHANGED <<handler, resets, races>> /\ pc' \in {"crashed", "resetserver"}
      BY <2>8 DEF ClosePam, clientVars
    <3>4. races = {} => closes' \in {0, 1} /\ (handler = "abort" => closes' = 1)
      BY <2>8, <3>1 DEF ClosePam
    <3> QED BY <2>8, <3>2, <3>3, <3>4 DEF ClosePam
  <2>9. CASE ResetServer
    BY <2>9 DEF ResetServer, Exit
  <2>10. CASE RemoveAuthorization
    BY <2>10 DEF RemoveAuthorization, Exit, clientVars
  <2> QED BY <1>2, <2>1, <2>2, <2>3, <2>4, <2>5, <2>6, <2>7, <2>8, <2>9, <2>10 DEF Manage
<1>3. CASE Around
  <2>1. CASE PingAlarm
    BY <2>1 DEF PingAlarm, Raced, AfterLogin
  <2>2. CASE DeadAlarm \/ Impostor
    <3>1. races' # {}
      BY <2>2 DEF DeadAlarm, Raced, Impostor
    <3> QED BY <3>1
  <2>3. CASE ScriptEnds \/ ClientStarts \/ ClientRuns \/ ClientDies \/ OtherSessions \/ ServerChanges
    <3>1. UNCHANGED <<pc, handler, handle, resets, closes, races>>
      BY <2>3 DEF ScriptEnds, ClientStarts, ClientRuns, ClientDies, OtherSessions, ServerChanges,
         clientVars, sessionVars
    <3> QED BY <3>1 DEF AfterLogin
  <2> QED BY <1>3, <2>1, <2>2, <2>3 DEF Around
<1>4. CASE Term
  <2>1. CASE handler = "default"
    BY <1>4, <2>1 DEF Term
  <2>2. CASE handler = "abort"
    BY <1>4, <2>2 DEF Term, Raced, Phases, AfterLogin
  <2> QED BY <2>1, <2>2 DEF ClientTypes
<1>5. CASE UNCHANGED vars
  BY <1>5 DEF vars, sessionVars, AfterLogin
<1> QED BY <1>1, <1>2, <1>3, <1>4, <1>5, NextCases

\* AbortClient's rounds, the reaping and the client's own death lead only forward.
LEMMA ClientPhaseKept ==
  ASSUME ClientPhase, Phases, ClientTypes, CountTypes, Undone, [Next]_vars
  PROVE  ClientPhase'
<1> USE DEF ClientPhase, PamClosed, Gone
<1>1. CASE Early
  <2>1. /\ UNCHANGED <<handler, client, clientPid, races>> /\ handler = "default"
        /\ pc' \in BeforeLogin \cup {"closing", "exited"}
    BY <1>1, EarlyFrame DEF Phases, ClientTypes, BeforeLogin, AfterLogin
  <2> QED BY <2>1 DEF BeforeLogin
<1>2. CASE Manage
  <2> USE DEF Waiting
  <2>1. CASE StartupDone
    <3>1. client = "none" /\ ~clientPid
      BY <2>1 DEF StartupDone, Phases, ClientTypes, AfterLogin
    <3> QED BY <2>1, <3>1 DEF StartupDone, SessionExit
  <2>2. CASE OpenPamSession
    BY <2>2 DEF OpenPamSession
  <2>3. CASE ForkClient
    BY <2>3 DEF ForkClient
  <2>4. CASE RecordClient \/ ReapClient
    BY <2>4 DEF RecordClient, ReapClient
  <2>5. CASE ClientEnded
    BY <2>5 DEF ClientEnded
  <2>6. CASE PingServer
    BY <2>6 DEF PingServer
  <2>7. CASE AbortClient
    <3>2. CASE ~clientPid
      BY <2>7, <3>2 DEF AbortClient, Raced
    <3>3. CASE clientPid /\ client = "born"
      BY <2>7, <3>3 DEF AbortClient, Raced, AbortDone
    <3>4. CASE clientPid /\ client = "reaped"
      BY <2>7, <3>4 DEF AbortClient, AbortDone
    <3>5. CASE clientPid /\ client \notin {"born", "reaped"}
      <4>1. /\ client' = IF client = "dead" THEN client
                         ELSE IF tries = 0 /\ client # "killed" THEN "told" ELSE "killed"
            /\ pc' = "abortwait" /\ UNCHANGED <<tries, races, clientPid, handler>>
        BY <2>7, <3>5 DEF AbortClient
      <4> QED BY <4>1
    <3> QED BY <3>2, <3>3, <3>4, <3>5
  <2>8. CASE AbortReaps
    BY <2>8 DEF AbortReaps
  <2>9. CASE AbortAlarm
    <3>1. tries < 3 => tries' # 0 \/ pc' # "abortwait"
      BY <2>9 DEF AbortAlarm
    <3>2. ~(tries < 3) => tries # 0
      OBVIOUS
    <3> QED BY <2>9, <3>1, <3>2 DEF AbortAlarm
  <2>10. CASE RunReset \/ ResetDone \/ ClosePam
    BY <2>10 DEF RunReset, ResetDone, ClosePam, clientVars
  <2>11. CASE ResetServer \/ RemoveAuthorization
    BY <2>11 DEF ResetServer, RemoveAuthorization, Exit, clientVars
  <2> QED BY <1>2, <2>1, <2>2, <2>3, <2>4, <2>5, <2>6, <2>7, <2>8, <2>9, <2>10, <2>11 DEF Manage
<1>3. CASE Around
  <2>1. CASE PingAlarm
    BY <2>1 DEF PingAlarm
  <2>2. CASE DeadAlarm
    BY <2>2 DEF DeadAlarm
  <2>3. CASE ScriptEnds \/ ServerChanges \/ OtherSessions
    BY <2>3 DEF ScriptEnds, ServerChanges, OtherSessions, clientVars, sessionVars
  <2>4. CASE ClientStarts \/ ClientRuns \/ ClientDies
    <3>1. /\ UNCHANGED <<pc, tries, handler, clientPid, races>>
          /\ client \in {"born", "starting", "impostor", "entering", "running", "told", "killed"}
          /\ \/ client' = "dead"
             \/ /\ client \notin {"none", "told", "killed", "dead", "reaped"}
                /\ client' # "none"
      BY <2>4 DEF ClientStarts, ClientRuns, ClientDies
    <3> QED BY <3>1
  <2>5. CASE Impostor
    BY <2>5 DEF Impostor
  <2> QED BY <1>3, <2>1, <2>2, <2>3, <2>4, <2>5 DEF Around
<1>4. CASE Term
  <2>1. CASE handler = "default"
    BY <1>4, <2>1 DEF Term
  <2>2. CASE handler = "abort"
    BY <1>4, <2>2 DEF Term
  <2> QED BY <2>1, <2>2 DEF ClientTypes
<1>5. CASE UNCHANGED vars
  BY <1>5 DEF vars, sessionVars
<1> QED BY <1>1, <1>2, <1>3, <1>4, <1>5, NextCases

-----------------------------------------------------------------------------
(* The user's authorization file.                                          *)

\* races only grows, and AbortClient is the only step of Manage that makes it grow.
LEMMA RacesGrow ==
  ASSUME [Next]_vars
  PROVE  /\ races' = {} => races = {}
         /\ Manage => AbortClient \/ UNCHANGED races
<1>1. ASSUME Manage
      PROVE  (AbortClient \/ UNCHANGED races) /\ (races' = {} => races = {})
  <2> USE DEF clientVars
  <2>1. CASE StartupDone \/ OpenPamSession \/ ForkClient \/ RecordClient \/ ReapClient
    BY <2>1 DEF StartupDone, OpenPamSession, ForkClient, RecordClient, ReapClient
  <2>2. CASE ClientEnded \/ PingServer \/ AbortReaps \/ AbortAlarm \/ RunReset
    BY <2>2 DEF ClientEnded, PingServer, AbortReaps, AbortAlarm, RunReset
  <2>3. CASE ResetDone \/ ClosePam \/ ResetServer \/ RemoveAuthorization
    BY <2>3 DEF ResetDone, ClosePam, ResetServer, RemoveAuthorization
  <2>4. CASE AbortClient
    BY <2>4 DEF AbortClient, Raced
  <2> QED BY <1>1, <2>1, <2>2, <2>3, <2>4 DEF Manage
<1> SUFFICES races' = {} => races = {}
  BY <1>1
<1>2. CASE Early
  BY <1>2, EarlyFrame, ManageFrame
<1>3. CASE Around
  <2> USE DEF clientVars, sessionVars
  <2>1. CASE PingAlarm \/ DeadAlarm \/ Impostor
    BY <2>1 DEF PingAlarm, DeadAlarm, Impostor, Raced
  <2>2. CASE ScriptEnds \/ ClientStarts \/ ClientRuns \/ ClientDies \/ OtherSessions \/ ServerChanges
    BY <2>2 DEF ScriptEnds, ClientStarts, ClientRuns, ClientDies, OtherSessions, ServerChanges
  <2> QED BY <1>3, <2>1, <2>2 DEF Around
<1>4. CASE Term
  BY <1>4 DEF Term, Raced
<1>5. CASE UNCHANGED vars
  BY <1>5 DEF vars, sessionVars
<1> QED BY <1>2, <1>1, <1>3, <1>4, <1>5, NextCases

\* The lock on ~/.Xauthority has one owner, who alone is in the middle of its steps.
LEMMA HolderKept ==
  ASSUME Holder, Phases, ClientPhase, ClientTypes, AuthTypes, [Next]_vars
  PROVE  Holder'
<1> USE DEF Holder
<1>1. CASE Early
  <2>1. /\ handler = "default"
        /\ UNCHANGED <<client, lock, step>> /\ pc' # "remove"
    BY <1>1, EarlyFrame DEF Phases, ClientTypes, BeforeLogin, AfterLogin, PamClosed, authVars
  <2> QED BY <2>1 DEF Phases, AuthInit
<1>2. CASE Manage /\ ~AbortClient /\ ~RemoveAuthorization
  <2>1. UNCHANGED <<lock, step>>
    BY <1>2, FilesAlone DEF authVars
  <2>2. UNCHANGED races
    BY <1>2, RacesGrow
  <2>3. /\ pc # "remove" /\ pc' # "remove"
        /\ \/ UNCHANGED client
           \/ client' = "born" /\ pc = "fork"
           \/ client' = "reaped" /\ client = "dead"
    <3>1. CASE StartupDone \/ OpenPamSession \/ ForkClient \/ RecordClient \/ ReapClient
      BY <3>1 DEF StartupDone, OpenPamSession, ForkClient, RecordClient, ReapClient, Waiting,
         SessionExit
    <3>2. CASE ClientEnded \/ PingServer \/ AbortReaps \/ AbortAlarm \/ RunReset
      BY <3>2 DEF ClientEnded, PingServer, AbortReaps, AbortAlarm, RunReset, Waiting
    <3>3. CASE ResetDone \/ ClosePam \/ ResetServer
      BY <3>3 DEF ResetDone, ClosePam, ResetServer, clientVars, Exit
    <3> QED BY <1>2, <3>1, <3>2, <3>3 DEF Manage
  <2> QED BY <2>1, <2>2, <2>3 DEF ClientPhase
<1>3. CASE AbortClient
  <2>1. pc # "remove" /\ pc' # "remove"
    BY <1>3 DEF AbortClient, AbortDone
  <2>2. races' = {} => races = {}
    BY RacesGrow
  <2>3. CASE UNCHANGED client
    <3>1. UNCHANGED <<lock, step>>
      BY <1>3, <2>3 DEF AbortClient, authVars
    <3> QED BY <2>1, <2>2, <2>3, <3>1
  <2>4. CASE client' # client
    <3>1. client' \in {"told", "killed"} /\ Interrupted("client")
      BY <1>3, <2>4 DEF AbortClient
    <3>2. UNCHANGED lock /\ step' = IF lock = "client" THEN "out" ELSE step
      BY <3>1 DEF Interrupted
    <3> QED BY <2>1, <2>2, <3>1, <3>2
  <2> QED BY <2>3, <2>4
<1>4. CASE RemoveAuthorization
  <2>1. /\ UNCHANGED <<client, races>>
        /\ \/ /\ pc = "lock" /\ pc' = "remove"
              /\ Lock("session")
           \/ pc = "lock" /\ pc' = "exited" /\ UNCHANGED authVars
           \/ pc = "remove" /\ pc' = "remove" /\ Writes("session")
           \/ pc = "remove" /\ pc' = "exited" /\ (OpenFails \/ Unlock)
    BY <1>4 DEF RemoveAuthorization, clientVars, Exit
  <2>2. CASE pc' = "remove" /\ Lock("session")
    BY <2>1, <2>2 DEF Lock
  <2>3. CASE pc = "lock" /\ pc' = "exited" /\ UNCHANGED authVars
    BY <2>1, <2>3 DEF authVars
  <2>4. CASE pc = "remove" /\ pc' = "remove" /\ Writes("session")
    BY <2>1, <2>4 DEF Writes, OpenFiles, WriteFile, Unlink, Link
  <2>5. CASE pc = "remove" /\ pc' = "exited" /\ (OpenFails \/ Unlock)
    BY <2>1, <2>5 DEF OpenFails, Unlock, Unlocked
  <2> QED BY <2>1, <2>2, <2>3, <2>4, <2>5
<1>5. CASE PingAlarm \/ ScriptEnds \/ ClientStarts \/ ServerChanges
  <2>1. UNCHANGED <<lock, step>>
    BY <1>5, FilesAlone DEF authVars
  <2> QED BY <1>5, <2>1, RacesGrow DEF PingAlarm, ScriptEnds, ClientStarts, ServerChanges, clientVars
<1>6. CASE DeadAlarm
  BY <1>6 DEF DeadAlarm, Raced, Interrupted, authVars
<1>7. CASE ClientRuns
  <2>1. UNCHANGED <<pc, races>> /\ client \in {"starting", "entering"}
    BY <1>7 DEF ClientRuns
  <2>2. CASE client' = "entering" /\ Lock("client")
    BY <2>1, <2>2 DEF Lock
  <2>3. CASE client = "starting" /\ client' = "running" /\ UNCHANGED <<lock, step>>
    BY <2>1, <2>3
  <2>4. CASE client = "entering" /\ client' = "entering" /\ Writes("client")
    BY <2>1, <2>4 DEF Writes, OpenFiles, WriteFile, Unlink, Link
  <2>5. CASE client = "entering" /\ client' = "running" /\ (OpenFails \/ Unlock)
    BY <2>1, <2>5 DEF OpenFails, Unlock, Unlocked
  <2> QED BY <1>7, <2>2, <2>3, <2>4, <2>5 DEF ClientRuns
<1>8. CASE Impostor
  BY <1>8 DEF Impostor, Raced, RemovesNothing, Unlocked, authVars
<1>9. CASE ClientDies
  BY <1>9 DEF ClientDies, Interrupted
<1>10. CASE OtherSessions
  <2>1. UNCHANGED <<pc, client, races>> /\ OtherWriter
    BY <1>10 DEF OtherSessions, sessionVars
  <2>2. CASE Lock("other")
    BY <2>1, <2>2 DEF Lock
  <2>3. CASE Writes("other")
    BY <2>1, <2>3 DEF Writes, OpenFiles, WriteFile, Unlink, Link
  <2>4. CASE lock = "other" /\ (OpenFails \/ Unlock)
    BY <2>1, <2>4 DEF OpenFails, Unlock, Unlocked
  <2>5. CASE Interrupted("other")
    BY <2>1, <2>5 DEF Interrupted
  <2> QED BY <2>1, <2>2, <2>3, <2>4, <2>5 DEF OtherWriter
<1>11. CASE Term
  <2>1. CASE handler = "default"
    BY <1>11, <2>1 DEF Term, Raced, Phases, AuthInit, authVars, BeforeLogin, Ended
  <2>2. CASE handler = "abort"
    BY <1>11, <2>2 DEF Term, Raced, Interrupted, authVars
  <2> QED BY <2>1, <2>2 DEF ClientTypes
<1>12. CASE UNCHANGED vars
  BY <1>12 DEF vars, sessionVars, authVars
<1> QED
  BY <1>1, <1>2, <1>3, <1>4, <1>5, <1>6, <1>7, <1>8, <1>9, <1>10, <1>11, <1>12, NextCases
     DEF Around

\* What a step of the session, of its client or of another session may do to the user's
\* files: each holder of the lock goes on, and nobody begins beside one.
FileStep(w) ==
  \/ step = "out" /\ (Lock(w) \/ RemovesNothing)
  \/ Writes(w) \/ Unlock \/ Interrupted(w) \/ OpenFails
  \/ UNCHANGED <<home, new, lock, step, old, added, others>>

\* Every step of the session is one of these on the user's files.
LEMMA FileSteps ==
  ASSUME Holder, [Next]_vars
  PROVE  FileStep("client") \/ FileStep("session") \/ FileStep("other")
<1> USE DEF FileStep, authVars
<1>0. ASSUME NEW w, Lock(w) PROVE step = "out"
  BY <1>0 DEF Holder, Lock
<1>1. CASE \/ Early \/ (Manage /\ ~AbortClient /\ ~RemoveAuthorization)
           \/ PingAlarm \/ ScriptEnds \/ ClientStarts \/ ServerChanges \/ UNCHANGED vars
  BY <1>1, FilesAlone
<1>2. CASE AbortClient
  <2>1. UNCHANGED authVars \/ Interrupted("client")
    BY <1>2 DEF AbortClient
  <2> QED BY <2>1
<1>3. CASE RemoveAuthorization
  BY <1>0, <1>3 DEF RemoveAuthorization
<1>4. CASE DeadAlarm \/ Term
  <2>1. UNCHANGED authVars \/ Interrupted("session")
    BY <1>4 DEF DeadAlarm, Term
  <2> QED BY <2>1
<1>5. CASE ClientRuns
  BY <1>0, <1>5 DEF ClientRuns
<1>6. CASE Impostor
  BY <1>6 DEF Impostor, RemovesNothing
<1>7. CASE ClientDies
  BY <1>7 DEF ClientDies
<1>8. CASE OtherSessions
  BY <1>0, <1>8 DEF OtherSessions, OtherWriter
<1> QED BY <1>1, <1>2, <1>3, <1>4, <1>5, <1>6, <1>7, <1>8, NextCases DEF Around

\* No step loses an entry of another session, unless it tears the file: what WriteFile
\* copies from the old file, and removes from it, has all of them, and Link puts that
\* file in its place.
LEMMA OthersStep ==
  ASSUME AuthTypes, OthersSafe, OwnWritten, NEW w \in {"client", "session", "other"}, FileStep(w)
  PROVE  OthersSafe'
<1> USE DEF OthersSafe, Held, Promised
<1>1. Own \notin Others /\ NoFile \notin SUBSET (Others \cup {Own})
  BY UserAuthAssumption
<1>2. CASE step = "out" /\ Lock(w)
  BY <1>2 DEF Lock
<1>3. CASE step = "out" /\ RemovesNothing
  BY <1>1, <1>3 DEF RemovesNothing, Remaining, Entries, AuthTypes, Files, authVars
<1>4. CASE OpenFiles(w)
  BY <1>4 DEF OpenFiles
<1>5. CASE WriteFile(w)
  <2>1. PICK e \in EntryOf(w) :
          \/ new' = {e} \cup Entries(old) /\ UNCHANGED others
          \/ new' = Entries(old) \ {e} /\ others' = others \ {e}
    BY <1>5 DEF WriteFile, Merged, Remaining
  <2>2. others' \subseteq new' /\ others' \subseteq Entries(home)
    BY <1>5, <2>1 DEF WriteFile
  <2> QED BY <1>5, <2>2 DEF WriteFile
<1>6. CASE Unlink
  BY <1>6 DEF Unlink, Entries
<1>7. CASE Link(w)
  BY <1>1, <1>7 DEF Link, Entries, OwnWritten, AuthTypes
<1>8. CASE Unlock \/ OpenFails
  BY <1>8 DEF Unlock, OpenFails
<1>9. CASE Interrupted(w)
  BY <1>1, <1>9 DEF Interrupted, Entries, AuthTypes, Files
<1>10. CASE UNCHANGED <<home, new, lock, step, old, added, others>>
  BY <1>10
<1> QED
  BY <1>2, <1>3, <1>4, <1>5, <1>6, <1>7, <1>8, <1>9, <1>10 DEF FileStep, Writes

\* The entries of other sessions stay safe.
LEMMA OthersSafeKept ==
  ASSUME AuthTypes, Holder, OthersSafe, OwnWritten, [Next]_vars
  PROVE  OthersSafe'
BY FileSteps, OthersStep

\* What the writer that holds the lock has written is with or without the session's entry
\* as it has to be.
LEMMA OwnWrittenKept ==
  ASSUME AuthTypes, Holder, OwnWritten, [Next]_vars
  PROVE  OwnWritten'
<1> SUFFICES ASSUME NEW w \in {"client", "session", "other"}, FileStep(w)
             PROVE  OwnWritten'
  BY FileSteps
<1> USE DEF OwnWritten
<1>1. CASE step = "out" /\ (Lock(w) \/ RemovesNothing)
  BY <1>1 DEF Lock, RemovesNothing, authVars
<1>2. CASE lock = w /\ WriteFile(w)
  <2>1. PICK e \in EntryOf(w) :
          \/ w # "session" /\ new' = {e} \cup Entries(old) /\ added' = {e}
          \/ w # "client" /\ new' = Entries(old) \ {e} /\ UNCHANGED added
    BY <1>2 DEF WriteFile, Merged, Remaining
  <2>2. w # "other" => e = Own
    BY DEF EntryOf
  <2>3. added = {} /\ step' = "written" /\ lock' = w
    BY <1>2 DEF WriteFile
  <2> QED BY <2>1, <2>2, <2>3
<1>3. CASE OpenFiles(w) \/ Unlink \/ Link(w)
  BY <1>3 DEF OpenFiles, Unlink, Link
<1>4. CASE Unlock \/ OpenFails
  BY <1>4 DEF Unlock, OpenFails
<1>5. CASE Interrupted(w)
  BY <1>5 DEF Interrupted
<1>6. CASE UNCHANGED <<home, new, lock, step, old, added, others>>
  BY <1>6
<1> QED BY <1>1, <1>2, <1>3, <1>4, <1>5, <1>6 DEF FileStep, Writes

\* Beside the session's RemoveUserAuthorization, and after it, there is no client.
LEMMA RemovesAlone ==
  ASSUME ClientTypes, Phases, ClientPhase, OwnRemoved, races = {}
  PROVE  /\ pc \in {"lock", "remove"} => client \in Gone
         /\ tidied => client \in Gone /\ handler = "abort" /\ pc \in {"remove", "exited"}
<1>1. handler = "default" \/ handler = "abort"
  BY DEF ClientTypes
<1>2. pc \in {"lock", "remove"} => handler = "abort"
  BY <1>1 DEF Phases, BeforeLogin, Ended
<1>3. tidied => handler = "abort" /\ pc \in {"remove", "exited"}
  BY <1>1 DEF Phases, AuthInit, OwnRemoved
<1> QED BY <1>2, <1>3 DEF ClientPhase, PamClosed

\* What another session writes keeps the session's own entry.
LEMMA OthersKeepOwn ==
  ASSUME AuthTypes, Holder, Held({Own}), where = "home", OtherWriter, where' = "home"
  PROVE  Held({Own})'
<1> USE DEF Held, Led
<1>1. Own \notin Others /\ NoFile \notin SUBSET (Others \cup {Own})
  BY UserAuthAssumption
<1>2. CASE Lock("other")
  BY <1>2 DEF Lock, Holder
<1>3. CASE OpenFiles("other")
  BY <1>3 DEF OpenFiles
<1>4. CASE WriteFile("other")
  <2>1. Own \in new'
    BY <1>1, <1>4 DEF WriteFile, EntryOf, Merged, Remaining
  <2> QED BY <1>4, <2>1 DEF WriteFile
<1>5. CASE Unlink
  BY <1>5 DEF Unlink, Entries
<1>6. CASE Link("other")
  BY <1>1, <1>6 DEF Link, Entries, AuthTypes
<1>7. CASE Unlock \/ OpenFails
  BY <1>7 DEF Unlock, OpenFails
<1>8. CASE Interrupted("other")
  BY <1>8 DEF Interrupted, Entries
<1> QED BY <1>2, <1>3, <1>4, <1>5, <1>6, <1>7, <1>8 DEF OtherWriter, Writes

\* The client's entry stays in ~/.Xauthority while the client runs.
LEMMA OwnThereKept ==
  ASSUME AuthTypes, ClientTypes, Phases, Holder, ClientPhase, OwnWritten, OwnThere, OwnRemoved,
         [Next]_vars
  PROVE  OwnThere'
<1> SUFFICES ASSUME races' = {} PROVE OwnThere'
  BY DEF OwnThere
<1> USE DEF OwnThere, Held
<1>0. races = {}
  BY RacesGrow
<1>1. ASSUME UNCHANGED <<home, new, old, where, step>>,
             client' = client \/ client' \notin {"entering", "running"}
      PROVE  OwnThere'
  BY <1>0, <1>1
<1>2. CASE Early
  BY <1>1, <1>2, EarlyFrame DEF authVars
<1>3. CASE Manage /\ ~AbortClient /\ ~RemoveAuthorization
  <2>1. client' = client \/ client' \notin {"entering", "running"}
    <3>1. CASE StartupDone \/ OpenPamSession \/ ForkClient \/ RecordClient \/ ReapClient
      BY <3>1 DEF StartupDone, OpenPamSession, ForkClient, RecordClient, ReapClient
    <3>2. CASE ClientEnded \/ PingServer \/ AbortReaps \/ AbortAlarm \/ RunReset
      BY <3>2 DEF ClientEnded, PingServer, AbortReaps, AbortAlarm, RunReset
    <3>3. CASE ResetDone \/ ClosePam \/ ResetServer
      BY <3>3 DEF ResetDone, ClosePam, ResetServer, clientVars
    <3> QED BY <1>3, <3>1, <3>2, <3>3 DEF Manage
  <2>2. UNCHANGED authVars
    BY <1>3, FilesAlone
  <2> QED BY <1>1, <2>1, <2>2 DEF authVars
<1>4. CASE AbortClient
  <2>1. CASE UNCHANGED client
    BY <1>1, <1>4, <2>1 DEF AbortClient, authVars
  <2>2. CASE client' # client
    BY <1>4, <2>2 DEF AbortClient
  <2> QED BY <2>1, <2>2
<1>5. CASE RemoveAuthorization
  <2>1. client' = client /\ pc \in {"lock", "remove"}
    BY <1>5 DEF RemoveAuthorization, clientVars
  <2> QED BY <1>0, <2>1, RemovesAlone DEF Gone
<1>6. CASE PingAlarm \/ ScriptEnds \/ ClientStarts \/ ServerChanges
  <2>1. UNCHANGED authVars
    BY <1>6, FilesAlone
  <2>2. client' = client \/ client' \notin {"entering", "running"}
    BY <1>6 DEF PingAlarm, ScriptEnds, ClientStarts, ServerChanges, clientVars
  <2> QED BY <1>1, <2>1, <2>2 DEF authVars
<1>7. CASE ClientRuns
  <2>1. CASE client' = "entering" /\ Lock("client")
    BY <2>1 DEF Lock
  <2>2. CASE Backup
    BY <2>2 DEF Backup
  <2>3. CASE client = "entering" /\ Writes("client") /\ UNCHANGED client
    <3>1. CASE OpenFiles("client") \/ WriteFile("client") \/ Unlink
      BY <2>3, <3>1 DEF OpenFiles, WriteFile, Unlink
    <3>2. CASE lock = "client" /\ Link("client")
      BY <2>3, <3>2, UserAuthAssumption DEF Link, OwnWritten, Entries, AuthTypes
    <3> QED BY <2>3, <3>1, <3>2 DEF Writes
  <2>4. CASE client = "entering" /\ client' = "running" /\ Unlock
    BY <1>0, <2>4 DEF Unlock
  <2> QED BY <1>7, <2>1, <2>2, <2>3, <2>4 DEF ClientRuns
<1>8. CASE ClientDies \/ Impostor
  BY <1>8 DEF ClientDies, Impostor
<1>9. CASE OtherSessions
  <2>1. UNCHANGED client /\ OtherWriter
    BY <1>9 DEF OtherSessions, sessionVars
  <2>2. CASE client = "running"
    <3>1. where' = "home" => where = "home"
      BY <2>1 DEF OtherWriter, Lock, Writes, OpenFiles, WriteFile, Unlink, Link, Unlock,
         Interrupted, Led
    <3>2. where' = "home" => Held({Own})'
      BY <1>0, <2>1, <2>2, <3>1, OthersKeepOwn
    <3> QED BY <3>2
  <2>3. CASE client = "entering"
    <3>1. lock = "client" /\ step # "out"
      BY <2>3 DEF Holder
    <3>2. UNCHANGED <<home, new, old, where, step>>
      BY <2>1, <3>1 DEF OtherWriter, Lock, Writes, Interrupted, Led
    <3> QED BY <1>1, <2>1, <3>2
  <2> QED BY <2>1, <2>2, <2>3
<1>10. CASE DeadAlarm
  BY <1>10 DEF DeadAlarm, Raced
<1>11. CASE Term
  <2>1. pc # "remove"
    BY <1>11, RemovesAlone DEF Term, Phases, BeforeLogin, Ended, Raced
  <2> QED BY <1>1, <1>11, <2>1 DEF Term, authVars
<1>12. CASE UNCHANGED vars
  BY <1>1, <1>12 DEF vars, sessionVars, authVars
<1> QED
  BY <1>2, <1>3, <1>4, <1>5, <1>6, <1>7, <1>8, <1>9, <1>10, <1>11, <1>12, NextCases DEF Around

\* Once the session has removed its entry nobody puts it back: its client is gone.
LEMMA OwnRemovedKept ==
  ASSUME AuthTypes, ClientTypes, Phases, Holder, ClientPhase, OwnWritten, OwnRemoved, [Next]_vars
  PROVE  OwnRemoved'
<1> SUFFICES ASSUME races' = {}, tidied' PROVE OwnRemoved'
  BY DEF OwnRemoved
<1> USE DEF OwnRemoved
<1>0. races = {}
  BY RacesGrow
<1>1. tidied => client \in Gone /\ handler = "abort" /\ pc \in {"remove", "exited"}
  BY <1>0, RemovesAlone
<1>2. ASSUME UNCHANGED <<home, new, step, tidied, pc>> PROVE OwnRemoved'
  BY <1>0, <1>2
<1>3. CASE Early
  BY <1>1, <1>3, EarlyFrame DEF BeforeLogin, authVars
<1>4. CASE Manage /\ ~AbortClient /\ ~RemoveAuthorization
  <2>1. UNCHANGED authVars /\ pc \notin {"remove", "exited"}
    <3>1. CASE StartupDone \/ OpenPamSession \/ ForkClient \/ RecordClient \/ ReapClient
      BY <1>4, <3>1, FilesAlone DEF StartupDone, OpenPamSession, ForkClient, RecordClient, ReapClient
    <3>2. CASE ClientEnded \/ PingServer \/ AbortReaps \/ AbortAlarm \/ RunReset
      BY <1>4, <3>2, FilesAlone DEF ClientEnded, PingServer, AbortReaps, AbortAlarm, RunReset
    <3>3. CASE ResetDone \/ ClosePam \/ ResetServer
      BY <1>4, <3>3, FilesAlone DEF ResetDone, ClosePam, ResetServer
    <3> QED BY <1>4, <3>1, <3>2, <3>3 DEF Manage
  <2> QED BY <1>1, <2>1 DEF authVars
<1>5. CASE AbortClient
  <2>1. UNCHANGED tidied /\ pc = "abort"
    BY <1>5 DEF AbortClient, authVars, Interrupted
  <2> QED BY <1>1, <2>1
<1>6. CASE RemoveAuthorization
  <2>1. CASE pc = "lock"
    <3>1. ~tidied
      BY <1>1, <2>1
    <3>2. UNCHANGED tidied
      BY <1>6, <2>1 DEF RemoveAuthorization, Lock, authVars
    <3> QED BY <3>1, <3>2
  <2>2. CASE pc = "remove" /\ pc' = "remove" /\ Writes("session")
    <3>1. CASE OpenFiles("session") \/ WriteFile("session") \/ Unlink
      BY <1>0, <2>2, <3>1 DEF OpenFiles, WriteFile, Unlink
    <3>2. CASE lock = "session" /\ Link("session") /\ home = NoFile /\ home' = new /\ new' = {}
      BY <2>2, <3>2 DEF Link, OwnWritten, Entries
    <3>3. CASE Link("session") /\ UNCHANGED <<home, new, tidied>>
      BY <1>0, <2>2, <3>3 DEF Link
    <3> QED BY <2>2, <3>1, <3>2, <3>3 DEF Writes, Link
  <2>3. CASE pc = "remove" /\ pc' = "exited" /\ (OpenFails \/ Unlock)
    BY <1>0, <2>3 DEF OpenFails, Unlock
  <2> QED BY <1>6, <2>1, <2>2, <2>3 DEF RemoveAuthorization, Exit
<1>7. CASE PingAlarm \/ ScriptEnds \/ ClientStarts \/ ServerChanges
  <2>1. UNCHANGED authVars
    BY <1>7, FilesAlone
  <2>2. UNCHANGED pc \/ pc \notin {"remove", "exited"}
    BY <1>7 DEF PingAlarm, ScriptEnds, ClientStarts, ServerChanges
  <2> QED BY <1>1, <1>2, <2>1, <2>2 DEF authVars
<1>8. CASE ClientRuns
  <2>1. ~tidied
    BY <1>1, <1>8 DEF ClientRuns, Gone
  <2>2. tidied' => tidied
    <3>1. CASE Writes("client")
      BY <3>1 DEF Writes, OpenFiles, WriteFile, Unlink, Link, AuthTypes
    <3>2. CASE Lock("client") \/ OpenFails \/ Unlock
      BY <3>2 DEF Lock, OpenFails, Unlock
    <3> QED BY <1>8, <3>1, <3>2 DEF ClientRuns
  <2> QED BY <2>1, <2>2
<1>9. CASE ClientDies
  <2>1. UNCHANGED <<home, new, tidied, pc>> /\ (pc = "remove" => UNCHANGED step)
    BY <1>9 DEF ClientDies, Interrupted, Holder
  <2> QED BY <1>0, <2>1
<1>10. CASE OtherSessions
  <2>1. UNCHANGED pc /\ pc \notin Ended /\ OtherWriter
    BY <1>10 DEF OtherSessions, sessionVars
  <2>2. tidied' => tidied
    BY <2>1 DEF OtherWriter, Lock, Writes, OpenFiles, WriteFile, Unlink, Link, OpenFails, Unlock,
       Interrupted, AuthTypes
  <2>3. pc = "remove" /\ lock = "session" /\ step = "linked"
    BY <1>0, <1>1, <2>1, <2>2 DEF Ended, Holder
  <2>4. UNCHANGED <<home, new, step, tidied>>
    BY <2>1, <2>3 DEF OtherWriter, Lock, Writes, Interrupted
  <2> QED BY <1>2, <2>1, <2>4
<1>11. CASE DeadAlarm \/ Impostor
  BY <1>11 DEF DeadAlarm, Impostor, Raced
<1>12. CASE Term
  <2>1. pc \notin {"remove", "exited"}
    BY <1>1, <1>12, RemovesAlone DEF Term, Raced, Ended, Phases, BeforeLogin
  <2>2. UNCHANGED tidied
    BY <1>12, <2>1 DEF Term, authVars
  <2> QED BY <1>1, <2>1, <2>2
<1>13. CASE UNCHANGED vars
  BY <1>2, <1>13 DEF vars, sessionVars, authVars
<1> QED
  BY <1>3, <1>4, <1>5, <1>6, <1>7, <1>8, <1>9, <1>10, <1>11, <1>12, <1>13, NextCases DEF Around

-----------------------------------------------------------------------------
(* The theorems.                                                           *)

ProcessInv ==
  /\ GreetTypes /\ PlaceTypes /\ CountTypes /\ ClientTypes /\ EndTypes /\ AuthTypes
  /\ OpenTries /\ Phases /\ Passed /\ Undone /\ ClientPhase
  /\ Holder /\ OthersSafe /\ OwnWritten /\ OwnThere /\ OwnRemoved
  /\ WidgetSound /\ SecretAtPrompt

\* The session begins with the X server not yet open, and nothing else.
LEMMA InitProcessInv == Init => ProcessInv /\ WidgetShown
<1> SUFFICES ASSUME Init PROVE ProcessInv /\ WidgetShown
  OBVIOUS
<1>1. WidgetSound /\ WidgetShown /\ SecretAtPrompt
  <2>1. widget = NoWidget /\ pc = "open"
    BY DEF Init
  <2> QED BY <2>1, FreshSound DEF WidgetSound, WidgetShown, SecretAtPrompt, NoSecret
<1>2. GreetTypes /\ PlaceTypes /\ ClientTypes /\ EndTypes
  BY DEF Init, GreetTypes, PlaceTypes, ClientTypes, EndTypes, PromptId, Places
<1>3. CountTypes /\ OpenTries
  BY SessionAssumption DEF Init, CountTypes, OpenTries, Larger
<1>4. AuthTypes /\ Holder /\ OthersSafe /\ OwnWritten /\ OwnThere /\ OwnRemoved
  BY DEF Init, AuthInit, AuthTypes, Files, Holder, OthersSafe, Held, OwnWritten, OwnThere, OwnRemoved
<1>5. Phases /\ Passed /\ Undone /\ ClientPhase
  BY DEF Init, Phases, Passed, Undone, ClientPhase, BeforeLogin, PamClosed, Ended
<1> QED BY <1>1, <1>2, <1>3, <1>4, <1>5 DEF ProcessInv

\* Every step keeps the invariant.
LEMMA StepProcessInv == ProcessInv /\ [Next]_vars => ProcessInv'
<1> SUFFICES ASSUME ProcessInv, [Next]_vars PROVE ProcessInv'
  OBVIOUS
<1> USE DEF ProcessInv
<1>1. GreetTypes' /\ PlaceTypes' /\ ClientTypes' /\ EndTypes' /\ AuthTypes'
  BY GreetTypesKept, PlaceTypesKept, ClientTypesKept, EndTypesKept, AuthTypesStep
<1>2. CountTypes' /\ OpenTries'
  BY CountTypesKept
<1>3. Phases' /\ Passed' /\ Undone' /\ ClientPhase'
  BY PhasesKept, PassedKept, UndoneKept, ClientPhaseKept
<1>4. Holder' /\ OthersSafe' /\ OwnWritten' /\ OwnThere' /\ OwnRemoved'
  BY HolderKept, OthersSafeKept, OwnWrittenKept, OwnThereKept, OwnRemovedKept
<1>5. WidgetSound' /\ SecretAtPrompt'
  BY WidgetKept, SecretKept
<1> QED BY <1>1, <1>2, <1>3, <1>4, <1>5

\* The invariant holds in every session.
LEMMA ProcessInvariant == Spec => []ProcessInv
BY InitProcessInv, StepProcessInv, PTL DEF Spec

(***************************************************************************)
(* The variables of a session have their types.                            *)
(***************************************************************************)
THEOREM ProcessTypes == Spec => []TypeOK
<1>1. ProcessInv => TypeOK
  BY TypesSplit DEF ProcessInv, WidgetSound, SoundWidget
<1> QED BY <1>1, ProcessInvariant, PTL

(***************************************************************************)
(* Where no key inserts more characters than the field shows, the user     *)
(* sees the cursor inside the text and inside the part that is drawn.      *)
(***************************************************************************)
THEOREM CursorIsShown ==
  ASSUME \A n \in KeyLengths : n <= Field
  PROVE  Spec => []CursorAlwaysShown
<1>1. ProcessInv /\ WidgetShown /\ [Next]_vars => WidgetShown'
  BY WidgetKept DEF ProcessInv
<1>2. ProcessInv /\ WidgetShown => CursorAlwaysShown
  BY LoginAssumption
     DEF ProcessInv, WidgetSound, WidgetShown, SoundWidget, ShownWidget, Sound, Shown, Prompts,
         CursorAlwaysShown, CursorShown
<1> QED BY <1>1, <1>2, ProcessInvariant, InitProcessInv, PTL DEF Spec

(***************************************************************************)
(* Before a key ends the session no text typed without echo is drawn in    *)
(* the clear.                                                              *)
(***************************************************************************)
THEOREM SecretsAreHidden == Spec => []SecretHidden
<1>1. ProcessInv => SecretHidden
  BY DEF ProcessInv, SecretAtPrompt, SecretHidden
<1> QED BY <1>1, ProcessInvariant, PTL

(***************************************************************************)
(* A client is only started for a user who has passed the whole login.     *)
(***************************************************************************)
THEOREM LoginsAreComplete == Spec => []LoginComplete
<1>1. ProcessInv => LoginComplete
  BY DEF ProcessInv, Phases, ClientTypes, LoginComplete
<1> QED BY <1>1, ProcessInvariant, PTL

(***************************************************************************)
(* The PAM session is closed once.                                         *)
(***************************************************************************)
THEOREM PamIsPaired == Spec => []PamPaired
<1>1. ProcessInv => PamPaired
  BY DEF ProcessInv, Phases, Undone, ClientTypes, PamPaired
<1> QED BY <1>1, ProcessInvariant, PTL

(***************************************************************************)
(* The reset script has run once when the process exits.                   *)
(***************************************************************************)
THEOREM ResetsOnce == Spec => []ResetOnce
<1>1. ProcessInv => ResetOnce
  BY DEF ProcessInv, Phases, Undone, ClientTypes, EndTypes, Steps, ResetOnce
<1> QED BY <1>1, ProcessInvariant, PTL

(***************************************************************************)
(* The reset script never runs, and the process never ends, beside a       *)
(* client that goes on.                                                    *)
(***************************************************************************)
THEOREM ClientIsGone == Spec => []ClientGone
<1>1. ProcessInv => ClientGone
  BY DEF ProcessInv, Phases, Undone, ClientPhase, ClientTypes, PamClosed, AfterLogin, Gone, Ended,
         ClientGone
<1> QED BY <1>1, ProcessInvariant, PTL

(***************************************************************************)
(* The entries of the user's other sessions are kept by every writer of    *)
(* ~/.Xauthority, until one dies between unlink and link, or its link      *)
(* fails: the file has then lost all it had.                               *)
(***************************************************************************)
THEOREM OthersAreKept == Spec => []OthersKept
<1>1. ProcessInv => OthersKept
  BY DEF ProcessInv, OthersSafe, Held, OthersKept
<1> QED BY <1>1, ProcessInvariant, PTL

(***************************************************************************)
(* A client led to ~/.Xauthority finds its authorization there for as long *)
(* as it runs: no writer takes it out, and one that is between unlink and  *)
(* link has it in the file to come.  Until one dies there, or its link     *)
(* fails, and the file is gone: nothing in the code can help that client.  *)
(***************************************************************************)
THEOREM ClientIsAuthorized == Spec => []ClientAuthorized
<1>1. ProcessInv => ClientAuthorized
  BY DEF ProcessInv, OwnThere, Held, Entries, ClientAuthorized
<1> QED BY <1>1, ProcessInvariant, PTL

(***************************************************************************)
(* The session's authorization is gone once it has been removed.           *)
(***************************************************************************)
THEOREM AuthorizationIsRemoved == Spec => []AuthorizationRemoved
<1>1. ProcessInv => AuthorizationRemoved
  BY DEF ProcessInv, OwnRemoved, AuthorizationRemoved
<1> QED BY <1>1, ProcessInvariant, PTL

(***************************************************************************)
(* Nobody but a client that dies keeps the lock.                           *)
(***************************************************************************)
THEOREM LockIsGivenBack == Spec => []LockGivenBack
<1>1. ProcessInv => LockGivenBack
  BY DEF ProcessInv, Holder, LockGivenBack
<1> QED BY <1>1, ProcessInvariant, PTL
=============================================================================
