------------------------------ MODULE Session ------------------------------
(***************************************************************************)
(* One session process (xdm/session.c, the session's part of xdm/server.c, *)
(* greeter/greet.c, greeter/verify.c): it waits for the X server, greets   *)
(* the user in a conversation with PAM, starts the user's session as its   *)
(* client, waits for it while pinging the server, and at the end runs the  *)
(* reset script and exits with the status Manager acts on.                 *)
(*                                                                         *)
(* pc is the place in the code.  SIGTERM and SIGALRM leave wait() and the  *)
(* scripts by longjmp, so every place where that matters has its value.    *)
(* The build with PAM and without systemd is modelled.                     *)
(***************************************************************************)
EXTENDS Login, UserAuth, FiniteSets

CONSTANTS
  OpenRepeat,     \* the resource openRepeat
  PingInterval,   \* the resource pingInterval is not 0
  GrabServer,     \* the resource grabServer
  ResetBy,        \* how SessionExit resets the server: "signal", "pseudo", "none"
  MaxMessages,    \* bound: messages of PAM modules in one attempt
  MaxAttempts,    \* bound: attempts to log in
  MaxTerms,       \* bound: SIGTERMs
  MaxRaces,       \* bound: kinds of interruptions at unprepared places in one behaviour
  NameLength      \* the length of user names

ASSUME SessionAssumption ==
  /\ OpenRepeat \in Nat \ {0} /\ PingInterval \in BOOLEAN /\ GrabServer \in BOOLEAN
  /\ ResetBy \in {"signal", "pseudo", "none"}
  /\ MaxMessages \in Nat /\ MaxAttempts \in Nat /\ MaxTerms \in Nat
  /\ MaxRaces \in Nat
  /\ NameLength \in 1 .. (TextMax - 2)

VARIABLES
  pc,
  tries,       \* loop counter of WaitForServer and AbortClient
  server,      \* the X server: "starting" refuses connections, "hung" does not answer
  script,      \* the script source() or runAndWait waits for is running
  widget,      \* the Login widget
  code,        \* what the user's keys asked for, greet.c's code
  call,        \* the PAM function that runs
  prompt,      \* pamconv's promptId
  user,        \* the PAM item PAM_USER is set
  messages,    \* messages in this attempt
  attempts,
  handle,      \* *thepamhp(): NULL, open, or ended and dangling
  pamOk,       \* pam_error = PAM_SUCCESS
  handler,     \* what SIGTERM does: "default", or "abort", catchTerm
  alarm,       \* SIGALRM will come: "ping" to catchAlrm, "abort" to waitAbort,
               \* "dead" to a handler that jumps into a frame that was left
  clientPid,   \* is it set
  client,      \* the process StartClient forks
  exitWith,    \* the argument of SessionExit
  status,      \* the exit status of the process
  terms,       \* SIGTERMs so far
  granted,     \* history: what this attempt has passed
  userAborted, \* history: a key that ends the session was pressed in this greeter
  opened, closes, resets, \* history: PAM session opened, times closed, reset scripts
  races        \* history: interruptions at places the code is not prepared for

greeterVars == <<widget, code, call, prompt, user, messages, pamOk>>
clientVars  == <<handler, alarm, clientPid, client, opened, resets>>
sessionVars == <<pc, tries, server, script, widget, code, call, prompt, user, messages, attempts,
                 handle, pamOk, handler, alarm, clientPid, client, exitWith, status, terms,
                 granted, userAborted, opened, closes, resets, races>>
vars == <<sessionVars, authVars>>

Codes == {"OBEYSESS", "REMANAGE", "UNMANAGE", "RESERVER", "OPENFAILED"}

Ended == {"exited", "killed", "crashed"}

Places == {"open", "xrdb", "init", "setup", "attempt", "pam", "greet", "pamdone", "welcome", "startup",
           "opensession", "fork", "forked", "wait", "reaped", "pinging", "abort",
           "abortwait", "reset", "resetting", "closing", "resetserver", "lock", "remove"} \cup Ended

Steps == {"auth", "acct", "cred", "verify", "startup"}  \* all a login has to pass

Races == {"noclient", "early", "late", "lost", "returned", "alarm"}

NoWidget == [Initialize EXCEPT !.state = "done"]   \* before it is made and once destroyed

TypeOK ==
  /\ pc \in Places /\ tries \in 0 .. Larger(OpenRepeat, 3)
  /\ server \in {"starting", "up", "hung", "down"} /\ script \in BOOLEAN
  /\ widget \in Widgets
  /\ code \in {"none", "REMANAGE", "UNMANAGE", "RESERVER"}
  /\ call \in {"none", "auth", "acct", "chauthtok", "setcred"}
  /\ prompt \in PromptId /\ user \in BOOLEAN
  /\ messages \in 0 .. MaxMessages /\ attempts \in 0 .. MaxAttempts
  /\ handle \in {"none", "open", "ended"} /\ pamOk \in BOOLEAN
  /\ handler \in {"default", "abort"} /\ alarm \in {"none", "ping", "abort", "dead"}
  /\ clientPid \in BOOLEAN
  /\ client \in {"none", "born", "starting", "impostor", "entering", "running", "told", "killed",
                 "dead", "reaped"}
  /\ exitWith \in Codes \cup {"none"} /\ status \in Codes \cup {"none"}
  /\ terms \in 0 .. MaxTerms
  /\ granted \in SUBSET Steps /\ userAborted \in BOOLEAN
  /\ opened \in BOOLEAN /\ closes \in Nat /\ resets \in Nat
  /\ races \in SUBSET Races /\ AuthTypes

Init ==
  /\ pc = "open" /\ tries = 0 /\ server = "starting" /\ script = FALSE
  /\ widget = NoWidget /\ code = "none" /\ call = "none" /\ prompt = 0
  /\ user = FALSE /\ messages = 0 /\ attempts = 0 /\ handle = "none" /\ pamOk = FALSE
  /\ handler = "default" /\ alarm = "none" /\ clientPid = FALSE /\ client = "none"
  /\ exitWith = "none" /\ status = "none" /\ terms = 0
  /\ granted = {} /\ userAborted = FALSE
  /\ opened = FALSE /\ closes = 0 /\ resets = 0 /\ races = {} /\ AuthInit

\* CloseGreet; the locals of GreetUser go with it, as they do where the process ends
GreeterLeft ==
  /\ widget' = NoWidget /\ prompt' = 0 /\ user' = FALSE
  /\ messages' = 0 /\ attempts' = 0 /\ userAborted' = FALSE

\* exit(s) without SessionExit
Exit(s) == pc' = "exited" /\ status' = s

\* SessionExit(d, s, removeAuth) from the greeter
SessionExit(s) == pc' = "closing" /\ exitWith' = s

\* an interruption at a place the code is not prepared for
Raced(kinds) == races' = races \cup kinds /\ Cardinality(races') <= MaxRaces

-----------------------------------------------------------------------------
(* Up to the greeter.                                                      *)

\* XOpenDisplay succeeds, fails, or hangs until the alarm
WaitForServer ==
  /\ pc = "open"
  /\ CASE server = "up" -> pc' = "xrdb" /\ script' = TRUE /\ tries' = 0 /\ UNCHANGED status
       [] server = "hung" -> Exit("OPENFAILED") /\ UNCHANGED <<script, tries>>
       [] OTHER -> /\ tries' = tries + 1 /\ UNCHANGED script
                   /\ IF tries' < OpenRepeat THEN UNCHANGED <<pc, status>> ELSE Exit("OPENFAILED")
  /\ UNCHANGED <<server, greeterVars, attempts, handle, clientVars, exitWith, terms,
                 granted, userAborted, closes, races, authVars>>

\* LoadXloginResources has run xrdb; the greeter library loads or not
LoadGreeter ==
  /\ pc = "xrdb" /\ ~script
  /\ \/ pc' = "init" /\ UNCHANGED status
     \/ Exit("UNMANAGE")
  /\ UNCHANGED <<tries, server, script, greeterVars, attempts, handle, clientVars, exitWith,
                 terms, granted, userAborted, closes, races, authVars>>

\* InitGreet with SecureDisplay, whose alarm ends a hanging grab, then SetupDisplay
InitGreet ==
  /\ pc = "init"
  /\ \/ /\ server = "up"
        /\ pc' = IF GrabServer THEN "attempt" ELSE "setup"
        /\ widget' = Initialize /\ script' = ~GrabServer
        /\ UNCHANGED <<status, exitWith>>
     \/ /\ server \in {"up", "hung"}              \* not grabbed, or timed out
        /\ SessionExit("RESERVER") /\ UNCHANGED <<status, script, widget>>
     \/ /\ server = "down"
        /\ Exit("RESERVER") /\ UNCHANGED <<exitWith, script, widget>>
  /\ UNCHANGED <<tries, server, code, call, prompt, user, messages, pamOk, attempts, handle,
                 clientVars, terms, granted, userAborted, closes, races, authVars>>

SetupDone ==
  /\ pc = "setup" /\ ~script
  /\ pc' = "attempt"
  /\ UNCHANGED <<tries, server, script, greeterVars, attempts, handle, clientVars, exitWith,
                 status, terms, granted, userAborted, closes, races, authVars>>

-----------------------------------------------------------------------------
(* GreetUser: one attempt to log in.                                       *)

\* both prompts are hidden, pam_start; if it fails the handle is NULL.  A later
\* pam_set_item may fail too.
PamStart ==
  /\ pc = "attempt" /\ attempts < MaxAttempts
  /\ attempts' = attempts + 1
  /\ widget' = SetPrompt(SetPrompt(widget, 0, "hidden"), 1, "hidden")
  /\ messages' = 0 /\ user' = FALSE /\ prompt' = 0 /\ granted' = {}
  /\ \/ /\ pc' = "pam" /\ handle' = "open" /\ pamOk' = TRUE /\ call' = "auth"
     \/ /\ pc' = "pamdone" /\ handle' \in {"none", "open"} /\ pamOk' = FALSE /\ call' = "none"
  /\ UNCHANGED <<tries, server, script, code, clientVars, exitWith, status, terms,
                 userAborted, closes, races, authVars>>

\* pamconv shows the name first when PAM knows it
Named == IF user THEN SetValue(SetPrompt(widget, 0, "info"), 0, NameLength) ELSE widget
PromptOf == IF user THEN 1 ELSE 0

\* a module's message: an error, an information, or a question, for which Greet
\* dispatches events
PamConv ==
  /\ pc = "pam" /\ messages < MaxMessages
  /\ messages' = messages + 1 /\ prompt' = PromptOf
  /\ \/ widget' = ErrorMessage(Named, TRUE) /\ UNCHANGED pc
     \/ /\ widget' = SetValue(SetPrompt(Named, PromptOf, "info"), PromptOf, 0)
        /\ UNCHANGED pc
     \/ \E style \in {"on", "off"} :
          /\ widget' = [SetValue(SetPrompt(Named, PromptOf, style), PromptOf, 0)
                         EXCEPT !.allow = FALSE]
          /\ pc' = "greet"
  /\ UNCHANGED <<tries, server, script, code, call, user, pamOk, attempts, handle, clientVars,
                 exitWith, status, terms, granted, userAborted, closes, races, authVars>>

\* events of the widget that do not end Greet
GreetEvent ==
  /\ pc = "greet" /\ server = "up"
  /\ \/ widget' \in Typed(widget)
     \/ widget' = TabField(widget)
     \/ widget' = AllowAccess(widget)
     \/ widget.timer /\ widget' = FailTimeout(widget)
     \/ widget' = DrawIt(widget)                      \* Redisplay
     \/ FinishField(widget).state # "done" /\ widget' = FinishField(widget)
  /\ UNCHANGED <<pc, tries, server, script, code, call, prompt, user, messages, pamOk, attempts,
                 handle, clientVars, exitWith, status, terms, granted, userAborted, closes,
                 races, authVars>>

\* mutant: the answer stays in the prompt
GreetOk_kept ==
  /\ pc = "greet" /\ server = "up"
  /\ FinishField(widget).state = "done"
  /\ code' = "none" /\ pc' = "pam"
  /\ widget' = FinishField(widget)
  /\ user' \in {user, TRUE}
  /\ UNCHANGED <<tries, server, script, call, prompt, messages, pamOk, attempts, handle,
                 clientVars, exitWith, status, terms, granted, userAborted, closes, races,
                 authVars>>

\* GreetDone with NOTIFY_OK: pamconv answers with the value of its prompt and
\* erases it; the module may have learned the user's name
GreetOk ==
  /\ pc = "greet" /\ server = "up"
  /\ FinishField(widget).state = "done"
  /\ code' = "none" /\ pc' = "pam"
  /\ widget' = SetValue(FinishField(widget), prompt, 0)
  /\ user' \in {user, TRUE}
  /\ UNCHANGED <<tries, server, script, call, prompt, messages, pamOk, attempts, handle,
                 clientVars, exitWith, status, terms, granted, userAborted, closes, races,
                 authVars>>

\* GreetDone with one of the other notifications: pamconv returns PAM_CONV_ERR
GreetAbort ==
  /\ pc = "greet" /\ server = "up"
  /\ code' \in {"REMANAGE", "UNMANAGE", "RESERVER"} /\ pc' = "pam"
  /\ widget' = Aborted(widget) /\ userAborted' = TRUE
  /\ UNCHANGED <<tries, server, script, call, prompt, user, messages, pamOk, attempts, handle,
                 clientVars, exitWith, status, terms, granted, closes, races, authVars>>

\* GreetPingServer: SessionPingFailed without a client
GreetPing ==
  /\ pc = "greet" /\ PingInterval /\ server # "up"
  /\ SessionExit("RESERVER") /\ GreeterLeft
  /\ UNCHANGED <<tries, server, script, code, call, pamOk, handle, clientVars, status, terms,
                 granted, closes, races, authVars>>

\* IOErrorHandler and ErrorHandler: Xlib called on a dead server, or a protocol error
XlibError ==
  /\ pc \in {"greet", "pam", "attempt", "pamdone", "welcome"}
  /\ IF server = "down" THEN Exit("RESERVER") ELSE pc = "greet" /\ Exit("UNMANAGE")
  /\ GreeterLeft
  /\ UNCHANGED <<tries, server, script, code, call, pamOk, handle, clientVars, exitWith,
                 terms, granted, closes, races, authVars>>

\* the PAM function returns.  What a module makes of a failed conversation is its
\* own affair; a password that could not be changed is asked for again.
PamReturns ==
  /\ pc = "pam"
  /\ \/ call = "auth" /\ call' = "acct" /\ granted' = granted \cup {"auth"}
        /\ UNCHANGED <<pc, pamOk, widget>>
     \/ call \in {"acct", "chauthtok"} /\ call' = "setcred" /\ granted' = granted \cup {"acct"}
        /\ UNCHANGED <<pc, pamOk, widget>>
     \/ call = "acct" /\ call' = "chauthtok" /\ widget' = ErrorMessage(widget, FALSE)
        /\ UNCHANGED <<pc, pamOk, granted>>
     \/ call = "setcred" /\ call' = "none" /\ granted' = granted \cup {"cred"}
        /\ pc' = "pamdone" /\ UNCHANGED <<pamOk, widget>>
     \/ call' = "none" /\ pc' = "pamdone" /\ pamOk' = FALSE /\ UNCHANGED <<granted, widget>>
  /\ UNCHANGED <<tries, server, script, code, prompt, user, messages, attempts, handle, clientVars,
                 exitWith, status, terms, userAborted, closes, races, authVars>>

\* pam_done with a key that ends the session: CloseGreet, SessionExit
GreetCode ==
  /\ pc = "pamdone" /\ code # "none"
  /\ SessionExit(code) /\ GreeterLeft
  /\ UNCHANGED <<tries, server, script, code, call, pamOk,
                 handle, clientVars, status, terms, granted, closes, races, authVars>>

\* the last draw, "Login Successful"
Welcome == SetValue(SetPrompt(widget, 1, "info"), 1, 0)

\* mutant: pam_error is not looked at
Verified_unchecked ==
  /\ pc = "pamdone" /\ code = "none"
  /\ pc' = "welcome" /\ granted' = granted \cup {"verify"} /\ widget' = Welcome
  /\ UNCHANGED <<tries, server, script, code, call, prompt, user, messages, pamOk, attempts,
                 handle, clientVars, exitWith, status, terms, userAborted, closes, races,
                 authVars>>

\* Verify accepts
Verified ==
  /\ pc = "pamdone" /\ code = "none" /\ pamOk
  /\ pc' = "welcome" /\ granted' = granted \cup {"verify"} /\ widget' = Welcome
  /\ UNCHANGED <<tries, server, script, code, call, prompt, user, messages, pamOk, attempts,
                 handle, clientVars, exitWith, status, terms, userAborted, closes, races,
                 authVars>>

\* the loop is left: CloseGreet, then the startup script
GreetLeaves ==
  /\ pc = "welcome"
  /\ GreeterLeft /\ pc' = "startup" /\ script' = TRUE
  /\ UNCHANGED <<tries, server, code, call, pamOk, handle, clientVars, exitWith, status, terms,
                 granted, closes, races, authVars>>

\* PAM or Verify refuses: FailedLogin, pam_end.  With a NULL handle pam_end fails
\* and the code goes back to pam_done, for ever.
FailedLogin ==
  /\ pc = "pamdone" /\ code = "none"
  /\ widget' = DrawFail(widget)
  /\ IF handle = "open" THEN pc' = "attempt" /\ handle' = "ended" ELSE UNCHANGED <<pc, handle>>
  /\ UNCHANGED <<tries, server, script, code, call, prompt, user, messages, pamOk, attempts,
                 clientVars, exitWith, status, terms, granted, userAborted, closes, races,
                 authVars>>

-----------------------------------------------------------------------------
(* The user's session.                                                     *)

\* the startup script has ended; ManageSession installs catchTerm
StartupDone ==
  /\ pc = "startup" /\ ~script
  /\ \/ /\ pc' = "opensession" /\ handler' = "abort"
        /\ granted' = granted \cup {"startup"} /\ UNCHANGED exitWith
     \/ SessionExit("OBEYSESS") /\ UNCHANGED <<handler, granted>>
  /\ UNCHANGED <<tries, server, script, greeterVars, attempts, handle, alarm, clientPid, client,
                 opened, resets, status, terms, userAborted, closes, races, authVars>>

\* StartClient: pam_open_session, whose result is not looked at
OpenPamSession ==
  /\ pc = "opensession"
  /\ opened' = TRUE /\ pc' = "fork"
  /\ UNCHANGED <<tries, server, script, greeterVars, attempts, handle, handler, alarm, clientPid,
                 client, resets, exitWith, status, terms, granted, userAborted, closes, races,
                 authVars>>

\* StartClient's fork; without a client the session is over
ForkClient ==
  /\ pc = "fork"
  /\ \/ client' = "born" /\ pc' = "forked" /\ UNCHANGED exitWith
     \/ pc' = "reset" /\ exitWith' = "OBEYSESS" /\ UNCHANGED client
  /\ UNCHANGED <<tries, server, script, greeterVars, attempts, handle, handler, alarm, clientPid,
                 opened, resets, status, terms, granted, userAborted, closes, races, authVars>>

\* mutant: the alarm is not set
Waiting_unarmed == pc' = "wait" /\ alarm' = "none"

Waiting == pc' = "wait" /\ alarm' = IF PingInterval THEN "ping" ELSE "none"

\* mutant: *pidp is not set
RecordClient_unset ==
  /\ pc = "forked"
  /\ clientPid' = clientPid /\ Waiting
  /\ UNCHANGED <<tries, server, script, greeterVars, attempts, handle, handler, client, opened,
                 resets, exitWith, status, terms, granted, userAborted, closes, races, authVars>>

RecordClient ==
  /\ pc = "forked"
  /\ clientPid' = TRUE /\ Waiting
  /\ UNCHANGED <<tries, server, script, greeterVars, attempts, handle, handler, client, opened,
                 resets, exitWith, status, terms, granted, userAborted, closes, races, authVars>>

\* wait() returns in the kernel, then to ManageSession
ReapClient ==
  /\ pc = "wait" /\ client = "dead"
  /\ client' = "reaped" /\ pc' = "reaped"
  /\ UNCHANGED <<tries, server, script, greeterVars, attempts, handle, handler, alarm,
                 clientPid, opened, resets, exitWith, status, terms, granted, userAborted,
                 closes, races, authVars>>

\* the loop ends when it is the client that wait() returned
ClientEnded ==
  /\ pc = "reaped"
  /\ IF clientPid THEN alarm' = "none" /\ pc' = "reset" /\ exitWith' = "OBEYSESS"
     ELSE Waiting /\ UNCHANGED exitWith
  /\ UNCHANGED <<tries, server, script, greeterVars, attempts, handle, handler, clientPid, client,
                 opened, resets, status, terms, granted, userAborted, closes, races, authVars>>

\* catchAlrm jumps out of wait(); what wait() returned is lost.  Later the jump
\* goes back into the loop the session had left.
PingAlarm ==
  /\ alarm = "ping" /\ pc \in {"wait", "reaped", "abort", "reset", "resetting", "closing"}
  /\ pc = "wait" => client # "reaped"       \* wait() fails at once, alarm(0) follows
  /\ pc' = "pinging" /\ alarm' = "none" /\ script' = FALSE
  /\ Raced(IF pc = "wait" THEN {} ELSE IF pc = "reaped" THEN {"lost"} ELSE {"alarm"})
  /\ UNCHANGED <<tries, server, greeterVars, attempts, handle, handler, clientPid, client, opened,
                 resets, exitWith, status, terms, granted, userAborted, closes, authVars>>

\* mutant: SessionPingFailed leaves the client alone
PingServer_direct ==
  /\ pc = "pinging"
  /\ \/ server = "up" /\ Waiting /\ UNCHANGED <<exitWith, tries>>
     \/ server # "up" /\ pc' = "reset" /\ exitWith' = "RESERVER" /\ tries' = 0 /\ UNCHANGED alarm
  /\ UNCHANGED <<server, script, greeterVars, attempts, handle, handler, clientPid, client, opened,
                 resets, status, terms, granted, userAborted, closes, races, authVars>>

\* PingServer answers, or SessionPingFailed begins
PingServer ==
  /\ pc = "pinging"
  /\ \/ server = "up" /\ Waiting /\ UNCHANGED <<exitWith, tries>>
     \/ server # "up" /\ pc' = "abort" /\ exitWith' = "RESERVER" /\ tries' = 0 /\ UNCHANGED alarm
  /\ UNCHANGED <<server, script, greeterVars, attempts, handle, handler, clientPid, client, opened,
                 resets, status, terms, granted, userAborted, closes, races, authVars>>

-----------------------------------------------------------------------------
(* The end.                                                                *)

\* mutant: no reset script after an abort
AbortDone_direct == pc' = "closing" /\ alarm' = alarm /\ tries' = 0

AbortDone == pc' = "reset" /\ alarm' = alarm /\ tries' = 0

\* AbortClient sends SIGTERM, then SIGKILL.  Pid 0 is the session's own process
\* group: it interrupts itself.  A client that has not called setsid has no group.
AbortClient ==
  /\ pc = "abort"
  /\ CASE ~clientPid ->
            Raced({"noclient"}) /\ UNCHANGED <<pc, tries, client, alarm>>
       [] clientPid /\ client = "born" ->
            Raced({"early"}) /\ AbortDone /\ UNCHANGED client
       [] clientPid /\ client = "reaped" -> AbortDone /\ UNCHANGED <<client, races>>
       [] OTHER ->
            /\ client' = IF client = "dead" THEN client
                         ELSE IF tries = 0 /\ client # "killed" THEN "told" ELSE "killed"
            /\ pc' = "abortwait" /\ alarm' = "abort" /\ UNCHANGED <<tries, races>>
  /\ UNCHANGED <<server, script, greeterVars, attempts, handle, handler, clientPid, opened,
                 resets, exitWith, status, terms, granted, userAborted, closes>>
  /\ IF client' = client THEN UNCHANGED authVars ELSE Interrupted("client")

\* wait() in AbortClient returns the client
AbortReaps ==
  /\ pc = "abortwait" /\ client = "dead"
  /\ client' = "reaped" /\ alarm' = "none" /\ pc' = "reset" /\ tries' = 0
  /\ UNCHANGED <<server, script, greeterVars, attempts, handle, handler, clientPid, opened,
                 resets, exitWith, status, terms, granted, userAborted, closes, races, authVars>>

\* mutant: the jump restores the loop counter
AbortAlarm_restored ==
  /\ pc = "abortwait"
  /\ alarm' = "none"
  /\ IF tries < 3 THEN pc' = "abort" /\ tries' = tries ELSE pc' = "reset" /\ tries' = 0
  /\ client' \in {client} \cup IF client = "dead" THEN {"reaped"} ELSE {}
  /\ UNCHANGED <<server, script, greeterVars, attempts, handle, handler, clientPid, opened,
                 resets, exitWith, status, terms, granted, userAborted, closes, races, authVars>>

\* waitAbort jumps out of it, perhaps with the client reaped: four times at most
AbortAlarm ==
  /\ pc = "abortwait"
  /\ alarm' = "none"
  /\ IF tries < 3 THEN pc' = "abort" /\ tries' = tries + 1 ELSE pc' = "reset" /\ tries' = 0
  /\ client' \in {client} \cup IF client = "dead" THEN {"reaped"} ELSE {}
  /\ UNCHANGED <<server, script, greeterVars, attempts, handle, handler, clientPid, opened,
                 resets, exitWith, status, terms, granted, userAborted, closes, races, authVars>>

\* source(d->reset)
RunReset ==
  /\ pc = "reset"
  /\ pc' = "resetting" /\ script' = TRUE /\ resets' = resets + 1
  /\ UNCHANGED <<tries, server, greeterVars, attempts, handle, handler, alarm, clientPid, client,
                 opened, exitWith, status, terms, granted, userAborted, closes, races, authVars>>

\* mutant: SessionExit forgets PAM
ResetDone_unclosed ==
  /\ pc = "resetting" /\ ~script
  /\ pc' = "resetserver"
  /\ UNCHANGED <<tries, server, script, greeterVars, attempts, handle, clientVars, exitWith, status,
                 terms, granted, userAborted, closes, races, authVars>>

ResetDone ==
  /\ pc = "resetting" /\ ~script
  /\ pc' = "closing"
  /\ UNCHANGED <<tries, server, script, greeterVars, attempts, handle, clientVars, exitWith, status,
                 terms, granted, userAborted, closes, races, authVars>>

\* SessionExit: pam_close_session and pam_end.  The static handle keeps its value:
\* a second SessionExit uses what pam_end has freed.
ClosePam ==
  /\ pc = "closing"
  /\ IF handle = "ended" /\ closes > 0 THEN pc' = "crashed" ELSE pc' = "resetserver"
  /\ IF handle = "none" THEN UNCHANGED <<handle, closes>>
     ELSE handle' = "ended" /\ closes' = closes + 1
  /\ UNCHANGED <<tries, server, script, greeterVars, attempts, clientVars, exitWith, status, terms,
                 granted, userAborted, races, authVars>>

\* SessionExit resets the server: a hung one costs pseudoReset its alarm, a dead one is
\* an IO error.  What comes from the greeter has no authorization to remove.
ResetServer ==
  /\ pc = "resetserver"
  /\ IF ResetBy = "pseudo" /\ server = "down" THEN Exit("RESERVER")
     ELSE IF handler = "abort" THEN pc' = "lock" /\ UNCHANGED status
     ELSE Exit(exitWith)
  /\ alarm' = "none"
  /\ UNCHANGED <<tries, server, script, greeterVars, attempts, handle, handler, clientPid, client,
                 opened, resets, exitWith, terms, granted, userAborted, closes, races, authVars>>

\* RemoveUserAuthorization, and exit.  Neither a lock nor a file it cannot have stops it.
RemoveAuthorization ==
  /\ \/ /\ pc = "lock" /\ pc' = "remove" /\ UNCHANGED status
        /\ Lock("session")
     \/ pc = "lock" /\ Exit(exitWith) /\ UNCHANGED authVars
     \/ pc = "remove" /\ Writes("session") /\ UNCHANGED <<pc, status>>
     \/ pc = "remove" /\ OpenFails /\ UNCHANGED where /\ Exit(exitWith)
     \/ pc = "remove" /\ Unlock /\ Exit(exitWith)
  /\ UNCHANGED <<tries, server, script, greeterVars, attempts, handle, clientVars, exitWith, terms,
                 granted, userAborted, closes, races>>

-----------------------------------------------------------------------------
(* What the session does not control.                                      *)

\* SIGTERM: the default action, or catchTerm's jump to AbortClient
Term ==
  /\ pc \notin Ended /\ terms < MaxTerms
  /\ terms' = terms + 1
  /\ IF handler = "default"
     THEN /\ pc' = "killed" /\ GreeterLeft
          /\ UNCHANGED <<tries, script, alarm, exitWith, races>>
     ELSE /\ pc' = "abort" /\ tries' = 0 /\ exitWith' = "OBEYSESS" /\ script' = FALSE
          /\ alarm' = IF pc = "pinging" \/ alarm = "abort" THEN "dead" ELSE alarm
          /\ Raced(IF pc \in {"reset", "resetting", "closing", "resetserver", "lock", "remove"}
                   THEN {"late"} ELSE {})
          /\ UNCHANGED <<widget, prompt, user, messages, attempts, userAborted>>
  /\ UNCHANGED <<server, code, call, pamOk, handle, handler, clientPid, client, opened, resets,
                 status, granted, closes>>
  /\ IF pc = "remove" THEN Interrupted("session") ELSE UNCHANGED authVars

\* an alarm whose handler jumps into a function that has been left
DeadAlarm ==
  /\ alarm = "dead" /\ pc \notin Ended
  /\ pc' = "crashed" /\ alarm' = "none" /\ Raced({"alarm"})
  /\ UNCHANGED <<tries, server, script, greeterVars, attempts, handle, handler, clientPid, client,
                 opened, resets, exitWith, status, terms, granted, userAborted, closes>>
  /\ IF pc = "remove" THEN Interrupted("session") ELSE UNCHANGED authVars

ScriptEnds ==
  /\ script /\ script' = FALSE
  /\ UNCHANGED <<pc, tries, server, greeterVars, attempts, handle, clientVars, exitWith, status,
                 terms, granted, userAborted, closes, races, authVars>>

\* the client's half of StartClient: setsid, and the user's identity, or a return of 0
\* that makes it run ManageSession's end
ClientStarts ==
  /\ \/ client = "born" /\ client' = "starting"
     \/ client = "starting" /\ client' = "impostor"
  /\ UNCHANGED <<pc, tries, server, script, greeterVars, attempts, handle, handler, alarm,
                 clientPid, opened, resets, exitWith, status, terms, granted, userAborted,
                 closes, races, authVars>>

\* SetUserAuthorization, in ~/.Xauthority or in userAuthDir, then the user's program
ClientRuns ==
  /\ \/ client = "starting" /\ client' = "entering" /\ Lock("client")
     \/ /\ client = "starting" /\ client' = "running" /\ Backup
        /\ UNCHANGED <<home, new, lock, step, old, added, others, tidied>>
     \/ client = "entering" /\ Writes("client") /\ UNCHANGED client
     \/ client = "entering" /\ client' = "running" /\ OpenFails /\ Backup
     \/ client = "entering" /\ client' = "running" /\ Unlock
  /\ UNCHANGED <<pc, tries, server, script, greeterVars, attempts, handle, handler, alarm,
                 clientPid, opened, resets, exitWith, status, terms, granted, userAborted,
                 closes, races>>

\* the child that returned 0 runs the reset script and SessionExit as its parent will
Impostor ==
  /\ client = "impostor"
  /\ client' = "dead" /\ resets' = resets + 1 /\ closes' = closes + 1
  /\ Raced({"returned"})
  /\ RemovesNothing
  /\ UNCHANGED <<pc, tries, server, script, greeterVars, attempts, handle, handler, alarm,
                 clientPid, opened, exitWith, status, terms, granted, userAborted>>

\* a client may end any time, and must when killed
ClientDies ==
  /\ client \in {"starting", "impostor", "entering", "running", "told", "killed"}
  /\ client' = "dead"
  /\ Interrupted("client")
  /\ UNCHANGED <<pc, tries, server, script, greeterVars, attempts, handle, handler, alarm,
                 clientPid, opened, resets, exitWith, status, terms, granted, userAborted,
                 closes, races>>

\* the user's other sessions; what they did before this one had a user shows in home
OtherSessions ==
  /\ pc \notin Ended /\ handler = "abort"
  /\ OtherWriter
  /\ UNCHANGED sessionVars

ServerChanges ==
  /\ pc \notin Ended
  /\ \/ server = "starting" /\ server' \in {"up", "hung", "down"}
     \/ server = "up" /\ server' \in {"hung", "down"}
     \/ server = "hung" /\ server' = "down"
  /\ UNCHANGED <<pc, tries, script, greeterVars, attempts, handle, clientVars, exitWith, status,
                 terms, granted, userAborted, closes, races, authVars>>

-----------------------------------------------------------------------------
Greeter == \/ PamStart \/ PamConv \/ GreetEvent \/ GreetOk \/ GreetAbort \/ GreetPing \/ XlibError
           \/ PamReturns \/ GreetCode \/ Verified \/ GreetLeaves \/ FailedLogin

\* the session after the greeter, as it runs by itself
Manage == \/ StartupDone \/ OpenPamSession \/ ForkClient \/ RecordClient \/ ReapClient
          \/ ClientEnded \/ PingServer \/ AbortClient \/ AbortReaps \/ AbortAlarm
          \/ RunReset \/ ResetDone \/ ClosePam \/ ResetServer \/ RemoveAuthorization

Environment == \/ PingAlarm \/ Term \/ DeadAlarm \/ ScriptEnds \/ ClientStarts
               \/ ClientRuns \/ Impostor \/ ClientDies \/ OtherSessions \/ ServerChanges

Next == \/ WaitForServer \/ LoadGreeter \/ InitGreet \/ SetupDone
        \/ Greeter \/ Manage \/ Environment

\* Calls return, scripts end, alarms come, a client sent SIGKILL dies, and wait() with
\* a dead client returns it before the minutes to the next ping are over.
Fairness ==
  /\ WF_vars(Manage) /\ WF_vars(ScriptEnds)
  /\ WF_vars(PingAlarm) /\ SF_vars(ReapClient)
  /\ WF_vars(client = "killed" /\ ClientDies)

Spec == Init /\ [][Next]_vars /\ Fairness

-----------------------------------------------------------------------------
(* Properties.  races is empty while no signal or alarm has come between   *)
(* two steps that must not be separated; each of its values is a place     *)
(* where what is promised below is really lost.                            *)

\* While the user types, the cursor is inside the text and inside the part of it
\* that was drawn: inserting, deleting, moving and scrolling (realizeValue and the
\* action procedures of Login.c) agree on valueShownStart.
CursorAlwaysShown ==
  pc = "greet" => \A i \in PromptId : CursorShown(widget.prompt[i])

\* A text typed at a prompt without echo is never drawn in the clear: pamconv and
\* DrawFail erase it before SetPrompt changes how the prompt is shown.  A key that
\* ends the session leaves it behind, and a message of a module that goes on shows it.
SecretHidden == widget.leaked => userAborted

\* A client is started only for a user who in one and the same attempt has passed
\* every PAM step, Verify and the startup script.
LoginComplete == client # "none" => granted = Steps

\* A PAM session that StartClient opened is closed once when the process exits, on
\* every path to SessionExit, and without one nothing is closed twice either.
PamPaired ==
  races = {} => closes <= 1 /\ (pc = "exited" /\ opened => closes = 1)

\* After a complete login the reset script has run exactly once when the process
\* exits, whether the client ended, the server died or SIGTERM came.
ResetOnce ==
  races = {} => resets <= 1 /\ (pc = "exited" /\ granted = Steps => resets = 1)

\* The reset script never runs, and the process never ends, beside a client that
\* goes on: it was never there, was reaped, is dead, or was sent SIGKILL.
ClientGone ==
  races = {} /\ pc \in {"resetting", "closing", "resetserver", "lock", "remove"} \cup Ended
    => client \in {"none", "reaped", "dead", "killed"}

\* No authorization of another session of the user is ever lost from ~/.Xauthority by
\* the merging of SetUserAuthorization and RemoveUserAuthorization under XauLockAuth,
\* whoever merges and wherever a writer dies, but by what is torn: an old file that
\* RemoveUserAuthorization cannot read, a death or a failing link after the unlink.
OthersKept ==
  step # "removed" => others \subseteq Entries(home)

\* As long as the client runs, the authorization entered in ~/.Xauthority for it is in
\* that file, or in the one about to be linked in its place: whatever the user's other
\* sessions merge and wherever they die, but for the ways to tear the file of OthersKept.
ClientAuthorized ==
  races = {} /\ client = "running" /\ where = "home" =>
    \/ Own \in Entries(home)
    \/ step = "removed" /\ home = NoFile /\ Own \in new

\* Once RemoveUserAuthorization has been through, no file in the user's home has the
\* session's authorization, also after a client that was killed while it entered it.
AuthorizationRemoved ==
  races = {} /\ pc = "exited" /\ tidied => Own \notin Entries(home) \cup new

\* A lock is left behind by a client that was killed, and otherwise by nobody: all ways
\* out of SetUserAuthorization and RemoveUserAuthorization give it back.
LockGivenBack ==
  races = {} => /\ lock = "session" => pc = "remove"
                /\ lock = "client" => client \notin {"none", "born", "starting", "running"}

\* SIGTERM ends a session: AbortClient's four rounds, the reset script and
\* SessionExit take it to its exit, whatever the client does.
TermEnds == terms > 0 /\ handler = "abort" ~> pc \in Ended \/ races # {}

\* The end of the user's client ends the session, though pings interrupt wait().
ClientEndNoticed == client = "dead" ~> pc \in Ended \/ races # {}

\* A server that dies while the client runs is found by a ping, and the session ends
\* though the client does not.
ServerDeathNoticed == server = "down" /\ pc = "wait" ~> pc \in Ended \/ races # {}
=============================================================================
