-------------------------------- MODULE Xdmcp -------------------------------
(***************************************************************************)
(* The XDMCP master (xdm/xdmcp.c) with its table of protoDisplays          *)
(* (xdm/protodpy.c), the records of XDMCP displays on its list, the        *)
(* remembered indirect clients and choices (xdm/choose.c) and the policy   *)
(* (xdm/policy.c) over the access database of module Access.               *)
(*                                                                         *)
(* The network loses, repeats, delays and reorders packets: a MANAGE may   *)
(* come for every ACCEPT that was ever sent, a KEEPALIVE for every session *)
(* that was ever begun, queries and REQUESTs at any time.  Of the packets  *)
(* the master sends, accepts and over keep what a terminal may act on.     *)
(* A packet that is answered without a change of state is no step.         *)
(***************************************************************************)
EXTENDS Access, FiniteSets

CONSTANTS
  End,           \* where packets come from: an address with its port and display number
  NoEnd,
  ClientOf,      \* the address without the port, ClientAddress
  Families,      \* the addresses of IPv4, those of either family
  Number,        \* the display number
  Offered,       \* the connection addresses of its REQUESTs that can be used, in order
  MultiHomed,    \* addresses whose host has several, if the resource sourceAddress is set
  Unnameable,    \* addresses for which the system makes no name
  Authorizes,    \* the authorization names in its REQUESTs: "none", "known", "unknown"
  Databases,     \* the databases the access file may have in the course of time
  Choosable,     \* hosts a chooser may report
  ProtoTimeout,  \* PROTO_TIMEOUT
  ChoiceTimeout, \* the resource choiceTimeout
  IdsPerSecond,  \* 16000 in init_session_id
  MaxTime,       \* bound: seconds
  MaxId,         \* bound: session ids
  MaxAuth        \* bound: authorizations made

Id == 1 .. MaxId
Time == 0 .. MaxTime

ASSUME XdmcpAssumption ==
  /\ NoEnd \notin End /\ ClientOf \in [End -> Address]
  /\ Authorizes \in [End -> {"none", "known", "unknown"}]
  /\ \A family \in Families : family \subseteq Address
  /\ Number \in [End -> Nat] /\ Offered \in [End -> Seq(Address)]
  /\ MultiHomed \subseteq Address /\ Unnameable \subseteq Address /\ Choosable \subseteq Address
  /\ Databases \subseteq Database
  /\ ProtoTimeout \in Nat /\ ChoiceTimeout \in Nat /\ IdsPerSecond \in Nat \ {0}
  /\ MaxTime \in Nat /\ MaxId \in Nat /\ MaxAuth \in Nat

VARIABLES
  database,
  now,            \* time()
  lastId,         \* globalSessionID
  lastAuth,       \* authorizations made so far, a fresh one has the next number
  protos,         \* protoDisplays
  displays,       \* the records of the list that come from XDMCP
  processes,      \* the master's children for them, one that was told to end included
  indirectUsers,
  choices,        \* newest first
  answer,         \* whose indirect query was answered just now, and by which hosts
  accepts,        \* the ACCEPTs that were sent
  over,           \* the ids of REFUSE, FAILED and ALIVE packets that say: not running
  owner,          \* history: whom an id was given to
  begun,          \* history: ids whose session was begun
  reported        \* history: the last choice of a client and its time

sessionVars == <<lastId, lastAuth, protos, displays, processes, accepts, over, owner, begun>>
queryVars   == <<indirectUsers, choices, answer, reported>>
vars == <<database, now, sessionVars, queryVars>>

Proto   == [end : End, id : Id, date : Time, auth : 0 .. MaxAuth]
Display == [end : End, id : Id, auth : 0 .. MaxAuth, chooser : BOOLEAN, running : BOOLEAN]
Process == [id : Id, client : Address, chooser : BOOLEAN]
Choice  == [client : Address, choice : Address, time : Time]
Accept  == [end : End, id : Id, auth : 0 .. MaxAuth]

NoName == [host |-> NoAddress, number |-> 0]
NoAnswer == [client |-> NoAddress, hosts |-> {}]
NoReport == [choice |-> NoAddress, time |-> 0]

SessionTypes ==
  /\ now \in Time
  /\ lastId \in Nat /\ lastAuth \in 0 .. MaxAuth
  /\ protos \in SUBSET Proto /\ displays \in SUBSET Display /\ processes \in SUBSET Process
  /\ accepts \in SUBSET Accept /\ over \in SUBSET Id
  /\ owner \in [Id -> End \cup {NoEnd}] /\ begun \in SUBSET Id

\* Every table keeps its type: those of sessions, of queries, and what both look at.
TypeOK ==
  /\ SessionTypes
  /\ database \in Databases
  /\ indirectUsers \in SUBSET Address
  /\ choices \in Seq(Choice)
  /\ answer.hosts \subseteq Address \cup {"BROADCAST"}
  /\ reported \in [Address -> [choice : Address \cup {NoAddress}, time : Time]]

Init ==
  /\ database \in Databases /\ now = 0
  /\ lastId = 0 /\ lastAuth = 0 /\ protos = {} /\ displays = {} /\ processes = {}
  /\ accepts = {} /\ over = {} /\ owner = [i \in Id |-> NoEnd] /\ begun = {}
  /\ indirectUsers = {} /\ choices = <<>> /\ answer = NoAnswer
  /\ reported = [a \in Address |-> NoReport]

-----------------------------------------------------------------------------
(* Names of displays.                                                      *)

\* SelectConnectionTypeIndex: the address of the packet if it is offered, else the first
\* offered, else that of a local display, which may offer none
ConnectionAddress(e) ==
  IF ClientOf[e] \in ToSet(Offered[e]) THEN ClientOf[e]
  ELSE IF Offered[e] # <<>> THEN Head(Offered[e])
  ELSE IF ClientOf[e] \in Local THEN ClientOf[e] ELSE NoAddress

\* NetworkAddressToName: "" is the host of a local display's name.  To remove the
\* common domain makes no two names the same.
NameOf(e) ==
  LET address == ConnectionAddress(e)
      host == IF address \in Local THEN ""
              ELSE IF address \in MultiHomed THEN IF ClientOf[e] \in Local THEN "" ELSE ClientOf[e]
              ELSE IF HostName[address] = HostName[LocalHost] THEN "" ELSE HostName[address]
  IN IF address \in Unnameable THEN NoName ELSE [host |-> host, number |-> Number[e]]

-----------------------------------------------------------------------------
(* Choices (choose.c).                                                     *)

Fresh(c) == now - c.time <= ChoiceTimeout

\* the choice of the client, and the choices without those that were found to have
\* timed out on the way to it
IndirectChoice(client) ==
  LET i == SelectInSeq(choices, LAMBDA c : Fresh(c) /\ c.client = client)
      kept[k \in 0 .. Len(choices)] ==
        IF k = 0 THEN <<>>
        ELSE IF (i = 0 \/ k < i) /\ ~Fresh(choices[k]) THEN kept[k - 1]
        ELSE Append(kept[k - 1], choices[k])
  IN [choice |-> IF i = 0 THEN NoAddress ELSE choices[i].choice, rest |-> kept[Len(choices)]]

\* the entry about the client has it choose, so that its choice is looked up
Chooses(client) ==
  LET i == IndirectEntry(database, client)
  IN i # 0 /\ ~database[i].notAllowed /\ database[i].chooser

ChoicesAfter(client) == IF Chooses(client) THEN IndirectChoice(client).rest ELSE choices

\* mutant: a second choice of a client does not replace the first
RegisterIndirectChoice_keep(client, choice) ==
  LET i == SelectInSeq(choices, LAMBDA c : c.client = client)
  IN IF i # 0 THEN choices
     ELSE <<[client |-> client, choice |-> choice, time |-> now]>> \o choices

RegisterIndirectChoice(client, choice) ==
  LET new == [client |-> client, choice |-> choice, time |-> now]
      i == SelectInSeq(choices, LAMBDA c : c.client = client)
  IN IF i # 0 THEN [choices EXCEPT ![i] = new] ELSE <<new>> \o choices

\* a chooser connects to the chooser socket (ProcessChooserSocket)
ChooserReports(s, choice) ==
  /\ s.chooser
  /\ choices' = RegisterIndirectChoice(s.client, choice)
  /\ reported' = [reported EXCEPT ![s.client] = [choice |-> choice, time |-> now]]
  /\ answer' = NoAnswer
  /\ UNCHANGED <<database, now, sessionVars, indirectUsers>>

-----------------------------------------------------------------------------
(* Queries: all_query_respond, for its callers' types.                     *)

\* all_query_respond for the types other than INDIRECT_QUERY; what Willing replies is
\* a property of module Listen
AllQueryRespond(client) ==
  /\ client \in indirectUsers
  /\ indirectUsers' = indirectUsers \ {client}
  /\ answer' = NoAnswer
  /\ UNCHANGED <<database, now, sessionVars, choices, reported>>

\* query_respond, broadcast_respond
DirectQuery(e) == AllQueryRespond(ClientOf[e])

\* forward_respond: a host hands on the query of e; its own packet must be of a family
\* that can say the address, IPv6 can also say those of IPv4
ForwardQuery(e, sayable) ==
  /\ ClientOf[e] \in sayable
  /\ AllQueryRespond(ClientOf[e])

\* indirect_respond: the query goes on to other hosts (sendForward) and is answered
\* here if this host is one of them
IndirectQuery(e) ==
  LET client == ClientOf[e]
      to == ForEachMatchingIndirectHost(database, client, IndirectChoice(client).choice)
  IN /\ choices' = ChoicesAfter(client)
     /\ indirectUsers' = indirectUsers \cup (IF to.localHostAsWell THEN {client} ELSE {})
     /\ answer' = [client |-> client,
                   hosts |-> to.forward \cup
                     (IF to.localHostAsWell
                           /\ AcceptableDisplayAddress(database, client, "INDIRECT_QUERY")
                        THEN {LocalHost} ELSE {})]
     /\ UNCHANGED <<database, now, sessionVars, reported>>

-----------------------------------------------------------------------------
(* REQUEST.                                                                *)

\* FindProtoDisplay
ProtoOf(e) == {p \in protos : p.end = e}

\* what a new protoDisplay leaves of the old ones
TimeoutProtoDisplays == {p \in protos : ~(p.date < now - ProtoTimeout)}

\* Accept, SelectConnectionTypeIndex
Acceptable(e) ==
  AcceptableDisplayAddress(database, ClientOf[e], "REQUEST") /\ ConnectionAddress(e) # NoAddress

\* mutant: every REQUEST gets an id of its own
RequestedProto_newId(e) ==
  [end |-> e, id |-> lastId + 1,
   date |-> IF ProtoOf(e) = {} THEN now ELSE (CHOOSE p \in ProtoOf(e) : TRUE).date,
   auth |-> IF ProtoOf(e) = {} THEN 0 ELSE (CHOOSE p \in ProtoOf(e) : TRUE).auth]

\* the protoDisplay of the terminal, made by NewProtoDisplay if there is none
RequestedProto(e) ==
  IF ProtoOf(e) # {} THEN CHOOSE p \in ProtoOf(e) : TRUE
  ELSE [end |-> e, id |-> lastId + 1, date |-> now, auth |-> 0]

\* ids keep apart from those of a later start as long as no more than 16000 are made
\* in a second
IdLeft == lastId < MaxId /\ lastId + 1 < (now + 1) * IdsPerSecond

\* mutant: the authorization of an earlier REQUEST stays with the protoDisplay
Authorized_once(p) ==
  IF Authorizes[p.end] = "known" /\ p.auth = 0 THEN [p EXCEPT !.auth = lastAuth + 1] ELSE p

\* SetProtoDisplayAuthorization: a fresh authorization in the place of any earlier one
Authorized(p) ==
  IF Authorizes[p.end] = "known" THEN [p EXCEPT !.auth = lastAuth + 1] ELSE p

\* send_accept
AcceptOf(p) ==
  [end |-> p.end, id |-> p.id, auth |-> IF Authorizes[p.end] = "known" THEN lastAuth + 1 ELSE 0]

\* request_respond.  SelectAuthorizationTypeIndex finds no valid name, or the
\* authentication is wrong: the session is declined and its protoDisplay disposed of,
\* also one that an earlier REQUEST has made.
Request(e, authentic) ==
  LET p == RequestedProto(e)
      others == IF ProtoOf(e) = {} THEN TimeoutProtoDisplays ELSE protos \ ProtoOf(e)
      accepted == Authorizes[e] # "unknown" /\ authentic
  IN /\ IF ProtoOf(e) = {}
          THEN /\ Acceptable(e) /\ IdLeft
               /\ lastId' = lastId + 1 /\ owner' = [owner EXCEPT ![lastId + 1] = e]
          ELSE UNCHANGED <<lastId, owner>>
     /\ IF accepted
          THEN /\ protos' = others \cup {Authorized(p)}
               /\ accepts' = accepts \cup {AcceptOf(p)}
               /\ IF Authorizes[e] = "known"
                    THEN lastAuth < MaxAuth /\ lastAuth' = lastAuth + 1
                    ELSE UNCHANGED lastAuth
          ELSE protos' = others /\ UNCHANGED <<lastAuth, accepts>>
     /\ answer' = NoAnswer
     /\ UNCHANGED <<database, now, displays, processes, over, begun,
                    indirectUsers, choices, reported>>

-----------------------------------------------------------------------------
(* MANAGE.                                                                 *)

\* mutant: no MANAGE is taken for a duplicate
Duplicate_none(e, id) == FALSE

\* the session of this id was started and its record stands
Duplicate(e, id) ==
  ProtoOf(e) = {} /\ \E d \in displays : d.end = e /\ d.id = id

\* no protoDisplay has the id, and it is not a duplicate of the MANAGE that was served
ManageRefused(a) ==
  /\ \A p \in ProtoOf(a.end) : p.id # a.id
  /\ ~Duplicate(a.end, a.id)
  /\ over' = over \cup {a.id}
  /\ answer' = NoAnswer
  /\ UNCHANGED <<database, now, lastId, lastAuth, protos, displays, processes, accepts, owner,
                 begun, indirectUsers, choices, reported>>

\* no name: FAILED, and the protoDisplay stays
ManageFailed(p) ==
  /\ NameOf(p.end) = NoName
  /\ over' = over \cup {p.id}
  /\ answer' = NoAnswer
  /\ UNCHANGED <<database, now, lastId, lastAuth, protos, displays, processes, accepts, owner,
                 begun, indirectUsers, choices, reported>>

\* mutant: the protoDisplay is not disposed of
Started_kept(p) == protos

\* DisposeProtoDisplay
Started(p) == protos \ {p}

\* mutant: the active session of the name is not terminated
Replaced_none(p) == {}

\* FindDisplayByName, StopDisplay: without a server of its own its record is removed
Replaced(p) == {d \in displays : NameOf(d.end) = NameOf(p.end)}

\* manage() makes the display and StartDisplay forks its session, or fails to and
\* leaves the record
ManageStarts(p, forked) ==
  LET client == ClientOf[p.end]
      indirect == client \in indirectUsers
      chooser == indirect /\ UseChooser(database, client, IndirectChoice(client).choice)
  IN /\ NameOf(p.end) # NoName
     /\ displays' = (displays \ Replaced(p)) \cup
          {[end |-> p.end, id |-> p.id, auth |-> p.auth, chooser |-> chooser, running |-> forked]}
     /\ processes' = processes \cup
          (IF forked THEN {[id |-> p.id, client |-> client, chooser |-> chooser]} ELSE {})
     /\ protos' = Started(p)
     /\ indirectUsers' = indirectUsers \ {client}
     /\ choices' = IF indirect THEN ChoicesAfter(client) ELSE choices
     /\ begun' = begun \cup {p.id}
     /\ answer' = NoAnswer
     /\ UNCHANGED <<database, now, lastId, lastAuth, accepts, over, owner, reported>>

-----------------------------------------------------------------------------
(* Sessions and the rest.                                                  *)

\* WaitForChild: whatever the status of an XDMCP display's session, its record goes;
\* OPENFAILED sends FAILED.  The record may have been replaced already.
SessionExits(s, openFailed) ==
  LET mine == {d \in displays : d.id = s.id /\ d.running}
  IN /\ processes' = processes \ {s}
     /\ displays' = displays \ mine
     /\ over' = IF openFailed /\ mine # {} THEN over \cup {s.id} ELSE over
     /\ answer' = NoAnswer
     /\ UNCHANGED <<database, now, lastId, lastAuth, protos, accepts, owner, begun,
                    indirectUsers, choices, reported>>

\* send_alive answers that the session does not run
KeepAlive(id) ==
  /\ id \in begun
  /\ ~\E d \in displays : d.id = id /\ d.running
  /\ over' = over \cup {id}
  /\ answer' = NoAnswer
  /\ UNCHANGED <<database, now, lastId, lastAuth, protos, displays, processes, accepts, owner,
                 begun, indirectUsers, choices, reported>>

\* a SIGHUP: the access file is read again
Rescan ==
  /\ database' \in Databases \ {database}
  /\ answer' = NoAnswer
  /\ UNCHANGED <<now, sessionVars, indirectUsers, choices, reported>>

\* the master dies and is started again, in a later second than that of its last id
Restart ==
  /\ lastId < now * IdsPerSecond
  /\ lastId' = now * IdsPerSecond
  /\ protos' = {} /\ displays' = {} /\ processes' = {}
  /\ indirectUsers' = {} /\ choices' = <<>> /\ answer' = NoAnswer
  /\ reported' = [a \in Address |-> NoReport]
  /\ database' \in Databases
  /\ UNCHANGED <<now, lastAuth, accepts, over, owner, begun>>

Tick ==
  /\ now < MaxTime /\ now' = now + 1
  /\ answer' = NoAnswer
  /\ UNCHANGED <<database, sessionVars, indirectUsers, choices, reported>>

Next ==
  \/ \E e \in End : \/ DirectQuery(e)
                    \/ \E sayable \in Families : ForwardQuery(e, sayable)
                    \/ IndirectQuery(e)
                    \/ \E authentic \in BOOLEAN : Request(e, authentic)
  \/ \E a \in accepts : ManageRefused(a)
  \/ \E p \in protos : \/ ManageFailed(p)
                       \/ \E forked \in BOOLEAN : ManageStarts(p, forked)
  \/ \E s \in processes : \/ \E openFailed \in BOOLEAN : SessionExits(s, openFailed)
                          \/ \E choice \in Choosable : ChooserReports(s, choice)
  \/ \E id \in Id : KeepAlive(id)
  \/ Rescan \/ Restart \/ Tick

Spec == Init /\ [][Next]_vars

-----------------------------------------------------------------------------
(* Properties.                                                             *)

\* The tables agree: a terminal has one protoDisplay, a name one record, an id is in
\* one place only, a record is running just while its child is, and they agree on
\* the chooser.  NewProtoDisplay, manage, StopDisplay and WaitForChild share this.
RecordsAgree ==
  /\ \A p, q \in protos : p.end = q.end \/ p.id = q.id => p = q
  /\ \A d, f \in displays : NameOf(d.end) = NameOf(f.end) \/ d.id = f.id => d = f
  /\ \A p \in protos, d \in displays : p.id # d.id
  /\ \A s, r \in processes : s.id = r.id => s = r
  /\ \A d \in displays :
       d.running <=> [id |-> d.id, client |-> ClientOf[d.end], chooser |-> d.chooser] \in processes

\* A session that a terminal was told does not run, by a REFUSE, a FAILED or an ALIVE,
\* does not run, unless the terminal has been given a newer one since: however often
\* and late MANAGE and KEEPALIVE packets come, as manage promises of duplicates.
OverIsFinal ==
  \A d \in displays :
    d.running /\ d.id \in over => \E a \in accepts : a.end = d.end /\ a.id > d.id

\* A session runs with the authorization of the last ACCEPT that was sent for it, so
\* that the server that acted on that ACCEPT lets it in: a repeated REQUEST makes a new
\* one, request_respond.
AuthorizationAgreed ==
  \A d \in displays, a \in accepts :
    a.id = d.id => /\ a.end = d.end /\ a.auth <= d.auth
                   /\ \E b \in accepts : b.id = d.id /\ b.auth = d.auth

\* As long as the last choice of a client has not timed out, its indirect queries go to
\* the host chosen and nowhere else, and no session shows it another chooser: choose.c,
\* and the two lookups of ForEachMatchingIndirectHost and UseChooser.
Honoured ==
  LET Chosen(client) == reported[client].choice # NoAddress /\ Fresh(reported[client])
  IN /\ answer'.client # NoAddress /\ Chooses(answer'.client) /\ Chosen(answer'.client) =>
          answer'.hosts = (IF reported[answer'.client].choice \in Local THEN {LocalHost}
                           ELSE {reported[answer'.client].choice})
     /\ \A d \in displays' \ displays : d.chooser => ~Chosen(ClientOf[d.end])
ChoiceHonoured == [][Honoured]_vars

\* Seen by its ids alone the master is what module Sessions describes: no lost, repeated
\* or late packet, timeout, failed fork or restart brings a session back.
Phase(i) ==
  CASE \E d \in displays : d.id = i -> "open"
    [] \E p \in protos : p.id = i -> "offered"
    [] owner[i] = NoEnd -> "none"
    [] OTHER -> "over"
Abstract == INSTANCE Sessions WITH
  Terminal <- End, NoTerminal <- NoEnd, phase <- [i \in Id |-> Phase(i)]
SessionsImplemented == Abstract!Spec
=============================================================================
