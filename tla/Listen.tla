------------------------------- MODULE Listen -------------------------------
(***************************************************************************)
(* The access file while xdm runs: ScanAccessDatabase reads it and         *)
(* UpdateListenSockets (xdm/socket.c) opens and closes the sockets that    *)
(* listen for XDMCP, when xdm starts, on a SIGHUP and when the file has a  *)
(* new time.  The properties compare what the database answers, and the    *)
(* sockets, with the file as xdm.man describes it, line by line.           *)
(***************************************************************************)
EXTENDS Access

CONSTANTS
  IPv4,          \* the addresses of that family; the others are IPv6
  DefaultGroup,  \* XDM_DEFAULT_MCAST_ADDR6
  FirstFiles,    \* the files xdm may find when it starts
  Files          \* those the administrator may put in their place

Wildcards == {"any6", "any4"}

ASSUME ListenAssumption ==
  /\ Wildcards \cap Address = {} /\ NoAddress \notin Wildcards
  /\ IPv4 \subseteq Address /\ DefaultGroup \in Address
  /\ \A file \in FirstFiles \cup Files :
       /\ file \in Seq(Seq(Word) \ {<<>>})
       \* of a macro or BROADCAST after LISTEN the code takes other bytes for an address
       /\ \A i \in DOMAIN file : \A j, k \in DOMAIN file[i] :
            file[i][j].text = "LISTEN" /\ j < k => file[i][k].text \notin Alias \cup {"BROADCAST"}

VARIABLES
  file,      \* the lines of the file, or <<>>: empty or missing
  database,
  sockets,   \* listensocks: records of an address and the multicast groups joined
  present    \* the addresses a socket can be bound to

vars == <<file, database, sockets, present>>

Socket == [addr : Address \cup Wildcards, groups : SUBSET Address]

TypeOK ==
  /\ file \in FirstFiles \cup Files
  /\ database \in Database
  /\ sockets \subseteq Socket
  /\ \A s, t \in sockets : s.addr = t.addr => s = t
  /\ present \subseteq Address \cup Wildcards

-----------------------------------------------------------------------------
(* UpdateListenSockets.                                                    *)

\* one of the two takes the port of the other: a wildcard of IPv6 takes both families
Overlap(a, b) ==
  \/ a = b
  \/ "any6" \in {a, b}
  \/ "any4" \in {a, b} /\ {a, b} \subseteq IPv4 \cup {"any4"}

\* bind() succeeds, there being no SO_REUSEADDR
CanBind(a, list) == a \in present /\ \A s \in list : ~Overlap(a, s.addr)

\* UpdateListener for one address: the socket of the list or a new one is marked
Mark(a, addr) ==
  IF \E s \in a.list : s.addr = addr
    THEN [list |-> {IF s.addr = addr THEN [s EXCEPT !.ref = TRUE] ELSE s : s \in a.list},
          current |-> addr]
    ELSE IF CanBind(addr, a.list)
           THEN [list |-> a.list \cup {[addr |-> addr, groups |-> {}, ref |-> TRUE]},
                 current |-> addr]
           ELSE [a EXCEPT !.current = NoAddress]

\* no address is every address: IPv6 first, with IPv4 in it, else IPv4 alone
MarkAny(a) ==
  LET six == Mark(a, "any6") IN IF six.current = NoAddress THEN Mark(six, "any4") ELSE six

UpdateListener(a, h) == IF h.type = "address" THEN Mark(a, h.key) ELSE MarkAny(a)

\* joins a group or finds it joined; nothing where the socket could not be opened
UpdateMcastGroup(a, group) ==
  [a EXCEPT !.list = {IF s.addr = a.current THEN [s EXCEPT !.groups = @ \cup {group}] ELSE s :
                        s \in a.list}]

\* host i of a LISTEN entry: the first is the interface, the others are its groups
ListenHost(a, h, i) ==
  IF i = 1 THEN UpdateListener(a, h)
  ELSE IF h.type = "address" THEN UpdateMcastGroup(a, h.key) ELSE a

ListenEntry(a, d) ==
  LET listen[i \in 0 .. Len(d.hosts)] ==
        IF i = 0 THEN a ELSE ListenHost(listen[i - 1], d.hosts[i], i)
  IN listen[Len(d.hosts)]

ForEachListenAddr(a, db) ==
  LET listen[i \in 0 .. Len(db)] ==
        IF i = 0 THEN a
        ELSE IF db[i].type = "listen" THEN ListenEntry(listen[i - 1], db[i]) ELSE listen[i - 1]
  IN IF \E i \in DOMAIN db : db[i].type = "listen" THEN listen[Len(db)]
     ELSE UpdateMcastGroup(MarkAny(a), DefaultGroup)

\* mutant: the groups that were joined before stay joined
UpdateListenSockets_stay(list, db) ==
  LET cleared == [list |-> {[addr |-> s.addr, groups |-> s.groups, ref |-> FALSE] : s \in list},
                  current |-> NoAddress]
      marked == ForEachListenAddr(cleared, db).list
  IN {[addr |-> s.addr, groups |-> s.groups] : s \in {t \in marked : t.ref}}

\* the marks are cleared, set for what the database lists, and what has none is
\* closed or left; a socket's groups here are those that are marked
UpdateListenSockets(list, db) ==
  LET cleared == [list |-> {[addr |-> s.addr, groups |-> {}, ref |-> FALSE] : s \in list},
                  current |-> NoAddress]
      marked == ForEachListenAddr(cleared, db).list
  IN {[addr |-> s.addr, groups |-> s.groups] : s \in {t \in marked : t.ref}}

-----------------------------------------------------------------------------
(* The master's part and its environment.                                  *)

\* main() has scanned the file and opened the sockets
Init ==
  /\ file \in FirstFiles
  /\ present \in {Local \cup Wildcards, Local \cup {"any4"}}
  /\ database = ReadAccessDatabase(file)
  /\ sockets = UpdateListenSockets({}, database)

\* the administrator writes another file
Edit ==
  /\ file' \in Files
  /\ UNCHANGED <<database, sockets, present>>

\* RescanNotify's flag is seen, or RescanIfMod finds a new time
Rescan ==
  /\ database' = ReadAccessDatabase(file)
  /\ sockets' = UpdateListenSockets(sockets, database')
  /\ UNCHANGED <<file, present>>

\* StopAll closes the sockets; a rescan that follows opens them again
CloseListenSockets ==
  /\ sockets' = {}
  /\ UNCHANGED <<file, database, present>>

Next == Edit \/ Rescan \/ CloseListenSockets

Spec == Init /\ [][Next]_vars

-----------------------------------------------------------------------------
(* The file as the manual page describes it.                               *)

Words(line) == {line[i] : i \in 2 .. Len(line)}
Texts(line) == {w.text : w \in Words(line)}

MacroLine(line) == DisplayType(line[1]) = "alias"
ListenLine(line) == DisplayType(line[1]) = "listen"

\* "either a host name or a pattern", perhaps "followed by the NOBROADCAST keyword"
DirectLine(line) ==
  /\ ~MacroLine(line) /\ ~ListenLine(line)
  /\ Texts(line) \subseteq {"NOBROADCAST"}

\* "follows it with a list of host names or macros"
IndirectLine(line) == ~MacroLine(line) /\ ~ListenLine(line) /\ ~DirectLine(line)

LineAbout(line, client) ==
  \/ line[1].text \in Pattern /\ Match(NetworkAddressToHostname(client), line[1].text)
  \/ Resolve[line[1].text] = client

\* "each entry is scanned in turn and the first matching entry determines the
\* response.  Direct and Broadcast entries are ignored when scanning for an
\* Indirect entry and vice-versa."
FirstLine(client, Kind(_)) ==
  SelectInSeq(file, LAMBDA line : Kind(line) /\ LineAbout(line, client))

Served(client, broadcast) ==
  LET i == FirstLine(client, DirectLine)
  IN i # 0 /\ ~file[i][1].not /\ (broadcast => "NOBROADCAST" \notin Texts(file[i]))

\* the macros a list of words leads to: "Macros may be nested"
Uses(texts) ==
  LET closed(S) ==
        /\ texts \cap Alias \subseteq S
        /\ \A line \in ToSet(file) :
             MacroLine(line) /\ (\E a \in S : Match(a, line[1].text)) => Texts(line) \cap Alias \subseteq S
  IN {a \in Alias : \A S \in SUBSET Alias : closed(S) => a \in S}

\* the words a list stands for
Expanded(texts) ==
  texts \cup UNION {Texts(line) : line \in {l \in ToSet(file) :
                      MacroLine(l) /\ \E a \in Uses(texts) : Match(a, l[1].text)}}

Hosts(line) == {Resolve[t] : t \in Expanded(Texts(line))} \ {NoAddress}

\* every name resolves, and a list has more than CHOOSER in it
Resolvable ==
  \A line \in ToSet(file) :
    /\ DisplayType(line[1]) # "unknown"
    /\ \A w \in Words(line) : HostType(w) # "unknown"
    /\ IndirectLine(line) => Texts(line) \ {"CHOOSER", "NOBROADCAST", "*"} # {}

\* Direct and broadcast queries and requests are answered as the first line about
\* the client that has no host list says (xdm.man, XDMCP ACCESS CONTROL), whatever
\* else the file holds: the code decides it from lists it built while reading.
DirectAnswer ==
  AccessFile /\ Resolvable /\ database = ReadAccessDatabase(file) =>
    \A client \in Address :
      /\ AcceptableDisplayAddress(database, client, "QUERY") = Served(client, FALSE)
      /\ AcceptableDisplayAddress(database, client, "REQUEST") = Served(client, FALSE)
      /\ AcceptableDisplayAddress(database, client, "BROADCAST_QUERY") = Served(client, TRUE)

\* what the first line with a list says for an indirect query without a choice
IndirectAnswer(client) ==
  LET i == FirstLine(client, IndirectLine)
      answer == ForEachMatchingIndirectHost(database, client, NoAddress)
  IN IF i = 0 \/ file[i][1].not
       THEN answer = Nowhere /\ ~UseChooser(database, client, NoAddress)
       ELSE IF "CHOOSER" \in Texts(file[i])
              THEN /\ answer.forward = {} /\ answer.localHostAsWell
                   /\ UseChooser(database, client, NoAddress)
                   /\ ForEachChooserHost(database, client) \ {"BROADCAST", LocalHost}
                        = Hosts(file[i]) \ (Local \cup {LocalHost})
                   /\ "BROADCAST" \in ForEachChooserHost(database, client)
                        <=> "BROADCAST" \in Expanded(Texts(file[i]))
              ELSE /\ answer.forward = Hosts(file[i]) \ Local
                   /\ answer.localHostAsWell = (Hosts(file[i]) \cap Local # {})

\* Indirect queries go where the first line with a list about the client says: to
\* the hosts its words and its macros lead to, however the macros are nested or
\* refer to each other, to the chooser, or nowhere for a line with "!".
IndirectAnswers ==
  Resolvable /\ database = ReadAccessDatabase(file) =>
    \A client \in Address : IndirectAnswer(client)

\* a LISTEN line names "a hostname or IP address" or "*", then groups
ListenSyntax ==
  \A line \in ToSet(file) : ListenLine(line) =>
    \A j \in 2 .. Len(line) :
      Resolve[line[j].text] # NoAddress \/ (j = 2 /\ line[j].text = "*")

\* the interfaces the LISTEN lines of the file name
Interfaces ==
  {Resolve[line[2].text] : line \in {l \in ToSet(file) : ListenLine(l) /\ Len(l) > 1}}

NoListenLine == \A line \in ToSet(file) : ~ListenLine(line)

\* the address the socket for an interface has, NoAddress being all of them
SocketAddress(i) ==
  IF i # NoAddress THEN i ELSE IF "any6" \in present THEN "any6" ELSE "any4"

Groups(i) ==
  UNION {{Resolve[line[j].text] : j \in 3 .. Len(line)} :
           line \in {l \in ToSet(file) : ListenLine(l) /\ Len(l) > 1 /\ Resolve[l[2].text] = i}}

\* "xdm only listens for XDMCP connections on the specified interfaces", "joins the
\* multicast groups on the given interface", else listens on all of them
WantedSockets ==
  IF NoListenLine THEN {[addr |-> SocketAddress(NoAddress), groups |-> {DefaultGroup}]}
  ELSE {[addr |-> SocketAddress(i), groups |-> Groups(i)] :
          i \in {j \in Interfaces : SocketAddress(j) \in present}}

\* neither the sockets that are open nor those that are wanted take each other's port
NoOverlap ==
  LET addresses == {s.addr : s \in sockets \cup WantedSockets}
  IN \A a, b \in addresses : a # b => ~Overlap(a, b)

\* A rescan leaves open exactly the sockets, each in exactly the groups, that the
\* file lists, whatever was open and joined before, as long as no address takes
\* the port of another.
ListensAsFile ==
  [][Rescan /\ Resolvable /\ ListenSyntax /\ NoOverlap => sockets' = WantedSockets]_vars

\* The same where the addresses that were listened on overlap the new ones, as every
\* specific address does the default.  socket.c: "Open or close listening sockets
\* to match the current settings read in from the access database."
SocketsMatch ==
  [][Rescan /\ Resolvable /\ ListenSyntax
       /\ (\A a, b \in {s.addr : s \in WantedSockets} : a # b => ~Overlap(a, b))
       => sockets' = WantedSockets]_vars
=============================================================================
