------------------------------- MODULE Access -------------------------------
(***************************************************************************)
(* The access control file (xdm/access.c): how it is read into the         *)
(* database, and what the database answers for the address of a client:    *)
(* is it served, where do its indirect queries go, is it shown a chooser.  *)
(*                                                                         *)
(* A file is a sequence of lines, a line a sequence of words; comments,    *)
(* blank and continued lines are gone.  A word is its text and whether it  *)
(* begins with "!".  The name service and the matching of patterns are     *)
(* functions that the constants give.                                      *)
(***************************************************************************)
EXTENDS Integers, SequencesExt

CONSTANTS
  Text,        \* the words without their "!"
  Alias,       \* those that begin with "%"
  Pattern,     \* those with glob characters
  Address,     \* network addresses, of both families
  NoAddress,
  Resolve,     \* the address getaddrinfo returns first for a word, or NoAddress
  HostName,    \* the name of an address that the name service has, or its numbers
  Matching,    \* pairs of a word and a pattern that matches it
  Local,       \* the addresses of this host
  LocalHost,   \* getLocalAddress, the address of localHostname
  MaxDepth,    \* MAX_DEPTH, of nested aliases
  AccessFile   \* the resource accessFile is not empty

Keywords == {"LISTEN", "CHOOSER", "BROADCAST", "NOBROADCAST", "*"}

ASSUME AccessAssumption ==
  /\ Keywords \subseteq Text /\ Alias \subseteq Text \ Keywords
  /\ Pattern \subseteq Text \ Alias /\ Pattern \cap Keywords = {"*"}
  /\ "BROADCAST" \notin Address /\ NoAddress \notin Address \cup {"BROADCAST"}
  /\ Resolve \in [Text -> Address \cup {NoAddress}]
  /\ \A t \in Keywords \cup Alias \cup Pattern : Resolve[t] = NoAddress
  /\ HostName \in [Address -> Text] /\ Matching \subseteq Text \X Text
  /\ Local \subseteq Address /\ LocalHost \in Address
  /\ MaxDepth \in Nat \ {0} /\ AccessFile \in BOOLEAN

-----------------------------------------------------------------------------
(* Reading the file.                                                       *)

Word == [not : BOOLEAN, text : Text]

\* HostEntry and DisplayEntry: the key is what the unions of their types hold
Host ==
  [type : {"address"}, key : Address] \cup [type : {"alias"}, key : Alias]
    \cup [type : {"broadcast", "any"}, key : Text]
Entry ==
  [type : {"alias", "listen", "pattern", "address"}, key : Text \cup Address,
   notAllowed : BOOLEAN, notBroadcast : BOOLEAN, chooser : BOOLEAN, hosts : Seq(Host)]

\* "*" is a host of LISTEN entries only
Database ==
  {db \in Seq(Entry) : \A i \in DOMAIN db :
     db[i].type # "listen" => \A j \in DOMAIN db[i].hosts : db[i].hosts[j].type # "any"}

\* what ReadDisplayEntry takes the first word of an entry for
DisplayType(w) ==
  CASE ~w.not /\ w.text \in Alias -> "alias"
    [] ~w.not /\ w.text = "LISTEN" -> "listen"
    [] w.text \in Pattern -> "pattern"
    [] Resolve[w.text] # NoAddress -> "address"
    [] OTHER -> "unknown"

\* what ReadHostEntry takes a further word for; "!" is part of a host's name
HostType(w) ==
  IF w.not THEN "unknown"
  ELSE CASE w.text \in Alias -> "alias"
         [] w.text = "CHOOSER" -> "chooser"
         [] w.text = "BROADCAST" -> "broadcast"
         [] w.text = "NOBROADCAST" -> "nobroadcast"
         [] w.text = "*" -> "any"
         [] Resolve[w.text] # NoAddress -> "address"
         [] OTHER -> "unknown"

\* an address or the word itself
Key(type, w) == IF type = "address" THEN Resolve[w.text] ELSE w.text

NewEntry(w) ==
  [type |-> DisplayType(w), key |-> Key(DisplayType(w), w), notAllowed |-> w.not,
   notBroadcast |-> FALSE, chooser |-> FALSE, hosts |-> <<>>]

\* mutant: "*" is a host of every entry
AddHost_any(d, w) ==
  LET h == HostType(w)
  IN CASE h = "chooser" -> [d EXCEPT !.chooser = TRUE]
       [] h = "nobroadcast" -> [d EXCEPT !.notBroadcast = TRUE]
       [] h = "unknown" -> d
       [] OTHER -> [d EXCEPT !.hosts = Append(@, [type |-> h, key |-> Key(h, w)])]

\* a host joins the entry; one that cannot be resolved is left out
AddHost(d, w) ==
  LET h == HostType(w)
  IN CASE h = "chooser" -> [d EXCEPT !.chooser = TRUE]
       [] h = "nobroadcast" -> [d EXCEPT !.notBroadcast = TRUE]
       [] h = "unknown" \/ (h = "any" /\ d.type # "listen") -> d
       [] OTHER -> [d EXCEPT !.hosts = Append(@, [type |-> h, key |-> Key(h, w)])]

\* mutant: the words after the display are displays too
ReadWord_flat(a, w, last) ==
  IF DisplayType(w) = "unknown" THEN a
  ELSE [entries |-> Append(a.entries, NewEntry(w)), hosts |-> FALSE]

\* One word of a file that is read: a host of the last entry while its line
\* lasts, else a display.  Where the display cannot be resolved, ReadDisplayEntry
\* tries the next word, which may be on the same line.
ReadWord(a, w, last) ==
  IF a.hosts
    THEN [entries |-> [a.entries EXCEPT ![Len(a.entries)] = AddHost(@, w)], hosts |-> ~last]
    ELSE IF DisplayType(w) = "unknown" THEN a
         ELSE [entries |-> Append(a.entries, NewEntry(w)), hosts |-> ~last]

\* the line does not reach the end of ReadWord's state: hosts is FALSE after it
ReadLine(a, line) ==
  LET read[i \in 0 .. Len(line)] ==
        IF i = 0 THEN a ELSE ReadWord(read[i - 1], line[i], i = Len(line))
  IN read[Len(line)]

ReadAccessDatabase(file) ==
  LET read[i \in 0 .. Len(file)] ==
        IF i = 0 THEN [entries |-> <<>>, hosts |-> FALSE] ELSE ReadLine(read[i - 1], file[i])
  IN read[Len(file)].entries

-----------------------------------------------------------------------------
(* Looking up a client.                                                    *)

\* patternMatch
Match(text, pattern) == text = pattern \/ <<text, pattern>> \in Matching

\* what a pattern is compared with
NetworkAddressToHostname(client) ==
  IF client \in Local THEN "localhost" ELSE HostName[client]

\* the client is one the entry is about
About(d, client) ==
  \/ d.type = "pattern" /\ Match(NetworkAddressToHostname(client), d.key)
  \/ d.type = "address" /\ d.key = client

\* mutant: an entry about the client ends the scan, whatever its kind
DirectEntry_any(db, client) ==
  SelectInSeq(db, LAMBDA d : About(d, client))

\* the entry that decides on direct and broadcast queries: the first without hosts
DirectEntry(db, client) ==
  SelectInSeq(db, LAMBDA d : d.hosts = <<>> /\ About(d, client))

\* the one that decides on indirect queries: the first with hosts
IndirectEntry(db, client) ==
  SelectInSeq(db, LAMBDA d : d.hosts # <<>> /\ About(d, client))

AcceptableDisplayAddress(db, client, type) ==
  \/ ~AccessFile
  \/ type = "INDIRECT_QUERY"
  \/ LET i == DirectEntry(db, client)
     IN i # 0 /\ ~db[i].notAllowed /\ (type = "BROADCAST_QUERY" => ~db[i].notBroadcast)

\* scanHostlist: the addresses of a list, "BROADCAST" if that is asked for, those
\* of an alias as sub has them
ScanHost(h, sub, broadcast) ==
  CASE h.type = "alias" -> sub[h.key]
    [] h.type = "address" -> {h.key}
    [] h.type = "broadcast" /\ broadcast -> {"BROADCAST"}
    [] OTHER -> {}

ScanHostlist(hosts, sub, broadcast) ==
  UNION {ScanHost(h, sub, broadcast) : h \in ToSet(hosts)}

\* indirectAlias with room levels left
IndirectAlias(db, broadcast) ==
  LET expand[room \in 0 .. MaxDepth] ==
        [a \in Alias |->
           IF room = 0 THEN {}
           ELSE UNION {ScanHostlist(db[i].hosts, expand[room - 1], broadcast) :
                         i \in {j \in DOMAIN db : db[j].type = "alias" /\ Match(a, db[j].key)}}]
  IN expand[MaxDepth]

Nowhere == [forward |-> {}, localHostAsWell |-> FALSE]

\* the function is called for every host that is not this one
Split(hosts) == [forward |-> hosts \ Local, localHostAsWell |-> hosts \cap Local # {}]

\* mutant: a client that is excluded from indirect service is forwarded
ForEachMatchingIndirectHost_all(db, client, choice) ==
  LET i == IndirectEntry(db, client)
  IN IF i = 0 THEN Nowhere
     ELSE IF db[i].chooser
            THEN IF choice = NoAddress \/ choice \in Local
                   THEN [Nowhere EXCEPT !.localHostAsWell = TRUE]
                   ELSE [Nowhere EXCEPT !.forward = {choice}]
            ELSE Split(ScanHostlist(db[i].hosts, IndirectAlias(db, FALSE), FALSE))

\* where an indirect query goes; choice is the client's IndirectChoice
ForEachMatchingIndirectHost(db, client, choice) ==
  LET i == IndirectEntry(db, client)
  IN IF i = 0 \/ db[i].notAllowed THEN Nowhere
     ELSE IF db[i].chooser
            THEN IF choice = NoAddress \/ choice \in Local
                   THEN [Nowhere EXCEPT !.localHostAsWell = TRUE]
                   ELSE [Nowhere EXCEPT !.forward = {choice}]
            ELSE Split(ScanHostlist(db[i].hosts, IndirectAlias(db, FALSE), FALSE))

UseChooser(db, client, choice) ==
  LET i == IndirectEntry(db, client)
  IN i # 0 /\ ~db[i].notAllowed /\ db[i].chooser /\ choice = NoAddress

\* the hosts the chooser is told of; this host by its own address
ForEachChooserHost(db, client) ==
  LET i == IndirectEntry(db, client)
      hosts == ScanHostlist(db[i].hosts, IndirectAlias(db, TRUE), TRUE)
  IN IF i = 0 \/ db[i].notAllowed \/ ~db[i].chooser THEN {}
     ELSE (hosts \ Local) \cup (IF hosts \cap Local # {} THEN {LocalHost} ELSE {})
=============================================================================
