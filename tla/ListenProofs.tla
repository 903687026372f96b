---------------------------- MODULE ListenProofs ----------------------------
(***************************************************************************)
(* Proofs about the access file while xdm runs, module Listen: the types   *)
(* of the database and of the listening sockets, and that queries are      *)
(* answered as the lines of the file say, for every file.                  *)
(***************************************************************************)
EXTENDS Listen, AccessProofs, FiniteSetTheorems

-----------------------------------------------------------------------------
(* The listening sockets.                                                  *)

\* the sockets while they are marked, one for an address, which bind() took
Marked == [addr : (Address \cup Wildcards) \cap present, groups : SUBSET Address, ref : BOOLEAN]
OneEach(list) == \A s, t \in list : s.addr = t.addr => s = t
Marking ==
  {a \in [list : SUBSET Marked, current : Address \cup Wildcards \cup {NoAddress}] :
     OneEach(a.list)}

\* To mark one address or to open its socket leaves one socket for each address.
LEMMA MarkTyped ==
  ASSUME NEW a \in Marking, NEW addr \in Address \cup Wildcards
  PROVE  Mark(a, addr) \in Marking
<1>1. /\ a.list \subseteq Marked /\ OneEach(a.list)
      /\ a.current \in Address \cup Wildcards \cup {NoAddress}
      /\ a = [list |-> a.list, current |-> a.current]
  BY DEF Marking
<1>2. CASE \E s \in a.list : s.addr = addr
  <2> DEFINE new(s) == IF s.addr = addr THEN [s EXCEPT !.ref = TRUE] ELSE s
             list == {new(s) : s \in a.list}
  <2>1. \A s \in a.list : new(s) \in Marked /\ new(s).addr = s.addr
    BY <1>1 DEF Marked
  <2>2. list \subseteq Marked /\ OneEach(list)
    <3> HIDE DEF new
    <3> QED BY <1>1, <2>1 DEF OneEach
  <2>3. Mark(a, addr) = [list |-> list, current |-> addr]
    BY <1>2 DEF Mark
  <2> HIDE DEF list
  <2> QED BY <2>2, <2>3 DEF Marking
<1>3. CASE ~(\E s \in a.list : s.addr = addr) /\ CanBind(addr, a.list)
  <2> DEFINE new == [addr |-> addr, groups |-> {}, ref |-> TRUE]
             list == a.list \cup {new}
  <2>1. new \in Marked /\ new.addr = addr
    BY <1>3 DEF Marked, CanBind
  <2>2. list \subseteq Marked /\ OneEach(list)
    <3> HIDE DEF new
    <3> QED BY <1>1, <1>3, <2>1 DEF OneEach
  <2>3. Mark(a, addr) = [list |-> list, current |-> addr]
    BY <1>3 DEF Mark
  <2> HIDE DEF list
  <2> QED BY <2>2, <2>3 DEF Marking
<1>4. CASE ~(\E s \in a.list : s.addr = addr) /\ ~CanBind(addr, a.list)
  <2>1. Mark(a, addr) = [a EXCEPT !.current = NoAddress]
    BY <1>4 DEF Mark
  <2>2. Mark(a, addr) = [list |-> a.list, current |-> NoAddress]
    BY <1>1, <2>1
  <2> QED BY <1>1, <2>2 DEF Marking
<1> QED
  BY <1>2, <1>3, <1>4

\* So does UpdateListener, for an address and for none.
LEMMA UpdateListenerTyped ==
  ASSUME NEW a \in Marking, NEW h \in Host
  PROVE  MarkAny(a) \in Marking /\ UpdateListener(a, h) \in Marking
<1>1. "any6" \in Wildcards /\ "any4" \in Wildcards
  BY DEF Wildcards
<1>2. Mark(a, "any6") \in Marking
  BY <1>1, MarkTyped
<1>3. MarkAny(a) \in Marking
  BY <1>1, <1>2, MarkTyped DEF MarkAny
<1>4. h.type = "address" => h.key \in Address
  BY DEF Host
<1> QED
  BY <1>3, <1>4, MarkTyped DEF UpdateListener

\* To join a group opens and closes nothing.
LEMMA UpdateMcastGroupTyped ==
  ASSUME NEW a \in Marking, NEW group \in Address
  PROVE  UpdateMcastGroup(a, group) \in Marking
<1>1. /\ a.list \subseteq Marked /\ OneEach(a.list)
      /\ a.current \in Address \cup Wildcards \cup {NoAddress}
      /\ a = [list |-> a.list, current |-> a.current]
  BY DEF Marking
<1> DEFINE new(s) == IF s.addr = a.current THEN [s EXCEPT !.groups = @ \cup {group}] ELSE s
           list == {new(s) : s \in a.list}
<1>2. \A s \in a.list : new(s) \in Marked /\ new(s).addr = s.addr
  BY <1>1 DEF Marked
<1>3. list \subseteq Marked /\ OneEach(list)
  <2> HIDE DEF new
  <2> QED BY <1>1, <1>2 DEF OneEach
<1>4. UpdateMcastGroup(a, group) = [a EXCEPT !.list = list]
  BY DEF UpdateMcastGroup
<1> HIDE DEF list
<1>5. UpdateMcastGroup(a, group) = [list |-> list, current |-> a.current]
  BY <1>1, <1>4
<1> QED
  BY <1>1, <1>3, <1>5 DEF Marking

\* The states that ListenEntry goes through, host by host.
EntryListening(a, d, listen) ==
  listen = [i \in 0 .. Len(d.hosts) |->
              IF i = 0 THEN a ELSE ListenHost(listen[i - 1], d.hosts[i], i)]

\* ListenEntry ends in the last of them.
LEMMA ListenEntryListens ==
  ASSUME NEW a, NEW d, Len(d.hosts) \in Nat
  PROVE  \E listen : EntryListening(a, d, listen) /\ ListenEntry(a, d) = listen[Len(d.hosts)]
<1> DEFINE n == Len(d.hosts)
           Fits(g, m) ==
             g = [i \in 0 .. m |-> IF i = 0 THEN a ELSE ListenHost(g[i - 1], d.hosts[i], i)]
           S == {m \in 0 .. n : \E g : Fits(g, m)}
<1>1. 0 \in S
  <2>1. Fits([i \in 0 .. 0 |-> a], 0)
    OBVIOUS
  <2> HIDE DEF Fits
  <2> QED BY <2>1
<1>2. ASSUME NEW m \in 1 .. n, m - 1 \in S PROVE m \in S
  <2>1. PICK g : Fits(g, m - 1)
    BY <1>2
  <2> DEFINE h == [i \in 0 .. m |-> IF i = m THEN ListenHost(g[m - 1], d.hosts[m], m) ELSE g[i]]
  <2>2. \A i \in 1 .. m : i - 1 # m
    OBVIOUS
  <2>3. h = [i \in 0 .. m |-> IF i = 0 THEN a ELSE ListenHost(h[i - 1], d.hosts[i], i)]
    BY <2>1, <2>2
  <2> HIDE DEF h
  <2>4. Fits(h, m)
    BY <2>3
  <2> HIDE DEF Fits
  <2> QED BY <2>4
<1>3. \E g : Fits(g, n)
  <2>1. 0 .. n \subseteq S
    <3> HIDE DEF S
    <3> QED BY <1>1, <1>2, InductionUpTo
  <2> HIDE DEF Fits
  <2> QED BY <2>1
<1>4. ListenEntry(a, d) = (CHOOSE g : Fits(g, n))[n]
  BY DEF ListenEntry
<1> DEFINE f == CHOOSE g : Fits(g, n)
<1>5. Fits(f, n)
  <2> HIDE DEF Fits
  <2> QED BY <1>3
<1>6. EntryListening(a, d, f)
  <2> HIDE DEF f
  <2> QED BY <1>5 DEF EntryListening
<1> QED
  BY <1>4, <1>6

\* The states that ForEachListenAddr goes through, entry by entry.
DatabaseListening(a, db, listen) ==
  listen = [i \in 0 .. Len(db) |->
              IF i = 0 THEN a
              ELSE IF db[i].type = "listen" THEN ListenEntry(listen[i - 1], db[i])
                   ELSE listen[i - 1]]

\* ForEachListenAddr ends in the last of them, if it finds a LISTEN entry.
LEMMA ForEachListenAddrListens ==
  ASSUME NEW a, NEW db, Len(db) \in Nat
  PROVE  \E listen :
           /\ DatabaseListening(a, db, listen)
           /\ ForEachListenAddr(a, db) =
                IF \E i \in DOMAIN db : db[i].type = "listen" THEN listen[Len(db)]
                ELSE UpdateMcastGroup(MarkAny(a), DefaultGroup)
<1> DEFINE n == Len(db)
           next(x, i) == IF db[i].type = "listen" THEN ListenEntry(x, db[i]) ELSE x
           Fits(g, m) == g = [i \in 0 .. m |-> IF i = 0 THEN a ELSE next(g[i - 1], i)]
           S == {m \in 0 .. n : \E g : Fits(g, m)}
<1>1. 0 \in S
  <2>1. Fits([i \in 0 .. 0 |-> a], 0)
    OBVIOUS
  <2> HIDE DEF Fits
  <2> QED BY <2>1
<1>2. ASSUME NEW m \in 1 .. n, m - 1 \in S PROVE m \in S
  <2>1. PICK g : Fits(g, m - 1)
    BY <1>2
  <2> DEFINE h == [i \in 0 .. m |-> IF i = m THEN next(g[m - 1], m) ELSE g[i]]
  <2>2. \A i \in 1 .. m : i - 1 # m
    OBVIOUS
  <2>3. h = [i \in 0 .. m |-> IF i = 0 THEN a ELSE next(h[i - 1], i)]
    <3> HIDE DEF next
    <3> QED BY <2>1, <2>2
  <2> HIDE DEF h, next
  <2>4. Fits(h, m)
    BY <2>3
  <2> HIDE DEF Fits
  <2> QED BY <2>4
<1>3. \E g : Fits(g, n)
  <2>1. 0 .. n \subseteq S
    <3> HIDE DEF S
    <3> QED BY <1>1, <1>2, InductionUpTo
  <2> HIDE DEF Fits
  <2> QED BY <2>1
<1> DEFINE f == CHOOSE g : Fits(g, n)
<1>4. ForEachListenAddr(a, db) =
        IF \E i \in DOMAIN db : db[i].type = "listen" THEN f[n]
        ELSE UpdateMcastGroup(MarkAny(a), DefaultGroup)
  BY DEF ForEachListenAddr
<1>5. Fits(f, n)
  <2> HIDE DEF Fits
  <2> QED BY <1>3
<1>6. DatabaseListening(a, db, f)
  <2> HIDE DEF f
  <2> QED BY <1>5 DEF DatabaseListening
<1> QED
  <2> HIDE DEF f
  <2> QED BY <1>4, <1>6

\* A LISTEN entry keeps the sockets what they are: one for each address.
LEMMA ListenEntryTyped ==
  ASSUME NEW a \in Marking, NEW d \in Entry
  PROVE  ListenEntry(a, d) \in Marking
<1> DEFINE n == Len(d.hosts)
<1>1. d.hosts \in Seq(Host)
  BY EntryFields
<1>2. n \in Nat /\ \A i \in 1 .. n : d.hosts[i] \in Host
  BY <1>1
<1>3. PICK listen : EntryListening(a, d, listen) /\ ListenEntry(a, d) = listen[n]
  BY <1>2, ListenEntryListens
<1> DEFINE S == {i \in 0 .. n : listen[i] \in Marking}
<1>4. 0 \in S
  BY <1>2, <1>3 DEF EntryListening
<1>5. ASSUME NEW i \in 1 .. n, i - 1 \in S PROVE i \in S
  <2>1. listen[i] = ListenHost(listen[i - 1], d.hosts[i], i)
    BY <1>2, <1>3 DEF EntryListening
  <2>2. d.hosts[i] \in Host /\ (d.hosts[i].type = "address" => d.hosts[i].key \in Address)
    BY <1>2 DEF Host
  <2>3. listen[i] \in Marking
    BY <1>5, <2>1, <2>2, UpdateListenerTyped, UpdateMcastGroupTyped DEF ListenHost
  <2> QED BY <1>2, <2>3
<1>6. 0 .. n \subseteq S
  <2> HIDE DEF S, n
  <2> QED BY <1>2, <1>4, <1>5, InductionUpTo
<1> QED
  BY <1>2, <1>3, <1>6

\* So does the whole database.
LEMMA ForEachListenAddrTyped ==
  ASSUME NEW a \in Marking, NEW db \in Database
  PROVE  ForEachListenAddr(a, db) \in Marking
<1> DEFINE n == Len(db)
<1>1. n \in Nat /\ \A i \in 1 .. n : db[i] \in Entry
  BY DatabaseIs
<1>2. PICK listen : /\ DatabaseListening(a, db, listen)
                    /\ ForEachListenAddr(a, db) =
                         IF \E i \in DOMAIN db : db[i].type = "listen" THEN listen[n]
                         ELSE UpdateMcastGroup(MarkAny(a), DefaultGroup)
  BY <1>1, ForEachListenAddrListens
<1> DEFINE S == {i \in 0 .. n : listen[i] \in Marking}
<1>3. 0 \in S
  BY <1>1, <1>2 DEF DatabaseListening
<1>4. ASSUME NEW i \in 1 .. n, i - 1 \in S PROVE i \in S
  <2>1. listen[i] = IF db[i].type = "listen" THEN ListenEntry(listen[i - 1], db[i])
                    ELSE listen[i - 1]
    <3>1. i \in 0 .. Len(db) /\ i # 0
      BY <1>1
    <3> QED BY <1>2, <3>1 DEF DatabaseListening
  <2>2. listen[i] \in Marking
    BY <1>1, <1>4, <2>1, ListenEntryTyped
  <2> QED BY <1>1, <2>2
<1>5. 0 .. n \subseteq S
  <2> HIDE DEF S, n
  <2> QED BY <1>1, <1>3, <1>4, InductionUpTo
<1>6. UpdateMcastGroup(MarkAny(a), DefaultGroup) \in Marking
  <2>1. MarkAny(a) \in Marking
    <3>1. "any6" \in Wildcards /\ "any4" \in Wildcards
      BY DEF Wildcards
    <3> QED BY <3>1, MarkTyped DEF MarkAny
  <2>2. DefaultGroup \in Address
    BY ListenAssumption
  <2> QED BY <2>1, <2>2, UpdateMcastGroupTyped
<1> QED
  BY <1>1, <1>2, <1>5, <1>6

\* every open socket has an address that a socket can be bound to
Bound(list) == \A s \in list : s.addr \in present

\* UpdateListenSockets leaves open one socket for an address, whatever was open.
LEMMA UpdateListenSocketsTyped ==
  ASSUME NEW list, list \subseteq Socket, OneEach(list), Bound(list), NEW db \in Database
  PROVE  /\ UpdateListenSockets(list, db) \subseteq Socket
         /\ OneEach(UpdateListenSockets(list, db))
         /\ Bound(UpdateListenSockets(list, db))
<1> DEFINE unmarked(s) == [addr |-> s.addr, groups |-> {}, ref |-> FALSE]
           cleared == [list |-> {unmarked(s) : s \in list}, current |-> NoAddress]
           marked == ForEachListenAddr(cleared, db).list
           open(s) == [addr |-> s.addr, groups |-> s.groups]
<1>1. cleared \in Marking
  <2>1. \A s \in list : unmarked(s) \in Marked /\ unmarked(s).addr = s.addr
    BY DEF Socket, Marked, Bound
  <2>2. {unmarked(s) : s \in list} \subseteq Marked /\ OneEach({unmarked(s) : s \in list})
    <3> HIDE DEF unmarked
    <3> QED BY <2>1 DEF OneEach
  <2> HIDE DEF unmarked
  <2> QED BY <2>2 DEF Marking
<1>2. marked \subseteq Marked /\ OneEach(marked)
  <2>1. ForEachListenAddr(cleared, db) \in Marking
    <3> HIDE DEF cleared
    <3> QED BY <1>1, ForEachListenAddrTyped
  <2> HIDE DEF cleared
  <2> QED BY <2>1 DEF Marking
<1>3. \A s \in marked : open(s) \in Socket /\ open(s).addr = s.addr /\ s.addr \in present
  <2> HIDE DEF marked
  <2> QED BY <1>2 DEF Socket, Marked
<1>4. UpdateListenSockets(list, db) = {open(s) : s \in {t \in marked : t.ref}}
  BY DEF UpdateListenSockets
<1>5. /\ {open(s) : s \in {t \in marked : t.ref}} \subseteq Socket
      /\ OneEach({open(s) : s \in {t \in marked : t.ref}})
      /\ Bound({open(s) : s \in {t \in marked : t.ref}})
  <2> HIDE DEF marked, open
  <2> QED BY <1>2, <1>3 DEF OneEach, Bound
<1> QED
  BY <1>4, <1>5

-----------------------------------------------------------------------------
(* The types.                                                              *)

\* What the administrator writes is read into a database.
LEMMA FilesRead ==
  ASSUME NEW f \in FirstFiles \cup Files
  PROVE  f \in Seq(Seq(Word)) /\ (\A i \in DOMAIN f : f[i] # <<>>)
         /\ ReadAccessDatabase(f) \in Database
<1>1. f \in Seq(Seq(Word) \ {<<>>})
  BY ListenAssumption
<1>2. f \in Seq(Seq(Word))
  BY <1>1, SeqMonotonic
<1> QED
  BY <1>1, <1>2, DatabaseTyped

\* the types, and that the sockets could be bound: to all addresses of IPv4 one always can
SocketsInv == TypeOK /\ Bound(sockets) /\ "any4" \in present

\* SocketsInv holds when the master has opened its sockets.
LEMMA InitSockets == Init => SocketsInv
<1> SUFFICES ASSUME Init PROVE SocketsInv
  OBVIOUS
<1>1. file \in FirstFiles \cup Files /\ database \in Database
  BY FilesRead DEF Init
<1>2. sockets \subseteq Socket /\ OneEach(sockets) /\ Bound(sockets)
  <2>1. {} \subseteq Socket /\ OneEach({}) /\ Bound({})
    BY DEF OneEach, Bound
  <2> QED BY <1>1, <2>1, UpdateListenSocketsTyped DEF Init
<1>3. present \subseteq Address \cup Wildcards /\ "any4" \in present
  BY AccessAssumption DEF Init, Wildcards
<1> QED
  BY <1>1, <1>2, <1>3 DEF SocketsInv, TypeOK, OneEach

\* Every step keeps it.
LEMMA NextSockets == SocketsInv /\ [Next]_vars => SocketsInv'
<1> SUFFICES ASSUME SocketsInv, [Next]_vars PROVE SocketsInv'
  OBVIOUS
<1> USE DEF SocketsInv, TypeOK, Bound
<1>1. CASE Edit
  BY <1>1 DEF Edit
<1>2. CASE Rescan
  <2>1. database' \in Database
    BY <1>2, FilesRead DEF Rescan
  <2>2. sockets' \subseteq Socket /\ OneEach(sockets') /\ \A s \in sockets' : s.addr \in present
    BY <1>2, <2>1, UpdateListenSocketsTyped DEF Rescan, OneEach
  <2> QED BY <1>2, <2>1, <2>2 DEF Rescan, OneEach
<1>3. CASE CloseListenSockets
  BY <1>3 DEF CloseListenSockets
<1>4. CASE UNCHANGED vars
  BY <1>4 DEF vars
<1> QED
  BY <1>1, <1>2, <1>3, <1>4 DEF Next

\* In every reachable state the open sockets are one for each address, bound to addresses that
\* can be bound to, which is what a rescan relies on.
LEMMA SocketsStayBound == Spec => []SocketsInv
BY InitSockets, NextSockets, PTL DEF Spec

\* In every reachable state the database is one that a file can be read into, with "*" as a
\* host of LISTEN entries only, and each address has at most one socket.
THEOREM ListenTypes == Spec => []TypeOK
<1>1. SocketsInv => TypeOK
  BY DEF SocketsInv
<1> QED
  BY <1>1, SocketsStayBound, PTL

-----------------------------------------------------------------------------
(* Direct and broadcast queries.                                           *)

\* a line of a file in which every name resolves, and which lists more than CHOOSER
ResolvableLine(line) ==
  /\ DisplayType(line[1]) # "unknown"
  /\ \A w \in Words(line) : HostType(w) # "unknown"
  /\ IndirectLine(line) => Texts(line) \ {"CHOOSER", "NOBROADCAST", "*"} # {}

\* What the words of such a line are taken for.
LEMMA HostTypes ==
  ASSUME NEW w \in Word, HostType(w) # "unknown"
  PROVE  /\ ~w.not
         /\ HostType(w) = "nobroadcast" <=> w.text = "NOBROADCAST"
         /\ HostType(w) = "chooser" <=> w.text = "CHOOSER"
         /\ HostType(w) \in {"nobroadcast", "chooser", "any"}
              <=> w.text \in {"NOBROADCAST", "CHOOSER", "*"}
<1>1. w.not \in BOOLEAN /\ w.text \in Text
  BY DEF Word
<1>2. ~w.not
  BY <1>1 DEF HostType
<1>3. \A t \in {"NOBROADCAST", "CHOOSER", "*"} : t \notin Alias /\ Resolve[t] = NoAddress
  BY AccessAssumption DEF Keywords
<1>4. CASE w.text \in {"NOBROADCAST", "CHOOSER", "*"}
  BY <1>2, <1>3, <1>4 DEF HostType
<1>5. CASE w.text \notin {"NOBROADCAST", "CHOOSER", "*"}
  <2>1. HostType(w) \in {"alias", "broadcast", "address"}
    BY <1>2, <1>5 DEF HostType
  <2> QED BY <1>2, <1>5, <2>1
<1> QED
  BY <1>4, <1>5

\* What the display of a line is taken for.
LEMMA DisplayTypes ==
  ASSUME NEW w \in Word, DisplayType(w) # "unknown", DisplayType(w) # "alias",
         DisplayType(w) # "listen"
  PROVE  \/ DisplayType(w) = "pattern" /\ w.text \in Pattern /\ Resolve[w.text] = NoAddress
         \/ DisplayType(w) = "address" /\ w.text \notin Pattern /\ Resolve[w.text] \in Address
<1>1. w.text \in Text
  BY DEF Word
<1>2. CASE w.text \in Pattern
  <2>1. Resolve[w.text] = NoAddress
    BY <1>2, AccessAssumption
  <2> QED BY <1>2, <2>1 DEF DisplayType
<1>3. CASE w.text \notin Pattern
  <2>1. DisplayType(w) = "address" /\ Resolve[w.text] # NoAddress
    BY <1>3 DEF DisplayType
  <2>2. Resolve[w.text] \in Address
    BY <1>1, <2>1, AccessAssumption
  <2> QED BY <1>3, <2>1, <2>2
<1> QED
  BY <1>2, <1>3

\* The flags of an entry are those its line has words for.
LEMMA EntryFlags ==
  ASSUME NEW line \in Seq(Word), line # <<>>, ResolvableLine(line),
         NEW d, EntryIs(d, line, Len(line))
  PROVE  /\ d.notAllowed = line[1].not
         /\ d.notBroadcast <=> "NOBROADCAST" \in Texts(line)
         /\ d.chooser <=> "CHOOSER" \in Texts(line)
<1>1. \A j \in 2 .. Len(line) : line[j] \in Word /\ HostType(line[j]) # "unknown"
  BY DEF ResolvableLine, Words
<1>2. /\ d.notAllowed = line[1].not
      /\ d.notBroadcast <=> \E j \in 2 .. Len(line) : HostType(line[j]) = "nobroadcast"
      /\ d.chooser <=> \E j \in 2 .. Len(line) : HostType(line[j]) = "chooser"
  BY DEF EntryIs
<1>3. \A j \in 2 .. Len(line) : /\ HostType(line[j]) = "nobroadcast" <=> line[j].text = "NOBROADCAST"
                                /\ HostType(line[j]) = "chooser" <=> line[j].text = "CHOOSER"
  BY <1>1, HostTypes
<1> QED
  BY <1>2, <1>3 DEF Texts, Words

\* An entry of a display has no hosts just where its line has no list.
LEMMA EntryHosts ==
  ASSUME NEW line \in Seq(Word), line # <<>>, ResolvableLine(line),
         NEW d, EntryIs(d, line, Len(line)), d.type \in {"pattern", "address"}
  PROVE  /\ d.hosts = <<>> <=> DirectLine(line)
         /\ d.hosts # <<>> <=> IndirectLine(line)
<1>1. \A j \in 2 .. Len(line) : line[j] \in Word /\ HostType(line[j]) # "unknown"
  BY DEF ResolvableLine, Words
<1>2. ~MacroLine(line) /\ ~ListenLine(line)
  BY DEF EntryIs, MacroLine, ListenLine
<1>3. d.hosts \in Seq(Host)
  BY EntryFields DEF EntryIs
<1>4. d.hosts = <<>> <=> ToSet(d.hosts) = {}
  <2>1. \A s \in Seq(Host) : s # <<>> => 1 \in DOMAIN s
    BY EmptySeq
  <2>2. DOMAIN <<>> = {}
    OBVIOUS
  <2> QED BY <1>3, <2>1, <2>2 DEF ToSet
<1>5. ToSet(d.hosts) = {} <=> \A j \in 2 .. Len(line) : ~IsHost(line[j], d.type)
  BY DEF EntryIs, HostsOf
<1>6. ASSUME NEW j \in 2 .. Len(line)
      PROVE  ~IsHost(line[j], d.type) <=> line[j].text \in {"NOBROADCAST", "CHOOSER", "*"}
  <2>1. HostType(line[j]) \in {"unknown", "alias", "chooser", "broadcast", "nobroadcast", "any",
                               "address"}
    BY DEF HostType
  <2>2. ~IsHost(line[j], d.type) <=> HostType(line[j]) \in {"nobroadcast", "chooser", "any"}
    BY <1>1, <2>1 DEF IsHost
  <2> QED BY <1>1, <2>2, HostTypes
<1>7. d.hosts = <<>> <=> Texts(line) \subseteq {"NOBROADCAST", "CHOOSER", "*"}
  BY <1>4, <1>5, <1>6 DEF Texts, Words
<1>8. DirectLine(line) => Texts(line) \subseteq {"NOBROADCAST", "CHOOSER", "*"}
  BY DEF DirectLine
<1>9. ~DirectLine(line) => ~(Texts(line) \subseteq {"NOBROADCAST", "CHOOSER", "*"})
  BY <1>2 DEF ResolvableLine, IndirectLine
<1> QED
  BY <1>2, <1>7, <1>8, <1>9 DEF IndirectLine

\* An entry is about the clients its line is about.
LEMMA EntryAbout ==
  ASSUME NEW line \in Seq(Word), line # <<>>, ResolvableLine(line),
         NEW d, EntryIs(d, line, Len(line)), NEW client \in Address
  PROVE  About(d, client) <=>
           ~MacroLine(line) /\ ~ListenLine(line) /\ LineAbout(line, client)
<1>1. line[1] \in Word /\ DisplayType(line[1]) # "unknown"
  BY DEF ResolvableLine
<1>2. d.type = DisplayType(line[1]) /\ d.key = Key(d.type, line[1])
  BY DEF EntryIs
<1>3. CASE MacroLine(line) \/ ListenLine(line)
  BY <1>2, <1>3 DEF MacroLine, ListenLine, About
<1>4. CASE ~MacroLine(line) /\ ~ListenLine(line)
  <2>1. client # NoAddress
    BY AccessAssumption
  <2> QED BY <1>1, <1>2, <1>4, <2>1, DisplayTypes
          DEF MacroLine, ListenLine, About, LineAbout, Key
<1> QED
  BY <1>3, <1>4

\* The first of the entries that are about the client is that of the first line that is.
LEMMA SameFirst ==
  ASSUME NEW n \in Nat, NEW I, NEW J, I \subseteq 1 .. n, J \subseteq 1 .. n,
         \A i \in 1 .. n : i \in I <=> i \in J
  PROVE  /\ (IF I # {} THEN Min(I) ELSE 0) = (IF J # {} THEN Min(J) ELSE 0)
         /\ (IF I # {} THEN Min(I) ELSE 0) # 0 => (IF I # {} THEN Min(I) ELSE 0) \in I
<1>1. I = J
  OBVIOUS
<1>2. I # {} => Min(I) \in I
  <2> SUFFICES ASSUME I # {} PROVE Min(I) \in I
    OBVIOUS
  <2>1. I \subseteq Nat
    OBVIOUS
  <2>2. \E x \in I : \A y \in I : x <= y
    BY <2>1, LeastNumber
  <2> QED BY <2>2 DEF Min
<1> QED
  BY <1>1, <1>2

\* In a file whose lines are resolvable, what is scanned for a direct query is an entry of
\* a line that is.
LEMMA DirectEntryIs ==
  ASSUME NEW db, NEW client \in Address, file \in Seq(Seq(Word)), Len(db) = Len(file),
         \A i \in 1 .. Len(file) : /\ file[i] # <<>> /\ ResolvableLine(file[i])
                                   /\ EntryIs(db[i], file[i], Len(file[i]))
  PROVE  /\ DirectEntry(db, client) = FirstLine(client, DirectLine)
         /\ DirectEntry(db, client) # 0 => DirectEntry(db, client) \in 1 .. Len(file)
<1> DEFINE n == Len(file)
           I == {i \in 1 .. Len(db) : db[i].hosts = <<>> /\ About(db[i], client)}
           J == {i \in 1 .. n : DirectLine(file[i]) /\ LineAbout(file[i], client)}
<1>1. n \in Nat /\ Len(db) = n
  OBVIOUS
<1>2. ASSUME NEW i \in 1 .. n PROVE i \in I <=> i \in J
  <2>1. /\ file[i] \in Seq(Word) /\ file[i] # <<>> /\ ResolvableLine(file[i])
        /\ EntryIs(db[i], file[i], Len(file[i]))
    BY <1>1
  <2>2. About(db[i], client) <=>
          ~MacroLine(file[i]) /\ ~ListenLine(file[i]) /\ LineAbout(file[i], client)
    BY <2>1, EntryAbout
  <2>3. About(db[i], client) => db[i].type \in {"pattern", "address"}
    BY DEF About
  <2>4. db[i].type \in {"pattern", "address"} => (db[i].hosts = <<>> <=> DirectLine(file[i]))
    BY <2>1, EntryHosts
  <2>5. DirectLine(file[i]) => ~MacroLine(file[i]) /\ ~ListenLine(file[i])
    BY DEF DirectLine
  <2> QED BY <1>1, <2>2, <2>3, <2>4, <2>5
<1>3. DirectEntry(db, client) = IF I # {} THEN Min(I) ELSE 0
  BY DEF DirectEntry, SelectInSeq
<1>4. FirstLine(client, DirectLine) = IF J # {} THEN Min(J) ELSE 0
  BY DEF FirstLine, SelectInSeq
<1>5. I \subseteq 1 .. n /\ J \subseteq 1 .. n
  BY <1>1
<1> HIDE DEF I, J, n
<1>6. /\ (IF I # {} THEN Min(I) ELSE 0) = (IF J # {} THEN Min(J) ELSE 0)
      /\ (IF I # {} THEN Min(I) ELSE 0) # 0 => (IF I # {} THEN Min(I) ELSE 0) \in I
  BY <1>1, <1>2, <1>5, SameFirst
<1>7. DirectEntry(db, client) # 0 => DirectEntry(db, client) \in 1 .. n
  BY <1>3, <1>5, <1>6
<1> QED
  BY <1>3, <1>4, <1>6, <1>7 DEF n

\* A resolvable file is read into the entries of its lines.
LEMMA ResolvableRead ==
  ASSUME file \in FirstFiles \cup Files, Resolvable, database = ReadAccessDatabase(file)
  PROVE  /\ file \in Seq(Seq(Word)) /\ Len(database) = Len(file)
         /\ \A i \in 1 .. Len(file) : /\ file[i] # <<>> /\ ResolvableLine(file[i])
                                      /\ EntryIs(database[i], file[i], Len(file[i]))
<1>1. file \in Seq(Seq(Word)) /\ \A i \in DOMAIN file : file[i] # <<>>
  BY FilesRead
<1>2. DOMAIN file = 1 .. Len(file) /\ \A i \in DOMAIN file : file[i] \in Seq(Word)
  BY <1>1
<1>3. \A i \in DOMAIN file : ResolvableLine(file[i])
  BY DEF Resolvable, ResolvableLine, ToSet
<1>4. \A i \in DOMAIN file : Readable(file[i])
  BY <1>1, <1>2, <1>3 DEF Readable, ResolvableLine
<1> QED
  BY <1>1, <1>2, <1>3, <1>4, FileEntries

\* Direct and broadcast queries and requests are answered as the first line about the client
\* that has no list of hosts says, for every file in which the names resolve.
THEOREM DirectAnswers == Spec => []DirectAnswer
<1>1. TypeOK => DirectAnswer
  <2> SUFFICES ASSUME TypeOK, AccessFile, Resolvable, database = ReadAccessDatabase(file),
                      NEW client \in Address
               PROVE  /\ AcceptableDisplayAddress(database, client, "QUERY") = Served(client, FALSE)
                      /\ AcceptableDisplayAddress(database, client, "REQUEST")
                           = Served(client, FALSE)
                      /\ AcceptableDisplayAddress(database, client, "BROADCAST_QUERY")
                           = Served(client, TRUE)
    BY DEF DirectAnswer
  <2>1. /\ file \in Seq(Seq(Word)) /\ Len(database) = Len(file)
        /\ \A i \in 1 .. Len(file) : /\ file[i] # <<>> /\ ResolvableLine(file[i])
                                     /\ EntryIs(database[i], file[i], Len(file[i]))
    BY ResolvableRead DEF TypeOK
  <2> DEFINE i == DirectEntry(database, client)
  <2>2. i = FirstLine(client, DirectLine) /\ (i # 0 => i \in 1 .. Len(file))
    BY <2>1, DirectEntryIs
  <2>3. i # 0 => /\ database[i].notAllowed = file[i][1].not
                 /\ database[i].notBroadcast <=> "NOBROADCAST" \in Texts(file[i])
    <3> HIDE DEF i
    <3> QED BY <2>1, <2>2, EntryFlags
  <2>4. Served(client, FALSE) = (i # 0 /\ ~file[i][1].not)
    <3> HIDE DEF i
    <3> QED BY <2>2 DEF Served
  <2>5. Served(client, TRUE) = (i # 0 /\ ~file[i][1].not /\ "NOBROADCAST" \notin Texts(file[i]))
    <3> HIDE DEF i
    <3> QED BY <2>2 DEF Served
  <2>6. /\ AcceptableDisplayAddress(database, client, "QUERY")
             = (i # 0 /\ ~database[i].notAllowed)
        /\ AcceptableDisplayAddress(database, client, "REQUEST")
             = (i # 0 /\ ~database[i].notAllowed)
        /\ AcceptableDisplayAddress(database, client, "BROADCAST_QUERY")
             = (i # 0 /\ ~database[i].notAllowed /\ ~database[i].notBroadcast)
    BY DEF AcceptableDisplayAddress
  <2> HIDE DEF i
  <2> QED BY <2>3, <2>4, <2>5, <2>6
<1> QED
  BY <1>1, ListenTypes, PTL

-----------------------------------------------------------------------------
(* What a list of words stands for.                                        *)

\* the addresses of words, and "BROADCAST" where that is asked for
Stands(texts, broadcast) ==
  ({Resolve[t] : t \in texts} \ {NoAddress}) \cup {t \in texts : broadcast /\ t = "BROADCAST"}

\* and with it what sub has for the aliases among them
StandsWith(texts, sub, broadcast) == Stands(texts, broadcast) \cup UNION {sub[t] : t \in texts \cap Alias}

\* Of a word that is a host its address is scanned, or what the alias has, or "BROADCAST".
LEMMA WordScanned ==
  ASSUME NEW w \in Word, HostType(w) # "unknown", NEW sub, NEW broadcast,
         NEW type, type # "listen", NEW x
  PROVE  IsHost(w, type) /\ x \in ScanHost(HostOf(w), sub, broadcast)
           <=> \/ w.text \in Alias /\ x \in sub[w.text]
               \/ Resolve[w.text] # NoAddress /\ x = Resolve[w.text]
               \/ broadcast /\ w.text = "BROADCAST" /\ x = "BROADCAST"
<1>1. ~w.not /\ w.text \in Text
  BY HostTypes DEF Word
<1>2. /\ \A t \in Alias : Resolve[t] = NoAddress /\ t # "BROADCAST"
      /\ \A t \in {"NOBROADCAST", "CHOOSER", "BROADCAST", "*"} : t \notin Alias /\ Resolve[t] = NoAddress
  BY AccessAssumption DEF Keywords
<1>3. CASE w.text \in Alias
  <2>1. HostType(w) = "alias"
    BY <1>1, <1>2, <1>3 DEF HostType
  <2>2. HostOf(w).type = "alias" /\ HostOf(w).key = w.text
    BY <2>1 DEF HostOf, Key
  <2>3. ScanHost(HostOf(w), sub, broadcast) = sub[w.text]
    BY <2>2 DEF ScanHost
  <2> QED BY <1>2, <1>3, <2>1, <2>3 DEF IsHost
<1>4. CASE w.text = "BROADCAST"
  <2>1. HostType(w) = "broadcast"
    BY <1>1, <1>2, <1>4 DEF HostType
  <2>2. HostOf(w).type = "broadcast"
    BY <2>1 DEF HostOf
  <2>3. ScanHost(HostOf(w), sub, broadcast) = IF broadcast THEN {"BROADCAST"} ELSE {}
    BY <2>2 DEF ScanHost
  <2> QED BY <1>2, <1>4, <2>1, <2>3 DEF IsHost
<1>5. CASE w.text \in {"NOBROADCAST", "CHOOSER", "*"}
  <2>1. HostType(w) \in {"nobroadcast", "chooser", "any"}
    BY <1>1, <1>2, <1>5 DEF HostType
  <2> QED BY <1>2, <1>5, <2>1 DEF IsHost
<1>6. CASE w.text \notin Alias \cup {"BROADCAST", "NOBROADCAST", "CHOOSER", "*"}
  <2>1. HostType(w) = "address" /\ Resolve[w.text] # NoAddress
    BY <1>1, <1>6 DEF HostType
  <2>2. HostOf(w).type = "address" /\ HostOf(w).key = Resolve[w.text]
    BY <2>1 DEF HostOf, Key
  <2>3. ScanHost(HostOf(w), sub, broadcast) = {Resolve[w.text]}
    BY <2>2 DEF ScanHost
  <2> QED BY <1>6, <2>1, <2>3 DEF IsHost
<1> QED
  BY <1>3, <1>4, <1>5, <1>6

\* Of the list of an entry is scanned what the words of its line stand for, and what their
\* aliases have.
LEMMA ListScanned ==
  ASSUME NEW line \in Seq(Word), line # <<>>, ResolvableLine(line),
         NEW d, EntryIs(d, line, Len(line)), d.type # "listen",
         NEW sub, NEW broadcast
  PROVE  ScanHostlist(d.hosts, sub, broadcast)
           = StandsWith(Texts(line), sub, broadcast)
<1> DEFINE n == Len(line)
           Scanned(x, w) == IsHost(w, d.type) /\ x \in ScanHost(HostOf(w), sub, broadcast)
           Told(x, t) == \/ t \in Alias /\ x \in sub[t]
                         \/ Resolve[t] # NoAddress /\ x = Resolve[t]
                         \/ broadcast /\ t = "BROADCAST" /\ x = "BROADCAST"
<1>1. \A j \in 2 .. n : line[j] \in Word /\ HostType(line[j]) # "unknown"
  BY DEF ResolvableLine, Words
<1>2. ASSUME NEW x
      PROVE  x \in ScanHostlist(d.hosts, sub, broadcast) <=> \E j \in 2 .. n : Scanned(x, line[j])
  <2>1. ToSet(d.hosts) = {HostOf(line[j]) : j \in {m \in 2 .. n : IsHost(line[m], d.type)}}
    BY DEF EntryIs, HostsOf
  <2> QED BY <2>1 DEF ScanHostlist
<1>3. ASSUME NEW x, NEW j \in 2 .. n PROVE Scanned(x, line[j]) <=> Told(x, line[j].text)
  <2>1. line[j] \in Word /\ HostType(line[j]) # "unknown"
    BY <1>1
  <2> QED BY <2>1, WordScanned, Zenon
<1>4. ASSUME NEW x
      PROVE  x \in StandsWith(Texts(line), sub, broadcast)
               <=> \E t \in Texts(line) : Told(x, t)
  BY DEF Stands, StandsWith
<1>5. Texts(line) = {line[j].text : j \in 2 .. n}
  BY DEF Texts, Words
<1>6. ASSUME NEW x
      PROVE  x \in ScanHostlist(d.hosts, sub, broadcast)
               <=> x \in StandsWith(Texts(line), sub, broadcast)
  <2> HIDE DEF Scanned, Told, n
  <2>1. (\E t \in Texts(line) : Told(x, t)) <=> \E j \in 2 .. n : Told(x, line[j].text)
    BY <1>5
  <2>2. (\E j \in 2 .. n : Scanned(x, line[j])) <=> \E j \in 2 .. n : Told(x, line[j].text)
    BY <1>3
  <2> QED BY <1>2, <1>4, <2>1, <2>2
<1> QED
  <2> DEFINE A == ScanHostlist(d.hosts, sub, broadcast)
             B == StandsWith(Texts(line), sub, broadcast)
  <2>1. \A x : x \in A <=> x \in B
    BY <1>6
  <2>2. A = B
    <3> HIDE DEF A, B
    <3> QED BY <2>1
  <2> QED BY <2>2

-----------------------------------------------------------------------------
(* The macros that a list leads to.                                        *)

\* the lines of a file that define a macro
MacroLines(a) == {l \in ToSet(file) : MacroLine(l) /\ Match(a, l[1].text)}

\* the macros that the lists of a file use
UsedIn(f) == Alias \cap UNION {Texts(l) : l \in ToSet(f)}

\* those of a set and those that their lines use
Follow(S) == S \cup UNION {Texts(l) \cap Alias : l \in UNION {MacroLines(a) : a \in S}}

\* db has the entries of the lines of a file in which the names resolve
ReadInto(db) ==
  /\ file \in Seq(Seq(Word)) /\ Len(db) = Len(file) /\ DOMAIN db = 1 .. Len(db)
  /\ \A i \in 1 .. Len(file) : /\ file[i] # <<>> /\ ResolvableLine(file[i])
                               /\ EntryIs(db[i], file[i], Len(file[i]))

\* What is scanned for an alias is what the words of its lines stand for and their aliases have.
LEMMA AliasScanned ==
  ASSUME NEW db, ReadInto(db), NEW a \in Alias, NEW sub, NEW broadcast
  PROVE  AliasHosts(db, broadcast, sub, a)
           = UNION {StandsWith(Texts(l), sub, broadcast) : l \in MacroLines(a)}
<1> DEFINE I == {j \in DOMAIN db : db[j].type = "alias" /\ Match(a, db[j].key)}
           J == {j \in 1 .. Len(file) : MacroLine(file[j]) /\ Match(a, file[j][1].text)}
<1> USE DEF ReadInto
<1>1. ASSUME NEW j \in 1 .. Len(file)
      PROVE  j \in I <=> j \in J
  <2>1. db[j].type = DisplayType(file[j][1]) /\ db[j].key = Key(db[j].type, file[j][1])
    BY DEF EntryIs
  <2>2. db[j].type = "alias" => db[j].key = file[j][1].text
    BY <2>1 DEF Key
  <2> QED BY <2>1, <2>2 DEF MacroLine
<1>2. I = J
  BY <1>1
<1>3. ASSUME NEW j \in J
      PROVE  ScanHostlist(db[j].hosts, sub, broadcast) = StandsWith(Texts(file[j]), sub, broadcast)
  <2>1. /\ file[j] \in Seq(Word) /\ file[j] # <<>> /\ ResolvableLine(file[j])
        /\ EntryIs(db[j], file[j], Len(file[j])) /\ db[j].type # "listen"
    BY <1>2, <1>3
  <2> HIDE DEF J
  <2> QED BY <2>1, ListScanned
<1>4. MacroLines(a) = {file[j] : j \in J}
  <2>1. DOMAIN file = 1 .. Len(file)
    OBVIOUS
  <2> QED BY <2>1 DEF MacroLines, ToSet
<1>5. AliasHosts(db, broadcast, sub, a) = UNION {ScanHostlist(db[j].hosts, sub, broadcast) : j \in I}
  BY DEF AliasHosts
<1> HIDE DEF I, J
<1>6. AliasHosts(db, broadcast, sub, a) = UNION {StandsWith(Texts(l), sub, broadcast) : l \in MacroLines(a)}
  BY <1>2, <1>3, <1>4, <1>5
<1> QED
  BY <1>6

\* The macros that words use, directly or not, are the least set that has those among the
\* words and with each macro those that its lines use.
LEMMA UsesIsLeast ==
  ASSUME NEW texts
  PROVE  /\ Uses(texts) \subseteq Alias /\ texts \cap Alias \subseteq Uses(texts)
         /\ Follow(Uses(texts)) = Uses(texts)
         /\ \A S \in SUBSET Alias : texts \cap Alias \subseteq S /\ Follow(S) = S => Uses(texts) \subseteq S
<1> DEFINE closed(S) ==
      /\ texts \cap Alias \subseteq S
      /\ \A line \in ToSet(file) :
           MacroLine(line) /\ (\E a \in S : Match(a, line[1].text)) => Texts(line) \cap Alias \subseteq S
<1>1. Uses(texts) = {a \in Alias : \A S \in SUBSET Alias : closed(S) => a \in S}
  BY DEF Uses
<1>2. ASSUME NEW S
      PROVE  closed(S) <=> texts \cap Alias \subseteq S /\ Follow(S) = S
  BY DEF Follow, MacroLines
<1>3. closed(Uses(texts))
  <2>1. texts \cap Alias \subseteq Uses(texts)
    BY <1>1
  <2>2. ASSUME NEW line \in ToSet(file), MacroLine(line),
               NEW a \in Uses(texts), Match(a, line[1].text),
               NEW t \in Texts(line) \cap Alias
        PROVE  t \in Uses(texts)
    <3>1. ASSUME NEW S \in SUBSET Alias, closed(S) PROVE t \in S
      <4>1. a \in S
        BY <1>1, <3>1
      <4> QED BY <2>2, <3>1, <4>1
    <3> HIDE DEF closed
    <3> QED BY <1>1, <3>1
  <2> QED BY <2>1, <2>2
<1> HIDE DEF closed
<1> QED
  BY <1>1, <1>2, <1>3

\* The macros that are reached in 0 to n steps.
Reaching(texts, n, reach) ==
  reach = [k \in 0 .. n |-> IF k = 0 THEN texts \cap Alias ELSE Follow(reach[k - 1])]

\* There are such sets.
LEMMA Reached ==
  ASSUME NEW texts, NEW n \in Nat
  PROVE  \E reach : Reaching(texts, n, reach)
<1> DEFINE S == {m \in 0 .. n : \E g : Reaching(texts, m, g)}
<1>1. 0 \in S
  <2>1. Reaching(texts, 0, [k \in 0 .. 0 |-> texts \cap Alias])
    BY DEF Reaching
  <2> QED BY <2>1
<1>2. ASSUME NEW m \in 1 .. n, m - 1 \in S PROVE m \in S
  <2>1. PICK g : Reaching(texts, m - 1, g)
    BY <1>2
  <2> DEFINE h == [k \in 0 .. m |-> IF k = m THEN Follow(g[m - 1]) ELSE g[k]]
  <2>2. \A k \in 1 .. m : k - 1 # m
    OBVIOUS
  <2>3. h = [k \in 0 .. m |-> IF k = 0 THEN texts \cap Alias ELSE Follow(h[k - 1])]
    <3>1. \A k \in 0 .. m : k = 0 => h[k] = texts \cap Alias
      BY <2>1 DEF Reaching
    <3>2. ASSUME NEW k \in 0 .. m, k # 0 PROVE h[k] = Follow(h[k - 1])
      <4>1. h[k - 1] = g[k - 1]
        BY <2>2, <3>2
      <4>2. k # m => g[k] = Follow(g[k - 1])
        <5>1. g = [i \in 0 .. m - 1 |-> IF i = 0 THEN texts \cap Alias ELSE Follow(g[i - 1])]
          BY <2>1 DEF Reaching
        <5>2. k # m => k \in 0 .. m - 1
          BY <3>2
        <5> QED BY <3>2, <5>1, <5>2
      <4> QED BY <4>1, <4>2
    <3>3. h = [k \in 0 .. m |-> h[k]]
      OBVIOUS
    <3> HIDE DEF h
    <3> QED BY <3>1, <3>2, <3>3
  <2> HIDE DEF h
  <2>4. Reaching(texts, m, h)
    BY <2>3 DEF Reaching
  <2> QED BY <2>4
<1>3. 0 .. n \subseteq S
  <2> HIDE DEF S
  <2> QED BY <1>1, <1>2, InductionUpTo
<1> QED
  BY <1>3

\* They grow up to the macros that words use: at every step by one at least, or not any more.
LEMMA ReachingGrows ==
  ASSUME NEW texts, NEW n \in Nat, NEW reach, Reaching(texts, n, reach),
         IsFiniteSet(Uses(texts)), NEW k \in 0 .. n
  PROVE  reach[k] = Uses(texts) \/ (reach[k] \subseteq Uses(texts) /\ Cardinality(reach[k]) > k)
<1> DEFINE uses == Uses(texts)
           Good(m) == reach[m] = uses \/ (reach[m] \subseteq uses /\ Cardinality(reach[m]) > m)
           S == {m \in 0 .. n : Good(m)}
<1>1. /\ uses \subseteq Alias /\ texts \cap Alias \subseteq uses /\ Follow(uses) = uses
      /\ \A X \in SUBSET Alias : texts \cap Alias \subseteq X /\ Follow(X) = X => uses \subseteq X
  BY UsesIsLeast
<1>2. /\ reach[0] = texts \cap Alias
      /\ \A m \in 1 .. n : reach[m] = Follow(reach[m - 1])
  <2>1. reach = [m \in 0 .. n |-> IF m = 0 THEN texts \cap Alias ELSE Follow(reach[m - 1])]
    BY DEF Reaching
  <2>2. \A m \in 0 .. n : reach[m] = IF m = 0 THEN texts \cap Alias ELSE Follow(reach[m - 1])
    BY <2>1, Zenon
  <2> QED BY <2>2
<1>3. \A X, Y : X \subseteq Y => Follow(X) \subseteq Follow(Y)
  BY DEF Follow
<1>4. \A X : X \subseteq Follow(X)
  BY DEF Follow
<1> HIDE DEF uses
<1>5. \A X : X \subseteq uses => IsFiniteSet(X) /\ Cardinality(X) \in Nat
  BY FS_Subset, FS_CardinalityType DEF uses
<1>6. 0 \in S
  <2>1. reach[0] \subseteq uses
    BY <1>1, <1>2
  <2>2. CASE reach[0] = {}
    <3>1. Follow({}) = {}
      BY DEF Follow
    <3> QED BY <1>1, <1>2, <2>2, <3>1
  <2>3. CASE reach[0] # {}
    <3>1. Cardinality(reach[0]) \in Nat /\ Cardinality(reach[0]) # 0
      BY <1>5, <2>1, <2>3, FS_EmptySet
    <3> QED BY <2>1, <3>1
  <2> QED BY <2>2, <2>3
<1>7. ASSUME NEW m \in 1 .. n, m - 1 \in S PROVE m \in S
  <2>1. reach[m] = Follow(reach[m - 1]) /\ Good(m - 1)
    BY <1>2, <1>7
  <2>2. reach[m - 1] \subseteq uses /\ reach[m - 1] \subseteq reach[m] /\ reach[m] \subseteq uses
    BY <1>1, <1>3, <1>4, <2>1
  <2>3. CASE reach[m - 1] = uses
    BY <1>1, <2>1, <2>3
  <2>4. CASE reach[m - 1] # uses
    <3>1. texts \cap Alias \subseteq reach[m - 1]
      <4> DEFINE R == {i \in 0 .. n : texts \cap Alias \subseteq reach[i]}
      <4>1. 0 \in R
        BY <1>2
      <4>2. \A i \in 1 .. n : i - 1 \in R => i \in R
        BY <1>2, <1>4
      <4>3. 0 .. n \subseteq R
        <5> HIDE DEF R
        <5> QED BY <4>1, <4>2, InductionUpTo
      <4> QED BY <4>3
    <3>2. reach[m] # reach[m - 1]
      BY <1>1, <2>1, <2>2, <2>4, <3>1
    <3>3. PICK x \in reach[m] : x \notin reach[m - 1]
      BY <2>2, <3>2
    <3>4. Cardinality(reach[m - 1] \cup {x}) = Cardinality(reach[m - 1]) + 1
      BY <1>5, <2>2, <3>3, FS_AddElement
    <3>5. Cardinality(reach[m - 1] \cup {x}) <= Cardinality(reach[m])
      BY <1>5, <2>2, <3>3, FS_Subset
    <3>6. Cardinality(reach[m]) \in Nat /\ Cardinality(reach[m - 1]) \in Nat
          /\ Cardinality(reach[m - 1]) > m - 1
      BY <1>5, <2>1, <2>2, <2>4
    <3> QED BY <2>2, <3>4, <3>5, <3>6
  <2> QED BY <2>3, <2>4
<1>8. 0 .. n \subseteq S
  <2> HIDE DEF S
  <2> QED BY <1>6, <1>7, InductionUpTo
<1> QED
  BY <1>8 DEF uses

\* Where words use at most n + 1 macros, all of them are reached in n steps.
LEMMA AllReached ==
  ASSUME NEW texts, NEW n \in Nat, NEW reach, Reaching(texts, n, reach),
         IsFiniteSet(Uses(texts)), Cardinality(Uses(texts)) <= n + 1
  PROVE  reach[n] = Uses(texts)
<1>1. CASE reach[n] # Uses(texts)
  <2>1. reach[n] \subseteq Uses(texts) /\ Cardinality(reach[n]) > n
    BY <1>1, ReachingGrows
  <2>2. Cardinality(reach[n]) <= Cardinality(Uses(texts)) /\ IsFiniteSet(reach[n])
        /\ Cardinality(reach[n]) # Cardinality(Uses(texts))
    BY <1>1, <2>1, FS_Subset, Zenon
  <2>3. Cardinality(reach[n]) \in Nat /\ Cardinality(Uses(texts)) \in Nat
    BY <2>2, FS_CardinalityType
  <2> QED BY <2>1, <2>2, <2>3
<1> QED
  BY <1>1

-----------------------------------------------------------------------------
(* The hosts of an alias.                                                  *)

\* With some room an alias has what its lines have, and with one less their aliases.
LEMMA Expands ==
  ASSUME NEW db, ReadInto(db), NEW broadcast, NEW expand, Expanding(db, broadcast, expand),
         NEW a \in Alias, NEW x
  PROVE  /\ x \notin expand[0][a]
         /\ \A r \in 1 .. MaxDepth :
              x \in expand[r][a] <=>
                \E l \in MacroLines(a) : \/ x \in Stands(Texts(l), broadcast)
                                         \/ \E t \in Texts(l) \cap Alias : x \in expand[r - 1][t]
<1>1. MaxDepth \in Nat \ {0}
  BY AccessAssumption
<1>2. \A r \in 0 .. MaxDepth :
        expand[r] = [c \in Alias |-> IF r = 0 THEN {} ELSE AliasHosts(db, broadcast, expand[r - 1], c)]
  <2>1. expand = [r \in 0 .. MaxDepth |->
           [c \in Alias |-> IF r = 0 THEN {} ELSE AliasHosts(db, broadcast, expand[r - 1], c)]]
    BY DEF Expanding
  <2> QED BY <2>1, Zenon
<1>3. \A r \in 0 .. MaxDepth :
        expand[r][a] = IF r = 0 THEN {} ELSE AliasHosts(db, broadcast, expand[r - 1], a)
  BY <1>2, Zenon
<1>4. x \notin expand[0][a]
  BY <1>1, <1>3
<1>5. ASSUME NEW r \in 1 .. MaxDepth
      PROVE  x \in expand[r][a] <=>
               \E l \in MacroLines(a) : \/ x \in Stands(Texts(l), broadcast)
                                        \/ \E t \in Texts(l) \cap Alias : x \in expand[r - 1][t]
  <2> DEFINE sub == expand[r - 1]
  <2>1. expand[r][a] = AliasHosts(db, broadcast, sub, a)
    <3>1. r \in 0 .. MaxDepth /\ r # 0
      BY <1>1
    <3> QED BY <1>3, <3>1
  <2> HIDE DEF sub
  <2>2. expand[r][a] = UNION {StandsWith(Texts(l), sub, broadcast) : l \in MacroLines(a)}
    BY <2>1, AliasScanned
  <2>3. x \in expand[r][a] <=> \E l \in MacroLines(a) : x \in StandsWith(Texts(l), sub, broadcast)
    BY <2>2
  <2>4. ASSUME NEW l
        PROVE  x \in StandsWith(Texts(l), sub, broadcast)
                 <=> \/ x \in Stands(Texts(l), broadcast)
                     \/ \E t \in Texts(l) \cap Alias : x \in sub[t]
    BY DEF StandsWith
  <2> QED BY <2>3, <2>4 DEF sub
<1> QED
  BY <1>4, <1>5

\* An alias has no less with more room.
LEMMA ExpandGrows ==
  ASSUME NEW db, ReadInto(db), NEW broadcast, NEW expand, Expanding(db, broadcast, expand),
         NEW r \in 1 .. MaxDepth, NEW a \in Alias
  PROVE  expand[r - 1][a] \subseteq expand[r][a]
<1> DEFINE S == {m \in 0 .. MaxDepth : m # 0 => \A c \in Alias : expand[m - 1][c] \subseteq expand[m][c]}
<1>1. MaxDepth \in Nat /\ 0 \in S
  BY AccessAssumption
<1>2. ASSUME NEW m \in 1 .. MaxDepth, m - 1 \in S PROVE m \in S
  <2>1. ASSUME NEW c \in Alias, NEW x \in expand[m - 1][c] PROVE x \in expand[m][c]
    <3>1. CASE m = 1
      BY <2>1, <3>1, Expands
    <3>2. CASE m # 1
      <4>1. m - 1 \in 1 .. MaxDepth
        BY <1>1, <3>2
      <4>2. PICK l \in MacroLines(c) : \/ x \in Stands(Texts(l), broadcast)
                                       \/ \E t \in Texts(l) \cap Alias : x \in expand[m - 1 - 1][t]
        BY <2>1, <4>1, Expands
      <4>3. \A t \in Alias : expand[m - 1 - 1][t] \subseteq expand[m - 1][t]
        BY <1>2, <4>1
      <4>4. \E j \in MacroLines(c) : \/ x \in Stands(Texts(j), broadcast)
                                     \/ \E t \in Texts(j) \cap Alias : x \in expand[m - 1][t]
        BY <4>2, <4>3
      <4> QED BY <4>4, Expands
    <3> QED BY <3>1, <3>2
  <2> QED BY <1>1, <2>1
<1>3. 0 .. MaxDepth \subseteq S
  <2> HIDE DEF S
  <2> QED BY <1>1, <1>2, InductionUpTo
<1> QED
  BY <1>1, <1>3

\* A macro that words use has only what the lines of such macros stand for.
LEMMA ExpandWithin ==
  ASSUME NEW db, ReadInto(db), NEW broadcast, NEW expand, Expanding(db, broadcast, expand),
         NEW texts, NEW a \in Uses(texts), NEW x \in expand[MaxDepth][a]
  PROVE  \E c \in Uses(texts) : \E l \in MacroLines(c) : x \in Stands(Texts(l), broadcast)
<1> DEFINE Told == \E c \in Uses(texts) : \E l \in MacroLines(c) : x \in Stands(Texts(l), broadcast)
           S == {m \in 0 .. MaxDepth : \A c \in Uses(texts) : x \in expand[m][c] => Told}
<1>1. MaxDepth \in Nat
  BY AccessAssumption
<1>2. Uses(texts) \subseteq Alias /\ Follow(Uses(texts)) = Uses(texts)
  BY UsesIsLeast
<1>3. 0 \in S
  BY <1>1, <1>2, Expands
<1>4. ASSUME NEW m \in 1 .. MaxDepth, m - 1 \in S PROVE m \in S
  <2>1. ASSUME NEW c \in Uses(texts), x \in expand[m][c] PROVE Told
    <3>1. PICK l \in MacroLines(c) : \/ x \in Stands(Texts(l), broadcast)
                                     \/ \E t \in Texts(l) \cap Alias : x \in expand[m - 1][t]
      BY <1>2, <2>1, Expands
    <3>2. Texts(l) \cap Alias \subseteq Uses(texts)
      BY <1>2, <3>1 DEF Follow
    <3> QED BY <1>4, <3>1, <3>2
  <2> HIDE DEF Told
  <2> QED BY <1>1, <2>1
<1>5. 0 .. MaxDepth \subseteq S
  <2> HIDE DEF S
  <2> QED BY <1>1, <1>3, <1>4, InductionUpTo
<1> HIDE DEF Told
<1> QED
  BY <1>1, <1>5 DEF Told

\* What a macro that is reached in k steps has with the room that they leave, an alias among the
\* words has.
LEMMA ExpandReaches ==
  ASSUME NEW db, ReadInto(db), NEW broadcast, NEW expand, Expanding(db, broadcast, expand),
         NEW texts, NEW reach, Reaching(texts, MaxDepth - 1, reach),
         NEW a \in reach[MaxDepth - 1], NEW x \in expand[1][a]
  PROVE  \E t \in texts \cap Alias : x \in expand[MaxDepth][t]
<1> DEFINE Told == \E t \in texts \cap Alias : x \in expand[MaxDepth][t]
           S == {k \in 0 .. MaxDepth - 1 :
                   reach[k] \subseteq Alias /\ \A c \in reach[k] : x \in expand[MaxDepth - k][c] => Told}
<1>1. MaxDepth \in Nat \ {0}
  BY AccessAssumption
<1>2. /\ reach[0] = texts \cap Alias
      /\ \A k \in 1 .. MaxDepth - 1 : reach[k] = Follow(reach[k - 1])
  <2>1. reach = [k \in 0 .. MaxDepth - 1 |-> IF k = 0 THEN texts \cap Alias ELSE Follow(reach[k - 1])]
    BY DEF Reaching
  <2>2. \A k \in 0 .. MaxDepth - 1 : reach[k] = IF k = 0 THEN texts \cap Alias ELSE Follow(reach[k - 1])
    BY <2>1, Zenon
  <2> QED BY <1>1, <2>2
<1>3. 0 \in S
  <2>1. MaxDepth - 0 = MaxDepth
    BY <1>1
  <2> QED BY <1>1, <1>2, <2>1
<1>4. ASSUME NEW k \in 1 .. MaxDepth - 1, k - 1 \in S PROVE k \in S
  <2>1. reach[k - 1] \subseteq Alias /\ \A c \in reach[k - 1] : x \in expand[MaxDepth - (k - 1)][c] => Told
    BY <1>4
  <2>2. reach[k] = Follow(reach[k - 1])
    BY <1>2
  <2>3. reach[k] \subseteq Alias
    BY <2>1, <2>2 DEF Follow
  <2>4. /\ MaxDepth - (k - 1) \in 1 .. MaxDepth
        /\ MaxDepth - (k - 1) - 1 = MaxDepth - k
    BY <1>1
  <2> HIDE DEF Told
  <2>5. ASSUME NEW c \in reach[k], x \in expand[MaxDepth - k][c] PROVE Told
    <3>1. CASE c \in reach[k - 1]
      <4>1. x \in expand[MaxDepth - (k - 1)][c]
        BY <2>1, <2>4, <2>5, <3>1, ExpandGrows
      <4> QED BY <2>1, <3>1, <4>1
    <3>2. CASE c \notin reach[k - 1]
      <4>1. PICK b \in reach[k - 1] : \E l \in MacroLines(b) : c \in Texts(l) \cap Alias
        BY <2>2, <3>2 DEF Follow
      <4>2. b \in Alias
        BY <2>1
      <4>3. x \in expand[MaxDepth - (k - 1)][b]
        BY <2>4, <2>5, <4>1, <4>2, Expands
      <4> QED BY <2>1, <4>3
    <3> QED BY <3>1, <3>2
  <2> QED BY <1>1, <2>3, <2>5
<1>5. 0 .. MaxDepth - 1 \subseteq S
  <2>1. MaxDepth - 1 \in Nat
    BY <1>1
  <2> HIDE DEF S
  <2> QED BY <1>3, <1>4, <2>1, InductionUpTo
<1>6. MaxDepth - 1 \in 0 .. MaxDepth - 1 /\ MaxDepth - (MaxDepth - 1) = 1
  BY <1>1
<1> HIDE DEF Told
<1> QED
  BY <1>5, <1>6 DEF Told

-----------------------------------------------------------------------------
(* Indirect queries.                                                       *)

\* A line has at most MaxDepth macros to follow: the file uses no more.  The code cuts the
\* nesting there, for it takes no notice of macros that refer to each other.
FewMacros(f) == Cardinality(UsedIn(f)) <= MaxDepth

\* The values of a function on a finite set are finite.
LEMMA ValuesFinite ==
  ASSUME NEW D, IsFiniteSet(D), NEW f
  PROVE  IsFiniteSet({f[x] : x \in D})
<1> DEFINE T == {f[x] : x \in D}
           g == [x \in D |-> f[x]]
<1>1. g \in Surjection(D, T)
  BY DEF Surjection
<1>2. IsFiniteSet(T)
  <2> HIDE DEF T, g
  <2> QED BY <1>1, FS_Surjection
<1> QED
  BY <1>2

\* The macros that a line uses, directly or not, are used in the file, and these are finite.
LEMMA UsesFew ==
  ASSUME file \in Seq(Seq(Word)), FewMacros(file), NEW line \in ToSet(file)
  PROVE  IsFiniteSet(Uses(Texts(line))) /\ Cardinality(Uses(Texts(line))) <= MaxDepth
<1>1. Uses(Texts(line)) \subseteq UsedIn(file)
  <2>1. UsedIn(file) \subseteq Alias /\ Texts(line) \cap Alias \subseteq UsedIn(file)
    BY DEF UsedIn
  <2>2. \A a : MacroLines(a) \subseteq ToSet(file)
    BY DEF MacroLines
  <2>3. Follow(UsedIn(file)) = UsedIn(file)
    BY <2>2 DEF Follow, UsedIn
  <2> QED BY <2>1, <2>3, UsesIsLeast
<1>2. IsFiniteSet(UsedIn(file))
  <2>1. Len(file) \in Nat /\ \A i \in 1 .. Len(file) : file[i] \in Seq(Word) /\ Len(file[i]) \in Nat
    OBVIOUS
  <2>2. ASSUME NEW i \in 1 .. Len(file) PROVE IsFiniteSet(Texts(file[i]))
    <3> DEFINE D == 2 .. Len(file[i])
               f == [j \in D |-> file[i][j].text]
    <3>1. IsFiniteSet(D)
      <4>1. 2 \in Int /\ Len(file[i]) \in Int
        BY <2>1
      <4> QED BY <4>1, FS_Interval
    <3>2. Texts(file[i]) = {f[j] : j \in D}
      BY DEF Texts, Words
    <3> HIDE DEF D, f
    <3> QED BY <3>1, <3>2, ValuesFinite
  <2> DEFINE L == {Texts(file[i]) : i \in 1 .. Len(file)}
  <2>3. IsFiniteSet(L)
    <3> DEFINE D == 1 .. Len(file)
               f == [i \in D |-> Texts(file[i])]
    <3>1. IsFiniteSet(D)
      BY <2>1, FS_Interval
    <3>2. L = {f[i] : i \in D}
      OBVIOUS
    <3> HIDE DEF D, f, L
    <3> QED BY <3>1, <3>2, ValuesFinite
  <2>4. IsFiniteSet(UNION L)
    <3>1. \A X \in L : IsFiniteSet(X)
      BY <2>2
    <3> HIDE DEF L
    <3> QED BY <2>3, <3>1, FS_UNION
  <2>5. UsedIn(file) \subseteq UNION L
    <3>1. DOMAIN file = 1 .. Len(file)
      BY <2>1
    <3>2. ToSet(file) = {file[i] : i \in 1 .. Len(file)}
      BY <3>1 DEF ToSet
    <3>3. UNION {Texts(l) : l \in ToSet(file)} = UNION L
      BY <3>2
    <3> HIDE DEF L
    <3> QED BY <3>3 DEF UsedIn
  <2> HIDE DEF L
  <2> QED BY <2>4, <2>5, FS_Subset
<1>3. IsFiniteSet(Uses(Texts(line)))
  BY <1>1, <1>2, FS_Subset
<1>4. Cardinality(Uses(Texts(line))) <= Cardinality(UsedIn(file))
  BY <1>1, <1>2, FS_Subset
<1>5. Cardinality(Uses(Texts(line))) \in Nat /\ Cardinality(UsedIn(file)) \in Nat /\ MaxDepth \in Nat
  BY <1>2, <1>3, FS_CardinalityType, AccessAssumption
<1> QED
  BY <1>3, <1>4, <1>5 DEF FewMacros

\* What is scanned for a line is what its words, and those of the macros it leads to, stand for.
LEMMA ListStands ==
  ASSUME NEW db, ReadInto(db), FewMacros(file), NEW broadcast,
         NEW i \in 1 .. Len(file), db[i].type # "listen"
  PROVE  ScanHostlist(db[i].hosts, IndirectAlias(db, broadcast), broadcast)
           = Stands(Expanded(Texts(file[i])), broadcast)
<1> DEFINE texts == Texts(file[i])
           sub == IndirectAlias(db, broadcast)
<1>0. MaxDepth \in Nat \ {0}
  BY AccessAssumption
<1>1. PICK expand : Expanding(db, broadcast, expand) /\ sub = expand[MaxDepth]
  BY IndirectAliasExpands
<1>2. PICK reach : Reaching(texts, MaxDepth - 1, reach)
  <2>1. MaxDepth - 1 \in Nat
    BY <1>0
  <2> HIDE DEF texts
  <2> QED BY <2>1, Reached, Zenon
<1>3. /\ file \in Seq(Seq(Word)) /\ file[i] \in Seq(Word) /\ file[i] # <<>>
      /\ ResolvableLine(file[i]) /\ EntryIs(db[i], file[i], Len(file[i])) /\ file[i] \in ToSet(file)
  <2>1. file \in Seq(Seq(Word)) /\ DOMAIN file = 1 .. Len(file)
    BY DEF ReadInto
  <2>2. file[i] \in ToSet(file)
    BY <2>1 DEF ToSet
  <2> QED BY <2>1, <2>2 DEF ReadInto
<1>4. reach[MaxDepth - 1] = Uses(texts)
  BY <1>0, <1>2, <1>3, UsesFew, AllReached
<1>5. texts \cap Alias \subseteq Uses(texts) /\ Uses(texts) \subseteq Alias
  BY UsesIsLeast
<1>6. ScanHostlist(db[i].hosts, sub, broadcast) = StandsWith(texts, sub, broadcast)
  <2> HIDE DEF sub
  <2> QED BY <1>3, ListScanned
<1>7. Expanded(texts) = texts \cup UNION {Texts(l) : l \in UNION {MacroLines(c) : c \in Uses(texts)}}
  <2>1. {l \in ToSet(file) : MacroLine(l) /\ \E c \in Uses(texts) : Match(c, l[1].text)}
          = UNION {MacroLines(c) : c \in Uses(texts)}
    BY DEF MacroLines
  <2> QED BY <2>1 DEF Expanded
<1> HIDE DEF texts, sub
<1>8. ASSUME NEW x
      PROVE  x \in StandsWith(texts, sub, broadcast)
               <=> \/ x \in Stands(texts, broadcast)
                   \/ \E c \in Uses(texts) : \E l \in MacroLines(c) : x \in Stands(Texts(l), broadcast)
  <2>1. x \in StandsWith(texts, sub, broadcast)
          <=> \/ x \in Stands(texts, broadcast)
              \/ \E t \in texts \cap Alias : x \in expand[MaxDepth][t]
    BY <1>1 DEF StandsWith
  <2>2. ASSUME NEW t \in texts \cap Alias, x \in expand[MaxDepth][t]
        PROVE  \E c \in Uses(texts) : \E l \in MacroLines(c) : x \in Stands(Texts(l), broadcast)
    BY <1>1, <1>5, <2>2, ExpandWithin
  <2>3. ASSUME NEW c \in Uses(texts), NEW l \in MacroLines(c), x \in Stands(Texts(l), broadcast)
        PROVE  \E t \in texts \cap Alias : x \in expand[MaxDepth][t]
    <3>1. x \in expand[1][c]
      BY <1>0, <1>1, <1>5, <2>3, Expands
    <3> QED BY <1>1, <1>2, <1>4, <3>1, ExpandReaches
  <2> QED BY <2>1, <2>2, <2>3
<1>9. ASSUME NEW x
      PROVE  x \in Stands(Expanded(texts), broadcast)
               <=> \/ x \in Stands(texts, broadcast)
                   \/ \E c \in Uses(texts) : \E l \in MacroLines(c) : x \in Stands(Texts(l), broadcast)
  BY <1>7 DEF Stands
<1>10. StandsWith(texts, sub, broadcast) = Stands(Expanded(texts), broadcast)
  <2> DEFINE A == StandsWith(texts, sub, broadcast)
             B == Stands(Expanded(texts), broadcast)
  <2>1. \A x : x \in A <=> x \in B
    BY <1>8, <1>9
  <2>2. A = B
    <3> HIDE DEF A, B
    <3> QED BY <2>1
  <2> QED BY <2>2
<1> QED
  BY <1>6, <1>10 DEF texts, sub

\* What is scanned for an indirect query is the entry of the first line that is.
LEMMA IndirectEntryIs ==
  ASSUME NEW db, NEW client \in Address, ReadInto(db)
  PROVE  /\ IndirectEntry(db, client) = FirstLine(client, IndirectLine)
         /\ IndirectEntry(db, client) # 0 =>
              /\ IndirectEntry(db, client) \in 1 .. Len(file)
              /\ db[IndirectEntry(db, client)].type # "listen"
<1> DEFINE n == Len(file)
           I == {i \in 1 .. Len(db) : db[i].hosts # <<>> /\ About(db[i], client)}
           J == {i \in 1 .. n : IndirectLine(file[i]) /\ LineAbout(file[i], client)}
<1>1. n \in Nat /\ Len(db) = n
  BY DEF ReadInto
<1>2. ASSUME NEW i \in 1 .. n PROVE i \in I <=> i \in J
  <2>1. /\ file[i] \in Seq(Word) /\ file[i] # <<>> /\ ResolvableLine(file[i])
        /\ EntryIs(db[i], file[i], Len(file[i]))
    BY <1>1 DEF ReadInto
  <2>2. About(db[i], client) <=>
          ~MacroLine(file[i]) /\ ~ListenLine(file[i]) /\ LineAbout(file[i], client)
    BY <2>1, EntryAbout
  <2>3. About(db[i], client) => db[i].type \in {"pattern", "address"}
    BY DEF About
  <2>4. db[i].type \in {"pattern", "address"} => (db[i].hosts # <<>> <=> IndirectLine(file[i]))
    BY <2>1, EntryHosts
  <2>5. IndirectLine(file[i]) => ~MacroLine(file[i]) /\ ~ListenLine(file[i])
    BY DEF IndirectLine
  <2> QED BY <1>1, <2>2, <2>3, <2>4, <2>5
<1>3. IndirectEntry(db, client) = IF I # {} THEN Min(I) ELSE 0
  BY DEF IndirectEntry, SelectInSeq
<1>4. FirstLine(client, IndirectLine) = IF J # {} THEN Min(J) ELSE 0
  BY DEF FirstLine, SelectInSeq
<1>5. I \subseteq 1 .. n /\ J \subseteq 1 .. n
  BY <1>1
<1>6. \A i \in I : db[i].type # "listen"
  BY DEF About
<1> HIDE DEF I, J, n
<1>7. /\ (IF I # {} THEN Min(I) ELSE 0) = (IF J # {} THEN Min(J) ELSE 0)
      /\ (IF I # {} THEN Min(I) ELSE 0) # 0 => (IF I # {} THEN Min(I) ELSE 0) \in I
  BY <1>1, <1>2, <1>5, SameFirst
<1>8. IndirectEntry(db, client) # 0 => IndirectEntry(db, client) \in I
  BY <1>3, <1>7
<1> QED
  BY <1>3, <1>4, <1>5, <1>6, <1>7, <1>8 DEF n

\* The addresses that the words of a line stand for are the hosts it lists, and with them
\* "BROADCAST" where the line leads to that word.
LEMMA HostsStand ==
  ASSUME file \in Seq(Seq(Word)), NEW line \in ToSet(file)
  PROVE  /\ Hosts(line) \subseteq Address
         /\ Stands(Expanded(Texts(line)), FALSE) = Hosts(line)
         /\ Stands(Expanded(Texts(line)), TRUE)
              = Hosts(line) \cup {t \in {"BROADCAST"} : t \in Expanded(Texts(line))}
<1>1. \A l \in ToSet(file) : Texts(l) \subseteq Text
  <2> SUFFICES ASSUME NEW i \in 1 .. Len(file) PROVE Texts(file[i]) \subseteq Text
    <3>1. DOMAIN file = 1 .. Len(file)
      OBVIOUS
    <3> QED BY <3>1 DEF ToSet
  <2>1. file[i] \in Seq(Word)
    OBVIOUS
  <2>2. \A j \in 2 .. Len(file[i]) : file[i][j] \in Word
    BY <2>1
  <2>3. Words(file[i]) \subseteq Word
    BY <2>2 DEF Words
  <2> QED BY <2>3 DEF Texts, Word
<1>2. Expanded(Texts(line)) \subseteq Text
  BY <1>1 DEF Expanded
<1>3. \A t \in Text : Resolve[t] \in Address \cup {NoAddress}
  BY AccessAssumption
<1>4. Hosts(line) \subseteq Address
  BY <1>2, <1>3 DEF Hosts
<1>5. Stands(Expanded(Texts(line)), FALSE) = Hosts(line)
  BY DEF Stands, Hosts
<1>6. Stands(Expanded(Texts(line)), TRUE)
        = Hosts(line) \cup {t \in {"BROADCAST"} : t \in Expanded(Texts(line))}
  BY DEF Stands, Hosts
<1> QED
  BY <1>4, <1>5, <1>6

\* Indirect queries go where the first line about the client that has a list says, through all
\* its macros, for every file in which the names resolve and that uses at most MaxDepth macros.
THEOREM IndirectAnswered ==
  ASSUME \A f \in FirstFiles \cup Files : FewMacros(f)
  PROVE  Spec => []IndirectAnswers
<1>1. TypeOK => IndirectAnswers
  <2> SUFFICES ASSUME TypeOK, Resolvable, database = ReadAccessDatabase(file),
                      NEW client \in Address
               PROVE  IndirectAnswer(client)
    BY DEF IndirectAnswers
  <2>1. ReadInto(database) /\ FewMacros(file)
    <3>1. file \in FirstFiles \cup Files /\ DOMAIN database = 1 .. Len(database)
      BY DEF TypeOK, Database
    <3> QED BY <3>1, ResolvableRead DEF ReadInto
  <2> DEFINE i == IndirectEntry(database, client)
             line == file[i]
             d == database[i]
             answer == ForEachMatchingIndirectHost(database, client, NoAddress)
             told == ForEachChooserHost(database, client)
             use == UseChooser(database, client, NoAddress)
             found(b) == ScanHostlist(d.hosts, IndirectAlias(database, b), b)
  <2>2. /\ FirstLine(client, IndirectLine) = i
        /\ i # 0 => i \in 1 .. Len(file) /\ d.type # "listen"
    BY <2>1, IndirectEntryIs
  <2>3. ASSUME i # 0
        PROVE  /\ d.notAllowed = line[1].not
               /\ d.chooser <=> "CHOOSER" \in Texts(line)
               /\ Hosts(line) \subseteq Address
               /\ found(FALSE) = Hosts(line)
               /\ found(TRUE) = Hosts(line) \cup {t \in {"BROADCAST"} : t \in Expanded(Texts(line))}
    <3> HIDE DEF i
    <3>1. i \in 1 .. Len(file) /\ d.type # "listen"
      BY <2>2, <2>3
    <3>2. /\ file \in Seq(Seq(Word)) /\ line \in Seq(Word) /\ line # <<>>
          /\ ResolvableLine(line) /\ EntryIs(d, line, Len(line))
      BY <2>1, <3>1 DEF ReadInto
    <3>3. line \in ToSet(file)
      BY <3>1, <3>2 DEF ToSet
    <3>4. \A b \in BOOLEAN : found(b) = Stands(Expanded(Texts(line)), b)
      BY <2>1, <3>1, ListStands
    <3> HIDE DEF line, d, found
    <3> QED BY <3>2, <3>3, <3>4, EntryFlags, HostsStand
  <2>4. CASE i = 0
    <3>1. answer = Nowhere /\ ~use
      BY <2>4 DEF ForEachMatchingIndirectHost, UseChooser
    <3> HIDE DEF i, answer, use
    <3> QED BY <2>2, <2>4, <3>1 DEF IndirectAnswer, answer, use
  <2>5. CASE i # 0 /\ line[1].not
    <3>1. answer = Nowhere /\ ~use
      BY <2>3, <2>5 DEF ForEachMatchingIndirectHost, UseChooser
    <3> HIDE DEF i, answer, use
    <3> QED BY <2>2, <2>5, <3>1 DEF IndirectAnswer, answer, use, line
  <2>6. CASE i # 0 /\ ~line[1].not /\ "CHOOSER" \in Texts(line)
    <3>1. d.notAllowed = FALSE /\ d.chooser
      BY <2>3, <2>6
    <3>2. answer = [Nowhere EXCEPT !.localHostAsWell = TRUE]
      BY <2>6, <3>1 DEF ForEachMatchingIndirectHost
    <3>3. answer.forward = {} /\ answer.localHostAsWell
      <4> HIDE DEF answer
      <4> QED BY <3>2 DEF Nowhere
    <3>4. use
      BY <2>6, <3>1 DEF UseChooser
    <3>5. told = (found(TRUE) \ Local) \cup (IF found(TRUE) \cap Local # {} THEN {LocalHost} ELSE {})
      BY <2>6, <3>1 DEF ForEachChooserHost
    <3>6. "BROADCAST" \notin Address /\ Local \subseteq Address /\ LocalHost \in Address
      BY AccessAssumption
    <3> HIDE DEF i, d, line, answer, told, use, found
    <3>7. told \ {"BROADCAST", LocalHost} = Hosts(line) \ (Local \cup {LocalHost})
      BY <2>3, <2>6, <3>5, <3>6
    <3>8. "BROADCAST" \in told <=> "BROADCAST" \in Expanded(Texts(line))
      <4>1. "BROADCAST" \in told <=> "BROADCAST" \in found(TRUE)
        BY <3>5, <3>6
      <4>2. "BROADCAST" \in found(TRUE) <=> "BROADCAST" \in Expanded(Texts(line))
        BY <2>3, <2>6, <3>6
      <4> QED BY <4>1, <4>2
    <3> QED BY <2>2, <2>6, <3>3, <3>4, <3>7, <3>8 DEF IndirectAnswer, line, answer, told, use
  <2>7. CASE i # 0 /\ ~line[1].not /\ "CHOOSER" \notin Texts(line)
    <3>1. d.notAllowed = FALSE /\ ~d.chooser
      BY <2>3, <2>7
    <3>2. answer = Split(found(FALSE))
      BY <2>7, <3>1 DEF ForEachMatchingIndirectHost
    <3> HIDE DEF i, d, line, answer, found
    <3>3. answer.forward = Hosts(line) \ Local /\ answer.localHostAsWell = (Hosts(line) \cap Local # {})
      BY <2>3, <2>7, <3>2 DEF Split
    <3> QED BY <2>2, <2>7, <3>3 DEF IndirectAnswer, line, answer
  <2> QED BY <2>4, <2>5, <2>6, <2>7
<1> QED
  BY <1>1, ListenTypes, PTL
=============================================================================
