---------------------------- MODULE SocketProofs ----------------------------
(***************************************************************************)
(* A rescan leaves open the sockets that the file lists, for every file    *)
(* and whatever was open before.                                           *)
(***************************************************************************)
EXTENDS ListenProofs

\* Where the marking stands: sockets with the addresses old were open, those of asked are
\* marked, and joins are the pairs of an address and a group that it has joined.
Reflects(a, old, asked, joins) ==
  /\ a \in Marking
  /\ {s.addr : s \in a.list} = old \cup asked
  /\ \A s \in a.list : /\ s.ref <=> s.addr \in asked
                       /\ s.groups = {g \in Address : <<s.addr, g>> \in joins}
  /\ \A x, g : <<x, g>> \in joins => x \in asked

\* no address takes the port of another
Apart(addresses) == \A x, y \in addresses : x # y => ~Overlap(x, y)

\* What a state of the marking consists of.
LEMMA MarkingIs ==
  ASSUME NEW a \in Marking
  PROVE  /\ a.list \subseteq Marked /\ OneEach(a.list)
         /\ a.current \in Address \cup Wildcards \cup {NoAddress}
         /\ a = [list |-> a.list, current |-> a.current]
         /\ \A s \in a.list : /\ s.addr \in present /\ s.addr \in Address \cup Wildcards
                              /\ s.addr # NoAddress /\ s.ref \in BOOLEAN
                              /\ s = [addr |-> s.addr, groups |-> s.groups, ref |-> s.ref]
<1>1. NoAddress \notin Address \cup Wildcards
  BY AccessAssumption, ListenAssumption
<1> QED
  BY <1>1 DEF Marking, Marked

\* An address that can be bound to, apart from the others, is marked.
LEMMA MarkReflects ==
  ASSUME NEW a, NEW old, NEW asked, NEW joins, Reflects(a, old, asked, joins),
         NEW addr \in Address \cup Wildcards, addr \in present,
         NEW all, Apart(all), old \subseteq all, asked \subseteq all, addr \in all
  PROVE  Reflects(Mark(a, addr), old, asked \cup {addr}, joins) /\ Mark(a, addr).current = addr
<1>1. a \in Marking /\ Mark(a, addr) \in Marking
  BY MarkTyped DEF Reflects
<1>2. /\ {s.addr : s \in a.list} = old \cup asked
      /\ \A s \in a.list : /\ s.ref <=> s.addr \in asked
                           /\ s.groups = {g \in Address : <<s.addr, g>> \in joins}
      /\ \A x, g : <<x, g>> \in joins => x \in asked
  BY DEF Reflects
<1>3. CASE \E s \in a.list : s.addr = addr
  <2> DEFINE new(s) == IF s.addr = addr THEN [s EXCEPT !.ref = TRUE] ELSE s
             list == {new(s) : s \in a.list}
  <2>1. \A s \in a.list : /\ new(s).addr = s.addr /\ new(s).groups = s.groups
                          /\ new(s).ref <=> s.ref \/ s.addr = addr
    <3> TAKE s \in a.list
    <3>1. CASE s.addr = addr
      <4>1. s \in Marked
        BY <1>1, MarkingIs
      <4>2. new(s).addr = s.addr /\ new(s).groups = s.groups /\ new(s).ref = TRUE
        BY <3>1, <4>1 DEF Marked
      <4> HIDE DEF new
      <4> QED BY <3>1, <4>2
    <3>2. CASE s.addr # addr
      BY <3>2
    <3> QED BY <3>1, <3>2
  <2>2. Mark(a, addr) = [list |-> list, current |-> addr]
    BY <1>3 DEF Mark
  <2> HIDE DEF new
  <2>3. {s.addr : s \in list} = old \cup (asked \cup {addr})
    BY <1>2, <1>3, <2>1
  <2>4. \A s \in list : /\ s.ref <=> s.addr \in asked \cup {addr}
                        /\ s.groups = {g \in Address : <<s.addr, g>> \in joins}
    BY <1>2, <2>1
  <2>5. Mark(a, addr).list = list /\ Mark(a, addr).current = addr
    <3> HIDE DEF list
    <3> QED BY <2>2
  <2> HIDE DEF list
  <2> QED BY <1>1, <1>2, <2>3, <2>4, <2>5 DEF Reflects
<1>4. CASE ~(\E s \in a.list : s.addr = addr)
  <2> DEFINE new == [addr |-> addr, groups |-> {}, ref |-> TRUE]
             list == a.list \cup {new}
  <2>1. CanBind(addr, a.list)
    <3>1. \A s \in a.list : s.addr \in all /\ s.addr # addr
      BY <1>2, <1>4
    <3> QED BY <3>1 DEF CanBind, Apart
  <2>2. Mark(a, addr) = [list |-> list, current |-> addr]
    BY <1>4, <2>1 DEF Mark
  <2>3. new.addr = addr /\ new.groups = {} /\ new.ref
    OBVIOUS
  <2> HIDE DEF new
  <2>4. addr \notin asked /\ \A g : <<addr, g>> \notin joins
    BY <1>2, <1>4
  <2>5. {s.addr : s \in list} = old \cup (asked \cup {addr})
    BY <1>2, <2>3
  <2>6. \A s \in list : /\ s.ref <=> s.addr \in asked \cup {addr}
                        /\ s.groups = {g \in Address : <<s.addr, g>> \in joins}
    BY <1>2, <1>4, <2>3, <2>4
  <2>7. Mark(a, addr).list = list /\ Mark(a, addr).current = addr
    <3> HIDE DEF list
    <3> QED BY <2>2
  <2> HIDE DEF list
  <2> QED BY <1>1, <1>2, <2>5, <2>6, <2>7 DEF Reflects
<1> QED
  BY <1>3, <1>4

\* An address that cannot be bound to changes nothing.
LEMMA MarkRefused ==
  ASSUME NEW a, NEW old, NEW asked, NEW joins, Reflects(a, old, asked, joins),
         NEW addr, addr \notin present
  PROVE  Reflects(Mark(a, addr), old, asked, joins) /\ Mark(a, addr).current = NoAddress
<1>1. a \in Marking
  BY DEF Reflects
<1>2. \A s \in a.list : s.addr # addr
  BY <1>1, MarkingIs
<1>3. Mark(a, addr) = [a EXCEPT !.current = NoAddress]
  BY <1>2 DEF Mark, CanBind
<1>4. Mark(a, addr).list = a.list /\ Mark(a, addr).current = NoAddress
  BY <1>1, <1>3, MarkingIs
<1>5. Mark(a, addr) \in Marking
  <2>1. Mark(a, addr) = [list |-> a.list, current |-> NoAddress]
    BY <1>1, <1>3, MarkingIs
  <2>2. a.list \subseteq Marked /\ OneEach(a.list)
    BY <1>1, MarkingIs
  <2> QED BY <2>1, <2>2 DEF Marking
<1> QED
  BY <1>4, <1>5 DEF Reflects

\* the interface that the first host of a LISTEN entry names
Interface(h) == IF h.type = "address" THEN h.key ELSE NoAddress

\* All addresses are those of IPv6, where there are, or else of IPv4.
LEMMA MarkAnyReflects ==
  ASSUME NEW a, NEW old, NEW asked, NEW joins, Reflects(a, old, asked, joins), "any4" \in present,
         NEW all, Apart(all), old \subseteq all, asked \subseteq all, SocketAddress(NoAddress) \in all
  PROVE  /\ Reflects(MarkAny(a), old, asked \cup {SocketAddress(NoAddress)}, joins)
         /\ MarkAny(a).current = SocketAddress(NoAddress)
         /\ SocketAddress(NoAddress) \in present
<1>1. "any6" \in Address \cup Wildcards /\ "any4" \in Address \cup Wildcards /\ "any6" # NoAddress
  BY ListenAssumption DEF Wildcards
<1>2. CASE "any6" \in present
  <2>1. SocketAddress(NoAddress) = "any6"
    BY <1>2 DEF SocketAddress
  <2>2. /\ Reflects(Mark(a, "any6"), old, asked \cup {"any6"}, joins)
        /\ Mark(a, "any6").current = "any6"
    BY <1>1, <1>2, <2>1, MarkReflects
  <2>3. MarkAny(a) = Mark(a, "any6")
    BY <1>1, <2>2 DEF MarkAny
  <2> QED BY <1>2, <2>1, <2>2, <2>3
<1>3. CASE "any6" \notin present
  <2>1. SocketAddress(NoAddress) = "any4"
    BY <1>3 DEF SocketAddress
  <2> DEFINE six == Mark(a, "any6")
  <2>2. Reflects(six, old, asked, joins) /\ six.current = NoAddress
    BY <1>3, MarkRefused
  <2>3. MarkAny(a) = Mark(six, "any4")
    BY <2>2 DEF MarkAny
  <2> HIDE DEF six
  <2>4. /\ Reflects(Mark(six, "any4"), old, asked \cup {"any4"}, joins)
        /\ Mark(six, "any4").current = "any4"
    BY <1>1, <2>1, <2>2, MarkReflects
  <2> QED BY <2>1, <2>3, <2>4
<1> QED
  BY <1>2, <1>3

\* The interface of an entry is marked, where it can be bound to.
LEMMA ListenerReflects ==
  ASSUME NEW a, NEW old, NEW asked, NEW joins, Reflects(a, old, asked, joins), "any4" \in present,
         NEW h \in Host, NEW all, Apart(all), old \subseteq all, asked \subseteq all,
         {SocketAddress(Interface(h))} \cap present \subseteq all
  PROVE  LET b == SocketAddress(Interface(h))
         IN /\ Reflects(UpdateListener(a, h), old, asked \cup ({b} \cap present), joins)
            /\ UpdateListener(a, h).current = IF b \in present THEN b ELSE NoAddress
<1> DEFINE b == SocketAddress(Interface(h))
<1>1. CASE h.type = "address"
  <2>1. h.key \in Address /\ b = h.key
    <3>1. h.key \in Address
      BY <1>1 DEF Host
    <3> QED BY <1>1, <3>1, AccessAssumption DEF Interface, SocketAddress
  <2>2. UpdateListener(a, h) = Mark(a, b)
    BY <1>1, <2>1 DEF UpdateListener
  <2> HIDE DEF b
  <2>3. CASE b \in present
    <3>1. Reflects(Mark(a, b), old, asked \cup {b}, joins) /\ Mark(a, b).current = b
      BY <2>1, <2>3, MarkReflects DEF b
    <3>2. {b} \cap present = {b}
      BY <2>3
    <3> QED BY <2>2, <2>3, <3>1, <3>2 DEF b
  <2>4. CASE b \notin present
    <3>1. Reflects(Mark(a, b), old, asked, joins) /\ Mark(a, b).current = NoAddress
      BY <2>4, MarkRefused
    <3>2. asked \cup ({b} \cap present) = asked
      BY <2>4
    <3> QED BY <2>2, <2>4, <3>1, <3>2 DEF b
  <2> QED BY <2>3, <2>4
<1>2. CASE h.type # "address"
  <2>1. UpdateListener(a, h) = MarkAny(a) /\ b = SocketAddress(NoAddress)
    BY <1>2 DEF UpdateListener, Interface
  <2>2. b \in present
    BY <2>1 DEF SocketAddress
  <2>3. {b} \cap present = {b} /\ b \in all
    BY <2>2
  <2> HIDE DEF b
  <2>4. Reflects(MarkAny(a), old, asked \cup {b}, joins) /\ MarkAny(a).current = b
    BY <2>1, <2>3, MarkAnyReflects
  <2> QED BY <2>1, <2>2, <2>3, <2>4 DEF b
<1> QED
  BY <1>1, <1>2

\* A group is joined by the socket of the entry, where it has one.
LEMMA GroupReflects ==
  ASSUME NEW a, NEW old, NEW asked, NEW joins, Reflects(a, old, asked, joins),
         NEW b, {b} \cap present \subseteq asked, a.current = IF b \in present THEN b ELSE NoAddress,
         NEW group \in Address
  PROVE  /\ Reflects(UpdateMcastGroup(a, group), old, asked,
                     joins \cup (({b} \cap present) \X {group}))
         /\ UpdateMcastGroup(a, group).current = a.current
<1> DEFINE new(s) == IF s.addr = a.current THEN [s EXCEPT !.groups = @ \cup {group}] ELSE s
           list == {new(s) : s \in a.list}
           pairs == ({b} \cap present) \X {group}
<1>1. a \in Marking /\ UpdateMcastGroup(a, group) \in Marking
  BY UpdateMcastGroupTyped DEF Reflects
<1>2. /\ {s.addr : s \in a.list} = old \cup asked
      /\ \A s \in a.list : /\ s.ref <=> s.addr \in asked
                           /\ s.groups = {g \in Address : <<s.addr, g>> \in joins}
      /\ \A x, g : <<x, g>> \in joins => x \in asked
  BY DEF Reflects
<1>3. UpdateMcastGroup(a, group).list = list /\ UpdateMcastGroup(a, group).current = a.current
  <2>1. UpdateMcastGroup(a, group) = [a EXCEPT !.list = list]
    BY DEF UpdateMcastGroup
  <2> HIDE DEF list
  <2>2. UpdateMcastGroup(a, group) = [list |-> list, current |-> a.current]
    BY <1>1, <2>1, MarkingIs
  <2> QED BY <2>2
<1>4. \A s \in a.list : s.addr = a.current <=> s.addr = b /\ b \in present
  BY <1>1, MarkingIs
<1>5. \A x, g : <<x, g>> \in pairs <=> x = b /\ b \in present /\ g = group
  OBVIOUS
<1>6. ASSUME NEW s \in a.list
      PROVE  /\ new(s).addr = s.addr
             /\ new(s).ref <=> s.addr \in asked
             /\ new(s).groups = {g \in Address : <<s.addr, g>> \in joins \cup pairs}
  <2> HIDE DEF pairs
  <2>1. CASE s.addr = a.current
    <3>1. s \in Marked
      BY <1>1, MarkingIs
    <3>2. new(s).addr = s.addr /\ new(s).groups = s.groups \cup {group} /\ new(s).ref = s.ref
      BY <2>1, <3>1 DEF Marked
    <3>3. s.groups \cup {group} = {g \in Address : <<s.addr, g>> \in joins \cup pairs}
      BY <1>2, <1>4, <1>5, <2>1
    <3> HIDE DEF new
    <3> QED BY <1>2, <3>2, <3>3
  <2>2. CASE s.addr # a.current
    <3>1. new(s) = s
      BY <2>2
    <3>2. s.groups = {g \in Address : <<s.addr, g>> \in joins \cup pairs}
      BY <1>2, <1>4, <1>5, <2>2
    <3> HIDE DEF new
    <3> QED BY <1>2, <3>1, <3>2
  <2> QED BY <2>1, <2>2
<1>7. \A x, g : <<x, g>> \in joins \cup pairs => x \in asked
  <2> HIDE DEF pairs
  <2> QED BY <1>2, <1>5
<1> HIDE DEF new
<1>8. {s.addr : s \in list} = old \cup asked
  BY <1>2, <1>6
<1>9. \A s \in list : /\ s.ref <=> s.addr \in asked
                      /\ s.groups = {g \in Address : <<s.addr, g>> \in joins \cup pairs}
  <2> HIDE DEF pairs
  <2> QED BY <1>6
<1>10. Reflects(UpdateMcastGroup(a, group), old, asked, joins \cup pairs)
  <2> HIDE DEF list, pairs
  <2> QED BY <1>1, <1>3, <1>7, <1>8, <1>9 DEF Reflects
<1> QED
  BY <1>3, <1>10

-----------------------------------------------------------------------------
(* The lines.                                                              *)

\* a LISTEN line whose words resolve
Listens(line) ==
  /\ line \in Seq(Word) /\ line # <<>> /\ ListenLine(line)
  /\ \A w \in Words(line) : HostType(w) # "unknown"
  /\ \A j \in 2 .. Len(line) : Resolve[line[j].text] # NoAddress \/ (j = 2 /\ line[j].text = "*")

\* the address it asks for a socket on, and the groups that the socket joins
Asks(line) ==
  IF Len(line) > 1 THEN {SocketAddress(Resolve[line[2].text])} \cap present ELSE {}
Joins(line, k) == Asks(line) \X {Resolve[line[j].text] : j \in 3 .. k}

\* Each further word of such a line is a host of its entry, all but the first of them addresses.
LEMMA ListenWords ==
  ASSUME NEW line, Listens(line), NEW j \in 2 .. Len(line)
  PROVE  /\ IsHost(line[j], "listen") /\ HostOf(line[j]) \in Host
         /\ Interface(HostOf(line[j])) = Resolve[line[j].text]
         /\ j > 2 => /\ HostOf(line[j]).type = "address" /\ Resolve[line[j].text] \in Address
                     /\ HostOf(line[j]).key = Resolve[line[j].text]
<1> DEFINE w == line[j]
<1>1. w \in Word /\ HostType(w) # "unknown"
  BY DEF Listens, Words
<1>2. ~w.not /\ w.text \in Text
  BY <1>1, HostTypes DEF Word
<1>3. CASE Resolve[w.text] # NoAddress
  <2>1. w.text \notin Keywords \cup Alias
    BY <1>3, AccessAssumption
  <2>2. HostType(w) = "address"
    BY <1>2, <1>3, <2>1, Zenon DEF HostType, Keywords
  <2>3. Resolve[w.text] \in Address
    BY <1>2, <1>3, AccessAssumption
  <2>4. IsHost(w, "listen") /\ HostOf(w) = [type |-> "address", key |-> Resolve[w.text]]
    BY <2>2 DEF IsHost, HostOf, Key
  <2> HIDE DEF w
  <2> QED BY <1>1, <2>3, <2>4, HostOfTyped DEF Interface, w
<1>4. CASE Resolve[w.text] = NoAddress
  <2>1. j = 2 /\ w.text = "*"
    BY <1>4 DEF Listens
  <2>2. "*" \notin Alias
    BY AccessAssumption DEF Keywords
  <2>3. HostType(w) = "any"
    BY <1>2, <1>4, <2>1, <2>2 DEF HostType
  <2>4. IsHost(w, "listen") /\ HostOf(w) = [type |-> "any", key |-> w.text]
    BY <2>3 DEF IsHost, HostOf, Key
  <2>5. HostOf(w).type # "address"
    <3> HIDE DEF w
    <3> QED BY <2>4
  <2>6. Interface(HostOf(w)) = NoAddress
    BY <2>5 DEF Interface
  <2> QED BY <1>1, <1>4, <2>1, <2>4, <2>6, HostOfTyped
<1> QED
  BY <1>3, <1>4

\* A LISTEN entry asks for what its line says.
LEMMA EntryReflects ==
  ASSUME NEW a, NEW old, NEW asked, NEW joins, Reflects(a, old, asked, joins), "any4" \in present,
         NEW line, Listens(line), NEW d, EntryIs(d, line, Len(line)),
         NEW all, Apart(all), old \subseteq all, asked \subseteq all, Asks(line) \subseteq all
  PROVE  Reflects(ListenEntry(a, d), old, asked \cup Asks(line), joins \cup Joins(line, Len(line)))
<1> DEFINE n == Len(d.hosts)
           b == SocketAddress(Resolve[line[2].text])
<1>1. Len(line) \in Nat /\ Len(line) > 0
  BY EmptySeq DEF Listens
<1>2. n = Len(line) - 1 /\ \A j \in 2 .. Len(line) : d.hosts[j - 1] = HostOf(line[j])
  <2>1. d.type = "listen"
    BY DEF EntryIs, Listens, ListenLine
  <2>2. \A j \in 2 .. Len(line) : IsHost(line[j], d.type)
    BY <2>1, ListenWords
  <2> QED BY <2>2 DEF EntryIs
<1>3. \A i \in 1 .. n : i + 1 \in 2 .. Len(line) /\ d.hosts[i] = HostOf(line[i + 1])
  <2> TAKE i \in 1 .. n
  <2>1. i + 1 \in 2 .. Len(line) /\ (i + 1) - 1 = i
    BY <1>1, <1>2
  <2>2. d.hosts[(i + 1) - 1] = HostOf(line[i + 1])
    BY <1>2, <2>1
  <2> QED BY <2>1, <2>2
<1>4. n \in Nat
  BY <1>1, <1>2
<1>5. PICK listen : EntryListening(a, d, listen) /\ ListenEntry(a, d) = listen[n]
  BY <1>4, ListenEntryListens
<1>6. listen[0] = a /\ \A i \in 1 .. n : listen[i] = ListenHost(listen[i - 1], d.hosts[i], i)
  <2>1. 0 \in 0 .. n /\ \A i \in 1 .. n : i \in 0 .. n /\ i # 0
    BY <1>4
  <2> HIDE DEF n
  <2> QED BY <1>5, <2>1 DEF EntryListening, n
<1>7. CASE n = 0
  <2>1. Len(line) = 1
    <3>1. Len(line) - 1 = 0
      BY <1>2, <1>7
    <3> QED BY <1>1, <3>1
  <2>2. Asks(line) = {} /\ Joins(line, Len(line)) = {}
    BY <2>1 DEF Asks, Joins
  <2>3. asked \cup Asks(line) = asked /\ joins \cup Joins(line, Len(line)) = joins
    BY <2>2
  <2> QED BY <1>5, <1>6, <1>7, <2>3
<1>8. CASE n > 0
  <2>1. Asks(line) = {b} \cap present
    BY <1>1, <1>2, <1>8 DEF Asks
  <2> DEFINE more == asked \cup Asks(line)
             Done(i) == /\ Reflects(listen[i], old, more, joins \cup Joins(line, i + 1))
                        /\ listen[i].current = IF b \in present THEN b ELSE NoAddress
             S == {i \in 0 .. n : i # 0 => Done(i)}
  <2>2. 0 \in S
    BY <1>4
  <2>3. ASSUME NEW i \in 1 .. n, i - 1 \in S PROVE i \in S
    <3>1. i \in 0 .. n /\ i + 1 \in 2 .. Len(line) /\ d.hosts[i] = HostOf(line[i + 1])
      BY <1>3, <1>4
    <3> DEFINE h == HostOf(line[i + 1])
    <3>2. listen[i] = ListenHost(listen[i - 1], h, i)
      BY <1>6, <3>1
    <3>3. h \in Host /\ Interface(h) = Resolve[line[i + 1].text]
      BY <3>1, ListenWords
    <3>4. CASE i = 1
      <4>1. listen[1] = UpdateListener(a, h)
        BY <1>6, <3>2, <3>4 DEF ListenHost
      <4>2. b = SocketAddress(Interface(h)) /\ {SocketAddress(Interface(h))} \cap present \subseteq all
        BY <2>1, <3>3, <3>4
      <4>3. joins \cup Joins(line, 1 + 1) = joins
        BY DEF Joins
      <4> HIDE DEF h, b
      <4>4. /\ Reflects(UpdateListener(a, h), old, asked \cup ({b} \cap present), joins)
            /\ UpdateListener(a, h).current = IF b \in present THEN b ELSE NoAddress
        BY <3>3, <4>2, ListenerReflects
      <4>5. Done(1)
        BY <2>1, <4>1, <4>3, <4>4
      <4> QED BY <3>1, <3>4, <4>5
    <3>5. CASE i # 1
      <4>1. i - 1 \in 0 .. n /\ i - 1 # 0 /\ (i - 1) + 1 = i /\ i + 1 > 2
        BY <3>1, <3>5
      <4>2. Done(i - 1)
        BY <2>3, <4>1
      <4> DEFINE x == listen[i - 1]
                 g == Resolve[line[i + 1].text]
      <4>3. Reflects(x, old, more, joins \cup Joins(line, i))
        BY <4>1, <4>2
      <4>4. x.current = IF b \in present THEN b ELSE NoAddress
        BY <4>2
      <4>5. g \in Address /\ h.type = "address" /\ h.key = g
        BY <3>1, <4>1, ListenWords
      <4>6. listen[i] = UpdateMcastGroup(x, g)
        BY <3>2, <3>5, <4>5 DEF ListenHost
      <4>7. {b} \cap present \subseteq more
        BY <2>1
      <4>8. (joins \cup Joins(line, i)) \cup (({b} \cap present) \X {g}) = joins \cup Joins(line, i + 1)
        <5>1. 3 .. i + 1 = (3 .. i) \cup {i + 1}
          BY <4>1
        <5>2. {Resolve[line[j].text] : j \in 3 .. i + 1} = {Resolve[line[j].text] : j \in 3 .. i} \cup {g}
          BY <5>1
        <5> DEFINE G == {Resolve[line[j].text] : j \in 3 .. i}
        <5>3. Joins(line, i) = Asks(line) \X G /\ Joins(line, i + 1) = Asks(line) \X (G \cup {g})
          BY <5>2 DEF Joins
        <5> HIDE DEF g, G, b
        <5> QED BY <2>1, <5>3
      <4> HIDE DEF g, h, b, x, more
      <4>9. /\ Reflects(UpdateMcastGroup(x, g), old, more,
                        (joins \cup Joins(line, i)) \cup (({b} \cap present) \X {g}))
            /\ UpdateMcastGroup(x, g).current = x.current
        BY <4>3, <4>4, <4>5, <4>7, GroupReflects
      <4>10. Done(i)
        BY <4>4, <4>6, <4>8, <4>9
      <4> QED BY <3>1, <4>10
    <3> QED BY <3>4, <3>5
  <2>4. 0 .. n \subseteq S
    <3> HIDE DEF S, n
    <3> QED BY <1>4, <2>2, <2>3, InductionUpTo
  <2>5. Done(n)
    <3>1. n \in 0 .. n /\ n # 0
      BY <1>4, <1>8
    <3> HIDE DEF Done
    <3> QED BY <2>4, <3>1
  <2>6. n + 1 = Len(line)
    BY <1>1, <1>2
  <2> QED BY <1>5, <2>5, <2>6
<1> QED
  BY <1>4, <1>7, <1>8
-----------------------------------------------------------------------------
(* The file.                                                               *)

\* what the LISTEN lines up to line m ask for
ListenNumbers(m) == {i \in 1 .. m : ListenLine(file[i])}
AskedTo(m) == UNION {Asks(file[i]) : i \in ListenNumbers(m)}
JoinedTo(m) == UNION {Joins(file[i], Len(file[i])) : i \in ListenNumbers(m)}

\* The entries of a file whose names resolve are those of its lines, LISTEN lines included.
LEMMA ListenRead ==
  ASSUME SocketsInv, Resolvable, ListenSyntax, NEW db, db = ReadAccessDatabase(file)
  PROVE  /\ db \in Database /\ Len(db) = Len(file) /\ Len(file) \in Nat
         /\ DOMAIN file = 1 .. Len(file) /\ DOMAIN db = 1 .. Len(file)
         /\ \A i \in 1 .. Len(file) : /\ EntryIs(db[i], file[i], Len(file[i]))
                                      /\ db[i].type = "listen" <=> ListenLine(file[i])
                                      /\ ListenLine(file[i]) => Listens(file[i])
<1>1. /\ file \in Seq(Seq(Word)) /\ db \in Database
      /\ \A i \in DOMAIN file : file[i] # <<>>
  BY FilesRead DEF SocketsInv, TypeOK
<1>2. DOMAIN file = 1 .. Len(file) /\ Len(file) \in Nat /\ \A i \in DOMAIN file : file[i] \in Seq(Word)
  BY <1>1
<1>3. \A i \in DOMAIN file : ResolvableLine(file[i])
  BY DEF Resolvable, ResolvableLine, ToSet
<1>4. \A i \in DOMAIN file : Readable(file[i])
  BY <1>1, <1>2, <1>3 DEF Readable, ResolvableLine
<1>5. Len(db) = Len(file) /\ \A i \in DOMAIN file : EntryIs(db[i], file[i], Len(file[i]))
  BY <1>1, <1>4, FileEntries
<1>6. DOMAIN db = 1 .. Len(file)
  <2>1. db \in Seq(Entry)
    BY <1>1, DatabaseIs
  <2> QED BY <1>5, <2>1
<1>7. \A i \in DOMAIN file : db[i].type = "listen" <=> ListenLine(file[i])
  BY <1>5 DEF EntryIs, ListenLine
<1>8. ASSUME NEW i \in DOMAIN file, ListenLine(file[i]) PROVE Listens(file[i])
  <2>1. file[i] \in ToSet(file)
    BY DEF ToSet
  <2> QED BY <1>1, <1>2, <1>3, <1>8, <2>1 DEF Listens, ListenSyntax, ResolvableLine
<1> QED
  BY <1>1, <1>2, <1>5, <1>6, <1>7, <1>8

\* The marking of a whole file asks for what its lines do.
LEMMA FileReflects ==
  ASSUME SocketsInv, Resolvable, ListenSyntax, NEW db, db = ReadAccessDatabase(file),
         ~NoListenLine, NEW a, NEW old, Reflects(a, old, {}, {}),
         NEW all, Apart(all), old \subseteq all, AskedTo(Len(file)) \subseteq all
  PROVE  Reflects(ForEachListenAddr(a, db), old, AskedTo(Len(file)), JoinedTo(Len(file)))
<1> DEFINE n == Len(file)
<1>1. /\ db \in Database /\ Len(db) = n /\ n \in Nat
      /\ DOMAIN file = 1 .. n /\ DOMAIN db = 1 .. n
  BY ListenRead
<1>2. \A i \in 1 .. n : /\ EntryIs(db[i], file[i], Len(file[i]))
                        /\ db[i].type = "listen" <=> ListenLine(file[i])
                        /\ ListenLine(file[i]) => Listens(file[i])
  BY ListenRead
<1>3. \E i \in DOMAIN db : db[i].type = "listen"
  BY <1>1, <1>2 DEF NoListenLine, ToSet
<1>4. PICK listen : DatabaseListening(a, db, listen) /\ ForEachListenAddr(a, db) = listen[n]
  BY <1>1, <1>3, ForEachListenAddrListens
<1>5. /\ listen[0] = a
      /\ \A i \in 1 .. n : listen[i] = IF db[i].type = "listen" THEN ListenEntry(listen[i - 1], db[i])
                                       ELSE listen[i - 1]
  BY <1>1, <1>4 DEF DatabaseListening
<1> DEFINE Done(m) == Reflects(listen[m], old, AskedTo(m), JoinedTo(m))
           S == {m \in 0 .. n : Done(m)}
<1>6. 0 \in S
  <2>1. AskedTo(0) = {} /\ JoinedTo(0) = {}
    BY DEF AskedTo, JoinedTo, ListenNumbers
  <2>2. Done(0)
    BY <1>5, <2>1
  <2> HIDE DEF Done
  <2> QED BY <1>1, <2>2
<1>7. ASSUME NEW m \in 1 .. n, m - 1 \in S PROVE m \in S
  <2>1. Done(m - 1) /\ m \in 0 .. n /\ m - 1 \in 0 .. n
    BY <1>1, <1>7
  <2>2. \A i : i \in 1 .. m <=> i \in 1 .. m - 1 \/ i = m
    BY <2>1
  <2>3. CASE ListenLine(file[m])
    <3> DEFINE line == file[m]
    <3>1. AskedTo(m) = AskedTo(m - 1) \cup Asks(line)
      BY <2>2, <2>3 DEF AskedTo, ListenNumbers
    <3>2. JoinedTo(m) = JoinedTo(m - 1) \cup Joins(line, Len(line))
      BY <2>2, <2>3 DEF JoinedTo, ListenNumbers
    <3>3. AskedTo(m) \subseteq AskedTo(n)
      BY <1>1, <2>1 DEF AskedTo, ListenNumbers
    <3>4. listen[m] = ListenEntry(listen[m - 1], db[m])
      BY <1>2, <1>5, <2>3
    <3>5. Listens(line) /\ EntryIs(db[m], line, Len(line))
      BY <1>2, <2>3
    <3>6. Asks(line) \subseteq all /\ AskedTo(m - 1) \subseteq all
      BY <3>1, <3>3
    <3>7. Reflects(ListenEntry(listen[m - 1], db[m]), old, AskedTo(m - 1) \cup Asks(line),
                   JoinedTo(m - 1) \cup Joins(line, Len(line)))
      <4>1. "any4" \in present
        BY DEF SocketsInv
      <4> HIDE DEF line
      <4> QED BY <2>1, <3>5, <3>6, <4>1, EntryReflects
    <3>8. Done(m)
      BY <3>1, <3>2, <3>4, <3>7
    <3> HIDE DEF Done
    <3> QED BY <2>1, <3>8
  <2>4. CASE ~ListenLine(file[m])
    <3>1. AskedTo(m) = AskedTo(m - 1) /\ JoinedTo(m) = JoinedTo(m - 1)
      BY <2>2, <2>4 DEF AskedTo, JoinedTo, ListenNumbers
    <3>2. listen[m] = listen[m - 1]
      BY <1>2, <1>5, <2>4
    <3>3. Done(m)
      BY <2>1, <3>1, <3>2
    <3> HIDE DEF Done
    <3> QED BY <2>1, <3>3
  <2> QED BY <2>3, <2>4
<1>8. 0 .. n \subseteq S
  <2> HIDE DEF S, n
  <2> QED BY <1>1, <1>6, <1>7, InductionUpTo
<1>9. Done(n)
  <2>1. n \in 0 .. n
    BY <1>1
  <2> HIDE DEF Done
  <2> QED BY <1>8, <2>1
<1> QED
  BY <1>4, <1>9

\* What is not marked is closed.
LEMMA Swept ==
  ASSUME NEW a, NEW old, NEW asked, NEW joins, Reflects(a, old, asked, joins)
  PROVE  {[addr |-> s.addr, groups |-> s.groups] : s \in {t \in a.list : t.ref}}
           = {[addr |-> x, groups |-> {g \in Address : <<x, g>> \in joins}] : x \in asked}
<1> DEFINE open(s) == [addr |-> s.addr, groups |-> s.groups]
           wanted(x) == [addr |-> x, groups |-> {g \in Address : <<x, g>> \in joins}]
<1>1. \A s \in a.list : s.ref <=> s.addr \in asked
  BY DEF Reflects
<1>2. \A s \in a.list : open(s) = wanted(s.addr)
  BY DEF Reflects
<1>3. \A x \in asked : \E s \in a.list : s.addr = x
  BY DEF Reflects
<1> HIDE DEF open, wanted
<1>4. {open(s) : s \in {t \in a.list : t.ref}} = {wanted(x) : x \in asked}
  BY <1>1, <1>2, <1>3
<1> QED
  BY <1>4 DEF open, wanted

\* Different interfaces have different sockets.
LEMMA SocketAddresses ==
  ASSUME NEW i \in Address \cup {NoAddress}, NEW j \in Address \cup {NoAddress},
         SocketAddress(i) = SocketAddress(j)
  PROVE  i = j
<1>1. "any6" \notin Address /\ "any4" \notin Address
  BY ListenAssumption DEF Wildcards
<1> QED
  BY <1>1 DEF SocketAddress

\* The sockets that the lines ask for, each with its groups, are those that are wanted.
LEMMA AskedAreWanted ==
  ASSUME SocketsInv, Resolvable, ListenSyntax, ~NoListenLine
  PROVE  LET asked == AskedTo(Len(file))
             joins == JoinedTo(Len(file))
         IN {[addr |-> x, groups |-> {g \in Address : <<x, g>> \in joins}] : x \in asked} = WantedSockets
<1> DEFINE n == Len(file)
           asked == AskedTo(n)
           joins == JoinedTo(n)
           of(x) == [addr |-> x, groups |-> {g \in Address : <<x, g>> \in joins}]
           bound == {j \in Interfaces : SocketAddress(j) \in present}
           wanted(i) == [addr |-> SocketAddress(i), groups |-> Groups(i)]
           interface(k) == Resolve[file[k][2].text]
           Named == {k \in ListenNumbers(n) : Len(file[k]) > 1}
<1>1. \A k \in ListenNumbers(n) : Listens(file[k])
  BY ListenRead DEF ListenNumbers
<1>2. {l \in ToSet(file) : ListenLine(l) /\ Len(l) > 1} = {file[k] : k \in Named}
  <2>1. DOMAIN file = 1 .. n
    BY ListenRead
  <2> QED BY <2>1 DEF ToSet, ListenNumbers
<1>3. \A k \in Named : interface(k) \in Address \cup {NoAddress}
  <2> TAKE k \in Named
  <2>1. file[k][2] \in Word
    BY <1>1 DEF Listens
  <2> QED BY <2>1, AccessAssumption DEF Word
<1>4. \A i : i \in Interfaces <=> \E k \in Named : i = interface(k)
  <2>1. Interfaces = {Resolve[line[2].text] : line \in {file[k] : k \in Named}}
    BY <1>2 DEF Interfaces
  <2> HIDE DEF Named
  <2> QED BY <2>1
<1>5. \A x : x \in asked <=> \E k \in Named : x = SocketAddress(interface(k)) /\ x \in present
  BY DEF AskedTo, Asks
<1>6. ASSUME NEW i \in bound
      PROVE  Groups(i) = {g \in Address : <<SocketAddress(i), g>> \in joins}
  <2>1. i \in Address \cup {NoAddress} /\ SocketAddress(i) \in present
    BY <1>3, <1>4
  <2> DEFINE words(k) == {Resolve[file[k][j].text] : j \in 3 .. Len(file[k])}
  <2>2. \A k \in Named : words(k) \subseteq Address
    <3> TAKE k \in Named
    <3>1. \A j \in 3 .. Len(file[k]) : j \in 2 .. Len(file[k]) /\ j > 2
      OBVIOUS
    <3> QED BY <1>1, <3>1, ListenWords
  <2>3. \A g : g \in Groups(i) <=> \E k \in Named : interface(k) = i /\ g \in words(k)
    <3> DEFINE L == {l \in ToSet(file) : ListenLine(l) /\ Len(l) > 1 /\ Resolve[l[2].text] = i}
    <3>1. \A l : l \in L <=> \E k \in Named : l = file[k] /\ interface(k) = i
      BY <1>2
    <3>2. Groups(i) = UNION {{Resolve[line[j].text] : j \in 3 .. Len(line)} : line \in L}
      BY DEF Groups
    <3> HIDE DEF L, Named
    <3> QED BY <3>1, <3>2
  <2>4. \A g : <<SocketAddress(i), g>> \in joins
                 <=> \E k \in Named : SocketAddress(interface(k)) = SocketAddress(i) /\ g \in words(k)
    <3>1. \A k \in ListenNumbers(n) : \A x, g :
            <<x, g>> \in Joins(file[k], Len(file[k]))
              <=> k \in Named /\ x = SocketAddress(interface(k)) /\ x \in present /\ g \in words(k)
      BY DEF Joins, Asks
    <3> HIDE DEF words, interface
    <3> QED BY <2>1, <3>1 DEF JoinedTo
  <2>5. \A k \in Named : SocketAddress(interface(k)) = SocketAddress(i) <=> interface(k) = i
    <3> HIDE DEF Named, interface
    <3> QED BY <1>3, <2>1, SocketAddresses
  <2> HIDE DEF Named, interface, words, joins
  <2> QED BY <2>2, <2>3, <2>4, <2>5
<1>7. \A i \in bound : wanted(i) = of(SocketAddress(i))
  BY <1>6
<1>8. asked = {SocketAddress(i) : i \in bound}
  <2> HIDE DEF asked, Named, interface
  <2> QED BY <1>4, <1>5
<1>9. {of(x) : x \in asked} = {wanted(i) : i \in bound}
  <2> HIDE DEF asked, of, wanted, bound
  <2> QED BY <1>7, <1>8
<1>10. WantedSockets = {wanted(i) : i \in bound}
  BY DEF WantedSockets
<1> QED
  BY <1>9, <1>10
\* A rescan of a file whose names resolve opens and closes the sockets to what is wanted.
LEMMA SocketsListed ==
  ASSUME SocketsInv, Resolvable, ListenSyntax, NoOverlap, NEW db, db = ReadAccessDatabase(file)
  PROVE  UpdateListenSockets(sockets, db) = WantedSockets
<1> DEFINE unmarked(s) == [addr |-> s.addr, groups |-> {}, ref |-> FALSE]
           list == {unmarked(s) : s \in sockets}
           cleared == [list |-> list, current |-> NoAddress]
           old == {s.addr : s \in sockets}
           all == {s.addr : s \in sockets \cup WantedSockets}
<1>1. Reflects(cleared, old, {}, {})
  <2>1. \A s \in sockets : unmarked(s) \in Marked
    BY DEF SocketsInv, TypeOK, Socket, Bound, Marked
  <2>2. \A s \in sockets : /\ unmarked(s).addr = s.addr /\ unmarked(s).groups = {}
                           /\ ~unmarked(s).ref
    OBVIOUS
  <2> HIDE DEF unmarked
  <2>3. list \subseteq Marked /\ OneEach(list)
    BY <2>1, <2>2 DEF OneEach, SocketsInv, TypeOK
  <2>4. {s.addr : s \in list} = old
    BY <2>2
  <2>5. \A s \in list : ~s.ref /\ s.groups = {}
    BY <2>2
  <2> HIDE DEF list, old
  <2>6. cleared \in Marking /\ cleared.list = list
    BY <2>3 DEF Marking
  <2> HIDE DEF cleared
  <2> QED BY <2>4, <2>5, <2>6 DEF Reflects
<1>2. Apart(all) /\ old \subseteq all /\ \A s \in WantedSockets : s.addr \in all
  BY DEF NoOverlap, Apart
<1>3. UpdateListenSockets(sockets, db)
        = {[addr |-> s.addr, groups |-> s.groups] :
             s \in {t \in ForEachListenAddr(cleared, db).list : t.ref}}
  BY DEF UpdateListenSockets
<1> HIDE DEF cleared, old, all
<1>4. CASE ~NoListenLine
  <2>1. AskedTo(Len(file)) \subseteq all
    <3> DEFINE asked == AskedTo(Len(file))
               of(x) == [addr |-> x, groups |-> {g \in Address : <<x, g>> \in JoinedTo(Len(file))}]
    <3>1. {of(x) : x \in asked} = WantedSockets
      BY <1>4, AskedAreWanted
    <3>2. \A x : of(x).addr = x
      OBVIOUS
    <3> HIDE DEF of, asked
    <3>3. asked \subseteq all
      BY <1>2, <3>1, <3>2
    <3> QED BY <3>3 DEF asked
  <2>2. Reflects(ForEachListenAddr(cleared, db), old, AskedTo(Len(file)), JoinedTo(Len(file)))
    BY <1>1, <1>2, <1>4, <2>1, FileReflects
  <2> QED BY <1>3, <1>4, <2>2, Swept, AskedAreWanted
<1>5. CASE NoListenLine
  <2> DEFINE b == SocketAddress(NoAddress)
  <2>1. WantedSockets = {[addr |-> b, groups |-> {DefaultGroup}]}
    BY <1>5 DEF WantedSockets
  <2>2. b \in all
    <3> HIDE DEF b
    <3> QED BY <1>2, <2>1
  <2>3. /\ db \in Database /\ Len(db) \in Nat
        /\ ~(\E i \in DOMAIN db : db[i].type = "listen")
    <3>1. /\ db \in Database /\ Len(db) \in Nat /\ DOMAIN db = DOMAIN file
          /\ \A i \in DOMAIN file : db[i].type = "listen" <=> ListenLine(file[i])
      BY ListenRead
    <3> QED BY <1>5, <3>1 DEF NoListenLine, ToSet
  <2>4. ForEachListenAddr(cleared, db) = UpdateMcastGroup(MarkAny(cleared), DefaultGroup)
    BY <2>3, ForEachListenAddrListens
  <2>5. DefaultGroup \in Address /\ "any4" \in present
    BY ListenAssumption DEF SocketsInv
  <2>6. /\ Reflects(MarkAny(cleared), old, {} \cup {b}, {})
        /\ MarkAny(cleared).current = b /\ b \in present
    BY <1>1, <1>2, <2>2, <2>5, MarkAnyReflects
  <2> HIDE DEF b
  <2>7. {b} \cap present = {b} /\ {} \cup {b} = {b} /\ {} \cup ({b} \X {DefaultGroup}) = {<<b, DefaultGroup>>}
    BY <2>6
  <2>8. Reflects(UpdateMcastGroup(MarkAny(cleared), DefaultGroup), old, {b},
                 {} \cup (({b} \cap present) \X {DefaultGroup}))
    BY <2>5, <2>6, <2>7, GroupReflects
  <2>9. UpdateListenSockets(sockets, db)
          = {[addr |-> x, groups |-> {g \in Address : <<x, g>> \in {<<b, DefaultGroup>>}}] : x \in {b}}
    <3> DEFINE marked == UpdateMcastGroup(MarkAny(cleared), DefaultGroup)
               joined == {<<b, DefaultGroup>>}
    <3>1. Reflects(marked, old, {b}, joined)
      BY <2>7, <2>8
    <3>2. UpdateListenSockets(sockets, db)
            = {[addr |-> s.addr, groups |-> s.groups] : s \in {t \in marked.list : t.ref}}
      BY <1>3, <2>4
    <3> HIDE DEF marked, joined
    <3>3. UpdateListenSockets(sockets, db)
            = {[addr |-> x, groups |-> {g \in Address : <<x, g>> \in joined}] : x \in {b}}
      BY <3>1, <3>2, Swept
    <3> QED BY <3>3 DEF joined
  <2>10. {g \in Address : <<b, g>> \in {<<b, DefaultGroup>>}} = {DefaultGroup}
    BY <2>5
  <2>11. {[addr |-> x, groups |-> {g \in Address : <<x, g>> \in {<<b, DefaultGroup>>}}] : x \in {b}}
           = {[addr |-> b, groups |-> {g \in Address : <<b, g>> \in {<<b, DefaultGroup>>}}]}
    OBVIOUS
  <2> QED BY <2>1, <2>9, <2>10, <2>11
<1> QED
  BY <1>4, <1>5

\* After every rescan the sockets that are open are those that the file lists, each in its
\* groups and no others, whatever was open and joined before, as long as the names resolve and no
\* address takes the port of another.
THEOREM SocketsAsFile == Spec => ListensAsFile
<1>1. SocketsInv /\ [Next]_vars
        => [Rescan /\ Resolvable /\ ListenSyntax /\ NoOverlap => sockets' = WantedSockets]_vars
  <2> SUFFICES ASSUME SocketsInv, Rescan, Resolvable, ListenSyntax, NoOverlap
               PROVE  sockets' = WantedSockets
    OBVIOUS
  <2>1. database' = ReadAccessDatabase(file) /\ sockets' = UpdateListenSockets(sockets, database')
    BY DEF Rescan
  <2> QED BY <2>1, SocketsListed
<1> QED
  BY <1>1, SocketsStayBound, PTL DEF Spec, ListensAsFile
=============================================================================
