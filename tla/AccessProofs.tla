---------------------------- MODULE AccessProofs ----------------------------
(***************************************************************************)
(* What the operators of module Access compute, for every access file: the *)
(* types of the database, its entries against the lines of the file, and   *)
(* the hosts that an alias leads to.                                       *)
(*                                                                         *)
(* The file and the lists of hosts are read by recursive functions.  That  *)
(* such a function has its values is shown by induction over its domain,   *)
(* from the least element that the library has for sets of numbers.        *)
(***************************************************************************)
EXTENDS Access, TLAPS, WellFoundedInduction, SequenceTheorems

Below == {ss \in Nat \X Nat : ss[1] < ss[2]}

\* Every set of numbers that is not empty has a least one.
LEMMA LeastNumber ==
  ASSUME NEW T, T \subseteq Nat, T # {}
  PROVE  \E x \in T : \A y \in T : x <= y
<1>1. IsWellFoundedOn(Below, Nat)
  BY NatLessThanWellFounded DEF OpToRel, Below
<1>2. PICK x \in T : \A y \in T : ~ (<<y, x>> \in Below)
  BY <1>1, WFMin
<1>3. ASSUME NEW y \in T PROVE x <= y
  <2>1. ~ (y < x)
    BY <1>2 DEF Below
  <2>2. x \in Nat /\ y \in Nat
    OBVIOUS
  <2> QED BY <2>1, <2>2
<1> QED
  BY <1>3

\* A set that has 0 and with every number its successor, up to n, has all of them.
LEMMA InductionUpTo ==
  ASSUME NEW n \in Nat, NEW S, 0 \in S, \A i \in 1 .. n : i - 1 \in S => i \in S
  PROVE  0 .. n \subseteq S
<1> SUFFICES ASSUME NEW m \in 0 .. n, m \notin S PROVE FALSE
  OBVIOUS
<1> DEFINE T == {i \in 0 .. n : i \notin S}
<1>1. T \subseteq Nat /\ T # {}
  OBVIOUS
<1>2. PICK x \in T : \A y \in T : x <= y
  <2> HIDE DEF T
  <2> QED BY <1>1, LeastNumber
<1>3. x \in 1 .. n
  OBVIOUS
<1>4. x - 1 \in S
  BY <1>2, <1>3
<1> QED
  BY <1>3, <1>4

-----------------------------------------------------------------------------
(* The recursive functions of Access have their values.                    *)

\* The states that ReadLine goes through, word by word.
LineReading(a, line, read) ==
  read = [i \in 0 .. Len(line) |->
            IF i = 0 THEN a ELSE ReadWord(read[i - 1], line[i], i = Len(line))]

\* ReadLine ends in the last of them.
LEMMA ReadLineReads ==
  ASSUME NEW a, NEW line, Len(line) \in Nat
  PROVE  \E read : LineReading(a, line, read) /\ ReadLine(a, line) = read[Len(line)]
<1> DEFINE Fits(g, m) ==
      g = [i \in 0 .. m |-> IF i = 0 THEN a ELSE ReadWord(g[i - 1], line[i], i = Len(line))]
           S == {m \in 0 .. Len(line) : \E g : Fits(g, m)}
<1>1. 0 \in S
  <2>1. Fits([i \in 0 .. 0 |-> a], 0)
    OBVIOUS
  <2> HIDE DEF Fits
  <2> QED BY <2>1
<1>2. ASSUME NEW m \in 1 .. Len(line), m - 1 \in S PROVE m \in S
  <2>1. PICK g : Fits(g, m - 1)
    BY <1>2
  <2> DEFINE h == [i \in 0 .. m |->
                     IF i = m THEN ReadWord(g[m - 1], line[m], m = Len(line)) ELSE g[i]]
  <2>2. Fits(h, m)
    BY <2>1
  <2> HIDE DEF Fits, h
  <2> QED BY <2>2
<1>3. \E g : Fits(g, Len(line))
  <2>1. 0 .. Len(line) \subseteq S
    <3> HIDE DEF S
    <3> QED BY <1>1, <1>2, InductionUpTo
  <2> HIDE DEF Fits
  <2> QED BY <2>1
<1>4. ReadLine(a, line) = (CHOOSE g : Fits(g, Len(line)))[Len(line)]
  BY DEF ReadLine
<1> DEFINE f == CHOOSE g : Fits(g, Len(line))
<1>5. Fits(f, Len(line))
  <2> HIDE DEF Fits
  <2> QED BY <1>3
<1>6. LineReading(a, line, f)
  <2> HIDE DEF f
  <2> QED BY <1>5 DEF LineReading
<1> QED
  BY <1>4, <1>6

\* The states that ReadAccessDatabase goes through, line by line.
FileReading(file, read) ==
  read = [i \in 0 .. Len(file) |->
            IF i = 0 THEN [entries |-> <<>>, hosts |-> FALSE] ELSE ReadLine(read[i - 1], file[i])]

\* ReadAccessDatabase has the entries of the last of them.
LEMMA ReadAccessDatabaseReads ==
  ASSUME NEW file, Len(file) \in Nat
  PROVE  \E read : FileReading(file, read) /\ ReadAccessDatabase(file) = read[Len(file)].entries
<1> DEFINE empty == [entries |-> <<>>, hosts |-> FALSE]
           Fits(g, m) == g = [i \in 0 .. m |-> IF i = 0 THEN empty ELSE ReadLine(g[i - 1], file[i])]
           S == {m \in 0 .. Len(file) : \E g : Fits(g, m)}
<1>1. 0 \in S
  <2>1. Fits([i \in 0 .. 0 |-> empty], 0)
    OBVIOUS
  <2> HIDE DEF Fits
  <2> QED BY <2>1
<1>2. ASSUME NEW m \in 1 .. Len(file), m - 1 \in S PROVE m \in S
  <2>1. PICK g : Fits(g, m - 1)
    BY <1>2
  <2> DEFINE h == [i \in 0 .. m |-> IF i = m THEN ReadLine(g[m - 1], file[m]) ELSE g[i]]
  <2>2. \A i \in 1 .. m : i - 1 # m
    OBVIOUS
  <2>3. h = [i \in 0 .. m |-> IF i = 0 THEN empty ELSE ReadLine(h[i - 1], file[i])]
    <3> HIDE DEF empty
    <3> QED BY <2>1, <2>2
  <2> HIDE DEF Fits, h
  <2> QED BY <2>3 DEF Fits
<1>3. \E g : Fits(g, Len(file))
  <2>1. 0 .. Len(file) \subseteq S
    <3> HIDE DEF S
    <3> QED BY <1>1, <1>2, InductionUpTo
  <2> HIDE DEF Fits
  <2> QED BY <2>1
<1>4. ReadAccessDatabase(file) = (CHOOSE g : Fits(g, Len(file)))[Len(file)].entries
  BY DEF ReadAccessDatabase
<1> DEFINE f == CHOOSE g : Fits(g, Len(file))
<1>5. Fits(f, Len(file))
  <2> HIDE DEF Fits
  <2> QED BY <1>3
<1>6. FileReading(file, f)
  <2> HIDE DEF f
  <2> QED BY <1>5 DEF FileReading
<1> QED
  BY <1>4, <1>6

-----------------------------------------------------------------------------
(* The type of the database.                                               *)

\* "*" is a host of this entry only if it is a LISTEN entry.
AnyOnlyOnListen(d) ==
  d.type # "listen" => \A j \in DOMAIN d.hosts : d.hosts[j].type # "any"

\* The fields of an entry.
LEMMA EntryFields ==
  ASSUME NEW d \in Entry
  PROVE  /\ d.type \in {"alias", "listen", "pattern", "address"}
         /\ d.key \in Text \cup Address
         /\ d.notAllowed \in BOOLEAN /\ d.notBroadcast \in BOOLEAN /\ d.chooser \in BOOLEAN
         /\ d.hosts \in Seq(Host)
BY DEF Entry

\* A word that ReadDisplayEntry recognises makes an entry without hosts.
LEMMA NewEntryTyped ==
  ASSUME NEW w \in Word, DisplayType(w) # "unknown"
  PROVE  NewEntry(w) \in Entry /\ NewEntry(w).hosts = <<>>
<1>1. w.text \in Text /\ w.not \in BOOLEAN
  BY DEF Word
<1>2. DisplayType(w) \in {"alias", "listen", "pattern", "address"}
  BY DEF DisplayType
<1>3. DisplayType(w) = "address" => Resolve[w.text] \in Address
  BY <1>1, AccessAssumption DEF DisplayType
<1>4. Key(DisplayType(w), w) \in Text \cup Address
  BY <1>1, <1>3 DEF Key
<1>5. <<>> \in Seq(Host)
  OBVIOUS
<1> QED
  BY <1>1, <1>2, <1>4, <1>5 DEF NewEntry, Entry

\* the host that ReadHostEntry makes of a word
HostOf(w) == [type |-> HostType(w), key |-> Key(HostType(w), w)]

\* the word is taken as a host of an entry of that type
IsHost(w, type) ==
  \/ HostType(w) \in {"alias", "address", "broadcast"}
  \/ HostType(w) = "any" /\ type = "listen"

\* What is taken as a host is one.
LEMMA HostOfTyped ==
  ASSUME NEW w \in Word, NEW type, IsHost(w, type)
  PROVE  HostOf(w) \in Host
<1>1. w.text \in Text
  BY DEF Word
<1>2. HostType(w) \in {"alias", "address", "broadcast", "any"}
  BY DEF IsHost
<1>3. HostType(w) = "address" => Resolve[w.text] \in Address
  BY <1>1, AccessAssumption DEF HostType
<1>4. HostType(w) = "alias" => w.text \in Alias
  BY DEF HostType
<1> QED
  BY <1>1, <1>2, <1>3, <1>4 DEF HostOf, Key, Host

\* A further word sets a flag, joins the hosts or changes nothing.
LEMMA AddHostIs ==
  ASSUME NEW d \in Entry, NEW w
  PROVE  AddHost(d, w) =
           [type |-> d.type, key |-> d.key, notAllowed |-> d.notAllowed,
            notBroadcast |-> IF HostType(w) = "nobroadcast" THEN TRUE ELSE d.notBroadcast,
            chooser |-> IF HostType(w) = "chooser" THEN TRUE ELSE d.chooser,
            hosts |-> IF IsHost(w, d.type) THEN Append(d.hosts, HostOf(w)) ELSE d.hosts]
<1>1. HostType(w) \in {"unknown", "alias", "chooser", "broadcast", "nobroadcast", "any", "address"}
  BY DEF HostType
<1>2. d = [type |-> d.type, key |-> d.key, notAllowed |-> d.notAllowed,
           notBroadcast |-> d.notBroadcast, chooser |-> d.chooser, hosts |-> d.hosts]
  BY DEF Entry
<1>3. d.chooser \in BOOLEAN /\ d.notBroadcast \in BOOLEAN
  BY EntryFields
<1>4. CASE HostType(w) = "chooser"
  BY <1>2, <1>3, <1>4 DEF AddHost, IsHost
<1>5. CASE HostType(w) = "nobroadcast"
  BY <1>2, <1>3, <1>5 DEF AddHost, IsHost
<1>6. CASE HostType(w) = "unknown" \/ (HostType(w) = "any" /\ d.type # "listen")
  BY <1>2, <1>3, <1>6 DEF AddHost, IsHost
<1>7. CASE IsHost(w, d.type)
  BY <1>2, <1>3, <1>7 DEF AddHost, IsHost, HostOf
<1> QED
  BY <1>1, <1>4, <1>5, <1>6, <1>7 DEF IsHost

\* The entry stays one of its type.
LEMMA AddHostTyped ==
  ASSUME NEW d \in Entry, NEW w \in Word, AnyOnlyOnListen(d)
  PROVE  AddHost(d, w) \in Entry /\ AnyOnlyOnListen(AddHost(d, w))
<1> DEFINE e == AddHost(d, w)
           more == IF IsHost(w, d.type) THEN Append(d.hosts, HostOf(w)) ELSE d.hosts
           noBroadcast == IF HostType(w) = "nobroadcast" THEN TRUE ELSE d.notBroadcast
           choose == IF HostType(w) = "chooser" THEN TRUE ELSE d.chooser
<1>0. e = [type |-> d.type, key |-> d.key, notAllowed |-> d.notAllowed,
           notBroadcast |-> noBroadcast, chooser |-> choose, hosts |-> more]
  BY AddHostIs, Zenon
<1>1. e.type = d.type /\ e.hosts = IF IsHost(w, d.type) THEN Append(d.hosts, HostOf(w)) ELSE d.hosts
  <2> HIDE DEF e, noBroadcast, choose
  <2> QED BY <1>0
<1>2. d.hosts \in Seq(Host)
  BY EntryFields
<1>3. IsHost(w, d.type) => HostOf(w) \in Host
  BY HostOfTyped
<1>4. e.hosts \in Seq(Host)
  BY <1>1, <1>2, <1>3
<1>5. e \in Entry
  <2>1. more \in Seq(Host)
    BY <1>1, <1>4
  <2>2. noBroadcast \in BOOLEAN /\ choose \in BOOLEAN
    BY EntryFields
  <2> HIDE DEF e, more, noBroadcast, choose
  <2> QED BY <1>0, <2>1, <2>2, EntryFields DEF Entry
<1>6. AnyOnlyOnListen(e)
  <2> SUFFICES ASSUME d.type # "listen", NEW j \in DOMAIN e.hosts PROVE e.hosts[j].type # "any"
    BY <1>1 DEF AnyOnlyOnListen
  <2>1. CASE j \in DOMAIN d.hosts /\ e.hosts[j] = d.hosts[j]
    BY <2>1 DEF AnyOnlyOnListen
  <2>2. CASE IsHost(w, d.type) /\ e.hosts[j] = HostOf(w)
    BY <2>2 DEF IsHost, HostOf
  <2> QED BY <1>1, <1>2, <1>3, <2>1, <2>2
<1> QED
  BY <1>5, <1>6

\* the states of a file that is read: there is an entry that a host can join
Reading == {a \in [entries : Database, hosts : BOOLEAN] : a.hosts => a.entries # <<>>}

\* A database is a sequence of entries, with "*" on LISTEN entries only.
LEMMA DatabaseIs ==
  ASSUME NEW db
  PROVE  db \in Database <=> db \in Seq(Entry) /\ \A i \in DOMAIN db : AnyOnlyOnListen(db[i])
BY DEF Database, AnyOnlyOnListen

\* Each word leaves the database one.
LEMMA ReadWordTyped ==
  ASSUME NEW a \in Reading, NEW w \in Word, NEW last
  PROVE  ReadWord(a, w, last) \in Reading
<1>1. /\ a.entries \in Seq(Entry) /\ \A i \in DOMAIN a.entries : AnyOnlyOnListen(a.entries[i])
      /\ a.hosts \in BOOLEAN /\ (a.hosts => a.entries # <<>>)
  BY DatabaseIs DEF Reading
<1>2. CASE a.hosts
  <2> DEFINE n == Len(a.entries)
             e == AddHost(a.entries[n], w)
             more == [a.entries EXCEPT ![n] = e]
  <2>1. n \in DOMAIN a.entries /\ a.entries[n] \in Entry
    BY <1>1, <1>2
  <2>2. e \in Entry /\ AnyOnlyOnListen(e)
    BY <1>1, <2>1, AddHostTyped
  <2>3. more \in Seq(Entry) /\ \A i \in DOMAIN more : AnyOnlyOnListen(more[i])
    <3> HIDE DEF e
    <3> QED BY <1>1, <2>1, <2>2
  <2>4. more # <<>>
    <3> HIDE DEF e
    <3> QED BY <1>1, <2>1
  <2>5. ReadWord(a, w, last) = [entries |-> more, hosts |-> ~last]
    BY <1>2 DEF ReadWord
  <2> HIDE DEF more
  <2> QED BY <2>3, <2>4, <2>5, DatabaseIs DEF Reading
<1>3. CASE ~a.hosts /\ DisplayType(w) # "unknown"
  <2> DEFINE more == Append(a.entries, NewEntry(w))
  <2>1. NewEntry(w) \in Entry /\ AnyOnlyOnListen(NewEntry(w))
    BY <1>3, NewEntryTyped DEF AnyOnlyOnListen
  <2>2. more \in Seq(Entry) /\ \A i \in DOMAIN more : AnyOnlyOnListen(more[i])
    BY <1>1, <2>1
  <2>3. more # <<>>
    BY <1>1, <2>1, AppendProperties
  <2>4. ReadWord(a, w, last) = [entries |-> more, hosts |-> ~last]
    BY <1>3 DEF ReadWord
  <2> HIDE DEF more
  <2> QED BY <2>2, <2>3, <2>4, DatabaseIs DEF Reading
<1>4. CASE ~a.hosts /\ DisplayType(w) = "unknown"
  BY <1>4 DEF ReadWord
<1> QED
  BY <1>1, <1>2, <1>3, <1>4

\* So does each line.
LEMMA ReadLineTyped ==
  ASSUME NEW a \in Reading, NEW line \in Seq(Word)
  PROVE  ReadLine(a, line) \in Reading
<1> DEFINE n == Len(line)
<1>0. n \in Nat
  OBVIOUS
<1>1. PICK read : LineReading(a, line, read) /\ ReadLine(a, line) = read[n]
  BY ReadLineReads
<1> DEFINE S == {i \in 0 .. n : read[i] \in Reading}
<1>2. 0 \in S
  BY <1>1 DEF LineReading
<1>3. ASSUME NEW i \in 1 .. n, i - 1 \in S PROVE i \in S
  <2>1. read[i] = ReadWord(read[i - 1], line[i], i = n)
    BY <1>1 DEF LineReading
  <2>2. line[i] \in Word
    OBVIOUS
  <2>3. read[i - 1] \in Reading /\ i \in 0 .. n
    BY <1>3
  <2>4. read[i] \in Reading
    BY <2>1, <2>2, <2>3, ReadWordTyped, Zenon
  <2> QED BY <2>3, <2>4
<1>4. 0 .. n \subseteq S
  <2> HIDE DEF S, n
  <2> QED BY <1>0, <1>2, <1>3, InductionUpTo
<1> QED
  BY <1>1, <1>4

\* Whatever the file, what is read from it is a database.
LEMMA DatabaseTyped ==
  ASSUME NEW file \in Seq(Seq(Word))
  PROVE  ReadAccessDatabase(file) \in Database
<1> DEFINE n == Len(file)
<1>0. n \in Nat /\ \A i \in 1 .. n : file[i] \in Seq(Word)
  OBVIOUS
<1>1. PICK read : FileReading(file, read) /\ ReadAccessDatabase(file) = read[n].entries
  BY ReadAccessDatabaseReads
<1> DEFINE S == {i \in 0 .. n : read[i] \in Reading}
<1>2. 0 \in S
  <2>1. read[0] = [entries |-> <<>>, hosts |-> FALSE]
    BY <1>1 DEF FileReading
  <2>2. <<>> \in Seq(Entry) /\ DOMAIN <<>> = {}
    BY EmptySeq
  <2>3. <<>> \in Database
    BY <2>2 DEF Database
  <2>4. read[0] \in Reading
    BY <2>1, <2>3 DEF Reading
  <2> QED BY <1>0, <2>4
<1>3. ASSUME NEW i \in 1 .. n, i - 1 \in S PROVE i \in S
  <2>1. read[i] = ReadLine(read[i - 1], file[i])
    <3>1. i \in 0 .. Len(file) /\ i # 0
      BY <1>0
    <3> QED BY <1>1, <3>1 DEF FileReading
  <2> QED BY <1>0, <1>3, <2>1, ReadLineTyped
<1>4. 0 .. n \subseteq S
  <2> HIDE DEF S, n
  <2> QED BY <1>0, <1>2, <1>3, InductionUpTo
<1> QED
  BY <1>1, <1>4 DEF Reading

-----------------------------------------------------------------------------
(* The entries against the lines.                                          *)

\* the hosts of a line up to its word k
HostsOf(line, k, type) == {HostOf(line[j]) : j \in {m \in 2 .. k : IsHost(line[m], type)}}

\* the entry has what the words of the line up to k say
EntryIs(d, line, k) ==
  /\ d \in Entry /\ AnyOnlyOnListen(d)
  /\ d.type = DisplayType(line[1]) /\ d.key = Key(d.type, line[1])
  /\ d.notAllowed = line[1].not
  /\ d.notBroadcast <=> \E j \in 2 .. k : HostType(line[j]) = "nobroadcast"
  /\ d.chooser <=> \E j \in 2 .. k : HostType(line[j]) = "chooser"
  /\ ToSet(d.hosts) = HostsOf(line, k, d.type)
  /\ (\A j \in 2 .. k : IsHost(line[j], d.type)) =>
       Len(d.hosts) = k - 1 /\ \A j \in 2 .. k : d.hosts[j - 1] = HostOf(line[j])

\* Append adds one element.
LEMMA AppendedSet ==
  ASSUME NEW T, NEW s \in Seq(T), NEW x \in T
  PROVE  ToSet(Append(s, x)) = ToSet(s) \cup {x}
<1>1. DOMAIN Append(s, x) = 1 .. Len(s) + 1 /\ DOMAIN s = 1 .. Len(s)
  BY AppendProperties
<1>2. Append(s, x)[Len(s) + 1] = x /\ \A i \in 1 .. Len(s) : Append(s, x)[i] = s[i]
  BY AppendProperties
<1> HIDE DEF ToSet
<1>3. 1 .. Len(s) + 1 = (1 .. Len(s)) \cup {Len(s) + 1}
  OBVIOUS
<1> QED
  BY <1>1, <1>2, <1>3 DEF ToSet

\* To replace the last element is to append the other to what was before it.
LEMMA LastReplaced ==
  ASSUME NEW T, NEW s \in Seq(T), NEW y \in T, NEW p \in Seq(T),
         Len(p) = Len(s) + 1, \A i \in 1 .. Len(s) : p[i] = s[i]
  PROVE  [p EXCEPT ![Len(p)] = y] = Append(s, y)
<1> DEFINE n == Len(s) + 1
           q == Append(s, y)
           r == [p EXCEPT ![Len(p)] = y]
<1>1. n \in 1 .. Len(p)
  OBVIOUS
<1>2. q \in Seq(T) /\ Len(q) = n /\ q[n] = y
  BY AppendProperties
<1>3. \A i \in 1 .. Len(s) : q[i] = s[i]
  BY AppendProperties
<1>4. r \in Seq(T) /\ Len(r) = n /\ \A i \in 1 .. Len(p) : r[i] = IF i = n THEN y ELSE p[i]
  <2> DEFINE m == Len(p)
  <2>1. m \in 1 .. Len(p) /\ m = n
    BY <1>1
  <2> HIDE DEF n, m
  <2>2. /\ [p EXCEPT ![m] = y] \in Seq(T)
        /\ Len([p EXCEPT ![m] = y]) = Len(p)
        /\ \A i \in 1 .. Len(p) : [p EXCEPT ![m] = y][i] = IF i = m THEN y ELSE p[i]
    BY <1>1, <2>1, ExceptSeq
  <2> QED BY <1>1, <2>1, <2>2 DEF m
<1>5. ASSUME NEW i \in 1 .. n PROVE r[i] = q[i]
  <2> HIDE DEF q, r
  <2>1. i = n \/ i \in 1 .. Len(s)
    OBVIOUS
  <2> QED BY <1>1, <1>2, <1>3, <1>4, <2>1
<1>6. r = q
  <2> HIDE DEF q, r, n
  <2> QED BY <1>1, <1>2, <1>4, <1>5, SeqEqual
<1> QED
  BY <1>6

\* The first word makes an entry of the line.
LEMMA NewEntryIs ==
  ASSUME NEW line, line[1] \in Word, DisplayType(line[1]) # "unknown"
  PROVE  EntryIs(NewEntry(line[1]), line, 1)
<1> DEFINE d == NewEntry(line[1])
<1>1. d \in Entry /\ d.hosts = <<>>
  BY NewEntryTyped
<1>2. /\ d.type = DisplayType(line[1]) /\ d.key = Key(d.type, line[1])
      /\ d.notAllowed = line[1].not /\ d.notBroadcast = FALSE /\ d.chooser = FALSE
  BY DEF NewEntry
<1>3. AnyOnlyOnListen(d) /\ ToSet(d.hosts) = {} /\ HostsOf(line, 1, d.type) = {}
  <2> HIDE DEF d
  <2> QED BY <1>1 DEF AnyOnlyOnListen, ToSet, HostsOf
<1>4. EntryIs(d, line, 1)
  <2>1. \A j \in 2 .. 1 : FALSE
    OBVIOUS
  <2>2. Len(d.hosts) = 1 - 1 /\ \A j \in 2 .. 1 : d.hosts[j - 1] = HostOf(line[j])
    BY <1>1, <2>1
  <2> HIDE DEF d
  <2> QED BY <1>1, <1>2, <1>3, <2>1, <2>2 DEF EntryIs
<1> QED
  BY <1>4

\* Each further word makes it the entry of one word more.
LEMMA AddHostEntryIs ==
  ASSUME NEW line, NEW k \in Nat, k > 1, line[k] \in Word, NEW d, EntryIs(d, line, k - 1)
  PROVE  EntryIs(AddHost(d, line[k]), line, k)
<1> DEFINE e == AddHost(d, line[k])
           more == IF IsHost(line[k], d.type) THEN Append(d.hosts, HostOf(line[k])) ELSE d.hosts
           noBroadcast == IF HostType(line[k]) = "nobroadcast" THEN TRUE ELSE d.notBroadcast
           choose == IF HostType(line[k]) = "chooser" THEN TRUE ELSE d.chooser
<1>1. d \in Entry /\ AnyOnlyOnListen(d)
  BY DEF EntryIs
<1>2. e \in Entry /\ AnyOnlyOnListen(e)
  BY <1>1, AddHostTyped
<1>3. e = [type |-> d.type, key |-> d.key, notAllowed |-> d.notAllowed,
           notBroadcast |-> noBroadcast, chooser |-> choose, hosts |-> more]
  BY <1>1, AddHostIs, Zenon
<1>4. /\ e.type = d.type /\ e.key = d.key /\ e.notAllowed = d.notAllowed
      /\ e.notBroadcast = noBroadcast /\ e.chooser = choose /\ e.hosts = more
  <2> HIDE DEF e, more, noBroadcast, choose
  <2> QED BY <1>3
<1>5. d.hosts \in Seq(Host) /\ (IsHost(line[k], d.type) => HostOf(line[k]) \in Host)
  BY <1>1, EntryFields, HostOfTyped
<1>6. ToSet(more) = ToSet(d.hosts) \cup (IF IsHost(line[k], d.type) THEN {HostOf(line[k])} ELSE {})
  <2>1. CASE IsHost(line[k], d.type)
    <3> DEFINE h == HostOf(line[k])
    <3>1. more = Append(d.hosts, h)
      BY <2>1
    <3> HIDE DEF more, h
    <3> QED BY <1>5, <2>1, <3>1, AppendedSet DEF h
  <2>2. CASE ~IsHost(line[k], d.type)
    BY <2>2
  <2> QED BY <2>1, <2>2
<1>7. HostsOf(line, k, d.type)
        = HostsOf(line, k - 1, d.type) \cup
            (IF IsHost(line[k], d.type) THEN {HostOf(line[k])} ELSE {})
  BY DEF HostsOf
<1>8. noBroadcast <=> \E j \in 2 .. k : HostType(line[j]) = "nobroadcast"
  <2>1. d.notBroadcast <=> \E j \in 2 .. k - 1 : HostType(line[j]) = "nobroadcast"
    BY DEF EntryIs
  <2>2. 2 .. k = (2 .. k - 1) \cup {k}
    OBVIOUS
  <2> QED BY <2>1, <2>2
<1>9. choose <=> \E j \in 2 .. k : HostType(line[j]) = "chooser"
  <2>1. d.chooser <=> \E j \in 2 .. k - 1 : HostType(line[j]) = "chooser"
    BY DEF EntryIs
  <2>2. 2 .. k = (2 .. k - 1) \cup {k}
    OBVIOUS
  <2> QED BY <2>1, <2>2
<1>10. ToSet(e.hosts) = HostsOf(line, k, e.type)
  <2>1. ToSet(d.hosts) = HostsOf(line, k - 1, d.type)
    BY DEF EntryIs
  <2> HIDE DEF e, more
  <2> QED BY <1>4, <1>6, <1>7, <2>1
<1>11. ASSUME \A j \in 2 .. k : IsHost(line[j], e.type)
       PROVE  Len(e.hosts) = k - 1 /\ \A j \in 2 .. k : e.hosts[j - 1] = HostOf(line[j])
  <2> DEFINE h == HostOf(line[k])
  <2>1. /\ \A j \in 2 .. k - 1 : j \in 2 .. k
        /\ k \in 2 .. k
    OBVIOUS
  <2>2. IsHost(line[k], d.type) /\ \A j \in 2 .. k - 1 : IsHost(line[j], d.type)
    <3> HIDE DEF e
    <3> QED BY <1>4, <1>11, <2>1
  <2>3. Len(d.hosts) = k - 1 - 1 /\ \A j \in 2 .. k - 1 : d.hosts[j - 1] = HostOf(line[j])
    BY <2>2 DEF EntryIs
  <2>4. h \in Host /\ d.hosts \in Seq(Host) /\ more = Append(d.hosts, h)
    BY <1>5, <2>2
  <2> HIDE DEF h, e, more
  <2>5. Len(more) = k - 1 /\ more[k - 1] = h
    BY <2>3, <2>4
  <2>6. \A j \in 2 .. k - 1 : more[j - 1] = HostOf(line[j])
    BY <2>3, <2>4
  <2>7. \A j \in 2 .. k : j = k \/ j \in 2 .. k - 1
    OBVIOUS
  <2> QED BY <1>4, <2>5, <2>6, <2>7 DEF h
<1>12. EntryIs(e, line, k)
  <2>1. /\ d.type = DisplayType(line[1]) /\ d.key = Key(d.type, line[1])
        /\ d.notAllowed = line[1].not
    BY DEF EntryIs
  <2>2. e.notBroadcast <=> \E j \in 2 .. k : HostType(line[j]) = "nobroadcast"
    BY <1>4, <1>8
  <2>3. e.chooser <=> \E j \in 2 .. k : HostType(line[j]) = "chooser"
    BY <1>4, <1>9
  <2>4. (\A j \in 2 .. k : IsHost(line[j], e.type)) =>
          Len(e.hosts) = k - 1 /\ \A j \in 2 .. k : e.hosts[j - 1] = HostOf(line[j])
    BY <1>11
  <2> HIDE DEF e, more, noBroadcast, choose
  <2> QED BY <1>2, <1>4, <1>10, <2>1, <2>2, <2>3, <2>4 DEF EntryIs
<1> QED
  BY <1>12

\* the line begins with a display that can be resolved
Readable(line) == line \in Seq(Word) /\ line # <<>> /\ DisplayType(line[1]) # "unknown"

\* A display that can be resolved begins an entry, which takes hosts but at the line's end.
LEMMA ReadDisplay ==
  ASSUME NEW a, NEW w, ~a.hosts, DisplayType(w) # "unknown"
  PROVE  /\ ReadWord(a, w, TRUE) = [entries |-> Append(a.entries, NewEntry(w)), hosts |-> FALSE]
         /\ ReadWord(a, w, FALSE) = [entries |-> Append(a.entries, NewEntry(w)), hosts |-> TRUE]
BY Zenon DEF ReadWord

\* A further word changes the last entry.
LEMMA ReadHost ==
  ASSUME NEW a, NEW w, a.hosts
  PROVE  LET n == Len(a.entries)
             more == [a.entries EXCEPT ![n] = AddHost(a.entries[n], w)]
         IN /\ ReadWord(a, w, TRUE) = [entries |-> more, hosts |-> FALSE]
            /\ ReadWord(a, w, FALSE) = [entries |-> more, hosts |-> TRUE]
BY Zenon DEF ReadWord

\* Such a line becomes one entry, which has what all its words say.
LEMMA LineEntry ==
  ASSUME NEW a \in Reading, ~a.hosts, NEW line, Readable(line)
  PROVE  /\ ReadLine(a, line).hosts = FALSE
         /\ \E d : /\ EntryIs(d, line, Len(line))
                   /\ ReadLine(a, line).entries = Append(a.entries, d)
<1> DEFINE n == Len(line)
<1>1. n \in Nat \ {0} /\ \A i \in 1 .. n : line[i] \in Word
  BY DEF Readable
<1>2. PICK read : LineReading(a, line, read) /\ ReadLine(a, line) = read[n]
  BY <1>1, ReadLineReads
<1>3. a.entries \in Seq(Entry)
  BY DatabaseIs DEF Reading
<1>4. \A i \in 1 .. n : read[i] = ReadWord(read[i - 1], line[i], i = n)
  <2> TAKE i \in 1 .. n
  <2>1. i \in 0 .. n /\ i # 0
    BY <1>1
  <2> QED BY <1>2, <2>1 DEF LineReading
<1>5. read[0] = a
  BY <1>1, <1>2 DEF LineReading
<1>6. ASSUME NEW i \in 1 .. n
       PROVE  read[i] = IF i = n THEN ReadWord(read[i - 1], line[i], TRUE)
                        ELSE ReadWord(read[i - 1], line[i], FALSE)
  <2>1. CASE i = n
    <3>1. (i = n) = TRUE
      BY <2>1
    <3> QED BY <1>4, <2>1, <3>1, Zenon
  <2>2. CASE i # n
    <3>1. (i = n) = FALSE
      BY <2>2
    <3> QED BY <1>4, <2>2, <3>1
  <2> QED BY <2>1, <2>2
<1> DEFINE Read(i) == /\ read[i].hosts <=> i # n
                      /\ \E d : EntryIs(d, line, i) /\ read[i].entries = Append(a.entries, d)
           S == {i \in 0 .. n : i # 0 => Read(i)}
<1>7. 0 \in S
  BY <1>1
<1>8. ASSUME NEW i \in 1 .. n, i - 1 \in S PROVE i \in S
  <2>1. line[i] \in Word /\ i \in 0 .. n
    BY <1>1
  <2>2. CASE i = 1
    <3>1. 1 \in 1 .. n /\ 1 - 1 = 0
      BY <1>1
    <3> DEFINE more == Append(a.entries, NewEntry(line[1]))
    <3>2. read[1].entries = more /\ (read[1].hosts <=> 1 # n)
      <4>1. DisplayType(line[1]) # "unknown"
        BY DEF Readable
      <4>2. /\ ReadWord(a, line[1], TRUE) = [entries |-> more, hosts |-> FALSE]
            /\ ReadWord(a, line[1], FALSE) = [entries |-> more, hosts |-> TRUE]
        BY <4>1, ReadDisplay
      <4>3. read[1] = IF 1 = n THEN ReadWord(a, line[1], TRUE) ELSE ReadWord(a, line[1], FALSE)
        BY <1>5, <1>6, <3>1
      <4> DEFINE end == [entries |-> more, hosts |-> FALSE]
                 open == [entries |-> more, hosts |-> TRUE]
      <4>4. end.entries = more /\ open.entries = more /\ ~end.hosts /\ open.hosts
        <5> HIDE DEF more
        <5> QED OBVIOUS
      <4>5. read[1] = IF 1 = n THEN end ELSE open
        BY <4>2, <4>3, Zenon
      <4> HIDE DEF end, open
      <4> QED BY <4>4, <4>5
    <3>3. EntryIs(NewEntry(line[1]), line, 1)
      BY <2>1, <2>2, NewEntryIs DEF Readable
    <3>4. Read(i)
      BY <2>2, <3>2, <3>3
    <3> QED BY <2>1, <3>4
  <2>3. CASE i # 1
    <3>1. i - 1 \in 0 .. n /\ i - 1 # 0 /\ i - 1 # n /\ i \in Nat /\ i > 1
      BY <1>1, <2>3
    <3>2. Read(i - 1)
      BY <1>8, <3>1
    <3>3. PICK d : EntryIs(d, line, i - 1) /\ read[i - 1].entries = Append(a.entries, d)
      BY <3>2
    <3>4. d \in Entry
      BY <3>3 DEF EntryIs
    <3> DEFINE e == AddHost(d, line[i])
               s == read[i - 1].entries
    <3>5. EntryIs(e, line, i) /\ e \in Entry
      <4>1. EntryIs(e, line, i)
        BY <2>1, <3>1, <3>3, AddHostEntryIs
      <4> HIDE DEF e
      <4> QED BY <4>1 DEF EntryIs
    <3>6. Len(s) = Len(a.entries) + 1 /\ s[Len(s)] = d /\ s \in Seq(Entry)
      BY <1>3, <3>3, <3>4
    <3>7. [s EXCEPT ![Len(s)] = e] = Append(a.entries, e)
      <4> HIDE DEF e
      <4>1. /\ s \in Seq(Entry) /\ Len(s) = Len(a.entries) + 1
            /\ \A j \in 1 .. Len(a.entries) : s[j] = a.entries[j]
        BY <1>3, <3>3, <3>4
      <4> HIDE DEF s, e
      <4> QED BY <1>3, <3>5, <4>1, LastReplaced
    <3>8. read[i - 1].hosts
      BY <3>1, <3>2
    <3> DEFINE more == [s EXCEPT ![Len(s)] = AddHost(s[Len(s)], line[i])]
    <3>9. read[i] = [entries |-> more, hosts |-> IF i = n THEN FALSE ELSE TRUE]
      <4>1. /\ ReadWord(read[i - 1], line[i], TRUE) = [entries |-> more, hosts |-> FALSE]
            /\ ReadWord(read[i - 1], line[i], FALSE) = [entries |-> more, hosts |-> TRUE]
        BY <3>8, ReadHost, Zenon
      <4> HIDE DEF more, s
      <4> QED BY <1>6, <4>1
    <3>10. read[i].entries = more /\ (read[i].hosts <=> i # n)
      <4> HIDE DEF more
      <4> QED BY <3>9
    <3>11. Read(i)
      <4>1. read[i].entries = Append(a.entries, e)
        BY <3>6, <3>7, <3>10
      <4> HIDE DEF e
      <4> QED BY <3>5, <3>10, <4>1
    <3> QED BY <2>1, <3>11
  <2> QED BY <2>2, <2>3
<1>9. n \in S
  <2>1. 0 .. n \subseteq S
    <3> HIDE DEF S, n
    <3> QED BY <1>1, <1>7, <1>8, InductionUpTo
  <2> HIDE DEF S
  <2> QED BY <1>1, <2>1
<1>10. Read(n)
  BY <1>1, <1>9
<1>11. ReadLine(a, line) \in Reading
  BY ReadLineTyped DEF Readable
<1>12. ReadLine(a, line).hosts = FALSE
  BY <1>2, <1>10, <1>11 DEF Reading
<1> QED
  BY <1>2, <1>10, <1>12

\* A file of such lines becomes the database with their entries in order.
LEMMA FileEntries ==
  ASSUME NEW file \in Seq(Seq(Word)), \A i \in DOMAIN file : Readable(file[i])
  PROVE  /\ Len(ReadAccessDatabase(file)) = Len(file)
         /\ \A i \in DOMAIN file : EntryIs(ReadAccessDatabase(file)[i], file[i], Len(file[i]))
<1> DEFINE n == Len(file)
<1>1. n \in Nat /\ DOMAIN file = 1 .. n
  OBVIOUS
<1>2. PICK read : FileReading(file, read) /\ ReadAccessDatabase(file) = read[n].entries
  BY ReadAccessDatabaseReads
<1>3. read[0] = [entries |-> <<>>, hosts |-> FALSE]
  BY <1>1, <1>2 DEF FileReading
<1>4. ASSUME NEW i \in 1 .. n PROVE read[i] = ReadLine(read[i - 1], file[i])
  <2>1. i \in 0 .. n /\ i # 0
    BY <1>1
  <2> QED BY <1>2, <2>1 DEF FileReading
<1> DEFINE Read(m) ==
      /\ read[m] \in Reading /\ ~read[m].hosts /\ Len(read[m].entries) = m
      /\ \A i \in 1 .. m : EntryIs(read[m].entries[i], file[i], Len(file[i]))
           S == {m \in 0 .. n : Read(m)}
<1>5. 0 \in S
  <2>1. <<>> \in Seq(Entry) /\ DOMAIN <<>> = {} /\ Len(<<>>) = 0
    BY EmptySeq
  <2>2. <<>> \in Database
    BY <2>1 DEF Database
  <2>3. read[0] \in Reading
    BY <1>3, <2>2 DEF Reading
  <2>4. Read(0)
    BY <1>3, <2>1, <2>3
  <2> QED BY <1>1, <2>4
<1>6. ASSUME NEW m \in 1 .. n, m - 1 \in S PROVE m \in S
  <2>1. Read(m - 1) /\ m \in 0 .. n
    BY <1>6
  <2>2. Readable(file[m]) /\ file[m] \in Seq(Word)
    <3>1. m \in DOMAIN file
      BY <1>1
    <3> QED BY <3>1 DEF Readable
  <2>3. read[m] \in Reading
    BY <1>4, <2>1, <2>2, ReadLineTyped
  <2>4. PICK d : /\ EntryIs(d, file[m], Len(file[m])) /\ ~read[m].hosts
                 /\ read[m].entries = Append(read[m - 1].entries, d)
    <3>1. read[m] = ReadLine(read[m - 1], file[m])
      BY <1>4
    <3>2. read[m - 1] \in Reading /\ ~read[m - 1].hosts
      BY <2>1
    <3>3. /\ ReadLine(read[m - 1], file[m]).hosts = FALSE
          /\ \E d : /\ EntryIs(d, file[m], Len(file[m]))
                    /\ ReadLine(read[m - 1], file[m]).entries = Append(read[m - 1].entries, d)
      BY <2>2, <3>2, LineEntry, Zenon
    <3> QED BY <3>1, <3>3, Zenon
  <2>5. read[m - 1].entries \in Seq(Entry) /\ d \in Entry
    BY <2>1, <2>4, DatabaseIs DEF Reading, EntryIs
  <2>6. Len(read[m].entries) = m
    BY <2>1, <2>4, <2>5
  <2>7. \A i \in 1 .. m : EntryIs(read[m].entries[i], file[i], Len(file[i]))
    <3> TAKE i \in 1 .. m
    <3>1. CASE i = m
      <4>1. read[m].entries[m] = d
        BY <2>1, <2>4, <2>5
      <4> QED BY <2>4, <3>1, <4>1
    <3>2. CASE i # m
      <4>1. i \in 1 .. m - 1
        BY <3>2
      <4>2. read[m].entries[i] = read[m - 1].entries[i]
        BY <2>1, <2>4, <2>5, <4>1
      <4> QED BY <2>1, <4>1, <4>2
    <3> QED BY <3>1, <3>2
  <2> QED BY <2>1, <2>3, <2>4, <2>6, <2>7
<1>7. 0 .. n \subseteq S
  <2> HIDE DEF S, n
  <2> QED BY <1>1, <1>5, <1>6, InductionUpTo
<1>8. Read(n)
  BY <1>1, <1>7
<1> QED
  BY <1>1, <1>2, <1>8

-----------------------------------------------------------------------------
(* Aliases.                                                                *)

\* what is scanned for an alias, where sub has the aliases in its lists
AliasHosts(db, broadcast, sub, a) ==
  UNION {ScanHostlist(db[i].hosts, sub, broadcast) :
           i \in {j \in DOMAIN db : db[j].type = "alias" /\ Match(a, db[j].key)}}

\* The hosts of every alias with 0 to MaxDepth levels of room.
Expanding(db, broadcast, expand) ==
  expand = [room \in 0 .. MaxDepth |->
              [a \in Alias |->
                 IF room = 0 THEN {} ELSE AliasHosts(db, broadcast, expand[room - 1], a)]]

\* IndirectAlias has those with MaxDepth levels.
LEMMA IndirectAliasExpands ==
  ASSUME NEW db, NEW broadcast
  PROVE  \E expand : /\ Expanding(db, broadcast, expand)
                     /\ IndirectAlias(db, broadcast) = expand[MaxDepth]
<1> DEFINE level(g, room) ==
             [a \in Alias |-> IF room = 0 THEN {} ELSE AliasHosts(db, broadcast, g[room - 1], a)]
           Fits(g, m) == g = [room \in 0 .. m |-> level(g, room)]
           S == {m \in 0 .. MaxDepth : \E g : Fits(g, m)}
<1>0. MaxDepth \in Nat
  BY AccessAssumption
<1>1. 0 \in S
  <2>1. Fits([room \in 0 .. 0 |-> [a \in Alias |-> {}]], 0)
    OBVIOUS
  <2> HIDE DEF Fits
  <2> QED BY <1>0, <2>1
<1>2. ASSUME NEW m \in 1 .. MaxDepth, m - 1 \in S PROVE m \in S
  <2>1. PICK g : Fits(g, m - 1)
    BY <1>2
  <2> DEFINE h == [room \in 0 .. m |-> IF room = m THEN level(g, m) ELSE g[room]]
  <2>2. \A room \in 1 .. m : room - 1 # m /\ room - 1 \in 0 .. m
    BY <1>0
  <2>3. \A room \in 0 .. m : room # 0 => h[room - 1] = g[room - 1]
    <3> HIDE DEF level
    <3> QED BY <1>0, <2>2
  <2>4. \A room \in 0 .. m : level(g, room) = level(h, room)
    <3> HIDE DEF h
    <3> QED BY <2>3
  <2>5. \A room \in 0 .. m : h[room] = level(g, room)
    <3> HIDE DEF level
    <3> QED BY <1>0, <2>1
  <2>6. h = [room \in 0 .. m |-> level(h, room)]
    <3>1. h = [room \in 0 .. m |-> h[room]]
      OBVIOUS
    <3> HIDE DEF h, level
    <3> QED BY <2>4, <2>5, <3>1
  <2> HIDE DEF h, level
  <2>7. Fits(h, m)
    BY <2>6
  <2> HIDE DEF Fits
  <2> QED BY <1>0, <2>7
<1>3. \E g : Fits(g, MaxDepth)
  <2>1. 0 .. MaxDepth \subseteq S
    <3> HIDE DEF S
    <3> QED BY <1>0, <1>1, <1>2, InductionUpTo
  <2> HIDE DEF Fits
  <2> QED BY <1>0, <2>1
<1>4. IndirectAlias(db, broadcast) = (CHOOSE g : Fits(g, MaxDepth))[MaxDepth]
  BY DEF IndirectAlias, AliasHosts
<1> DEFINE f == CHOOSE g : Fits(g, MaxDepth)
<1>5. Fits(f, MaxDepth)
  <2> HIDE DEF Fits
  <2> QED BY <1>3
<1>6. Expanding(db, broadcast, f)
  <2> HIDE DEF f
  <2> QED BY <1>5 DEF Expanding
<1> QED
  BY <1>4, <1>6
=============================================================================
