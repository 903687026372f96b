---------------------------- MODULE ChoiceProofs ----------------------------
(***************************************************************************)
(* Proofs about the query tables of Xdmcp: their types, and that a choice  *)
(* is honoured while it is fresh, for every set of clients and hosts,      *)
(* every access database and every timeout.                                *)
(***************************************************************************)
EXTENDS XdmcpProofs, AccessProofs

\* The types of the tables of queries.
QueryTypes ==
  /\ database \in Databases
  /\ indirectUsers \in SUBSET Address
  /\ choices \in Seq(Choice)
  /\ answer.hosts \subseteq Address \cup {"BROADCAST"}
  /\ reported \in [Address -> [choice : Address \cup {NoAddress}, time : Time]]

\* A client has one choice, the last that was reported of it, and has it while it is fresh.
ChoicesAgree ==
  /\ \A i, j \in 1 .. Len(choices) : choices[i].client = choices[j].client => i = j
  /\ \A i \in 1 .. Len(choices) :
       /\ reported[choices[i].client].choice = choices[i].choice
       /\ reported[choices[i].client].time = choices[i].time
  /\ \A a \in Address :
       reported[a].choice # NoAddress /\ Fresh(reported[a]) =>
         \E i \in 1 .. Len(choices) : choices[i].client = a

\* The inductive invariant of the tables of queries; time, and the clients of the children that
\* report choices, are in SessionTypes.
QueryInv == QueryTypes /\ ChoicesAgree

-----------------------------------------------------------------------------
(* Where indirect queries may go.                                          *)

\* The least of a set of numbers is one of them.
LEMMA LeastIn ==
  ASSUME NEW I, I \subseteq Nat, I # {}
  PROVE  Min(I) \in I
<1>1. \E x \in I : \A y \in I : x <= y
  BY LeastNumber
<1> QED
  BY <1>1 DEF Min

\* The entry that is looked up is one of the database.
LEMMA EntryFound ==
  ASSUME NEW db \in Seq(Entry), NEW client
  PROVE  IndirectEntry(db, client) # 0 => IndirectEntry(db, client) \in 1 .. Len(db)
<1> DEFINE I == {i \in 1 .. Len(db) : db[i].hosts # <<>> /\ About(db[i], client)}
<1>1. IndirectEntry(db, client) = IF I # {} THEN Min(I) ELSE 0
  BY DEF IndirectEntry, SelectInSeq
<1>2. I \subseteq Nat /\ I \subseteq 1 .. Len(db)
  OBVIOUS
<1> HIDE DEF I
<1>3. I # {} => Min(I) \in I
  BY <1>2, LeastIn
<1> QED
  BY <1>1, <1>2, <1>3

\* Of the hosts of an entry are scanned addresses, and "BROADCAST".
LEMMA ListKnown ==
  ASSUME NEW db \in Database, NEW i \in 1 .. Len(db), NEW broadcast, NEW sub,
         \A a \in Alias : sub[a] \subseteq Address \cup {"BROADCAST"}
  PROVE  ScanHostlist(db[i].hosts, sub, broadcast) \subseteq Address \cup {"BROADCAST"}
<1>1. db[i].hosts \in Seq(Host)
  <2>1. db \in Seq(Entry)
    BY DEF Database
  <2>2. db[i] \in Entry
    BY <2>1
  <2> QED BY <2>2 DEF Entry
<1>2. \A h \in ToSet(db[i].hosts) : h \in Host
  BY <1>1 DEF ToSet
<1>3. ASSUME NEW h \in Host PROVE ScanHost(h, sub, broadcast) \subseteq Address \cup {"BROADCAST"}
  <2>1. CASE h.type = "alias"
    <3>1. h.key \in Alias /\ ScanHost(h, sub, broadcast) = sub[h.key]
      BY <2>1 DEF Host, ScanHost
    <3> QED BY <3>1
  <2>2. CASE h.type = "address"
    <3>1. h.key \in Address /\ ScanHost(h, sub, broadcast) = {h.key}
      BY <2>2 DEF Host, ScanHost
    <3> QED BY <3>1
  <2>3. CASE h.type = "broadcast" /\ broadcast
    BY <2>3 DEF ScanHost
  <2>4. CASE h.type # "alias" /\ h.type # "address" /\ ~(h.type = "broadcast" /\ broadcast)
    BY <2>4 DEF ScanHost
  <2> QED BY <2>1, <2>2, <2>3, <2>4
<1> QED
  BY <1>2, <1>3 DEF ScanHostlist

\* So it is with the aliases.
LEMMA AliasKnown ==
  ASSUME NEW db \in Database, NEW broadcast, NEW a \in Alias
  PROVE  IndirectAlias(db, broadcast)[a] \subseteq Address \cup {"BROADCAST"}
<1>1. PICK expand : /\ Expanding(db, broadcast, expand)
                    /\ IndirectAlias(db, broadcast) = expand[MaxDepth]
  BY IndirectAliasExpands
<1> DEFINE S == {m \in 0 .. MaxDepth : \A c \in Alias : expand[m][c] \subseteq Address \cup {"BROADCAST"}}
<1>2. MaxDepth \in Nat
  BY AccessAssumption
<1>3. \A m \in 0 .. MaxDepth : \A c \in Alias :
        expand[m][c] = IF m = 0 THEN {} ELSE AliasHosts(db, broadcast, expand[m - 1], c)
  <2>1. expand = [m \in 0 .. MaxDepth |->
           [c \in Alias |-> IF m = 0 THEN {} ELSE AliasHosts(db, broadcast, expand[m - 1], c)]]
    BY <1>1 DEF Expanding
  <2>2. \A m \in 0 .. MaxDepth :
          expand[m] = [c \in Alias |-> IF m = 0 THEN {} ELSE AliasHosts(db, broadcast, expand[m - 1], c)]
    BY <2>1, Zenon
  <2> QED BY <2>2, Zenon
<1>4. 0 \in S
  BY <1>2, <1>3
<1>5. ASSUME NEW m \in 1 .. MaxDepth, m - 1 \in S PROVE m \in S
  <2>1. ASSUME NEW c \in Alias PROVE expand[m][c] \subseteq Address \cup {"BROADCAST"}
    <3> DEFINE sub == expand[m - 1]
    <3>1. expand[m][c] = AliasHosts(db, broadcast, sub, c)
      <4>1. m \in 0 .. MaxDepth /\ m # 0
        BY <1>2
      <4> QED BY <1>3, <4>1
    <3>2. \A b \in Alias : sub[b] \subseteq Address \cup {"BROADCAST"}
      BY <1>5
    <3>3. DOMAIN db = 1 .. Len(db)
      BY DEF Database
    <3> HIDE DEF sub
    <3>4. \A i \in DOMAIN db : ScanHostlist(db[i].hosts, sub, broadcast) \subseteq Address \cup {"BROADCAST"}
      BY <3>2, <3>3, ListKnown
    <3> QED BY <3>1, <3>4 DEF AliasHosts
  <2> QED BY <1>2, <2>1
<1>6. 0 .. MaxDepth \subseteq S
  <2> HIDE DEF S
  <2> QED BY <1>2, <1>4, <1>5, InductionUpTo
<1> QED
  BY <1>1, <1>2, <1>6

\* An indirect query goes to addresses, and with "BROADCAST" to all.
LEMMA ForwardKnown ==
  ASSUME NEW db \in Database, NEW client \in Address, NEW choice \in Address \cup {NoAddress}
  PROVE  ForEachMatchingIndirectHost(db, client, choice).forward \subseteq Address \cup {"BROADCAST"}
<1> DEFINE i == IndirectEntry(db, client)
           sub == IndirectAlias(db, FALSE)
<1>1. i # 0 => i \in 1 .. Len(db)
  BY EntryFound DEF Database
<1>2. \A a \in Alias : sub[a] \subseteq Address \cup {"BROADCAST"}
  BY AliasKnown
<1>3. CASE i = 0 \/ db[i].notAllowed
  BY <1>3 DEF ForEachMatchingIndirectHost, Nowhere
<1>4. CASE ~(i = 0 \/ db[i].notAllowed) /\ db[i].chooser
  <2>1. CASE choice = NoAddress \/ choice \in Local
    BY <1>4, <2>1 DEF ForEachMatchingIndirectHost, Nowhere
  <2>2. CASE ~(choice = NoAddress \/ choice \in Local)
    BY <1>4, <2>2 DEF ForEachMatchingIndirectHost, Nowhere
  <2> QED BY <2>1, <2>2
<1>5. CASE ~(i = 0 \/ db[i].notAllowed) /\ ~db[i].chooser
  <2>1. ForEachMatchingIndirectHost(db, client, choice) = Split(ScanHostlist(db[i].hosts, sub, FALSE))
    BY <1>5 DEF ForEachMatchingIndirectHost
  <2> HIDE DEF i, sub
  <2>2. ScanHostlist(db[i].hosts, sub, FALSE) \subseteq Address \cup {"BROADCAST"}
    BY <1>1, <1>2, <1>5, ListKnown
  <2>3. \A X : Split(X).forward = X \ Local
    BY DEF Split
  <2> QED BY <2>1, <2>2, <2>3, Zenon
<1> QED
  BY <1>3, <1>4, <1>5

-----------------------------------------------------------------------------
(* Looking up a choice.                                                    *)

\* the fresh choices of a client
FreshOf(client) == {k \in 1 .. Len(choices) : Fresh(choices[k]) /\ choices[k].client = client}

\* the place of the first of them, or 0
FirstOf(client) == IF FreshOf(client) # {} THEN Min(FreshOf(client)) ELSE 0

\* The choices that are left of the first k: those that were found to have timed out are gone.
Keeping(client, kept) ==
  kept = [k \in 0 .. Len(choices) |->
            IF k = 0 THEN <<>>
            ELSE IF (FirstOf(client) = 0 \/ k < FirstOf(client)) /\ ~Fresh(choices[k]) THEN kept[k - 1]
            ELSE Append(kept[k - 1], choices[k])]

\* IndirectChoice leaves those that are left of all.
LEMMA Kept ==
  ASSUME choices \in Seq(Choice), NEW client
  PROVE  \E kept : Keeping(client, kept) /\ IndirectChoice(client).rest = kept[Len(choices)]
<1> DEFINE n == Len(choices)
           i == FirstOf(client)
           level(g, k) == IF k = 0 THEN <<>>
                          ELSE IF (i = 0 \/ k < i) /\ ~Fresh(choices[k]) THEN g[k - 1]
                          ELSE Append(g[k - 1], choices[k])
           Fits(g, m) == g = [k \in 0 .. m |-> level(g, k)]
           S == {m \in 0 .. n : \E g : Fits(g, m)}
<1>0. n \in Nat
  OBVIOUS
<1>1. 0 \in S
  <2>1. Fits([k \in 0 .. 0 |-> <<>>], 0)
    OBVIOUS
  <2> HIDE DEF Fits
  <2> QED BY <1>0, <2>1
<1>2. ASSUME NEW m \in 1 .. n, m - 1 \in S PROVE m \in S
  <2>1. PICK g : Fits(g, m - 1)
    BY <1>2
  <2> DEFINE h == [k \in 0 .. m |-> IF k = m THEN level(g, m) ELSE g[k]]
  <2>2. \A k \in 1 .. m : k - 1 # m /\ k - 1 \in 0 .. m
    BY <1>0
  <2>3. \A k \in 0 .. m : k # 0 => h[k - 1] = g[k - 1]
    <3> HIDE DEF level
    <3> QED BY <1>0, <2>2
  <2>4. \A k \in 0 .. m : level(g, k) = level(h, k)
    <3> HIDE DEF h
    <3> QED BY <2>3
  <2>5. \A k \in 0 .. m : h[k] = level(g, k)
    <3> HIDE DEF level
    <3> QED BY <1>0, <2>1
  <2>6. h = [k \in 0 .. m |-> level(h, k)]
    <3>1. h = [k \in 0 .. m |-> h[k]]
      OBVIOUS
    <3> HIDE DEF h, level
    <3> QED BY <2>4, <2>5, <3>1
  <2> HIDE DEF h, level
  <2>7. Fits(h, m)
    BY <2>6
  <2> HIDE DEF Fits
  <2> QED BY <1>0, <2>7
<1>3. \E g : Fits(g, n)
  <2>1. 0 .. n \subseteq S
    <3> HIDE DEF S, n
    <3> QED BY <1>0, <1>1, <1>2, InductionUpTo
  <2> HIDE DEF Fits
  <2> QED BY <1>0, <2>1
<1>4. IndirectChoice(client).rest = (CHOOSE g : Fits(g, n))[n]
  BY DEF IndirectChoice, SelectInSeq, FirstOf, FreshOf
<1> DEFINE f == CHOOSE g : Fits(g, n)
<1>5. Fits(f, n)
  <2> HIDE DEF Fits
  <2> QED BY <1>3
<1>6. Keeping(client, f)
  <2> HIDE DEF f
  <2> QED BY <1>5 DEF Keeping
<1> QED
  BY <1>4, <1>6

\* no two choices are of the same client
OneEach(s) == \A i, j \in 1 .. Len(s) : s[i].client = s[j].client => i = j

\* What is left are choices, one of a client, and the fresh ones among them all.
LEMMA RestIs ==
  ASSUME choices \in Seq(Choice), OneEach(choices), NEW client
  PROVE  LET rest == IndirectChoice(client).rest
         IN  /\ rest \in Seq(Choice) /\ OneEach(rest)
             /\ \A j \in 1 .. Len(rest) : \E m \in 1 .. Len(choices) : rest[j] = choices[m]
             /\ \A m \in 1 .. Len(choices) :
                  Fresh(choices[m]) => \E j \in 1 .. Len(rest) : rest[j] = choices[m]
<1> DEFINE n == Len(choices)
<1>1. PICK kept : Keeping(client, kept) /\ IndirectChoice(client).rest = kept[n]
  BY Kept
<1> DEFINE Good(k) ==
      /\ kept[k] \in Seq(Choice) /\ OneEach(kept[k])
      /\ \A j \in 1 .. Len(kept[k]) : \E m \in 1 .. k : kept[k][j] = choices[m]
      /\ \A m \in 1 .. k : Fresh(choices[m]) => \E j \in 1 .. Len(kept[k]) : kept[k][j] = choices[m]
           S == {k \in 0 .. n : Good(k)}
<1>2. n \in Nat /\ \A k \in 1 .. n : choices[k] \in Choice
  OBVIOUS
<1>3. \A k \in 0 .. n :
        /\ k = 0 => kept[k] = <<>>
        /\ k # 0 => \/ ~Fresh(choices[k]) /\ kept[k] = kept[k - 1]
                    \/ kept[k] = Append(kept[k - 1], choices[k])
  <2>1. \A k \in 0 .. n :
          kept[k] = IF k = 0 THEN <<>>
            ELSE IF (FirstOf(client) = 0 \/ k < FirstOf(client)) /\ ~Fresh(choices[k]) THEN kept[k - 1]
            ELSE Append(kept[k - 1], choices[k])
    BY <1>1, Zenon DEF Keeping
  <2> QED BY <2>1
<1>4. 0 \in S
  <2>1. kept[0] = <<>>
    BY <1>2, <1>3
  <2>2. <<>> \in Seq(Choice) /\ Len(<<>>) = 0 /\ 1 .. 0 = {}
    OBVIOUS
  <2>3. Good(0)
    BY <2>1, <2>2 DEF OneEach
  <2> QED BY <1>2, <2>3
<1>5. ASSUME NEW k \in 1 .. n, k - 1 \in S PROVE k \in S
  <2> DEFINE old == kept[k - 1]
             new == kept[k]
             c == choices[k]
  <2>1. /\ old \in Seq(Choice) /\ OneEach(old)
        /\ \A j \in 1 .. Len(old) : \E m \in 1 .. k - 1 : old[j] = choices[m]
        /\ \A m \in 1 .. k - 1 : Fresh(choices[m]) => \E j \in 1 .. Len(old) : old[j] = choices[m]
    BY <1>5
  <2>2. k \in 0 .. n /\ k # 0 /\ \A m \in 1 .. k : m = k \/ m \in 1 .. k - 1
    BY <1>2
  <2>3. c \in Choice
    BY <1>2
  <2>4. CASE ~Fresh(c) /\ new = old
    <3> HIDE DEF old, new, c
    <3>1. \A m \in 1 .. k : Fresh(choices[m]) => m \in 1 .. k - 1
      BY <2>2, <2>4 DEF c
    <3>2. \A m \in 1 .. k - 1 : m \in 1 .. k
      BY <1>2
    <3>3. Good(k)
      BY <2>1, <2>4, <3>1, <3>2 DEF new
    <3> QED BY <2>2, <3>3
  <2>5. CASE new = Append(old, c)
    <3> HIDE DEF old, new, c
    <3>1. /\ new \in Seq(Choice) /\ Len(new) = Len(old) + 1 /\ new[Len(old) + 1] = c
          /\ \A j \in 1 .. Len(old) : new[j] = old[j]
      BY <2>1, <2>3, <2>5, AppendProperties
    <3>2. Len(old) \in Nat
      BY <2>1
    <3>3. \A j \in 1 .. Len(new) : j = Len(old) + 1 \/ j \in 1 .. Len(old)
      BY <3>1, <3>2
    <3>4. \A j \in 1 .. Len(old) : j \in 1 .. Len(new) /\ Len(old) + 1 \in 1 .. Len(new)
      BY <3>1, <3>2
    <3>5. \A j \in 1 .. Len(old) : old[j].client # c.client
      <4>1. \A m \in 1 .. k - 1 : choices[m].client # choices[k].client
        BY <1>2 DEF OneEach
      <4> QED BY <2>1, <4>1 DEF c
    <3>6. OneEach(new)
      <4> SUFFICES ASSUME NEW i \in 1 .. Len(new), NEW j \in 1 .. Len(new),
                          new[i].client = new[j].client
                   PROVE  i = j
        BY DEF OneEach
      <4>1. CASE i \in 1 .. Len(old) /\ j \in 1 .. Len(old)
        BY <2>1, <3>1, <4>1 DEF OneEach
      <4>2. CASE i = Len(old) + 1 \/ j = Len(old) + 1
        BY <3>1, <3>3, <3>5, <4>2
      <4> QED BY <3>3, <4>1, <4>2
    <3>7. \A j \in 1 .. Len(new) : \E m \in 1 .. k : new[j] = choices[m]
      BY <1>2, <2>1, <3>1, <3>3 DEF c
    <3>8. \A m \in 1 .. k : Fresh(choices[m]) => \E j \in 1 .. Len(new) : new[j] = choices[m]
      <4>1. Len(old) + 1 \in 1 .. Len(new) /\ new[Len(old) + 1] = choices[k]
        BY <3>1, <3>2 DEF c
      <4> QED BY <2>1, <2>2, <3>1, <3>4, <4>1
    <3>9. Good(k)
      BY <3>1, <3>6, <3>7, <3>8 DEF new
    <3> QED BY <2>2, <3>9
  <2>6. (~Fresh(c) /\ new = old) \/ new = Append(old, c)
    BY <1>3, <2>2
  <2> QED BY <2>4, <2>5, <2>6
<1>6. 0 .. n \subseteq S
  <2> HIDE DEF S, n
  <2> QED BY <1>2, <1>4, <1>5, InductionUpTo
<1>7. Good(n)
  BY <1>2, <1>6
<1> QED
  BY <1>1, <1>7

\* the last choice that was reported of a client has not timed out
Remembered(client) == reported[client].choice # NoAddress /\ Fresh(reported[client])

\* What is found for a client is an address or none, and its last choice while that is fresh.
LEMMA ChoiceFound ==
  ASSUME QueryInv, NEW client \in Address
  PROVE  /\ IndirectChoice(client).choice \in Address \cup {NoAddress}
         /\ Remembered(client) => IndirectChoice(client).choice = reported[client].choice
<1> DEFINE i == FirstOf(client)
<1>1. IndirectChoice(client).choice = IF i = 0 THEN NoAddress ELSE choices[i].choice
  BY DEF IndirectChoice, SelectInSeq, FirstOf, FreshOf
<1>2. choices \in Seq(Choice)
  BY DEF QueryInv, QueryTypes
<1>3. FreshOf(client) \subseteq 1 .. Len(choices) /\ FreshOf(client) \subseteq Nat
  BY <1>2 DEF FreshOf
<1>4. i # 0 => i \in FreshOf(client)
  BY <1>3, LeastIn DEF FirstOf
<1>5. FreshOf(client) # {} => i # 0
  BY <1>3, LeastIn DEF FirstOf
<1> HIDE DEF i
<1>6. \A k \in 1 .. Len(choices) : choices[k].choice \in Address
  <2>1. \A k \in 1 .. Len(choices) : choices[k] \in Choice
    BY <1>2
  <2> QED BY <2>1 DEF Choice
<1>7. i # 0 => choices[i].choice \in Address /\ choices[i].client = client
  BY <1>3, <1>4, <1>6 DEF FreshOf
<1>8. ASSUME Remembered(client) PROVE i # 0 /\ choices[i].choice = reported[client].choice
  <2>1. PICK k \in 1 .. Len(choices) : choices[k].client = client
    BY <1>8 DEF QueryInv, ChoicesAgree, Remembered
  <2>2. choices[k].time = reported[client].time
    BY <2>1 DEF QueryInv, ChoicesAgree
  <2>3. k \in FreshOf(client)
    BY <1>8, <2>1, <2>2 DEF FreshOf, Remembered, Fresh
  <2>4. i \in 1 .. Len(choices) /\ choices[i].client = client
    BY <1>3, <1>4, <1>5, <1>7, <2>3
  <2> QED BY <1>5, <2>3, <2>4 DEF QueryInv, ChoicesAgree
<1> QED
  BY <1>1, <1>7, <1>8

\* A choice that is registered replaces that of its client, or is added; the others stay.
LEMMA Registered ==
  ASSUME choices \in Seq(Choice), OneEach(choices), NEW client \in Address, NEW choice \in Address,
         now \in Time
  PROVE  LET after == RegisterIndirectChoice(client, choice)
             new == [client |-> client, choice |-> choice, time |-> now]
         IN  /\ after \in Seq(Choice) /\ OneEach(after)
             /\ \A j \in 1 .. Len(after) :
                  \/ after[j] = new
                  \/ after[j].client # client /\ \E m \in 1 .. Len(choices) : after[j] = choices[m]
             /\ \E j \in 1 .. Len(after) : after[j] = new
             /\ \A m \in 1 .. Len(choices) :
                  choices[m].client # client => \E j \in 1 .. Len(after) : after[j] = choices[m]
<1> DEFINE new == [client |-> client, choice |-> choice, time |-> now]
           I == {k \in 1 .. Len(choices) : choices[k].client = client}
           i == IF I # {} THEN Min(I) ELSE 0
           after == RegisterIndirectChoice(client, choice)
<1>1. after = IF i # 0 THEN [choices EXCEPT ![i] = new] ELSE <<new>> \o choices
  BY DEF RegisterIndirectChoice, SelectInSeq
<1>2. new \in Choice /\ new.client = client
  BY DEF Choice
<1>3. I \subseteq Nat /\ (i # 0 => i \in I) /\ (i = 0 => I = {})
  <2>1. I \subseteq Nat /\ 0 \notin I
    OBVIOUS
  <2> HIDE DEF I
  <2>2. I # {} => Min(I) \in I
    BY <2>1, LeastIn
  <2> QED BY <2>1, <2>2
<1> HIDE DEF new, i, after
<1>4. CASE i # 0
  <2>1. i \in 1 .. Len(choices) /\ choices[i].client = client
    BY <1>3, <1>4
  <2>2. /\ after \in Seq(Choice) /\ Len(after) = Len(choices)
        /\ \A j \in 1 .. Len(choices) : after[j] = IF j = i THEN new ELSE choices[j]
    BY <1>1, <1>2, <1>4, <2>1, ExceptSeq
  <2>3. \A j \in 1 .. Len(choices) : j # i => choices[j].client # client
    BY <2>1 DEF OneEach
  <2>4. OneEach(after)
    BY <1>2, <2>1, <2>2, <2>3 DEF OneEach
  <2>5. \A j \in 1 .. Len(after) :
          \/ after[j] = new
          \/ after[j].client # client /\ \E m \in 1 .. Len(choices) : after[j] = choices[m]
    BY <2>2, <2>3
  <2>6. \E j \in 1 .. Len(after) : after[j] = new
    BY <2>1, <2>2
  <2>7. \A m \in 1 .. Len(choices) :
          choices[m].client # client => \E j \in 1 .. Len(after) : after[j] = choices[m]
    BY <2>1, <2>2
  <2> QED BY <2>2, <2>4, <2>5, <2>6, <2>7 DEF new, after
<1>5. CASE i = 0
  <2>1. \A j \in 1 .. Len(choices) : choices[j].client # client
    BY <1>3, <1>5
  <2>2. <<new>> \in Seq(Choice) /\ Len(<<new>>) = 1 /\ <<new>>[1] = new /\ Len(choices) \in Nat
    BY <1>2
  <2>3. after = <<new>> \o choices
    BY <1>1, <1>5
  <2>4. /\ after \in Seq(Choice) /\ Len(after) = 1 + Len(choices)
        /\ \A j \in 1 .. 1 + Len(choices) : after[j] = IF j <= 1 THEN new ELSE choices[j - 1]
    <3>1. /\ <<new>> \o choices \in Seq(Choice)
          /\ Len(<<new>> \o choices) = Len(<<new>>) + Len(choices)
          /\ \A j \in 1 .. Len(<<new>>) + Len(choices) :
               (<<new>> \o choices)[j] = IF j <= Len(<<new>>) THEN <<new>>[j] ELSE choices[j - Len(<<new>>)]
      BY <2>2, ConcatProperties
    <3> QED BY <2>2, <2>3, <3>1
  <2>5. /\ 1 \in 1 .. Len(after) /\ after[1] = new
        /\ \A j \in 1 .. Len(after) :
             j = 1 \/ (j - 1 \in 1 .. Len(choices) /\ after[j] = choices[j - 1])
        /\ \A m \in 1 .. Len(choices) : m + 1 \in 1 .. Len(after) /\ after[m + 1] = choices[m]
    BY <2>2, <2>4
  <2>6. OneEach(after)
    <3> SUFFICES ASSUME NEW j \in 1 .. Len(after), NEW k \in 1 .. Len(after),
                        after[j].client = after[k].client
                 PROVE  j = k
      BY DEF OneEach
    <3>1. CASE j = 1 \/ k = 1
      BY <1>2, <2>1, <2>5, <3>1
    <3>2. CASE j # 1 /\ k # 1
      <4>1. j - 1 = k - 1
        BY <2>5, <3>2 DEF OneEach
      <4> QED BY <2>4, <4>1
    <3> QED BY <3>1, <3>2
  <2>7. \A j \in 1 .. Len(after) :
          \/ after[j] = new
          \/ after[j].client # client /\ \E m \in 1 .. Len(choices) : after[j] = choices[m]
    BY <2>1, <2>5
  <2>8. \A m \in 1 .. Len(choices) : \E j \in 1 .. Len(after) : after[j] = choices[m]
    BY <2>5
  <2> QED BY <2>4, <2>5, <2>6, <2>7, <2>8 DEF new, after
<1> QED
  BY <1>4, <1>5

-----------------------------------------------------------------------------
(* The invariant holds and stays.                                          *)

\* Nothing was chosen when the master was started.
LEMMA QueryInit == Init => QueryInv
<1> SUFFICES ASSUME Init PROVE QueryInv
  OBVIOUS
<1>1. /\ choices = <<>> /\ reported = [a \in Address |-> NoReport] /\ answer = NoAnswer
      /\ indirectUsers = {} /\ database \in Databases
  BY DEF Init
<1>2. QueryTypes
  BY <1>1, XdmcpAssumption DEF QueryTypes, NoReport, NoAnswer, Time
<1>3. ChoicesAgree
  BY <1>1 DEF ChoicesAgree, NoReport
<1> QED
  BY <1>2, <1>3 DEF QueryInv

\* While nothing is reported, choices that have timed out may go, and time may pass.
LEMMA ChoicesStay ==
  ASSUME QueryInv, now \in Nat, now' \in Nat, now <= now', UNCHANGED reported, NEW client,
         choices' = choices \/ (choices' = IndirectChoice(client).rest /\ now' = now)
  PROVE  choices' \in Seq(Choice) /\ ChoicesAgree'
<1>1. choices \in Seq(Choice) /\ OneEach(choices)
  BY DEF QueryInv, QueryTypes, ChoicesAgree, OneEach
<1>2. /\ choices' \in Seq(Choice) /\ OneEach(choices')
      /\ \A j \in 1 .. Len(choices') : \E m \in 1 .. Len(choices) : choices'[j] = choices[m]
      /\ \A m \in 1 .. Len(choices) :
           Fresh(choices[m]) => \E j \in 1 .. Len(choices') : choices'[j] = choices[m]
  <2>1. CASE choices' = choices
    BY <1>1, <2>1
  <2>2. CASE choices' = IndirectChoice(client).rest
    BY <1>1, <2>2, RestIs
  <2> QED BY <2>1, <2>2
<1>3. \A j \in 1 .. Len(choices') :
        /\ reported'[choices'[j].client].choice = choices'[j].choice
        /\ reported'[choices'[j].client].time = choices'[j].time
  BY <1>2 DEF QueryInv, ChoicesAgree
<1>4. ASSUME NEW a \in Address, reported[a].choice # NoAddress, now' - reported[a].time <= ChoiceTimeout
      PROVE  \E j \in 1 .. Len(choices') : choices'[j].client = a
  <2>1. reported[a].time \in Nat /\ ChoiceTimeout \in Nat
    BY XdmcpAssumption DEF QueryInv, QueryTypes, Time
  <2>2. now - reported[a].time <= ChoiceTimeout
    BY <1>4, <2>1
  <2>3. PICK m \in 1 .. Len(choices) : choices[m].client = a
    BY <1>4, <2>2 DEF QueryInv, ChoicesAgree, Fresh
  <2>4. choices[m].time = reported[a].time
    BY <2>3 DEF QueryInv, ChoicesAgree
  <2>5. \E j \in 1 .. Len(choices') : choices'[j] = choices[m]
    BY <1>2, <2>2, <2>4 DEF Fresh
  <2> QED BY <2>3, <2>5
<1> QED
  BY <1>2, <1>3, <1>4 DEF ChoicesAgree, OneEach, Fresh

\* A choice that is reported is that of its client from then on.
LEMMA ChooserReportsQuery ==
  ASSUME SessionTypes, QueryInv, NEW s \in processes, NEW choice \in Choosable,
         ChooserReports(s, choice)
  PROVE  QueryInv'
<1> DEFINE client == s.client
           new == [client |-> client, choice |-> choice, time |-> now]
<1>1. client \in Address /\ choice \in Address /\ now \in Time
  BY XdmcpAssumption DEF SessionTypes, Process
<1>2. choices \in Seq(Choice) /\ OneEach(choices)
  BY DEF QueryInv, QueryTypes, ChoicesAgree, OneEach
<1>3. /\ choices' = RegisterIndirectChoice(client, choice)
      /\ reported' = [reported EXCEPT ![client] = [choice |-> choice, time |-> now]]
      /\ answer' = NoAnswer /\ now' = now /\ UNCHANGED <<database, indirectUsers>>
  BY DEF ChooserReports
<1> HIDE DEF client, new
<1>4. /\ choices' \in Seq(Choice) /\ OneEach(choices')
      /\ \A j \in 1 .. Len(choices') :
           \/ choices'[j] = new
           \/ choices'[j].client # client /\ \E m \in 1 .. Len(choices) : choices'[j] = choices[m]
      /\ \E j \in 1 .. Len(choices') : choices'[j] = new
      /\ \A m \in 1 .. Len(choices) :
           choices[m].client # client => \E j \in 1 .. Len(choices') : choices'[j] = choices[m]
  BY <1>1, <1>2, <1>3, Registered DEF new
<1>5. reported \in [Address -> [choice : Address \cup {NoAddress}, time : Time]]
  BY DEF QueryInv, QueryTypes
<1>6. /\ reported' \in [Address -> [choice : Address \cup {NoAddress}, time : Time]]
      /\ reported'[client] = [choice |-> choice, time |-> now]
      /\ \A a \in Address : a # client => reported'[a] = reported[a]
  BY <1>1, <1>3, <1>5
<1>7. QueryTypes'
  BY <1>3, <1>4, <1>6 DEF QueryInv, QueryTypes, NoAnswer
<1>8. new.client = client /\ new.choice = choice /\ new.time = now
  BY DEF new
<1>9. ASSUME NEW j \in 1 .. Len(choices')
      PROVE  /\ reported'[choices'[j].client].choice = choices'[j].choice
             /\ reported'[choices'[j].client].time = choices'[j].time
  <2>1. CASE choices'[j] = new
    BY <1>6, <1>8, <2>1
  <2>2. CASE choices'[j] # new
    <3>1. PICK m \in 1 .. Len(choices) : choices'[j] = choices[m] /\ choices[m].client # client
      BY <1>4, <2>2
    <3>2. choices[m] \in Choice
      BY <1>2
    <3>3. choices[m].client \in Address
      BY <3>2 DEF Choice
    <3> QED BY <1>6, <3>1, <3>3 DEF QueryInv, ChoicesAgree
  <2> QED BY <2>1, <2>2
<1>10. ASSUME NEW a \in Address, reported'[a].choice # NoAddress,
              now' - reported'[a].time <= ChoiceTimeout
       PROVE  \E j \in 1 .. Len(choices') : choices'[j].client = a
  <2>1. CASE a = client
    BY <1>4, <1>8, <2>1
  <2>2. CASE a # client
    <3>1. PICK m \in 1 .. Len(choices) : choices[m].client = a
      BY <1>3, <1>6, <1>10, <2>2 DEF QueryInv, ChoicesAgree, Fresh
    <3> QED BY <1>4, <2>2, <3>1
  <2> QED BY <2>1, <2>2
<1>11. ChoicesAgree'
  BY <1>4, <1>9, <1>10 DEF ChoicesAgree, OneEach, Fresh
<1> QED
  BY <1>7, <1>11 DEF QueryInv

\* What an indirect query changes: the choices that have timed out, and whom it is answered by.
LEMMA IndirectQueryQuery ==
  ASSUME SessionTypes, QueryInv, NEW e \in End, IndirectQuery(e)
  PROVE  QueryInv'
<1> DEFINE client == ClientOf[e]
           choice == IndirectChoice(client).choice
           to == ForEachMatchingIndirectHost(database, client, choice)
<1>1. client \in Address /\ LocalHost \in Address
  BY XdmcpAssumption, AccessAssumption
<1>2. database \in Database
  BY XdmcpAssumption DEF QueryInv, QueryTypes
<1>3. choice \in Address \cup {NoAddress}
  BY <1>1, ChoiceFound
<1>4. to.forward \subseteq Address \cup {"BROADCAST"}
  <2> HIDE DEF client, choice
  <2> QED BY <1>1, <1>2, <1>3, ForwardKnown
<1>5. /\ choices' = choices \/ choices' = IndirectChoice(client).rest
      /\ indirectUsers' = indirectUsers \cup (IF to.localHostAsWell THEN {client} ELSE {})
      /\ answer'.hosts \subseteq to.forward \cup {LocalHost}
      /\ UNCHANGED <<database, now, reported>>
  BY DEF IndirectQuery, ChoicesAfter
<1> HIDE DEF client, choice, to
<1>6. now \in Nat /\ now' \in Nat /\ now <= now'
  BY <1>5 DEF SessionTypes, Time
<1>7. choices' \in Seq(Choice) /\ ChoicesAgree'
  BY <1>5, <1>6, ChoicesStay
<1>8. QueryTypes'
  BY <1>1, <1>4, <1>5, <1>7 DEF QueryInv, QueryTypes
<1> QED
  BY <1>7, <1>8 DEF QueryInv

\* Every step keeps the invariant.
LEMMA QueryNext == SessionInv /\ QueryInv /\ [Next]_vars => QueryInv'
<1> SUFFICES ASSUME SessionInv, QueryInv, [Next]_vars
             PROVE  QueryInv'
  OBVIOUS
<1>1. SessionTypes /\ now \in Nat
  BY DEF SessionInv, SessionTypes, Time
<1>2. ASSUME /\ answer' = NoAnswer \/ answer' = answer
             /\ indirectUsers' \subseteq indirectUsers
             /\ database' \in Databases /\ reported' = reported
             /\ now' \in Nat /\ now <= now'
             /\ \/ choices' = choices
                \/ now' = now /\ \E client \in Address : choices' = IndirectChoice(client).rest
      PROVE  QueryInv'
  <2>1. choices' \in Seq(Choice) /\ ChoicesAgree'
    BY <1>1, <1>2, ChoicesStay
  <2>2. QueryTypes'
    BY <1>2, <2>1 DEF QueryInv, QueryTypes, NoAnswer
  <2> QED BY <2>1, <2>2 DEF QueryInv
<1>3. database \in Databases
  BY DEF QueryInv, QueryTypes
<1>4. ASSUME NEW e \in End, DirectQuery(e) \/ \E sayable \in Families : ForwardQuery(e, sayable)
      PROVE  QueryInv'
  BY <1>1, <1>2, <1>3, <1>4 DEF DirectQuery, ForwardQuery, AllQueryRespond
<1>5. ASSUME NEW e \in End, IndirectQuery(e) PROVE QueryInv'
  BY <1>1, <1>5, IndirectQueryQuery
<1>6. ASSUME NEW e \in End, NEW authentic \in BOOLEAN, Request(e, authentic) PROVE QueryInv'
  <2>1. answer' = NoAnswer /\ UNCHANGED <<database, now, indirectUsers, choices, reported>>
    BY <1>6 DEF Request
  <2> QED BY <1>1, <1>2, <1>3, <2>1
<1>7. ASSUME NEW a \in accepts, ManageRefused(a) PROVE QueryInv'
  BY <1>1, <1>2, <1>3, <1>7 DEF ManageRefused
<1>8. ASSUME NEW p \in protos, ManageFailed(p) PROVE QueryInv'
  BY <1>1, <1>2, <1>3, <1>8 DEF ManageFailed
<1>9. ASSUME NEW p \in protos, NEW forked \in BOOLEAN, ManageStarts(p, forked) PROVE QueryInv'
  <2>1. ClientOf[p.end] \in Address
    BY <1>1, XdmcpAssumption DEF SessionTypes, Proto
  <2>2. /\ answer' = NoAnswer /\ indirectUsers' \subseteq indirectUsers
        /\ UNCHANGED <<database, now, reported>>
        /\ choices' = choices \/ choices' = IndirectChoice(ClientOf[p.end]).rest
    BY <1>9 DEF ManageStarts, ChoicesAfter
  <2> QED BY <1>1, <1>2, <1>3, <2>1, <2>2
<1>10. ASSUME NEW s \in processes, NEW openFailed \in BOOLEAN, SessionExits(s, openFailed)
       PROVE  QueryInv'
  BY <1>1, <1>2, <1>3, <1>10 DEF SessionExits
<1>11. ASSUME NEW s \in processes, NEW choice \in Choosable, ChooserReports(s, choice)
       PROVE  QueryInv'
  BY <1>1, <1>11, ChooserReportsQuery
<1>12. ASSUME NEW id \in Id, KeepAlive(id) PROVE QueryInv'
  BY <1>1, <1>2, <1>3, <1>12 DEF KeepAlive
<1>13. CASE Rescan
  BY <1>1, <1>2, <1>13 DEF Rescan
<1>14. CASE Restart
  <2>1. /\ indirectUsers' = {} /\ choices' = <<>> /\ answer' = NoAnswer
        /\ reported' = [a \in Address |-> NoReport] /\ database' \in Databases
    BY <1>14 DEF Restart
  <2>2. QueryTypes'
    BY <2>1, XdmcpAssumption DEF QueryTypes, NoReport, NoAnswer, Time
  <2>3. ChoicesAgree'
    BY <2>1 DEF ChoicesAgree, NoReport
  <2> QED BY <2>2, <2>3 DEF QueryInv
<1>15. CASE Tick
  BY <1>1, <1>2, <1>3, <1>15 DEF Tick
<1>16. CASE UNCHANGED vars
  BY <1>1, <1>2, <1>3, <1>16 DEF vars, queryVars
<1> QED
  BY <1>4, <1>5, <1>6, <1>7, <1>8, <1>9, <1>10, <1>11, <1>12, <1>13, <1>14, <1>15, <1>16 DEF Next

\* Both invariants hold in every reachable state.
THEOREM QueryInvariance == Spec => [](SessionInv /\ QueryInv)
BY InitInv, NextInv, QueryInit, QueryNext, PTL DEF Spec

\* Every table of the master keeps its type, for every set of terminals and every access
\* database.
THEOREM MasterTypes == Spec => []TypeOK
<1>1. SessionInv /\ QueryInv => TypeOK
  BY DEF SessionInv, QueryInv, QueryTypes, TypeOK
<1> QED
  BY <1>1, QueryInvariance, PTL

\* A step never forwards an indirect query elsewhere than to the choice of the client, nor shows
\* it another chooser, while the choice is fresh: for every database and however choices are
\* reported, time out and are looked up.
THEOREM ChoicesHonoured == Spec => ChoiceHonoured
<1>1. ASSUME SessionInv, QueryInv, [Next]_vars
      PROVE  [Honoured]_vars
  <2>1. SessionTypes /\ NoAnswer.client = NoAddress
    BY <1>1 DEF SessionInv, NoAnswer
  <2>2. ASSUME answer' = NoAnswer, displays' \subseteq displays
        PROVE  Honoured
    BY <2>1, <2>2 DEF Honoured
  <2>3. ASSUME NEW e \in End, IndirectQuery(e) PROVE Honoured
    <3> DEFINE client == ClientOf[e]
               choice == IndirectChoice(client).choice
               to == ForEachMatchingIndirectHost(database, client, choice)
    <3>1. answer'.client = client /\ displays' = displays
      BY <2>3 DEF IndirectQuery, sessionVars
    <3>2. answer'.hosts = to.forward \cup
            (IF to.localHostAsWell /\ AcceptableDisplayAddress(database, client, "INDIRECT_QUERY")
               THEN {LocalHost} ELSE {})
      BY <2>3 DEF IndirectQuery
    <3>3. AcceptableDisplayAddress(database, client, "INDIRECT_QUERY")
      BY DEF AcceptableDisplayAddress
    <3>4. client \in Address
      BY XdmcpAssumption
    <3>5. ASSUME Chooses(client), Remembered(client)
          PROVE  answer'.hosts = IF reported[client].choice \in Local THEN {LocalHost}
                                 ELSE {reported[client].choice}
      <4>1. choice = reported[client].choice /\ choice # NoAddress
        BY <1>1, <3>4, <3>5, ChoiceFound DEF Remembered
      <4>2. to = IF choice \in Local THEN [Nowhere EXCEPT !.localHostAsWell = TRUE]
                 ELSE [Nowhere EXCEPT !.forward = {choice}]
        BY <3>5, <4>1 DEF Chooses, ForEachMatchingIndirectHost
      <4> HIDE DEF client, choice, to
      <4>3. CASE choice \in Local
        <5>1. to.forward = {} /\ to.localHostAsWell
          BY <4>2, <4>3 DEF Nowhere
        <5> QED BY <3>2, <3>3, <4>1, <4>3, <5>1
      <4>4. CASE choice \notin Local
        <5>1. to.forward = {choice} /\ ~to.localHostAsWell
          BY <4>2, <4>4 DEF Nowhere
        <5> QED BY <3>2, <4>1, <4>4, <5>1
      <4> QED BY <4>3, <4>4
    <3> HIDE DEF client, choice, to
    <3> QED BY <3>1, <3>5 DEF Honoured, Remembered
  <2>4. ASSUME NEW p \in protos, NEW forked \in BOOLEAN, ManageStarts(p, forked) PROVE Honoured
    <3> DEFINE client == ClientOf[p.end]
               chooser == client \in indirectUsers
                            /\ UseChooser(database, client, IndirectChoice(client).choice)
               new == [end |-> p.end, id |-> p.id, auth |-> p.auth, chooser |-> chooser,
                       running |-> forked]
    <3>1. /\ answer' = NoAnswer /\ displays' = (displays \ Replaced(p)) \cup {new}
      BY <2>4 DEF ManageStarts
    <3>2. client \in Address
      BY <2>1, XdmcpAssumption DEF SessionTypes, Proto
    <3>3. chooser => ~Remembered(client)
      <4>1. chooser => IndirectChoice(client).choice = NoAddress
        BY DEF UseChooser
      <4> HIDE DEF client, chooser
      <4> QED BY <1>1, <3>2, <4>1, ChoiceFound DEF Remembered
    <3>4. new.end = p.end /\ new.chooser = chooser
      OBVIOUS
    <3> HIDE DEF chooser, new
    <3>5. \A d \in displays' \ displays : d = new
      BY <3>1
    <3> QED BY <2>1, <3>1, <3>3, <3>4, <3>5 DEF Honoured, Remembered
  <2>5. ASSUME NEW e \in End,
               \/ DirectQuery(e) \/ \E sayable \in Families : ForwardQuery(e, sayable)
               \/ \E authentic \in BOOLEAN : Request(e, authentic)
        PROVE  Honoured
    BY <2>2, <2>5 DEF DirectQuery, ForwardQuery, AllQueryRespond, Request, sessionVars
  <2>6. ASSUME NEW a \in accepts, ManageRefused(a) PROVE Honoured
    BY <2>2, <2>6 DEF ManageRefused
  <2>7. ASSUME NEW p \in protos, ManageFailed(p) PROVE Honoured
    BY <2>2, <2>7 DEF ManageFailed
  <2>8. ASSUME NEW s \in processes, \/ \E openFailed \in BOOLEAN : SessionExits(s, openFailed)
                                    \/ \E choice \in Choosable : ChooserReports(s, choice)
        PROVE  Honoured
    BY <2>2, <2>8 DEF SessionExits, ChooserReports, sessionVars
  <2>9. ASSUME NEW id \in Id, KeepAlive(id) PROVE Honoured
    BY <2>2, <2>9 DEF KeepAlive
  <2>10. ASSUME Rescan \/ Restart \/ Tick PROVE Honoured
    BY <2>2, <2>10 DEF Rescan, Restart, Tick, sessionVars
  <2> QED
    BY <1>1, <2>3, <2>4, <2>5, <2>6, <2>7, <2>8, <2>9, <2>10 DEF Next
<1> QED
  BY <1>1, QueryInvariance, PTL DEF Spec, ChoiceHonoured
=============================================================================
