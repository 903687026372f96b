---------------------------- MODULE XdmcpProofs ----------------------------
(***************************************************************************)
(* Proofs about Xdmcp: the tables of sessions agree, what a terminal was   *)
(* told is true, and the master implements module Sessions, for every set  *)
(* of terminals and every value of the timeouts and bounds.                *)
(***************************************************************************)
EXTENDS Xdmcp, TLAPS

\* Every id in a table was given to the terminal the table has with it, ids in order.
Owned ==
  /\ \A p \in protos : owner[p.id] = p.end
  /\ \A d \in displays : owner[d.id] = d.end
  /\ \A a \in accepts : owner[a.id] = a.end
  /\ \A s \in processes : owner[s.id] # NoEnd
  /\ \A i \in over \cup begun : owner[i] # NoEnd
  /\ \A i \in Id : owner[i] # NoEnd => i <= lastId

\* A protoDisplay is the newest offer to its terminal; nothing has come of it yet.
OffersOpen ==
  \A p \in protos :
    /\ \A i \in Id : owner[i] = p.end => i <= p.id
    /\ p.id \notin begun
    /\ p.id \in over => NameOf(p.end) = NoName
    /\ \A s \in processes : s.id # p.id

\* What a protoDisplay has of authorizations is that of its last ACCEPT.
OffersAuthorized ==
  \A p \in protos :
    /\ p.auth <= lastAuth
    /\ Authorizes[p.end] # "known" => p.auth = 0
    /\ \A a \in accepts : a.id = p.id => a.auth <= p.auth
    /\ \E a \in accepts : a.end = p.end /\ a.id = p.id /\ a.auth = p.auth

\* The inductive invariant.
SessionInv ==
  /\ SessionTypes /\ Owned /\ OffersOpen /\ OffersAuthorized
  /\ RecordsAgree /\ OverIsFinal /\ AuthorizationAgreed

-----------------------------------------------------------------------------
(* The invariant holds and stays.                                          *)

\* The invariant holds in a master that was just started.
LEMMA InitInv == Init => SessionInv
BY XdmcpAssumption DEF Init, SessionInv, SessionTypes, Owned, OffersOpen, OffersAuthorized,
  RecordsAgree, OverIsFinal, AuthorizationAgreed, Id, Time

\* an earlier protoDisplay of the terminal is found
LEMMA ProtoFound ==
  ASSUME SessionTypes, NEW e \in End, ProtoOf(e) # {}
  PROVE  RequestedProto(e) \in protos /\ RequestedProto(e).end = e
BY DEF RequestedProto, ProtoOf

\* or a new one is made, with the next id
LEMMA ProtoNew ==
  ASSUME NEW e \in End, ProtoOf(e) = {}
  PROVE  RequestedProto(e) = [end |-> e, id |-> lastId + 1, date |-> now, auth |-> 0]
BY DEF RequestedProto

\* Queries, choices, rescans and time touch no session.
LEMMA OtherTablesInv ==
  ASSUME SessionInv, UNCHANGED sessionVars, now' \in Time
  PROVE  SessionInv'
<1> USE DEF SessionInv, sessionVars
<1>1. SessionTypes'
  BY DEF SessionTypes
<1>2. Owned' /\ OffersOpen' /\ OffersAuthorized'
  BY DEF Owned, OffersOpen, OffersAuthorized
<1>3. RecordsAgree' /\ OverIsFinal' /\ AuthorizationAgreed'
  BY DEF RecordsAgree, OverIsFinal, AuthorizationAgreed
<1> QED
  BY <1>1, <1>2, <1>3

\* REFUSE, FAILED and ALIVE only add the id they carry to over.
LEMMA ToldInv ==
  ASSUME SessionInv, NEW i \in Id, owner[i] # NoEnd, over' = over \cup {i},
         UNCHANGED <<now, lastId, lastAuth, protos, displays, processes, accepts, owner, begun>>,
         \A p \in protos : p.id = i => NameOf(p.end) = NoName,
         \A d \in displays :
           d.running /\ d.id = i => \E a \in accepts : a.end = d.end /\ a.id > d.id
  PROVE  SessionInv'
<1> USE DEF SessionInv
<1>1. SessionTypes'
  BY DEF SessionTypes
<1>2. Owned' /\ OffersOpen' /\ OffersAuthorized'
  BY DEF Owned, OffersOpen, OffersAuthorized
<1>3. RecordsAgree' /\ AuthorizationAgreed'
  BY DEF RecordsAgree, AuthorizationAgreed
<1>4. OverIsFinal'
  BY DEF OverIsFinal
<1> QED
  BY <1>1, <1>2, <1>3, <1>4

\* A MANAGE that is refused is for an id with no protoDisplay, and for a session that
\* runs only if a newer one was offered.
LEMMA ManageRefusedInv ==
  ASSUME SessionInv, NEW a \in accepts, ManageRefused(a)
  PROVE  SessionInv'
<1>1. a.id \in Id /\ a.end \in End /\ owner[a.id] = a.end /\ a.end # NoEnd
  BY XdmcpAssumption DEF SessionInv, SessionTypes, Accept, Owned
<1>2. \A p \in protos : p.id # a.id
  BY <1>1 DEF SessionInv, Owned, ManageRefused, ProtoOf
<1>3. ASSUME NEW d \in displays, d.running, d.id = a.id
      PROVE  \E b \in accepts : b.end = d.end /\ b.id > d.id
  <2>1. d.end = a.end
    BY <1>1, <1>3 DEF SessionInv, Owned
  <2>2. PICK p \in protos : p.end = a.end
    BY <1>3, <2>1 DEF ManageRefused, Duplicate, ProtoOf
  <2>3. p.id > a.id
    BY <1>1, <1>2, <2>2 DEF SessionInv, SessionTypes, OffersOpen, Proto, Id
  <2>4. PICK b \in accepts : b.end = p.end /\ b.id = p.id
    BY DEF SessionInv, OffersAuthorized
  <2> QED
    BY <1>3, <2>1, <2>2, <2>3, <2>4
<1> QED
  BY <1>1, <1>2, <1>3, ToldInv DEF ManageRefused

\* A MANAGE that fails for want of a name leaves a protoDisplay that never begins.
LEMMA ManageFailedInv ==
  ASSUME SessionInv, NEW p \in protos, ManageFailed(p)
  PROVE  SessionInv'
<1>1. p.id \in Id /\ owner[p.id] # NoEnd
  BY XdmcpAssumption DEF SessionInv, SessionTypes, Proto, Owned
<1>2. \A q \in protos : q.id = p.id => NameOf(q.end) = NoName
  BY DEF SessionInv, RecordsAgree, ManageFailed
<1>3. \A d \in displays : d.id # p.id
  BY DEF SessionInv, RecordsAgree
<1> QED
  BY <1>1, <1>2, <1>3, ToldInv DEF ManageFailed

\* An ALIVE that says no is about a session that was begun and has no running record.
LEMMA KeepAliveInv ==
  ASSUME SessionInv, NEW i \in Id, KeepAlive(i)
  PROVE  SessionInv'
<1>1. owner[i] # NoEnd
  BY DEF SessionInv, Owned, KeepAlive
<1>2. \A p \in protos : p.id # i
  BY DEF SessionInv, OffersOpen, KeepAlive
<1> QED
  BY <1>1, <1>2, ToldInv DEF KeepAlive

\* A restart leaves no table, and goes on with higher ids.
LEMMA RestartInv ==
  ASSUME SessionInv, Restart
  PROVE  SessionInv'
<1> USE DEF SessionInv, Restart
<1>1. lastId' \in Nat /\ lastId' > lastId
  BY DEF SessionTypes
<1>2. SessionTypes'
  BY <1>1 DEF SessionTypes
<1>3. Owned'
  BY <1>1 DEF Owned, SessionTypes, Id
<1>4. OffersOpen' /\ OffersAuthorized' /\ RecordsAgree' /\ OverIsFinal' /\ AuthorizationAgreed'
  BY DEF OffersOpen, OffersAuthorized, RecordsAgree, OverIsFinal, AuthorizationAgreed
<1> QED
  BY <1>2, <1>3, <1>4

\* The end of a session removes its record, if that was not replaced.
LEMMA SessionExitsInv ==
  ASSUME SessionInv, NEW s \in processes, NEW openFailed \in BOOLEAN, SessionExits(s, openFailed)
  PROVE  SessionInv'
<1> DEFINE mine == {d \in displays : d.id = s.id /\ d.running}
<1> USE DEF SessionInv
<1>1. /\ processes' = processes \ {s} /\ displays' = displays \ mine
      /\ over \subseteq over' /\ over' \subseteq over \cup {s.id}
      /\ UNCHANGED <<now, lastId, lastAuth, protos, accepts, owner, begun>>
  BY DEF SessionExits
<1>2. s.id \in Id /\ owner[s.id] # NoEnd
  BY DEF SessionTypes, Process, Owned
<1>3. SessionTypes'
  BY <1>1, <1>2 DEF SessionTypes
<1>4. Owned'
  BY <1>1, <1>2 DEF Owned
<1>5. OffersOpen' /\ OffersAuthorized'
  BY <1>1 DEF OffersOpen, OffersAuthorized
<1>6. \A d \in displays' : d.running => d.id # s.id
  BY <1>1
<1>7. RecordsAgree'
  <2>1. ASSUME NEW d \in displays'
        PROVE  d.running <=>
          [id |-> d.id, client |-> ClientOf[d.end], chooser |-> d.chooser] \in processes'
    BY <1>1, <1>6 DEF RecordsAgree
  <2> QED
    BY <1>1, <2>1 DEF RecordsAgree
<1>8. OverIsFinal'
  BY <1>1, <1>6 DEF OverIsFinal
<1>9. AuthorizationAgreed'
  BY <1>1 DEF AuthorizationAgreed
<1> QED
  BY <1>3, <1>4, <1>5, <1>7, <1>8, <1>9

\* A MANAGE that is served turns the protoDisplay into a record.
LEMMA ManageStartsInv ==
  ASSUME SessionInv, NEW p \in protos, NEW forked \in BOOLEAN, ManageStarts(p, forked)
  PROVE  SessionInv'
<1> USE DEF SessionInv
<1>1. PICK chooser \in BOOLEAN :
        LET d == [end |-> p.end, id |-> p.id, auth |-> p.auth, chooser |-> chooser,
                  running |-> forked]
            s == [id |-> p.id, client |-> ClientOf[p.end], chooser |-> chooser]
        IN /\ displays' = (displays \ Replaced(p)) \cup {d}
           /\ processes' = processes \cup (IF forked THEN {s} ELSE {})
  BY DEF ManageStarts, UseChooser
<1>2. /\ protos' = protos \ {p} /\ begun' = begun \cup {p.id} /\ NameOf(p.end) # NoName
      /\ UNCHANGED <<now, lastId, lastAuth, accepts, over, owner>>
  BY DEF ManageStarts, Started
<1> DEFINE new == [end |-> p.end, id |-> p.id, auth |-> p.auth, chooser |-> chooser,
                   running |-> forked]
<1> DEFINE session == [id |-> p.id, client |-> ClientOf[p.end], chooser |-> chooser]
<1>3. p \in Proto /\ new \in Display /\ session \in Process /\ owner[p.id] = p.end
  BY XdmcpAssumption DEF SessionTypes, Proto, Display, Process, Owned
<1>4. SessionTypes'
  BY <1>1, <1>2, <1>3 DEF SessionTypes, Proto
<1>5. Owned'
  BY <1>1, <1>2, <1>3, XdmcpAssumption DEF Owned, Proto
<1>6. OffersOpen'
  BY <1>1, <1>2 DEF OffersOpen, RecordsAgree
<1>7. OffersAuthorized'
  BY <1>2 DEF OffersAuthorized
<1>8. RecordsAgree'
  <2>1. \A s \in processes : s.id # p.id
    BY DEF OffersOpen
  <2>2. \A d \in displays : d.id # p.id
    BY DEF RecordsAgree
  <2>3. \A d, f \in displays' : NameOf(d.end) = NameOf(f.end) \/ d.id = f.id => d = f
    BY <1>1, <2>2 DEF RecordsAgree, Replaced
  <2>4. \A q \in protos', d \in displays' : q.id # d.id
    BY <1>1, <1>2 DEF RecordsAgree
  <2>5. \A s, r \in processes' : s.id = r.id => s = r
    BY <1>1, <2>1 DEF RecordsAgree
  <2>6. ASSUME NEW d \in displays'
        PROVE  d.running <=>
          [id |-> d.id, client |-> ClientOf[d.end], chooser |-> d.chooser] \in processes'
    <3>1. CASE d = new
      BY <1>1, <2>1, <3>1
    <3>2. CASE d \in displays
      BY <1>1, <2>2, <3>2 DEF RecordsAgree
    <3> QED
      BY <1>1, <3>1, <3>2
  <2> QED
    BY <1>2, <2>3, <2>4, <2>5, <2>6 DEF RecordsAgree
<1>9. OverIsFinal'
  BY <1>1, <1>2 DEF OverIsFinal, OffersOpen
<1>10. AuthorizationAgreed'
  BY <1>1, <1>2, <1>3 DEF AuthorizationAgreed, OffersAuthorized, Owned
<1> QED
  BY <1>4, <1>5, <1>6, <1>7, <1>8, <1>9, <1>10

\* What a REQUEST does when an authorization of its names can be made, and when not.
LEMMA RequestAccepted ==
  ASSUME NEW e \in End, NEW authentic \in BOOLEAN, Request(e, authentic),
         Authorizes[e] # "unknown", authentic
  PROVE  LET p == RequestedProto(e)
             others == IF ProtoOf(e) = {} THEN TimeoutProtoDisplays ELSE protos \ ProtoOf(e)
         IN /\ protos' = others \cup {Authorized(p)} /\ accepts' = accepts \cup {AcceptOf(p)}
            /\ IF Authorizes[e] = "known" THEN lastAuth < MaxAuth /\ lastAuth' = lastAuth + 1
               ELSE lastAuth' = lastAuth
BY DEF Request

\* A REQUEST that is declined leaves the other protoDisplays, and sends no ACCEPT.
LEMMA RequestDeclined ==
  ASSUME NEW e \in End, NEW authentic \in BOOLEAN, Request(e, authentic),
         ~(Authorizes[e] # "unknown" /\ authentic)
  PROVE  /\ protos' = IF ProtoOf(e) = {} THEN TimeoutProtoDisplays ELSE protos \ ProtoOf(e)
         /\ UNCHANGED <<lastAuth, accepts>>
BY DEF Request

\* What a REQUEST leaves alone, and what becomes of the ids.
LEMMA RequestRest ==
  ASSUME SessionTypes, NEW e \in End, NEW authentic \in BOOLEAN, Request(e, authentic)
  PROVE  /\ UNCHANGED <<now, displays, processes, over, begun>>
         /\ ProtoOf(e) # {} => UNCHANGED <<lastId, owner>>
         /\ ProtoOf(e) = {} => /\ lastId + 1 \in Id /\ lastId' = lastId + 1
                               /\ owner' = [owner EXCEPT ![lastId + 1] = e]
<1>1. UNCHANGED <<now, displays, processes, over, begun>>
  BY DEF Request
<1>2. ASSUME ProtoOf(e) # {}
      PROVE  UNCHANGED <<lastId, owner>>
  BY <1>2 DEF Request
<1>3. ASSUME ProtoOf(e) = {}
      PROVE  lastId < MaxId /\ lastId' = lastId + 1 /\ owner' = [owner EXCEPT ![lastId + 1] = e]
  BY <1>3 DEF Request, IdLeft
<1>4. ProtoOf(e) = {} => lastId + 1 \in Id
  BY <1>3, XdmcpAssumption DEF SessionTypes, Id
<1> QED
  BY <1>1, <1>2, <1>3, <1>4

\* The protoDisplay and the ACCEPT of a REQUEST that is accepted.
LEMMA RequestResult ==
  ASSUME NEW e \in End, RequestedProto(e).end = e
  PROVE  LET p == RequestedProto(e)
             auth == IF Authorizes[e] = "known" THEN lastAuth + 1 ELSE 0
         IN /\ AcceptOf(p) = [end |-> e, id |-> p.id, auth |-> auth]
            /\ Authorized(p) = IF Authorizes[e] = "known" THEN [p EXCEPT !.auth = auth] ELSE p
BY DEF AcceptOf, Authorized

\* A REQUEST without a protoDisplay makes one with the next id; one that is declined
\* uses up the id.
LEMMA RequestNewInv ==
  ASSUME SessionInv, NEW e \in End, NEW authentic \in BOOLEAN, Request(e, authentic),
         ProtoOf(e) = {}
  PROVE  SessionInv'
<1> DEFINE i == lastId + 1
<1> DEFINE auth == IF Authorizes[e] = "known" THEN lastAuth + 1 ELSE 0
<1> DEFINE new == [end |-> e, id |-> i, date |-> now, auth |-> auth]
<1> DEFINE sent == [end |-> e, id |-> i, auth |-> auth]
<1> USE DEF SessionInv
<1>1. /\ lastId' = i /\ i \in Id /\ owner' = [owner EXCEPT ![i] = e] /\ owner[i] = NoEnd
      /\ UNCHANGED <<now, displays, processes, over, begun>>
  <2>1. i \in Id /\ lastId' = i /\ owner' = [owner EXCEPT ![i] = e]
        /\ UNCHANGED <<now, displays, processes, over, begun>>
    BY RequestRest
  <2>2. ~(i <= lastId)
    BY DEF SessionTypes
  <2> QED
    BY <2>1, <2>2 DEF Owned
<1>2. AcceptOf(RequestedProto(e)) = sent /\ Authorized(RequestedProto(e)) = new
  BY ProtoNew, RequestResult
<1>3. \/ protos' \subseteq protos /\ UNCHANGED <<lastAuth, accepts>>
      \/ /\ protos' \subseteq protos \cup {new} /\ accepts' = accepts \cup {sent}
         /\ auth \in 0 .. MaxAuth /\ lastAuth' \in 0 .. MaxAuth
         /\ lastAuth <= lastAuth' /\ auth <= lastAuth'
  <2>1. TimeoutProtoDisplays \subseteq protos
    BY DEF TimeoutProtoDisplays
  <2>2. CASE Authorizes[e] # "unknown" /\ authentic
    <3>1. /\ protos' = TimeoutProtoDisplays \cup {new} /\ accepts' = accepts \cup {sent}
          /\ IF Authorizes[e] = "known" THEN lastAuth < MaxAuth /\ lastAuth' = lastAuth + 1
             ELSE lastAuth' = lastAuth
      BY <1>2, <2>2, RequestAccepted
    <3>2. lastAuth \in Nat /\ lastAuth <= MaxAuth /\ MaxAuth \in Nat
      BY XdmcpAssumption DEF SessionTypes
    <3>3. auth \in 0 .. MaxAuth /\ lastAuth' \in 0 .. MaxAuth
          /\ lastAuth <= lastAuth' /\ auth <= lastAuth'
      BY <3>1, <3>2
    <3> QED
      BY <2>1, <3>1, <3>3
  <2>3. CASE ~(Authorizes[e] # "unknown" /\ authentic)
    BY <2>1, <2>3, RequestDeclined
  <2> QED
    BY <2>2, <2>3
<1>4. Authorizes[e] # "known" => auth = 0
  OBVIOUS
<1> HIDE DEF auth
<1>5. /\ \A p \in protos : p.id # i /\ p.end # e
      /\ \A d \in displays : d.id # i
      /\ \A a \in accepts : a.id # i
      /\ \A s \in processes : s.id # i
      /\ i \notin over \cup begun
  BY <1>1, XdmcpAssumption DEF Owned, SessionTypes, Proto, Display, Accept, ProtoOf
<1>6. SessionTypes'
  BY <1>1, <1>3 DEF SessionTypes, Accept, Proto
<1>7. /\ \A j \in Id : j # i => owner'[j] = owner[j]
      /\ owner'[i] = e
  BY <1>1 DEF SessionTypes
<1> HIDE DEF i
<1>8. \A j \in Id : owner'[j] # NoEnd => j <= i
  BY <1>1, <1>7 DEF Owned, SessionTypes, Id, i
<1>9. Owned'
  BY <1>1, <1>3, <1>5, <1>7, <1>8, XdmcpAssumption
  DEF Owned, SessionTypes, Proto, Display, Accept, Process
<1>10. OffersOpen'
  <2>1. ASSUME NEW p \in protos'
        PROVE  /\ \A j \in Id : owner'[j] = p.end => j <= p.id
               /\ p.id \notin begun'
               /\ p.id \in over' => NameOf(p.end) = NoName
               /\ \A s \in processes' : s.id # p.id
    <3>1. CASE p = new
      BY <1>1, <1>5, <1>8, <3>1, XdmcpAssumption
    <3>2. CASE p \in protos
      BY <1>1, <1>5, <1>7, <3>2 DEF OffersOpen
    <3> QED
      BY <1>3, <3>1, <3>2
  <2> QED
    BY <2>1 DEF OffersOpen
<1>11. OffersAuthorized'
  <2>1. ASSUME NEW p \in protos'
        PROVE  /\ p.auth <= lastAuth'
               /\ Authorizes[p.end] # "known" => p.auth = 0
               /\ \A a \in accepts' : a.id = p.id => a.auth <= p.auth
               /\ \E a \in accepts' : a.end = p.end /\ a.id = p.id /\ a.auth = p.auth
    <3>1. CASE p = new /\ p \notin protos
      <4>1. accepts' = accepts \cup {sent} /\ auth <= lastAuth' /\ auth \in Nat
        BY <1>3, <3>1
      <4>2. sent \in accepts' /\ \A a \in accepts' : a.id = i => a = sent
        BY <1>5, <4>1
      <4>3. p.auth = auth /\ p.id = i /\ p.end = e
        BY <3>1
      <4>4. sent.auth = auth /\ sent.id = i /\ sent.end = e
        OBVIOUS
      <4>5. \A a \in accepts' : a.id = i => a.auth <= auth
        BY <4>1, <4>2, <4>4
      <4> QED
        BY <1>4, <4>1, <4>2, <4>3, <4>4, <4>5
    <3>2. CASE p \in protos
      BY <1>1, <1>3, <1>5, <3>2 DEF OffersAuthorized, SessionTypes, Proto
    <3> QED
      BY <1>3, <3>1, <3>2
  <2> QED
    BY <2>1 DEF OffersAuthorized
<1>12. RecordsAgree'
  BY <1>1, <1>3, <1>5 DEF RecordsAgree
<1>13. OverIsFinal'
  BY <1>1, <1>3 DEF OverIsFinal
<1>14. AuthorizationAgreed'
  BY <1>1, <1>3, <1>5 DEF AuthorizationAgreed
<1> QED
  BY <1>6, <1>9, <1>10, <1>11, <1>12, <1>13, <1>14

\* A REQUEST with a protoDisplay keeps its id and puts the new authorization into it, or
\* when it is declined disposes of it.
LEMMA RequestAgainInv ==
  ASSUME SessionInv, NEW e \in End, NEW authentic \in BOOLEAN, Request(e, authentic),
         ProtoOf(e) # {}
  PROVE  SessionInv'
<1> DEFINE p == RequestedProto(e)
<1> DEFINE auth == IF Authorizes[e] = "known" THEN lastAuth + 1 ELSE 0
<1> DEFINE new == [p EXCEPT !.auth = auth]
<1> DEFINE sent == [end |-> e, id |-> p.id, auth |-> auth]
<1> USE DEF SessionInv
<1>1. UNCHANGED <<now, lastId, owner, displays, processes, over, begun>>
  BY RequestRest
<1>2. p \in protos /\ p.end = e
  BY ProtoFound
<1> HIDE DEF p
<1>3. p \in Proto /\ p.auth <= lastAuth /\ p.auth \in Nat /\ (Authorizes[e] # "known" => p.auth = 0)
  BY <1>2 DEF SessionTypes, OffersAuthorized, Proto
<1>4. \A q \in protos : q.end = e \/ q.id = p.id => q = p
  BY <1>2 DEF RecordsAgree
<1>5. new = IF Authorizes[e] = "known" THEN [p EXCEPT !.auth = auth] ELSE p
  BY <1>3 DEF Proto
<1>6. AcceptOf(p) = sent /\ Authorized(p) = new
  BY <1>2, <1>5, RequestResult DEF p
<1>7. \/ protos' \subseteq protos /\ UNCHANGED <<lastAuth, accepts>>
      \/ /\ protos' = (protos \ {p}) \cup {new} /\ accepts' = accepts \cup {sent}
         /\ auth \in 0 .. MaxAuth /\ lastAuth' \in 0 .. MaxAuth
         /\ lastAuth <= lastAuth' /\ auth <= lastAuth' /\ p.auth <= auth
  <2>1. ProtoOf(e) = {p}
    BY <1>2, <1>4 DEF ProtoOf
  <2>2. CASE Authorizes[e] # "unknown" /\ authentic
    <3>1. /\ protos' = (protos \ {p}) \cup {new} /\ accepts' = accepts \cup {sent}
          /\ IF Authorizes[e] = "known" THEN lastAuth < MaxAuth /\ lastAuth' = lastAuth + 1
             ELSE lastAuth' = lastAuth
      BY <1>6, <2>1, <2>2, RequestAccepted DEF p
    <3>2. lastAuth \in Nat /\ lastAuth <= MaxAuth /\ MaxAuth \in Nat
      BY XdmcpAssumption DEF SessionTypes
    <3>3. auth \in 0 .. MaxAuth /\ lastAuth' \in 0 .. MaxAuth
          /\ lastAuth <= lastAuth' /\ auth <= lastAuth' /\ p.auth <= auth
      BY <1>3, <3>1, <3>2
    <3> QED
      BY <3>1, <3>3
  <2>3. CASE ~(Authorizes[e] # "unknown" /\ authentic)
    BY <2>1, <2>3, RequestDeclined
  <2> QED
    BY <2>2, <2>3
<1>8. Authorizes[e] # "known" => auth = 0
  OBVIOUS
<1> HIDE DEF auth
<1>9. /\ new.end = e /\ new.id = p.id /\ new.date = p.date /\ new.auth = auth
      /\ sent.end = e /\ sent.id = p.id /\ sent.auth = auth
  BY <1>2, <1>3 DEF Proto
<1>10. p.id \in Id /\ owner[p.id] = e
  BY <1>2, <1>3 DEF Proto, Owned
<1>11. new = [end |-> e, id |-> p.id, date |-> p.date, auth |-> auth]
  BY <1>2, <1>3 DEF Proto
<1>12. SessionTypes'
  <2>1. auth \in 0 .. MaxAuth => new \in Proto /\ sent \in Accept
    BY <1>3, <1>10, <1>11 DEF Proto, Accept
  <2> QED
    BY <1>1, <1>7, <2>1 DEF SessionTypes
<1> HIDE DEF new, sent
<1>13. Owned'
  BY <1>1, <1>7, <1>9, <1>10 DEF Owned
<1>14. OffersOpen'
  BY <1>1, <1>2, <1>7, <1>9 DEF OffersOpen
<1>15. OffersAuthorized'
  <2>1. ASSUME NEW q \in protos'
        PROVE  /\ q.auth <= lastAuth'
               /\ Authorizes[q.end] # "known" => q.auth = 0
               /\ \A a \in accepts' : a.id = q.id => a.auth <= q.auth
               /\ \E a \in accepts' : a.end = q.end /\ a.id = q.id /\ a.auth = q.auth
    <3>1. CASE protos' \subseteq protos /\ UNCHANGED <<lastAuth, accepts>>
      BY <3>1 DEF OffersAuthorized
    <3>2. CASE q = new /\ ~(protos' \subseteq protos /\ UNCHANGED <<lastAuth, accepts>>)
      <4>1. accepts' = accepts \cup {sent} /\ auth <= lastAuth' /\ auth \in Nat /\ p.auth <= auth
        BY <1>7, <3>2
      <4>2. \A a \in accepts : a.id = p.id => a.auth <= p.auth /\ a.auth \in Nat
        BY <1>2 DEF OffersAuthorized, SessionTypes, Accept
      <4>3. \A a \in accepts' : a.id = p.id => a.auth <= auth
        BY <1>3, <1>9, <4>1, <4>2
      <4> QED
        BY <1>8, <1>9, <3>2, <4>1, <4>3
    <3>3. CASE q \in protos \ {p} /\ ~(protos' \subseteq protos /\ UNCHANGED <<lastAuth, accepts>>)
      <4>1. q.id # p.id /\ q.auth \in Nat /\ lastAuth \in Nat
        BY <1>4, <3>3 DEF SessionTypes, Proto
      <4>2. accepts' = accepts \cup {sent} /\ lastAuth <= lastAuth' /\ lastAuth' \in Nat
        BY <1>7, <3>3
      <4> QED
        BY <1>9, <3>3, <4>1, <4>2 DEF OffersAuthorized
    <3> QED
      BY <1>7, <3>1, <3>2, <3>3
  <2> QED
    BY <2>1 DEF OffersAuthorized
<1>16. RecordsAgree'
  BY <1>1, <1>2, <1>4, <1>7, <1>9 DEF RecordsAgree
<1>17. OverIsFinal'
  BY <1>1, <1>7 DEF OverIsFinal
<1>18. AuthorizationAgreed'
  <2>1. \A d \in displays : d.id # p.id
    BY <1>2 DEF RecordsAgree
  <2> QED
    BY <1>1, <1>7, <1>9, <2>1 DEF AuthorizationAgreed
<1> QED
  BY <1>12, <1>13, <1>14, <1>15, <1>16, <1>17, <1>18

\* Every step keeps the invariant.
LEMMA NextInv == SessionInv /\ [Next]_vars => SessionInv'
<1> SUFFICES ASSUME SessionInv, [Next]_vars
             PROVE  SessionInv'
  OBVIOUS
<1>1. ASSUME NEW e \in End,
             DirectQuery(e) \/ (\E sayable \in Families : ForwardQuery(e, sayable)) \/ IndirectQuery(e)
      PROVE  SessionInv'
  BY <1>1, OtherTablesInv
  DEF DirectQuery, ForwardQuery, AllQueryRespond, IndirectQuery, SessionInv, SessionTypes
<1>2. ASSUME NEW e \in End, NEW authentic \in BOOLEAN, Request(e, authentic)
      PROVE  SessionInv'
  BY <1>2, RequestNewInv, RequestAgainInv
<1>3. ASSUME NEW s \in processes, NEW choice \in Choosable, ChooserReports(s, choice)
      PROVE  SessionInv'
  BY <1>3, OtherTablesInv DEF ChooserReports, SessionInv, SessionTypes
<1>4. CASE Rescan \/ Tick
  <2>1. now' \in Time
    BY <1>4, XdmcpAssumption DEF Rescan, Tick, SessionInv, SessionTypes, Time
  <2> QED
    BY <1>4, <2>1, OtherTablesInv DEF Rescan, Tick
<1>5. CASE UNCHANGED vars
  BY <1>5, OtherTablesInv DEF vars, SessionInv, SessionTypes
<1> QED
  BY <1>1, <1>2, <1>3, <1>4, <1>5, ManageRefusedInv, ManageFailedInv, ManageStartsInv,
     SessionExitsInv, KeepAliveInv, RestartInv
  DEF Next

-----------------------------------------------------------------------------
(* The properties of the tables.                                           *)

\* In every reachable state the invariant holds.
THEOREM Invariance == Spec => []SessionInv
BY InitInv, NextInv, PTL DEF Spec

\* protoDisplays, records and children of the master agree in every reachable state, for
\* every set of terminals: one protoDisplay a terminal, one record a name, one place an id.
THEOREM TablesAgree == Spec => []RecordsAgree
<1>1. SessionInv => RecordsAgree
  BY DEF SessionInv
<1> QED
  BY <1>1, Invariance, PTL

\* No session runs that its terminal was told does not, unless it was offered a newer one,
\* whatever packets are lost, repeated or late.
THEOREM FinalAnswers == Spec => []OverIsFinal
<1>1. SessionInv => OverIsFinal
  BY DEF SessionInv
<1> QED
  BY <1>1, Invariance, PTL

\* Every session runs with the authorization of the last ACCEPT for it, however often its
\* REQUEST was repeated.
THEOREM AgreedAuthorizations == Spec => []AuthorizationAgreed
<1>1. SessionInv => AuthorizationAgreed
  BY DEF SessionInv
<1> QED
  BY <1>1, Invariance, PTL

-----------------------------------------------------------------------------
(* The master implements module Sessions.                                  *)

\* What the tables say of an id.
PhaseCases ==
  /\ \A d \in displays : Phase(d.id) = "open"
  /\ \A p \in protos : Phase(p.id) = "offered"
  /\ \A i \in Id : /\ owner[i] = NoEnd => Phase(i) = "none"
                   /\ Phase(i) = "open" => \E d \in displays : d.id = i
                   /\ Phase(i) = "offered" => \E p \in protos : p.id = i
                   /\ Phase(i) = "none" => owner[i] = NoEnd
                   /\ Phase(i) \in {"none", "offered", "open", "over"}

\* The tables never disagree about the phase of an id.
LEMMA PhaseOfTables == SessionInv => PhaseCases
<1> SUFFICES ASSUME SessionInv
             PROVE  PhaseCases
  OBVIOUS
<1>1. /\ \A d \in displays : owner[d.id] # NoEnd /\ d.id \in Id
      /\ \A p \in protos : owner[p.id] # NoEnd /\ p.id \in Id
      /\ \A p \in protos, d \in displays : p.id # d.id
  BY XdmcpAssumption DEF SessionInv, SessionTypes, Owned, RecordsAgree, Display, Proto
<1>2. ASSUME NEW d \in displays
      PROVE  Phase(d.id) = "open"
  BY <1>1 DEF Phase
<1>3. ASSUME NEW p \in protos
      PROVE  Phase(p.id) = "offered"
  BY <1>1 DEF Phase
<1>4. ASSUME NEW i \in Id, ~\E d \in displays : d.id = i, ~\E p \in protos : p.id = i
      PROVE  Phase(i) = IF owner[i] = NoEnd THEN "none" ELSE "over"
  BY <1>4 DEF Phase
<1> QED
  BY <1>1, <1>2, <1>3, <1>4 DEF PhaseCases

\* Ids that end together are one abstract step; with none of them it is a stutter.
LEMMA OverStep ==
  ASSUME NEW S \in SUBSET Id, \A i \in S : Phase(i) \in {"offered", "open"}, owner' = owner,
         \A i \in Id : Phase(i)' = IF i \in S THEN "over" ELSE Phase(i)
  PROVE  Abstract!Next
<1>1. Abstract!Over(S)
  BY DEF Abstract!Over
<1> QED
  BY <1>1 DEF Abstract!Next

\* An offer is taken up.
LEMMA BeginStep ==
  ASSUME NEW i \in Id, NEW S \in SUBSET Id, Phase(i) = "offered", owner' = owner,
         \A j \in S : Phase(j) = "open",
         \A j \in Id : Phase(j)' = IF j = i THEN "open" ELSE IF j \in S THEN "over" ELSE Phase(j)
  PROVE  Abstract!Next
<1>1. Abstract!Begin(i, S)
  BY DEF Abstract!Begin
<1> QED
  BY <1>1 DEF Abstract!Next

\* Nothing happens to an id as long as no table of Phase changes.
LEMMA SameStep ==
  ASSUME UNCHANGED <<displays, protos, owner>>
  PROVE  Abstract!Next
<1>1. \A i \in Id : Phase(i)' = Phase(i)
  BY DEF Phase
<1>2. PICK S \in SUBSET Id : S = {}
  OBVIOUS
<1>3. \A i \in Id : Phase(i)' = IF i \in S THEN "over" ELSE Phase(i)
  BY <1>1, <1>2
<1> QED
  BY <1>2, <1>3, OverStep

\* A REQUEST for a new session offers its id and withdraws the offers that have timed out.
LEMMA RequestNewStep ==
  ASSUME SessionInv, PhaseCases, PhaseCases', NEW e \in End, NEW authentic \in BOOLEAN,
         Request(e, authentic), ProtoOf(e) = {}
  PROVE  Abstract!Next
<1> DEFINE heard == Authorizes[e] # "unknown" /\ authentic
<1>1. lastId + 1 \in Id /\ owner' = [owner EXCEPT ![lastId + 1] = e] /\ displays' = displays
  BY RequestRest DEF SessionInv
<1>2. PICK i \in Id : i = lastId + 1
  BY <1>1
<1>3. Authorized(RequestedProto(e)).id = i
  BY <1>2, ProtoNew DEF Authorized
<1>4. \A j \in Id : Phase(j) # "none" => j < i
  BY <1>2 DEF PhaseCases, SessionInv, SessionTypes, Owned, Id
<1>5. PICK S \in SUBSET Id : S = {p.id : p \in protos \ TimeoutProtoDisplays}
  BY DEF SessionInv, SessionTypes, Proto
<1>6. \A j \in S : Phase(j) = "offered"
  BY <1>5 DEF PhaseCases
<1>7. owner' = [owner EXCEPT ![i] = e] /\ owner'[i] = e /\ \A j \in Id : j # i => owner'[j] = owner[j]
  BY <1>1, <1>2 DEF SessionInv, SessionTypes
<1>8. Phase(i)' = IF heard THEN "offered" ELSE "over"
  <2>1. owner'[i] # NoEnd
    BY <1>7, XdmcpAssumption
  <2>2. \A d \in displays' : d.id # i
    BY <1>1, <1>4 DEF PhaseCases, SessionInv, SessionTypes, Display, Id
  <2>3. CASE heard
    <3>1. Authorized(RequestedProto(e)) \in protos'
      BY <2>3, RequestAccepted
    <3>2. PICK p \in protos' : p.id = i
      BY <1>3, <3>1
    <3> QED
      BY <2>3, <3>2 DEF PhaseCases
  <2>4. CASE ~heard
    <3>1. \A p \in protos : p.id # i
      BY <1>4 DEF PhaseCases, SessionInv, SessionTypes, Proto, Id
    <3>2. \A p \in protos' : p.id # i
      BY <2>4, <3>1, RequestDeclined DEF TimeoutProtoDisplays
    <3> QED
      BY <2>1, <2>2, <2>4, <3>2 DEF PhaseCases
  <2> QED
    BY <2>3, <2>4
<1>9. ASSUME NEW j \in Id, j # i
      PROVE  Phase(j)' = IF j \in S THEN "over" ELSE Phase(j)
  <2>1. \A p : p \in protos' /\ p.id # i <=> p \in TimeoutProtoDisplays /\ p.id # i
    BY <1>3, RequestAccepted, RequestDeclined
  <2>2. (\E p \in protos' : p.id = j) <=> (\E p \in protos : p.id = j) /\ j \notin S
    BY <1>5, <1>9, <2>1 DEF TimeoutProtoDisplays, SessionInv, RecordsAgree
  <2> QED
    BY <1>1, <1>5, <1>7, <1>9, <2>2 DEF PhaseCases
<1>10. ASSUME heard
       PROVE  Abstract!Offer(i, e, S, TRUE)
  <2>1. \A j \in Id : Phase(j)' = IF j = i THEN "offered" ELSE IF j \in S THEN "over" ELSE Phase(j)
    BY <1>8, <1>9, <1>10
  <2> QED
    BY <1>4, <1>6, <1>7, <2>1 DEF Abstract!Offer
<1>11. ASSUME ~heard
       PROVE  Abstract!Offer(i, e, S, FALSE)
  <2>1. \A j \in Id : Phase(j)' = IF j = i THEN "over" ELSE IF j \in S THEN "over" ELSE Phase(j)
    BY <1>8, <1>9, <1>11
  <2> QED
    BY <1>4, <1>6, <1>7, <2>1 DEF Abstract!Offer
<1> QED
  BY <1>10, <1>11 DEF Abstract!Next

\* When ids leave the tables, and none comes, they are over.
LEMMA EndStep ==
  ASSUME PhaseCases, PhaseCases', owner' = owner, NEW S \in SUBSET Id,
         \A i \in S : Phase(i) \in {"offered", "open"},
         \A i \in Id : (\E d \in displays' : d.id = i) <=> (\E d \in displays : d.id = i) /\ i \notin S,
         \A i \in Id : (\E p \in protos' : p.id = i) <=> (\E p \in protos : p.id = i) /\ i \notin S
  PROVE  Abstract!Next
<1>1. ASSUME NEW i \in Id
      PROVE  Phase(i)' = IF i \in S THEN "over" ELSE Phase(i)
  BY <1>1 DEF PhaseCases
<1> QED
  BY <1>1, OverStep

\* A repeated REQUEST changes the phase of no id, or withdraws the offer.
LEMMA RequestAgainStep ==
  ASSUME SessionInv, PhaseCases, PhaseCases', NEW e \in End, NEW authentic \in BOOLEAN,
         Request(e, authentic), ProtoOf(e) # {}
  PROVE  Abstract!Next
<1> DEFINE heard == Authorizes[e] # "unknown" /\ authentic
<1>1. PICK p \in protos : p = RequestedProto(e) /\ p.end = e
  BY ProtoFound DEF SessionInv
<1>2. p.id \in Id /\ \A q \in protos : q.end = e \/ q.id = p.id => q = p
  BY <1>1 DEF SessionInv, SessionTypes, Proto, RecordsAgree
<1>3. ProtoOf(e) = {p}
  BY <1>1, <1>2 DEF ProtoOf
<1>4. displays' = displays /\ owner' = owner
  BY RequestRest DEF SessionInv
<1>5. CASE heard
  <2>1. Authorized(p).id = p.id
    BY <1>1 DEF Authorized, SessionInv, SessionTypes, Proto
  <2>2. protos' = (protos \ {p}) \cup {Authorized(p)}
    BY <1>1, <1>3, <1>5, RequestAccepted
  <2>3. PICK S \in SUBSET Id : S = {}
    OBVIOUS
  <2>4. \A i \in Id : (\E q \in protos' : q.id = i) <=> (\E q \in protos : q.id = i)
    BY <2>1, <2>2
  <2> QED
    BY <1>4, <2>3, <2>4, EndStep
<1>6. CASE ~heard
  <2>1. protos' = protos \ {p}
    BY <1>3, <1>6, RequestDeclined
  <2>2. PICK S \in SUBSET Id : S = {p.id}
    BY <1>2
  <2>3. \A i \in Id : (\E q \in protos' : q.id = i) <=> (\E q \in protos : q.id = i) /\ i \notin S
    BY <1>2, <2>1, <2>2
  <2>4. \A i \in Id : (\E d \in displays' : d.id = i) <=> (\E d \in displays : d.id = i) /\ i \notin S
    BY <1>4, <2>2 DEF SessionInv, RecordsAgree
  <2>5. \A i \in S : Phase(i) \in {"offered", "open"}
    BY <2>2 DEF PhaseCases
  <2> QED
    BY <1>4, <2>3, <2>4, <2>5, EndStep
<1> QED
  BY <1>5, <1>6

\* A MANAGE that is served begins the session of its id in the place of that of its name.
LEMMA ManageStartsStep ==
  ASSUME SessionInv, PhaseCases, PhaseCases', NEW p \in protos, NEW forked \in BOOLEAN,
         ManageStarts(p, forked)
  PROVE  Abstract!Next
<1>1. PICK d \in displays' : d.id = p.id /\ displays' = (displays \ Replaced(p)) \cup {d}
  BY DEF ManageStarts, UseChooser
<1>2. protos' = protos \ {p} /\ owner' = owner
  BY DEF ManageStarts, Started
<1>3. p.id \in Id /\ Phase(p.id) = "offered" /\ Phase(p.id)' = "open"
  BY <1>1 DEF SessionInv, SessionTypes, Proto, PhaseCases
<1>4. PICK S \in SUBSET Id : S = {f.id : f \in Replaced(p)}
  BY DEF Replaced, SessionInv, SessionTypes, Display
<1>5. \A j \in S : Phase(j) = "open"
  BY <1>4 DEF Replaced, PhaseCases
<1>6. ASSUME NEW j \in Id, j # p.id
      PROVE  Phase(j)' = IF j \in S THEN "over" ELSE Phase(j)
  <2>1. (\E q \in protos' : q.id = j) <=> (\E q \in protos : q.id = j)
    BY <1>2, <1>6
  <2>2. (\E f \in displays' : f.id = j) <=> (\E f \in displays : f.id = j) /\ j \notin S
    BY <1>1, <1>4, <1>6 DEF Replaced, SessionInv, RecordsAgree
  <2> QED
    BY <1>2, <1>5, <2>1, <2>2 DEF PhaseCases
<1>7. \A j \in Id : Phase(j)' = IF j = p.id THEN "open" ELSE IF j \in S THEN "over" ELSE Phase(j)
  BY <1>3, <1>6
<1> QED
  BY <1>2, <1>3, <1>5, <1>7, BeginStep

\* The session that ends is over, unless it was before.
LEMMA SessionExitsStep ==
  ASSUME SessionInv, PhaseCases, PhaseCases', NEW s \in processes, NEW openFailed \in BOOLEAN,
         SessionExits(s, openFailed)
  PROVE  Abstract!Next
<1> DEFINE mine == {d \in displays : d.id = s.id /\ d.running}
<1>1. displays' = displays \ mine /\ protos' = protos /\ owner' = owner
  BY DEF SessionExits
<1>2. PICK S \in SUBSET Id : S = {d.id : d \in mine}
  BY DEF SessionInv, SessionTypes, Display
<1>3. \A i \in S : Phase(i) \in {"offered", "open"}
  BY <1>2 DEF PhaseCases
<1>4. \A i \in Id : (\E d \in displays' : d.id = i) <=> (\E d \in displays : d.id = i) /\ i \notin S
  BY <1>1, <1>2 DEF SessionInv, RecordsAgree
<1>5. \A i \in Id : (\E p \in protos' : p.id = i) <=> (\E p \in protos : p.id = i) /\ i \notin S
  BY <1>1, <1>2 DEF SessionInv, RecordsAgree
<1> QED
  BY <1>1, <1>3, <1>4, <1>5, EndStep

\* A restart ends all that was offered or begun.
LEMMA RestartStep ==
  ASSUME SessionInv, PhaseCases, PhaseCases', Restart
  PROVE  Abstract!Next
<1>1. displays' = {} /\ protos' = {} /\ owner' = owner
  BY DEF Restart
<1>2. PICK S \in SUBSET Id : S = {i \in Id : Phase(i) \in {"offered", "open"}}
  OBVIOUS
<1>3. \A i \in Id : /\ (\E d \in displays' : d.id = i) <=> (\E d \in displays : d.id = i) /\ i \notin S
                    /\ (\E p \in protos' : p.id = i) <=> (\E p \in protos : p.id = i) /\ i \notin S
  BY <1>1, <1>2 DEF PhaseCases
<1> QED
  BY <1>1, <1>2, <1>3, EndStep

\* Every step of the master is one of module Sessions.
LEMMA NextRefines ==
  ASSUME SessionInv, PhaseCases, PhaseCases', Next
  PROVE  Abstract!Next
<1>1. ASSUME NEW e \in End,
             DirectQuery(e) \/ (\E sayable \in Families : ForwardQuery(e, sayable)) \/ IndirectQuery(e)
      PROVE  Abstract!Next
  BY <1>1, SameStep DEF DirectQuery, ForwardQuery, AllQueryRespond, IndirectQuery, sessionVars
<1>2. ASSUME NEW e \in End, NEW authentic \in BOOLEAN, Request(e, authentic)
      PROVE  Abstract!Next
  BY <1>2, RequestNewStep, RequestAgainStep
<1>3. ASSUME NEW s \in processes, NEW choice \in Choosable, ChooserReports(s, choice)
      PROVE  Abstract!Next
  BY <1>3, SameStep DEF ChooserReports, sessionVars
<1>4. ASSUME \/ \E a \in accepts : ManageRefused(a)
             \/ \E p \in protos : ManageFailed(p)
             \/ \E id \in Id : KeepAlive(id)
             \/ Rescan \/ Tick
      PROVE  Abstract!Next
  BY <1>4, SameStep DEF ManageRefused, ManageFailed, KeepAlive, Rescan, Tick, sessionVars
<1> QED
  BY <1>1, <1>2, <1>3, <1>4, ManageStartsStep, SessionExitsStep, RestartStep DEF Next

\* Seen by session ids alone the master does what module Sessions says, for every set of
\* terminals and all values of the timeouts: no packet that is lost, repeated or late, no
\* timeout, failed fork or restart brings back a session that is over.
THEOREM Refinement == Spec => SessionsImplemented
<1>1. Init => Abstract!Init
  BY DEF Init, Abstract!Init, Phase
<1>2. SessionInv /\ SessionInv' /\ [Next]_vars => [Abstract!Next]_Abstract!vars
  <2> SUFFICES ASSUME SessionInv, SessionInv', [Next]_vars
               PROVE  [Abstract!Next]_Abstract!vars
    OBVIOUS
  <2>1. PhaseCases
    BY PhaseOfTables
  <2>2. PhaseCases'
    BY PhaseOfTables, PTL
  <2>3. CASE Next
    BY <2>1, <2>2, <2>3, NextRefines
  <2>4. CASE UNCHANGED vars
    BY <2>4, SameStep DEF vars, sessionVars
  <2> QED
    BY <2>3, <2>4
<1> QED
  BY <1>1, <1>2, Invariance, PTL DEF Spec, SessionsImplemented, Abstract!Spec
=============================================================================
