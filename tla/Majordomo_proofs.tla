-------------------------- MODULE Majordomo_proofs --------------------------
(***************************************************************************)
(* The Majordomo broker and its workers, for any number of workers,        *)
(* clients and services and whatever the peers do: the broker's tables     *)
(* agree with one another, a worker serves one request at a time, no       *)
(* worker is forgotten, and no request is multiplied.                      *)
(***************************************************************************)
EXTENDS Majordomo, SequenceTheorems, FiniteSetTheorems, TLAPS

-----------------------------------------------------------------------------
(* What the tables of the broker hold.                                     *)

\* Requests as the broker lists them and workers hold them.
Calls == [client : Ids, n : Nat]

\* The workers the broker knows for service s.
Of(s) == {id \in m_workers : m_service[id] = s}

Tables ==
    /\ services \subseteq Services
    /\ srv_requests \in [Services -> Seq(Calls)]
    /\ srv_waiting \in [Services -> SUBSET Ids]
    /\ m_workers \subseteq Ids
    /\ m_service \in [Ids -> Services \union {NoService}]
    /\ \A id \in m_workers : m_service[id] \in services

Lists == Tables /\ ListsAgree /\ NobodyWaitsForNothing

-----------------------------------------------------------------------------
(* Dispatch.                                                               *)

LEMMA IdsFinite == IsFiniteSet(Ids)
<1>1. IsFiniteSet(0 .. MaxWorkerSockets) /\ IsFiniteSet(0 .. MaxClientSockets)
  BY FS_Interval, BrokerAssumption
<1>2. IsFiniteSet(WorkerIds) /\ IsFiniteSet(ClientIds)
  BY <1>1, FS_Product, BrokerAssumption DEF WorkerIds, ClientIds
<1>3. QED
  BY <1>2, FS_Union DEF Ids

\* As many different workers as there are: nobody is left.
LEMMA AllPicked ==
    ASSUME NEW idle, IsFiniteSet(idle), NEW k \in Nat, k = Cardinality(idle),
           NEW pick \in [1 .. k -> idle],
           \A i, j \in 1 .. k : i # j => pick[i] # pick[j]
    PROVE  idle = {pick[i] : i \in 1 .. k}
<1>1. pick \in Injection(1 .. k, idle)
  BY DEF Injection, IsInjective
<1>2. Cardinality(1 .. k) = k
  <2>1. 1 \in Int /\ k \in Int
    OBVIOUS
  <2>2. Cardinality(1 .. k) = IF 1 > k THEN 0 ELSE k - 1 + 1
    BY <2>1, FS_Interval, Zenon
  <2>3. QED
    BY <2>2
<1>3. pick \in Surjection(1 .. k, idle)
  BY <1>1, <1>2, FS_Injection
<1>4. QED
  BY <1>3 DEF Surjection

\* service_dispatch leaves no request and no worker of its service behind
\* together, and the lists as they have to be.
LEMMA Dispatch ==
    ASSUME Lists, NEW s \in Services, NEW requests \in Seq(Calls),
           NEW joining \in SUBSET Ids, NEW counts, NEW qs,
           \A id \in joining : id \in m_waiting => m_service[id] = s,
           service_dispatch(s, requests, joining, counts, qs),
           services' \in SUBSET Services, services \subseteq services',
           joining # {} => s \in services'
    PROVE  /\ Lists'
           /\ qs \in [Ids -> Seq(FromBroker)]
                  => fromBroker' \in [Ids -> Seq(FromBroker)]
<1> DEFINE gone == Expired \ joining
           idle == (srv_waiting[s] \union joining) \ gone
           k    == AtMost(Cardinality(idle), Len(requests))
<1>1. /\ gone \subseteq m_waiting /\ idle \in SUBSET Ids
      /\ gone \intersect joining = {}
  BY DEF Lists, Tables, Expired
<1>2. IsFiniteSet(idle) /\ Cardinality(idle) \in Nat
  BY <1>1, IdsFinite, FS_Subset, FS_CardinalityType
<1>3. /\ k \in Nat /\ k <= Len(requests)
      /\ k = Cardinality(idle) \/ k = Len(requests)
  <2>1. Len(requests) \in Nat
    BY LenProperties
  <2>2. QED
    BY <1>2, <2>1 DEF AtMost
<1> HIDE DEF gone, idle, k
<1>4. PICK pick \in Picks(idle, k, m_expiry') :
          LET busy == {pick[i] : i \in 1 .. k}
          IN /\ srv_requests' = [srv_requests EXCEPT ![s] =
                    SubSeq(requests, k + 1, Len(requests))]
             /\ srv_waiting' = [t \in Services |->
                    IF t = s THEN idle \ busy ELSE srv_waiting[t] \ gone]
             /\ m_waiting' = ((m_waiting \union joining) \ gone) \ busy
             /\ fromBroker' = [id \in Ids |->
                    IF id \in busy \intersect connected
                    THEN Append(qs[id],
                           Request(requests[CHOOSE i \in 1 .. k : pick[i] = id]))
                    ELSE qs[id]]
  BY Zenon DEF service_dispatch, gone, idle, k
<1>5. /\ m_service' = [id \in Ids |-> IF id \in joining THEN s
                                      ELSE IF id \in gone THEN NoService
                                      ELSE m_service[id]]
      /\ m_workers' = (m_workers \union joining) \ gone
  BY Zenon DEF service_dispatch, gone
<1> DEFINE busy == {pick[i] : i \in 1 .. k}
<1>6. busy \subseteq idle
  BY <1>4 DEF Picks
<1>7. SubSeq(requests, k + 1, Len(requests)) = <<>> \/ idle \ busy = {}
  <2>1. CASE k = Len(requests)
    <3>1. k + 1 \in Int /\ Len(requests) \in Int /\ Len(requests) < k + 1
      BY <1>3, <2>1
    <3>2. QED
      BY <3>1, SubSeqEmpty
  <2>2. CASE k = Cardinality(idle)
    <3>1. /\ pick \in [1 .. k -> idle]
          /\ \A i, j \in 1 .. k : i # j => pick[i] # pick[j]
      BY <1>4 DEF Picks
    <3>2. idle = busy
      BY <1>2, <1>3, <2>2, <3>1, AllPicked
    <3>3. QED
      BY <3>2
  <2>3. QED
    BY <1>3, <2>1, <2>2
<1>8. SubSeq(requests, k + 1, Len(requests)) \in Seq(Calls)
  <2>1. /\ k + 1 \in Int /\ Len(requests) \in Int
        /\ \A i \in k + 1 .. Len(requests) : i \in 1 .. Len(requests)
    BY <1>3
  <2>2. \A i \in k + 1 .. Len(requests) : requests[i] \in Calls
    BY <2>1, ElementOfSeq
  <2>3. QED
    BY <2>1, <2>2, SubSeqProperties
<1> HIDE DEF busy
<1>9. /\ srv_waiting' = [t \in Services |->
             IF t = s THEN idle \ busy ELSE srv_waiting[t] \ gone]
      /\ m_waiting' = ((m_waiting \union joining) \ gone) \ busy
      /\ srv_requests' \in [Services -> Seq(Calls)]
      /\ srv_requests' = [srv_requests EXCEPT ![s] =
             SubSeq(requests, k + 1, Len(requests))]
  <2>1. srv_requests \in [Services -> Seq(Calls)]
    BY DEF Lists, Tables
  <2>2. QED
    BY <1>4, <1>8, <2>1 DEF busy
<1>10. Tables'
  <2>1. srv_waiting' \in [Services -> SUBSET Ids]
    BY <1>1, <1>9 DEF Lists, Tables
  <2>2. /\ m_workers' \subseteq Ids
        /\ m_service' \in [Ids -> Services \union {NoService}]
    BY <1>5 DEF Lists, Tables
  <2>3. ASSUME NEW id \in m_workers'
        PROVE  m_service'[id] \in services'
    BY <1>5, <2>2, <2>3 DEF Lists, Tables
  <2>4. QED
    BY <1>9, <2>1, <2>2, <2>3 DEF Tables
<1>11. ListsAgree'
  <2>1. m_waiting' \subseteq m_workers'
    BY <1>1, <1>5, <1>9 DEF Lists, ListsAgree
  <2>2. ASSUME NEW t \in Services, NEW id \in Ids
        PROVE  id \in srv_waiting'[t] <=> id \in m_waiting' /\ m_service'[id] = t
    <3>1. id \in srv_waiting[t] <=> id \in m_waiting /\ m_service[id] = t
      BY DEF Lists, ListsAgree
    <3>2. id \in srv_waiting[s] <=> id \in m_waiting /\ m_service[id] = s
      BY DEF Lists, ListsAgree
    <3>3. m_service'[id] = IF id \in joining THEN s
                           ELSE IF id \in gone THEN NoService ELSE m_service[id]
      BY <1>5
    <3>4. srv_waiting'[t] = IF t = s THEN idle \ busy ELSE srv_waiting[t] \ gone
      BY <1>9
    <3>5. id \in idle <=> id \notin gone /\ (id \in srv_waiting[s] \/ id \in joining)
      BY DEF idle
    <3>6. id \in m_waiting' <=>
              (id \in m_waiting \/ id \in joining) /\ id \notin gone /\ id \notin busy
      BY <1>9
    <3>7. id \in joining /\ id \in m_waiting => m_service[id] = s
      OBVIOUS
    <3>8. CASE t = s
      BY <1>1, <3>1, <3>2, <3>3, <3>4, <3>5, <3>6, <3>7, <3>8
    <3>9. CASE t # s
      BY <1>1, <1>6, <3>1, <3>2, <3>3, <3>4, <3>5, <3>6, <3>7, <3>9
    <3>10. QED
      BY <3>8, <3>9
  <2>3. \A t \in Services : srv_waiting'[t] \subseteq Ids
    BY <1>10 DEF Tables
  <2>4. m_waiting' \subseteq Ids
    BY <1>10, <2>1 DEF Tables
  <2>5. QED
    BY <2>1, <2>2, <2>3, <2>4 DEF ListsAgree
<1>12. NobodyWaitsForNothing'
  <2> SUFFICES ASSUME NEW t \in Services
               PROVE  srv_requests'[t] = <<>> \/ srv_waiting'[t] = {}
    BY DEF NobodyWaitsForNothing
  <2>1. srv_requests[t] = <<>> \/ srv_waiting[t] = {}
    BY DEF Lists, NobodyWaitsForNothing
  <2>2. srv_requests \in [Services -> Seq(Calls)]
    BY DEF Lists, Tables
  <2>3. CASE t = s
    BY <1>7, <1>9, <2>2, <2>3
  <2>4. CASE t # s
    BY <1>9, <2>1, <2>2, <2>4
  <2>5. QED
    BY <2>3, <2>4
<1>13. ASSUME qs \in [Ids -> Seq(FromBroker)]
       PROVE  fromBroker' \in [Ids -> Seq(FromBroker)]
  <2>1. ASSUME NEW id \in busy
        PROVE  requests[CHOOSE i \in 1 .. k : pick[i] = id] \in Calls
    <3>1. \E i \in 1 .. k : pick[i] = id
      BY <2>1 DEF busy
    <3>2. (CHOOSE i \in 1 .. k : pick[i] = id) \in 1 .. k
      BY <3>1
    <3>3. (CHOOSE i \in 1 .. k : pick[i] = id) \in 1 .. Len(requests)
      BY <1>3, <3>2, LenProperties
    <3>4. QED
      BY <3>3, ElementOfSeq
  <2>2. \A r \in Calls : Request(r) \in FromBroker
    BY DEF Calls, Request, FromBroker
  <2>3. \A id \in busy : id \in Ids =>
            Append(qs[id], Request(requests[CHOOSE i \in 1 .. k : pick[i] = id]))
                \in Seq(FromBroker)
    BY <1>13, <2>1, <2>2, AppendProperties
  <2>4. QED
    BY <1>4, <1>13, <2>3 DEF busy
<1>14. QED
  BY <1>10, <1>11, <1>12, <1>13 DEF Lists

-----------------------------------------------------------------------------
(* What the queues hold and what the peers keep.                           *)

Queues == /\ toBroker \in [Ids -> Seq(ToBroker)]
          /\ fromBroker \in [Ids -> Seq(FromBroker)]

LEMMA ToBrokerTypes ==
    ASSUME NEW m \in ToBroker
    PROVE  /\ m.cmd = "READY" => m.service \in Services
           /\ m.cmd = "REPLY" => m.client \in Ids /\ m.n \in Nat
           /\ m.cmd \in {"CALL", "MMI"} => m.service \in Services /\ m.n \in Nat
  BY DEF ToBroker

LEMMA FromBrokerTypes ==
    ASSUME NEW m \in FromBroker, m.cmd = "REQUEST"
    PROVE  [client |-> m.client, n |-> m.n] \in Calls
  BY DEF FromBroker, Calls

LEMMA AnswerTyped ==
    ASSUME NEW code \in {"done", "200", "404", "501"}, NEW n \in Nat
    PROVE  Answer(code, n) \in FromBroker
  BY DEF Answer, FromBroker

LEMMA SentTyped ==
    ASSUME NEW qs \in [Ids -> Seq(FromBroker)], NEW id, NEW m \in FromBroker
    PROVE  Sent(qs, id, m) \in [Ids -> Seq(FromBroker)]
<1>1. \A x \in Ids : Append(qs[x], m) \in Seq(FromBroker)
  BY AppendProperties
<1>2. QED
  BY <1>1 DEF Sent

LEMMA HeadTyped ==
    ASSUME Queues, NEW id \in Ids, toBroker[id] # <<>>,
           toBroker' = [toBroker EXCEPT ![id] = Tail(@)]
    PROVE  /\ Head(toBroker[id]) \in ToBroker
           /\ toBroker' \in [Ids -> Seq(ToBroker)]
<1>1. toBroker[id] \in Seq(ToBroker) /\ toBroker \in [Ids -> Seq(ToBroker)]
  BY DEF Queues
<1>2. /\ Head(toBroker[id]) \in ToBroker
      /\ Tail(toBroker[id]) \in Seq(ToBroker)
  BY <1>1, HeadTailProperties
<1>3. QED
  BY <1>1, <1>2

LEMMA SameTables == ASSUME Lists, UNCHANGED tables PROVE Lists'
  BY DEF tables, Lists, Tables, ListsAgree, NobodyWaitsForNothing

-----------------------------------------------------------------------------
(* The steps of the broker.                                                *)

LEMMA Deleted ==
    ASSUME Lists, Queues, NEW id \in Ids, worker_delete(id)
    PROVE  Lists' /\ fromBroker' \in [Ids -> Seq(FromBroker)]
<1>1. fromBroker' \in [Ids -> Seq(FromBroker)]
  <2>1. Disconnect \in FromBroker
    BY DEF Disconnect, FromBroker
  <2>2. QED
    BY <2>1, SentTyped DEF worker_delete, Queues
<1>2. Tables'
  BY DEF worker_delete, Lists, Tables
<1>3. ListsAgree'
  BY DEF worker_delete, Lists, Tables, ListsAgree
<1>4. NobodyWaitsForNothing'
  BY DEF worker_delete, Lists, Tables, NobodyWaitsForNothing
<1>5. QED
  BY <1>1, <1>2, <1>3, <1>4 DEF Lists

LEMMA TurnedAway ==
    ASSUME Lists, Queues, NEW id \in Ids, TurnAway(id)
    PROVE  Lists' /\ fromBroker' \in [Ids -> Seq(FromBroker)]
<1>1. Disconnect \in FromBroker
  BY DEF Disconnect, FromBroker
<1>2. fromBroker' \in [Ids -> Seq(FromBroker)]
  BY <1>1, SentTyped DEF TurnAway, Queues
<1>3. QED
  BY <1>2, SameTables DEF TurnAway

LEMMA TakesLists ==
    ASSUME Lists, Queues, NEW id \in Ids, BrokerTakes(id)
    PROVE  Lists' /\ Queues'
<1>1. /\ Head(toBroker[id]) \in ToBroker
      /\ toBroker' \in [Ids -> Seq(ToBroker)]
  <2>1. /\ toBroker[id] # <<>>
        /\ toBroker' = [toBroker EXCEPT ![id] = Tail(@)]
    BY DEF BrokerTakes, BrokerReady, BrokerReply, BrokerBeaten, BrokerCall,
           BrokerMmi, Takes
  <2>2. QED
    BY <2>1, HeadTyped
<1>2. /\ \A s \in Services : srv_requests[s] \in Seq(Calls)
      /\ services \subseteq Services
      /\ m_waiting \subseteq m_workers
      /\ \A w \in m_workers : m_service[w] \in services
      /\ fromBroker \in [Ids -> Seq(FromBroker)]
  BY DEF Lists, Tables, ListsAgree, Queues
<1> DEFINE r == Head(toBroker[id])
<1> HIDE DEF r
<1> SUFFICES Lists' /\ fromBroker' \in [Ids -> Seq(FromBroker)]
  BY <1>1 DEF Queues
<1>3. CASE BrokerReady(id)
  <2>1. r \in ToBroker /\ r.cmd = "READY"
    BY <1>1, <1>3 DEF BrokerReady, Takes, r
  <2>2. r.service \in Services
    BY <2>1, ToBrokerTypes
  <2>3. CASE id \in m_workers
    <3>1. worker_delete(id)
      BY <1>3, <2>3 DEF BrokerReady
    <3>2. QED
      BY <3>1, Deleted
  <2>4. CASE id \notin m_workers
    <3>1. services' = services \union {r.service}
      BY <1>3, <2>4 DEF BrokerReady, r
    <3>2. PICK garbage \in Garbage :
             service_dispatch(r.service, srv_requests[r.service], {id},
                 [srv_workers EXCEPT ![r.service] = Count(r.service, garbage) + 1],
                 fromBroker)
      BY <1>3, <2>4 DEF BrokerReady, r
    <3>3. /\ srv_requests[r.service] \in Seq(Calls)
          /\ {id} \in SUBSET Ids
          /\ \A w \in {id} : w \in m_waiting => m_service[w] = r.service
          /\ services' \in SUBSET Services /\ services \subseteq services'
          /\ {id} # {} => r.service \in services'
      BY <1>2, <2>2, <2>4, <3>1
    <3>4. QED
      BY <1>2, <2>2, <3>2, <3>3, Dispatch
  <2>5. QED
    BY <2>3, <2>4
<1>4. CASE BrokerReply(id)
  <2>1. r \in ToBroker /\ r.cmd = "REPLY"
    BY <1>1, <1>4 DEF BrokerReply, Takes, r
  <2>2. Sent(fromBroker, r.client, Answer("done", r.n)) \in [Ids -> Seq(FromBroker)]
    BY <1>2, <2>1, ToBrokerTypes, AnswerTyped, SentTyped
  <2>3. CASE id \in m_workers
    <3> DEFINE s == m_service[id]
    <3>1. service_dispatch(s, srv_requests[s], {id}, srv_workers,
              Sent(fromBroker, r.client, Answer("done", r.n)))
      BY <1>4, <2>3 DEF BrokerReply, r
    <3>2. /\ s \in Services
          /\ srv_requests[s] \in Seq(Calls)
          /\ {id} \in SUBSET Ids
          /\ \A w \in {id} : w \in m_waiting => m_service[w] = s
          /\ services' \in SUBSET Services /\ services \subseteq services'
          /\ {id} # {} => s \in services'
      BY <1>2, <1>4, <2>3 DEF BrokerReply
    <3> HIDE DEF s
    <3>3. QED
      BY <2>2, <3>1, <3>2, Dispatch
  <2>4. CASE id \notin m_workers
    <3>1. TurnAway(id)
      BY <1>4, <2>4 DEF BrokerReply
    <3>2. QED
      BY <3>1, TurnedAway
  <2>5. QED
    BY <2>3, <2>4
<1>5. CASE BrokerBeaten(id)
  <2>1. CASE id \in m_workers
    <3>1. UNCHANGED <<services, srv_requests, srv_waiting, m_workers, m_service,
                      m_waiting, fromBroker>>
      BY <1>5, <2>1 DEF BrokerBeaten
    <3>2. QED
      BY <1>2, <3>1 DEF Lists, Tables, ListsAgree, NobodyWaitsForNothing
  <2>2. CASE id \notin m_workers
    <3>1. TurnAway(id)
      BY <1>5, <2>2 DEF BrokerBeaten
    <3>2. QED
      BY <3>1, TurnedAway
  <2>3. QED
    BY <2>1, <2>2
<1>6. CASE BrokerCall(id)
  <2>1. r \in ToBroker /\ r.cmd = "CALL"
    BY <1>1, <1>6 DEF BrokerCall, Takes, r
  <2>2. r.service \in Services /\ r.n \in Nat
    BY <2>1, ToBrokerTypes
  <2>3. services' = services \union {r.service}
    BY <1>6 DEF BrokerCall, r
  <2>4. CASE r.service \in Internal
    <3>1. /\ fromBroker' = Sent(fromBroker, id, Answer("501", r.n))
          /\ UNCHANGED <<srv_requests, srv_waiting, m_workers, m_service,
                         m_waiting>>
      BY <1>6, <2>4 DEF BrokerCall, r
    <3>2. fromBroker' \in [Ids -> Seq(FromBroker)]
      BY <1>2, <2>2, <3>1, AnswerTyped, SentTyped
    <3>3. QED
      BY <2>2, <2>3, <3>1, <3>2 DEF Lists, Tables, ListsAgree, NobodyWaitsForNothing
  <2>5. CASE r.service \notin Internal
    <3> DEFINE call == [client |-> id, n |-> r.n]
    <3>1. PICK garbage \in Garbage :
             service_dispatch(r.service, Append(srv_requests[r.service], call), {},
                 [srv_workers EXCEPT ![r.service] = Count(r.service, garbage)],
                 fromBroker)
      BY <1>6, <2>5 DEF BrokerCall, r
    <3>2. call \in Calls
      BY <2>2 DEF Calls
    <3> HIDE DEF call
    <3>3. /\ Append(srv_requests[r.service], call) \in Seq(Calls)
          /\ {} \in SUBSET Ids
          /\ \A w \in {} : w \in m_waiting => m_service[w] = r.service
          /\ services' \in SUBSET Services /\ services \subseteq services'
          /\ {} # {} => r.service \in services'
      BY <1>2, <2>2, <2>3, <3>2, AppendProperties
    <3>4. QED
      BY <1>2, <2>2, <3>1, <3>3, Dispatch
  <2>6. QED
    BY <2>4, <2>5
<1>7. CASE BrokerMmi(id)
  <2>1. r \in ToBroker /\ r.cmd \in {"CALL", "MMI"} /\ UNCHANGED tables
    BY <1>1, <1>7 DEF BrokerMmi, r
  <2>2. r.n \in Nat
    BY <2>1, ToBrokerTypes
  <2>3. \/ UNCHANGED fromBroker
        \/ \E code \in {"200", "404"} :
               fromBroker' = Sent(fromBroker, id, Answer(code, r.n))
    BY <1>7 DEF BrokerMmi, r
  <2>4. fromBroker' \in [Ids -> Seq(FromBroker)]
    BY <1>2, <2>2, <2>3, AnswerTyped, SentTyped
  <2>5. QED
    BY <2>1, <2>4, SameTables
<1>8. QED
  BY <1>3, <1>4, <1>5, <1>6, <1>7 DEF BrokerTakes

LEMMA BeatsLists ==
    ASSUME Lists, Queues, BrokerBeats
    PROVE  Lists' /\ Queues'
<1>1. Heartbeat \in FromBroker
  BY DEF Heartbeat, FromBroker
<1>2. \A id \in Ids : Append(fromBroker[id], Heartbeat) \in Seq(FromBroker)
  BY <1>1, AppendProperties DEF Queues
<1>3. Queues'
  BY <1>2 DEF BrokerBeats, Queues
<1>4. Tables'
  BY DEF BrokerBeats, Lists, Tables, ListsAgree, Expired
<1>5. ListsAgree'
  BY DEF BrokerBeats, Lists, Tables, ListsAgree, Expired
<1>6. NobodyWaitsForNothing'
  BY DEF BrokerBeats, Lists, Tables, NobodyWaitsForNothing
<1>7. QED
  BY <1>3, <1>4, <1>5, <1>6 DEF Lists

LEMMA TickLists == ASSUME Lists, Queues, Tick PROVE Lists' /\ Queues'
  BY DEF Tick, queues, Queues, Lists, Tables, ListsAgree, NobodyWaitsForNothing

LEMMA DiesLists ==
    ASSUME Lists, Queues, BrokerDies
    PROVE  Lists' /\ Queues'
<1>1. /\ <<>> \in Seq(Calls) /\ <<>> \in Seq(ToBroker)
  BY EmptySeq
<1>2. Queues'
  BY <1>1 DEF BrokerDies, Queues
<1>3. Lists'
  BY <1>1 DEF BrokerDies, Lists, Tables, ListsAgree, NobodyWaitsForNothing
<1>4. QED
  BY <1>2, <1>3

LEMMA LosesLists ==
    ASSUME Lists, Queues, NEW id \in Ids, BrokerLoses(id)
    PROVE  Lists' /\ Queues'
<1>1. Lists'
  BY SameTables DEF BrokerLoses
<1>2. CASE /\ toBroker[id] # <<>>
           /\ toBroker' = [toBroker EXCEPT ![id] = Tail(@)]
           /\ UNCHANGED fromBroker
  BY <1>1, <1>2, HeadTyped DEF Queues
<1>3. CASE /\ fromBroker[id] # <<>>
           /\ fromBroker' = [fromBroker EXCEPT ![id] = SubSeq(@, 1, Len(@) - 1)]
           /\ UNCHANGED toBroker
  <2>1. fromBroker[id] \in Seq(FromBroker)
    BY DEF Queues
  <2>2. SubSeq(fromBroker[id], 1, Len(fromBroker[id]) - 1) \in Seq(FromBroker)
    BY <2>1, SubSeqProperties, ElementOfSeq, LenProperties
  <2>3. QED
    BY <1>1, <1>3, <2>2 DEF Queues
<1>4. QED
  BY <1>2, <1>3 DEF BrokerLoses

-----------------------------------------------------------------------------
(* The steps of the peers, which leave the tables alone.                   *)

Sessions == session \in [Peers -> Nat] /\ \A p \in Peers : session[p] <= MaxSockets(p)

Hands ==
    /\ wstate \in [Workers -> {"off", "idle", "busy"}]
    /\ request \in [Workers -> Calls \union {NoRequest}]
    /\ \A w \in Workers : wstate[w] = "busy" => request[w] \in Calls
    /\ asked \in [Clients -> Nat]

PeersInv == Sessions /\ Hands

\* What the theorems below rest on.
IInv == Lists /\ Queues /\ PeersInv

LEMMA IdTyped == ASSUME Sessions, NEW p \in Peers PROVE Id(p) \in Ids
<1>1. session[p] \in 0 .. MaxSockets(p)
  <2>1. session[p] \in Nat /\ session[p] <= MaxSockets(p)
    BY DEF Sessions
  <2>2. MaxSockets(p) \in Nat
    BY BrokerAssumption DEF MaxSockets
  <2>3. QED
    BY <2>1, <2>2
<1>2. QED
  BY <1>1, BrokerAssumption DEF Peers, MaxSockets, Id, Ids, WorkerIds, ClientIds

LEMMA KeptTyped ==
    ASSUME Sessions, Queues, NEW p \in Peers, NEW kept \in Received(p)
    PROVE  SubSeq(toBroker[Id(p)], 1, kept) \in Seq(ToBroker)
<1>1. toBroker[Id(p)] \in Seq(ToBroker)
  BY IdTyped DEF Queues
<1>2. /\ kept \in Nat /\ kept <= Len(toBroker[Id(p)])
      /\ \A i \in 1 .. kept : i \in 1 .. Len(toBroker[Id(p)])
  BY <1>1, LenProperties DEF Received
<1>3. \A i \in 1 .. kept : toBroker[Id(p)][i] \in ToBroker
  BY <1>1, <1>2, ElementOfSeq
<1>4. QED
  BY <1>2, <1>3, SubSeqProperties

LEMMA ClosesTyped ==
    ASSUME Sessions, Queues, NEW p \in Peers, Closes(p)
    PROVE  Queues'
<1>1. toBroker' \in [Ids -> Seq(ToBroker)]
  BY KeptTyped DEF Closes, Queues
<1>2. <<>> \in Seq(FromBroker)
  BY EmptySeq
<1>3. QED
  BY <1>1, <1>2 DEF Closes, Queues

LEMMA ReconnectsTyped ==
    ASSUME Sessions, Queues, NEW p \in Peers, NEW first \in ToBroker,
           Reconnects(p, first)
    PROVE  Queues' /\ Sessions'
<1>1. PICK kept \in Received(p) :
          toBroker' = [toBroker EXCEPT ![Id(p)] = SubSeq(@, 1, kept),
                                       ![<<p, session[p] + 1>>] = <<first>>]
  BY DEF Reconnects
<1>2. SubSeq(toBroker[Id(p)], 1, kept) \in Seq(ToBroker)
  BY KeptTyped
<1>3. <<first>> \in Seq(ToBroker) /\ <<>> \in Seq(FromBroker)
  BY EmptySeq
<1>4. toBroker' \in [Ids -> Seq(ToBroker)]
  <2> DEFINE cut == SubSeq(toBroker[Id(p)], 1, kept)
             new == <<p, session[p] + 1>>
  <2>1. toBroker' = [toBroker EXCEPT ![Id(p)] = cut, ![new] = <<first>>]
    BY <1>1
  <2> HIDE DEF cut, new
  <2>2. cut \in Seq(ToBroker) /\ toBroker \in [Ids -> Seq(ToBroker)]
    BY <1>2 DEF cut, Queues
  <2>3. QED
    BY <1>3, <2>1, <2>2
<1>5. fromBroker' \in [Ids -> Seq(FromBroker)]
  BY <1>3 DEF Reconnects, Queues
<1>6. Sessions'
  <2>1. /\ session \in [Peers -> Nat] /\ session[p] < MaxSockets(p)
        /\ session' = [session EXCEPT ![p] = @ + 1]
        /\ \A x \in Peers : session[x] <= MaxSockets(x)
    BY DEF Reconnects, Sessions
  <2>2. \A x \in Peers : MaxSockets(x) \in Nat
    BY BrokerAssumption DEF MaxSockets
  <2>3. session' \in [Peers -> Nat]
    BY <2>1
  <2>4. ASSUME NEW x \in Peers PROVE session'[x] <= MaxSockets(x)
    BY <2>1, <2>2
  <2>5. QED
    BY <2>3, <2>4 DEF Sessions, MaxSockets
<1>7. QED
  BY <1>4, <1>5, <1>6 DEF Queues

LEMMA SendsTyped ==
    ASSUME Sessions, Queues, NEW p \in Peers, NEW m \in ToBroker, Sends(p, m),
           UNCHANGED fromBroker
    PROVE  Queues' /\ Sessions'
<1>1. toBroker[Id(p)] \in Seq(ToBroker)
  BY IdTyped DEF Queues
<1>2. Append(toBroker[Id(p)], m) \in Seq(ToBroker)
  BY <1>1, AppendProperties
<1>3. Queues'
  BY <1>2 DEF Sends, Queues
<1>4. QED
  BY <1>3 DEF Sends, Sessions, MaxSockets

LEMMA WorkerLists ==
    ASSUME IInv, NEW w \in Workers, WorkerStep(w)
    PROVE  IInv'
<1> USE DEF IInv, PeersInv
<1>1. w \in Peers /\ Id(w) \in Ids /\ Ready(w) \in ToBroker
  BY IdTyped, PeersAssumption DEF Peers, Ready, ToBroker
<1>2. Lists'
  BY SameTables DEF WorkerStep, WorkerStarts, WorkerTakes, WorkerReplies,
                    WorkerTimesOut, WorkerBeats, WorkerDies
<1>3. ASSUME WorkerConnects(w) PROVE Queues' /\ Sessions'
  BY <1>1, <1>3, ReconnectsTyped DEF WorkerConnects
<1>4. fromBroker[Id(w)] # <<>>
         => /\ Head(fromBroker[Id(w)]) \in FromBroker
            /\ Tail(fromBroker[Id(w)]) \in Seq(FromBroker)
  BY <1>1, HeadTailProperties DEF Queues
<1>5. CASE WorkerStarts(w)
  <2>1. Queues' /\ Sessions'
    BY <1>3, <1>5 DEF WorkerStarts
  <2>2. Hands'
    BY <1>5 DEF WorkerStarts, Hands, clientVars
  <2>3. QED
    BY <1>2, <2>1, <2>2
<1>6. CASE WorkerTakes(w)
  <2> DEFINE m == Head(fromBroker[Id(w)])
  <2>1. m \in FromBroker
    BY <1>4, <1>6 DEF WorkerTakes
  <2>2. ASSUME fromBroker' = [fromBroker EXCEPT ![Id(w)] = Tail(@)],
               UNCHANGED <<session, connected, toBroker>>
        PROVE  Queues' /\ Sessions'
    BY <1>4, <1>6, <2>2 DEF WorkerTakes, Queues, Sessions, MaxSockets
  <2>3. Queues' /\ Sessions'
    BY <1>3, <1>6, <2>2 DEF WorkerTakes
  <2>4. CASE /\ m.cmd = "REQUEST"
             /\ request' = [request EXCEPT ![w] = [client |-> m.client, n |-> m.n]]
             /\ wstate' = [wstate EXCEPT ![w] = "busy"]
    <3> DEFINE r == [client |-> m.client, n |-> m.n]
    <3>1. r \in Calls
      BY <2>1, <2>4, FromBrokerTypes
    <3>2. request' = [request EXCEPT ![w] = r]
      BY <2>4
    <3> HIDE DEF r, m
    <3>3. UNCHANGED asked
      BY <1>6 DEF WorkerTakes, clientVars
    <3>4. Hands'
      BY <2>4, <3>1, <3>2, <3>3 DEF Hands
    <3>5. QED
      BY <1>2, <2>3, <3>4
  <2>5. CASE UNCHANGED <<wstate, request>>
    <3>1. Hands'
      BY <1>6, <2>5 DEF WorkerTakes, Hands, clientVars
    <3>2. QED
      BY <1>2, <2>3, <3>1
  <2>6. QED
    BY <1>6, <2>4, <2>5 DEF WorkerTakes
<1>7. CASE WorkerReplies(w)
  <2>1. request[w] \in Calls
    BY <1>7 DEF WorkerReplies, Hands
  <2>2. Reply(request[w]) \in ToBroker
    BY <2>1 DEF Reply, Calls, ToBroker
  <2>3. Queues' /\ Sessions'
    BY <1>1, <1>7, <2>2, SendsTyped DEF WorkerReplies
  <2>4. Hands'
    BY <1>7 DEF WorkerReplies, Hands, clientVars
  <2>5. QED
    BY <1>2, <2>3, <2>4
<1>8. CASE WorkerTimesOut(w)
  <2>1. ASSUME UNCHANGED <<session, connected, queues>>
        PROVE  Queues' /\ Sessions'
    BY <2>1 DEF queues, Queues, Sessions, MaxSockets
  <2>2. Queues' /\ Sessions'
    BY <1>3, <1>8, <2>1 DEF WorkerTimesOut
  <2>3. Hands'
    BY <1>8 DEF WorkerTimesOut, Hands, clientVars
  <2>4. QED
    BY <1>2, <2>2, <2>3
<1>9. CASE WorkerBeats(w)
  <2>1. Heartbeat \in ToBroker
    BY DEF Heartbeat, ToBroker
  <2>2. Queues' /\ Sessions'
    BY <1>1, <1>9, <2>1, SendsTyped DEF WorkerBeats
  <2>3. Hands'
    BY <1>9 DEF WorkerBeats, Hands, workerVars, clientVars
  <2>4. QED
    BY <1>2, <2>2, <2>3
<1>10. CASE WorkerDies(w)
  <2>1. Queues'
    BY <1>1, <1>10, ClosesTyped DEF WorkerDies
  <2>2. Sessions' /\ Hands'
    BY <1>10 DEF WorkerDies, Sessions, Hands, clientVars, MaxSockets
  <2>3. QED
    BY <1>2, <2>1, <2>2
<1>11. QED
  BY <1>5, <1>6, <1>7, <1>8, <1>9, <1>10 DEF WorkerStep

LEMMA ClientLists ==
    ASSUME IInv, NEW c \in Clients, ClientStep(c)
    PROVE  IInv'
<1> USE DEF IInv, PeersInv
<1>1. c \in Peers /\ Id(c) \in Ids /\ asked[c] \in Nat
  BY IdTyped DEF Peers, Hands
<1>2. Lists'
  BY SameTables DEF ClientStep, ClientCalls, ClientTakes, ClientTimesOut
<1>3. \A n \in Nat : Call(c, n) \in ToBroker
  BY PeersAssumption DEF Call, ToBroker
<1>4. CASE ClientCalls(c)
  <2>1. Queues' /\ Sessions'
    BY <1>1, <1>3, <1>4, SendsTyped DEF ClientCalls
  <2>2. Hands'
    BY <1>1, <1>4 DEF ClientCalls, Hands, workerVars
  <2>3. QED
    BY <1>2, <2>1, <2>2
<1>5. CASE ClientTakes(c)
  <2>1. Tail(fromBroker[Id(c)]) \in Seq(FromBroker)
    BY <1>1, <1>5, HeadTailProperties DEF ClientTakes, Queues
  <2>2. Queues' /\ Sessions' /\ Hands'
    BY <1>5, <2>1 DEF ClientTakes, Queues, Sessions, Hands, workerVars, MaxSockets
  <2>3. QED
    BY <1>2, <2>2
<1>6. CASE ClientTimesOut(c)
  <2>1. Queues' /\ Sessions'
    <3>1. CASE Reconnects(c, Call(c, asked[c]))
      BY <1>1, <1>3, <3>1, ReconnectsTyped
    <3>2. CASE Closes(c) /\ UNCHANGED session
      BY <1>1, <3>2, ClosesTyped DEF Sessions, MaxSockets
    <3>3. QED
      BY <1>6, <3>1, <3>2 DEF ClientTimesOut
  <2>2. Hands'
    BY <1>6 DEF ClientTimesOut, Hands, workerVars
  <2>3. QED
    BY <1>2, <2>1, <2>2
<1>7. QED
  BY <1>4, <1>5, <1>6 DEF ClientStep

-----------------------------------------------------------------------------
(* Theorems about the tables.                                               *)

LEMMA Initial == Init => IInv
<1> SUFFICES ASSUME Init PROVE IInv
  OBVIOUS
<1>1. /\ <<>> \in Seq(Calls) /\ <<>> \in Seq(ToBroker) /\ <<>> \in Seq(FromBroker)
  BY EmptySeq
<1>2. Lists
  BY <1>1 DEF Init, EmptyTables, Lists, Tables, ListsAgree, NobodyWaitsForNothing
<1>3. Queues
  BY <1>1 DEF Init, Queues
<1>4. Sessions
  <2>1. \A p \in Peers : session[p] \in Nat /\ session[p] <= MaxSockets(p)
    BY BrokerAssumption DEF Init, Peers, MaxSockets
  <2>2. QED
    BY <2>1 DEF Init, Sessions
<1>5. Hands
  BY DEF Init, Hands
<1>6. QED
  BY <1>2, <1>3, <1>4, <1>5 DEF IInv, PeersInv

LEMMA Inductive == IInv /\ [Next]_vars => IInv'
<1> SUFFICES ASSUME IInv, [Next]_vars PROVE IInv'
  OBVIOUS
<1> USE DEF IInv
<1>1. ASSUME UNCHANGED peerVars PROVE PeersInv'
  BY <1>1 DEF peerVars, workerVars, clientVars, PeersInv, Sessions, Hands, MaxSockets
<1>2. CASE BrokerStep
  <2>1. UNCHANGED peerVars
    BY <1>2 DEF BrokerStep
  <2>2. Lists' /\ Queues'
    BY <1>2, TakesLists, BeatsLists, TickLists DEF BrokerStep
  <2>3. QED
    BY <1>1, <2>1, <2>2
<1>3. CASE BrokerFails
  <2>1. UNCHANGED peerVars
    BY <1>3 DEF BrokerFails
  <2>2. ASSUME BrokerRestarts PROVE Lists' /\ Queues'
    BY <2>2, SameTables DEF BrokerRestarts, queues, Queues
  <2>3. Lists' /\ Queues'
    BY <1>3, <2>2, DiesLists, LosesLists DEF BrokerFails
  <2>4. QED
    BY <1>1, <2>1, <2>3
<1>4. CASE \E w \in Workers : WorkerStep(w)
  BY <1>4, WorkerLists
<1>5. CASE \E c \in Clients : ClientStep(c)
  BY <1>5, ClientLists
<1>6. CASE UNCHANGED vars
  <2>1. UNCHANGED tables /\ UNCHANGED queues /\ UNCHANGED peerVars
    BY <1>6 DEF vars, brokerVars, peerVars
  <2>2. Queues'
    BY <2>1 DEF queues, Queues
  <2>3. QED
    BY <1>1, <2>1, <2>2, SameTables
<1>7. QED
  BY <1>2, <1>3, <1>4, <1>5, <1>6 DEF Next

\* The broker's list of waiting workers and those of its services say the same
\* of every worker, for any number of workers, clients and services, whatever
\* crashes, losses and purges come between (worker_waiting, worker_delete,
\* purge_workers, service_dispatch).
THEOREM WaitingListsAgree == Spec => []ListsAgree
<1>1. IInv => ListsAgree
  BY DEF IInv, Lists
<1>2. QED
  BY <1>1, Initial, Inductive, PTL DEF Spec

\* No service ever has a request and an idle worker at the same time, however
\* many of both there are (service_dispatch, and every path that fills one of
\* its two lists).
THEOREM EveryRequestDispatched == Spec => []NobodyWaitsForNothing
<1>1. IInv => NobodyWaitsForNothing
  BY DEF IInv, Lists
<1>2. QED
  BY <1>1, Initial, Inductive, PTL DEF Spec

-----------------------------------------------------------------------------
(* The counts.                                                             *)

\* n counts a set: it is never less than its members, and not more either
\* where nothing was left unassigned.
Counts(n, known) ==
    /\ n \in Nat /\ Cardinality(known) <= n
    /\ Garbage = {0} => n = Cardinality(known)

AllCounted == srv_workers \in [Services -> Nat] /\ \A s \in Services : Counts(srv_workers[s], Of(s))

LEMMA Fewer ==
    ASSUME NEW known \in SUBSET Ids, NEW gone, NEW n, Counts(n, known)
    PROVE  Counts(n - Cardinality(known \intersect gone), known \ gone)
<1>1. IsFiniteSet(known)
  BY IdsFinite, FS_Subset
<1>2. /\ Cardinality(known \ gone) = Cardinality(known) - Cardinality(known \intersect gone)
      /\ IsFiniteSet(known \ gone)
  BY <1>1, FS_Difference
<1>3. /\ Cardinality(known) \in Nat /\ Cardinality(known \ gone) \in Nat
      /\ Cardinality(known \intersect gone) \in Nat
  BY <1>1, <1>2, FS_Subset, FS_CardinalityType
<1>4. /\ n \in Nat /\ Cardinality(known) <= n
      /\ Garbage = {0} => n = Cardinality(known)
  BY DEF Counts
<1>5. QED
  BY <1>2, <1>3, <1>4 DEF Counts

LEMMA OneMore ==
    ASSUME NEW known \in SUBSET Ids, NEW id \in Ids, id \notin known, NEW n,
           Counts(n, known)
    PROVE  Counts(n + 1, known \union {id})
<1>1. IsFiniteSet(known)
  BY IdsFinite, FS_Subset
<1>2. Cardinality(known) \in Nat
      /\ Cardinality(known \union {id}) = Cardinality(known) + 1
  BY <1>1, FS_AddElement, FS_CardinalityType
<1>3. QED
  BY <1>2 DEF Counts

\* Whatever left the broker's list with its service cleared is uncounted.
LEMMA UncountedRight ==
    ASSUME Lists, NEW counts \in [Services -> Nat], NEW gone,
           NEW joining \in SUBSET Ids, NEW s \in Services,
           gone \subseteq m_workers, gone \intersect joining = {},
           \A id \in joining : id \in m_workers => m_service[id] = s,
           \A t \in Services : Counts(counts[t],
               Of(t) \union (IF t = s THEN joining ELSE {})),
           srv_workers' = Uncounted(counts, gone),
           m_workers' = (m_workers \union joining) \ gone,
           \A id \in m_workers' : m_service'[id] = IF id \in joining THEN s
                                                   ELSE m_service[id]
    PROVE  AllCounted'
<1> SUFFICES ASSUME NEW t \in Services
             PROVE  Counts(srv_workers'[t], Of(t)')
  BY DEF AllCounted, Uncounted, Counts
<1> DEFINE known == Of(t) \union (IF t = s THEN joining ELSE {})
<1>1. known \in SUBSET Ids /\ Counts(counts[t], known)
  BY DEF Of, Lists, Tables
<1>2. {id \in gone : m_service[id] = t} = known \intersect gone
  BY DEF Of
<1>3. Of(t)' = known \ gone
  BY DEF Of
<1>4. srv_workers'[t] = counts[t] - Cardinality(known \intersect gone)
  BY <1>2 DEF Uncounted
<1> HIDE DEF known
<1>5. QED
  BY <1>1, <1>3, <1>4, Fewer

LEMMA SameCounts ==
    ASSUME AllCounted, UNCHANGED <<srv_workers, m_workers, m_service>>
    PROVE  AllCounted'
  BY DEF AllCounted, Of

LEMMA TakesCounts ==
    ASSUME IInv, AllCounted, NEW id \in Ids, BrokerTakes(id)
    PROVE  AllCounted'
<1>1. Head(toBroker[id]) \in ToBroker
  <2>1. /\ toBroker[id] # <<>>
        /\ toBroker' = [toBroker EXCEPT ![id] = Tail(@)]
    BY DEF BrokerTakes, BrokerReady, BrokerReply, BrokerBeaten, BrokerCall,
           BrokerMmi, Takes
  <2>2. QED
    BY <2>1, HeadTyped DEF IInv
<1>2. /\ Lists
      /\ services \subseteq Services /\ m_workers \subseteq Ids
      /\ m_waiting \subseteq m_workers
      /\ \A w \in m_workers : m_service[w] \in services
      /\ m_service \in [Ids -> Services \union {NoService}]
      /\ srv_workers \in [Services -> Nat]
      /\ \A s \in Services : Of(s) \in SUBSET Ids /\ Counts(srv_workers[s], Of(s))
  BY DEF IInv, Lists, Tables, ListsAgree, AllCounted, Of
\* Before anything is counted for a new service.
<1>3. ASSUME NEW s \in Services, NEW garbage \in Garbage
      PROVE  Count(s, garbage) \in Nat /\ Counts(Count(s, garbage), Of(s))
  <2>1. CASE s \in services
    BY <1>2, <2>1 DEF Count
  <2>2. CASE s \notin services
    <3>1. Of(s) = {} /\ Cardinality({}) = 0
      BY <1>2, <2>2, FS_EmptySet DEF Of
    <3>2. garbage \in Nat /\ (Garbage = {0} => garbage = 0)
      BY BrokerAssumption
    <3>3. QED
      BY <2>2, <3>1, <3>2 DEF Count, Counts
  <2>3. QED
    BY <2>1, <2>2
\* service_dispatch purges, and counts what it purges.
<1>4. ASSUME NEW s \in Services, NEW requests, NEW joining \in SUBSET Ids,
             NEW counts \in [Services -> Nat], NEW qs,
             service_dispatch(s, requests, joining, counts, qs),
             \A w \in joining : w \in m_workers => m_service[w] = s,
             \A t \in Services : Counts(counts[t],
                 Of(t) \union (IF t = s THEN joining ELSE {}))
      PROVE  AllCounted'
  <2> DEFINE gone == Expired \ joining
  <2>1. /\ m_service' = [w \in Ids |-> IF w \in joining THEN s
                                       ELSE IF w \in gone THEN NoService
                                       ELSE m_service[w]]
        /\ m_workers' = (m_workers \union joining) \ gone
        /\ srv_workers' = Uncounted(counts, gone)
    BY <1>4, Zenon DEF service_dispatch
  <2>2. gone \subseteq m_workers /\ gone \intersect joining = {}
    BY <1>2 DEF Expired
  <2>3. \A w \in m_workers' : m_service'[w] = IF w \in joining THEN s
                                              ELSE m_service[w]
    BY <1>2, <2>1
  <2> HIDE DEF gone
  <2>4. QED
    BY <1>2, <1>4, <2>1, <2>2, <2>3, UncountedRight
<1> DEFINE r == Head(toBroker[id])
<1> HIDE DEF r
<1>5. CASE BrokerReady(id)
  <2>1. r.service \in Services
    BY <1>1, <1>5, ToBrokerTypes DEF BrokerReady, Takes, r
  <2>2. CASE id \in m_workers
    <3>1. worker_delete(id)
      BY <1>5, <2>2 DEF BrokerReady
    <3>2. /\ srv_workers' = Uncounted(srv_workers, {id})
          /\ m_workers' = m_workers \ {id}
          /\ m_service' = [m_service EXCEPT ![id] = NoService]
      BY <3>1 DEF worker_delete
    <3>3. ASSUME NEW t \in Services
          PROVE  Counts(srv_workers'[t], Of(t)')
      <4>1. Of(t) \in SUBSET Ids /\ Counts(srv_workers[t], Of(t))
        BY <1>2
      <4>2. {w \in {id} : m_service[w] = t} = Of(t) \intersect {id}
        BY <2>2 DEF Of
      <4>3. Of(t)' = Of(t) \ {id}
        BY <1>2, <3>2 DEF Of
      <4>4. srv_workers'[t] = srv_workers[t] - Cardinality(Of(t) \intersect {id})
        BY <3>2, <4>2 DEF Uncounted
      <4>5. QED
        BY <4>1, <4>3, <4>4, Fewer
    <3>4. QED
      BY <3>2, <3>3 DEF AllCounted, Uncounted, Counts
  <2>3. CASE id \notin m_workers
    <3>1. PICK garbage \in Garbage :
             service_dispatch(r.service, srv_requests[r.service], {id},
                 [srv_workers EXCEPT ![r.service] = Count(r.service, garbage) + 1],
                 fromBroker)
      BY <1>5, <2>3 DEF BrokerReady, r
    <3> DEFINE counts == [srv_workers EXCEPT ![r.service] = Count(r.service, garbage) + 1]
    <3>2. counts \in [Services -> Nat]
      BY <1>2, <1>3, <2>1
    <3>3. ASSUME NEW t \in Services
          PROVE  Counts(counts[t], Of(t) \union (IF t = r.service THEN {id} ELSE {}))
      <4>1. CASE t = r.service
        <5>1. id \notin Of(t) /\ counts[t] = Count(t, garbage) + 1
          BY <1>2, <2>3, <4>1 DEF Of
        <5>2. Counts(Count(t, garbage), Of(t)) /\ Of(t) \in SUBSET Ids
          BY <1>2, <1>3
        <5>3. Counts(Count(t, garbage) + 1, Of(t) \union {id})
          BY <5>1, <5>2, OneMore
        <5>4. QED
          BY <4>1, <5>1, <5>3
      <4>2. CASE t # r.service
        BY <1>2, <4>2
      <4>3. QED
        BY <4>1, <4>2
    <3>4. /\ {id} \in SUBSET Ids
          /\ \A w \in {id} : w \in m_workers => m_service[w] = r.service
      BY <2>3
    <3> HIDE DEF counts
    <3>5. service_dispatch(r.service, srv_requests[r.service], {id}, counts,
                           fromBroker)
      BY <3>1 DEF counts
    <3>6. QED
      BY <1>4, <2>1, <3>2, <3>3, <3>4, <3>5
  <2>4. QED
    BY <2>2, <2>3
<1>6. CASE BrokerReply(id)
  <2>1. CASE id \in m_workers
    <3> DEFINE s == m_service[id]
    <3>1. service_dispatch(s, srv_requests[s], {id}, srv_workers,
              Sent(fromBroker, r.client, Answer("done", r.n)))
      BY <1>6, <2>1 DEF BrokerReply, r
    <3>2. /\ s \in Services
          /\ {id} \in SUBSET Ids
          /\ \A w \in {id} : w \in m_workers => m_service[w] = s
      BY <1>2, <2>1
    <3>3. ASSUME NEW t \in Services
          PROVE  Counts(srv_workers[t], Of(t) \union (IF t = s THEN {id} ELSE {}))
      <4>1. Of(t) \union (IF t = s THEN {id} ELSE {}) = Of(t)
        BY <2>1 DEF Of
      <4>2. QED
        BY <1>2, <4>1
    <3> HIDE DEF s
    <3>4. QED
      BY <1>2, <1>4, <3>1, <3>2, <3>3
  <2>2. CASE id \notin m_workers
    BY <1>6, <2>2, SameCounts DEF BrokerReply, TurnAway, tables
  <2>3. QED
    BY <2>1, <2>2
<1>7. CASE BrokerBeaten(id)
  BY <1>7, SameCounts DEF BrokerBeaten, TurnAway, tables
<1>8. CASE BrokerCall(id)
  <2>1. r.service \in Services
    BY <1>1, <1>8, ToBrokerTypes DEF BrokerCall, Takes, r
  <2>2. PICK garbage \in Garbage :
           LET counts == [srv_workers EXCEPT ![r.service] = Count(r.service, garbage)]
           IN IF r.service \in Internal
              THEN srv_workers' = counts /\ UNCHANGED <<m_workers, m_service>>
              ELSE service_dispatch(r.service,
                       Append(srv_requests[r.service], [client |-> id, n |-> r.n]),
                       {}, counts, fromBroker)
    BY <1>8 DEF BrokerCall, r
  <2> DEFINE counts == [srv_workers EXCEPT ![r.service] = Count(r.service, garbage)]
  <2>3. /\ counts \in [Services -> Nat]
        /\ \A t \in Services : Counts(counts[t], Of(t))
    BY <1>2, <1>3, <2>1
  <2> HIDE DEF counts
  <2>4. CASE r.service \in Internal
    <3>1. srv_workers' = counts /\ UNCHANGED <<m_workers, m_service>>
      BY <2>2, <2>4 DEF counts
    <3>2. QED
      BY <2>3, <3>1 DEF AllCounted, Of
  <2>5. CASE r.service \notin Internal
    <3>1. service_dispatch(r.service,
              Append(srv_requests[r.service], [client |-> id, n |-> r.n]),
              {}, counts, fromBroker)
      BY <2>2, <2>5 DEF counts
    <3>2. \A t \in Services : Counts(counts[t],
              Of(t) \union (IF t = r.service THEN {} ELSE {}))
      BY <2>3
    <3>3. {} \in SUBSET Ids /\ \A w \in {} : w \in m_workers => m_service[w] = r.service
      OBVIOUS
    <3>4. QED
      BY <1>4, <2>1, <2>3, <3>1, <3>2, <3>3
  <2>6. QED
    BY <2>4, <2>5
<1>9. CASE BrokerMmi(id)
  BY <1>9, SameCounts DEF BrokerMmi, tables
<1>10. QED
  BY <1>5, <1>6, <1>7, <1>8, <1>9 DEF BrokerTakes

LEMMA BeatsCounts == ASSUME IInv, AllCounted, BrokerBeats PROVE AllCounted'
<1>1. /\ srv_workers' = Uncounted(srv_workers, Expired)
      /\ m_workers' = m_workers \ Expired
      /\ m_service' = [id \in Ids |-> IF id \in Expired THEN NoService
                                      ELSE m_service[id]]
  BY DEF BrokerBeats
<1>2. m_workers \subseteq Ids
  BY DEF IInv, Lists, Tables
<1>3. ASSUME NEW s \in Services
      PROVE  Counts(srv_workers'[s], Of(s)')
  <2>1. Of(s) \in SUBSET Ids /\ Counts(srv_workers[s], Of(s))
    BY <1>2 DEF AllCounted, Of
  <2>2. {id \in Expired : m_service[id] = s} = Of(s) \intersect Expired
    BY DEF Of, Expired, IInv, Lists, ListsAgree
  <2>3. Of(s)' = Of(s) \ Expired
    BY <1>1, <1>2 DEF Of
  <2>4. srv_workers'[s] = srv_workers[s] - Cardinality(Of(s) \intersect Expired)
    BY <1>1, <2>2 DEF Uncounted
  <2>5. QED
    BY <2>1, <2>3, <2>4, Fewer
<1>4. QED
  BY <1>1, <1>3 DEF AllCounted, Uncounted, Counts

LEMMA NobodyCounted ==
    ASSUME srv_workers = [s \in Services |-> 0], m_workers = {}
    PROVE  AllCounted
  BY FS_EmptySet DEF AllCounted, Counts, Of

LEMMA CountsInductive == IInv /\ AllCounted /\ [Next]_vars => AllCounted'
<1> SUFFICES ASSUME IInv, AllCounted, [Next]_vars PROVE AllCounted'
  OBVIOUS
<1>1. CASE BrokerStep
  BY <1>1, TakesCounts, BeatsCounts, SameCounts DEF BrokerStep, Tick
<1>2. CASE BrokerFails
  <2>1. ASSUME BrokerDies PROVE AllCounted'
    <3>1. srv_workers' = [s \in Services |-> 0] /\ m_workers' = {}
      BY <2>1 DEF BrokerDies
    <3>2. QED
      BY <3>1, FS_EmptySet DEF AllCounted, Counts, Of
  <2>2. ASSUME UNCHANGED tables PROVE AllCounted'
    BY <2>2, SameCounts DEF tables
  <2>3. QED
    BY <1>2, <2>1, <2>2 DEF BrokerFails, BrokerLoses, BrokerRestarts
<1>3. CASE \E w \in Workers : WorkerStep(w)
  BY <1>3, SameCounts DEF WorkerStep, WorkerStarts, WorkerTakes, WorkerReplies,
                          WorkerTimesOut, WorkerBeats, WorkerDies, tables
<1>4. CASE \E c \in Clients : ClientStep(c)
  BY <1>4, SameCounts DEF ClientStep, ClientCalls, ClientTakes, ClientTimesOut, tables
<1>5. CASE UNCHANGED vars
  BY <1>5, SameCounts DEF vars, brokerVars, tables
<1>6. QED
  BY <1>1, <1>2, <1>3, <1>4, <1>5 DEF Next

\* What mmi.service answers from is the number of workers the broker knows,
\* where the count of a new service starts at zero (the constructor of service
\* leaves m_workers unassigned).
THEOREM CountIsRight ==
    ASSUME Garbage = {0} PROVE Spec => []WorkersCounted
<1>1. Init => AllCounted
  BY NobodyCounted DEF Init, EmptyTables
<1>2. AllCounted => WorkersCounted
  BY DEF AllCounted, Counts, WorkersCounted, Of
<1>3. QED
  BY <1>1, <1>2, Initial, Inductive, CountsInductive, PTL DEF Spec

-----------------------------------------------------------------------------
(* Where a worker may be.                                                  *)
(* In a session a worker is in at most one place: its offer to work (READY *)
(* or a REPLY) is on its way to the broker, the broker lists it as         *)
(* waiting, a REQUEST is on its way to it, or it is busy with one.         *)

Offers == {"READY", "REPLY"}
Tasks  == {"REQUEST"}

\* Queue q holds a message with one of these commands; it holds at most one.
Has(q, cmds)  == \E i \in DOMAIN q : q[i].cmd \in cmds
Once(q, cmds) == \A i, j \in DOMAIN q :
                     q[i].cmd \in cmds /\ q[j].cmd \in cmds => i = j

Busy(id) == id \in WorkerIds /\ id = Id(id[1]) /\ wstate[id[1]] = "busy"

AtMostOnePlace(id) ==
    /\ Once(toBroker[id], Offers) /\ Once(fromBroker[id], Tasks)
    /\ id \in m_waiting => /\ ~Has(toBroker[id], Offers)
                           /\ ~Has(fromBroker[id], Tasks) /\ ~Busy(id)
    /\ Has(toBroker[id], Offers) => ~Has(fromBroker[id], Tasks) /\ ~Busy(id)
    /\ Has(fromBroker[id], Tasks) => ~Busy(id)

Somewhere(id) ==
    Has(toBroker[id], Offers) \/ Has(fromBroker[id], Tasks) \/ Busy(id)

\* Identities of clients, and those no worker has used yet.
Unused == ClientIds \union {id \in WorkerIds : id[2] > session[id[1]]}

WorkersInv ==
    /\ \A id \in Ids : AtMostOnePlace(id)
    /\ \A id \in Unused : id \notin m_workers /\ ~Somewhere(id)
    /\ \A id \in m_workers : ~Has(toBroker[id], {"READY"})
    /\ \A id \in (m_workers \ m_waiting) \intersect connected : Somewhere(id)
    /\ broker = "down" => m_workers = {}

-----------------------------------------------------------------------------
(* Queues.                                                                 *)

LEMMA EmptyQueue ==
    ASSUME NEW cmds PROVE ~Has(<<>>, cmds) /\ Once(<<>>, cmds)
  BY DEF Has, Once

LEMMA OneMessage ==
    ASSUME NEW m, NEW cmds
    PROVE  Once(<<m>>, cmds) /\ (Has(<<m>>, cmds) <=> m.cmd \in cmds)
  BY DEF Has, Once

LEMMA AppendQueue ==
    ASSUME NEW S, NEW q \in Seq(S), NEW m, NEW cmds
    PROVE  /\ Has(Append(q, m), cmds) <=> Has(q, cmds) \/ m.cmd \in cmds
           /\ Once(q, cmds) /\ (Has(q, cmds) => m.cmd \notin cmds)
                  => Once(Append(q, m), cmds)
<1>1. /\ Len(q) \in Nat /\ DOMAIN q = 1 .. Len(q)
      /\ DOMAIN Append(q, m) = 1 .. Len(q) + 1
      /\ \A i \in 1 .. Len(q) : Append(q, m)[i] = q[i]
      /\ Append(q, m)[Len(q) + 1] = m
  BY AppendProperties, LenProperties
<1>2. \A i \in DOMAIN Append(q, m) : i \in DOMAIN q \/ i = Len(q) + 1
  BY <1>1
<1>3. DOMAIN q \subseteq DOMAIN Append(q, m) /\ Len(q) + 1 \in DOMAIN Append(q, m)
  BY <1>1
<1>4. QED
  BY <1>1, <1>2, <1>3 DEF Has, Once

LEMMA TailQueue ==
    ASSUME NEW S, NEW q \in Seq(S), q # <<>>, NEW cmds
    PROVE  /\ Has(q, cmds) <=> Head(q).cmd \in cmds \/ Has(Tail(q), cmds)
           /\ Once(q, cmds) => Once(Tail(q), cmds)
           /\ Once(q, cmds) /\ Head(q).cmd \in cmds => ~Has(Tail(q), cmds)
<1>1. /\ Len(q) \in Nat \ {0} /\ DOMAIN q = 1 .. Len(q) /\ Head(q) = q[1]
      /\ DOMAIN Tail(q) = 1 .. Len(q) - 1
      /\ \A i \in 1 .. Len(q) - 1 : Tail(q)[i] = q[i + 1]
  BY HeadTailProperties, LenProperties, EmptySeq
<1>2. /\ 1 \in DOMAIN q
      /\ \A i \in DOMAIN Tail(q) : i + 1 \in DOMAIN q /\ i + 1 # 1
      /\ \A i \in DOMAIN q : i = 1 \/ (i - 1 \in DOMAIN Tail(q) /\ Tail(q)[i - 1] = q[i])
      /\ \A i, j \in DOMAIN Tail(q) : i + 1 = j + 1 => i = j
  BY <1>1
<1>3. \A i \in DOMAIN Tail(q) : Tail(q)[i] = q[i + 1]
  BY <1>1
<1>4. QED
  BY <1>1, <1>2, <1>3 DEF Has, Once

LEMMA CutQueue ==
    ASSUME NEW S, NEW q \in Seq(S), NEW k \in Nat, k <= Len(q), NEW cmds
    PROVE  /\ Has(SubSeq(q, 1, k), cmds) => Has(q, cmds)
           /\ Once(q, cmds) => Once(SubSeq(q, 1, k), cmds)
<1> DEFINE cut == SubSeq(q, 1, k)
<1>1. \A i \in DOMAIN cut : i \in DOMAIN q /\ cut[i] = q[i]
  <2>1. Len(q) \in Nat /\ DOMAIN q = 1 .. Len(q)
    BY LenProperties
  <2>2. /\ 1 \in Int /\ k \in Int
        /\ \A i \in 1 .. k : q[i] \in S
    BY <2>1, ElementOfSeq
  <2>3. DOMAIN cut = 1 .. k /\ \A i \in 1 .. k : cut[i] = q[i]
    BY <2>1, <2>2
  <2>4. QED
    BY <2>1, <2>3
<1> HIDE DEF cut
<1>2. Has(cut, cmds) => Has(q, cmds)
  BY <1>1 DEF Has
<1>3. Once(q, cmds) => Once(cut, cmds)
  BY <1>1 DEF Once
<1>4. QED
  BY <1>2, <1>3 DEF cut

\* A longer list of commands: an offer is a READY or a REPLY.
LEMMA ReadyIsOffer == ASSUME NEW q, Has(q, {"READY"}) PROVE Has(q, Offers)
  BY DEF Has, Offers

-----------------------------------------------------------------------------
(* A step that is not the workers'.                                        *)

\* An offer that arrives may make its worker wait; a worker that waited may be
\* sent a request; nothing else puts a worker anywhere.
LEMMA Moves ==
    ASSUME IInv, IInv', WorkersInv,
           UNCHANGED wstate, \A w \in Workers : session'[w] = session[w],
           \A id \in Ids :
               /\ Has(toBroker'[id], Offers) => Has(toBroker[id], Offers)
               /\ Has(toBroker'[id], {"READY"}) => Has(toBroker[id], {"READY"})
               /\ Once(toBroker'[id], Offers) /\ Once(fromBroker'[id], Tasks)
               /\ id \in m_waiting' =>
                      \/ id \in m_waiting
                      \/ Has(toBroker[id], Offers) /\ ~Has(toBroker'[id], Offers)
               /\ Has(fromBroker'[id], Tasks) =>
                      \/ Has(fromBroker[id], Tasks)
                      \/ /\ id \notin m_waiting'
                         /\ \/ id \in m_waiting
                            \/ /\ Has(toBroker[id], Offers)
                               /\ ~Has(toBroker'[id], Offers)
               /\ id \in m_workers' =>
                      \/ id \in m_workers
                      \/ /\ Has(toBroker[id], {"READY"})
                         /\ ~Has(toBroker'[id], {"READY"}),
           \A id \in (m_workers' \ m_waiting') \intersect connected' :
               \/ Has(toBroker'[id], Offers) \/ Has(fromBroker'[id], Tasks)
               \/ Busy(id),
           broker' = "down" => m_workers' = {}
    PROVE  WorkersInv'
<1>1. \A id : Busy(id)' <=> Busy(id)
  BY DEF Busy, Id, WorkerIds
<1>2. Unused' = Unused
  BY DEF Unused, WorkerIds, ClientIds
<1>3. m_waiting \subseteq m_workers /\ m_workers \subseteq Ids
      /\ m_waiting' \subseteq m_workers' /\ m_workers' \subseteq Ids
      /\ Unused \subseteq Ids
  BY DEF IInv, Lists, Tables, ListsAgree, Unused, Ids
<1>4. ASSUME NEW id \in Ids PROVE AtMostOnePlace(id)'
  <2>1. AtMostOnePlace(id)
    BY DEF WorkersInv
  <2>2. QED
    BY <1>1, <2>1 DEF AtMostOnePlace
<1>5. ASSUME NEW id \in Unused PROVE id \notin m_workers' /\ ~Somewhere(id)'
  <2>1. id \notin m_workers /\ ~Somewhere(id) /\ id \in Ids
    BY <1>3 DEF WorkersInv
  <2>2. QED
    BY <1>1, <1>3, <2>1, ReadyIsOffer DEF Somewhere
<1>6. ASSUME NEW id \in m_workers' PROVE ~Has(toBroker'[id], {"READY"})
  BY <1>3 DEF WorkersInv
<1>7. ASSUME NEW id \in (m_workers' \ m_waiting') \intersect connected'
      PROVE  Somewhere(id)'
  BY <1>1 DEF Somewhere
<1>8. QED
  BY <1>2, <1>4, <1>5, <1>6, <1>7 DEF WorkersInv

LEMMA SentMoves ==
    ASSUME NEW qs \in [Ids -> Seq(FromBroker)], NEW id, NEW m, m.cmd # "REQUEST",
           NEW x \in Ids
    PROVE  /\ Has(Sent(qs, id, m)[x], Tasks) <=> Has(qs[x], Tasks)
           /\ Once(qs[x], Tasks) => Once(Sent(qs, id, m)[x], Tasks)
<1>1. /\ Has(Append(qs[x], m), Tasks) <=> Has(qs[x], Tasks)
      /\ Once(qs[x], Tasks) => Once(Append(qs[x], m), Tasks)
  BY AppendQueue DEF Tasks
<1>2. Sent(qs, id, m)[x] \in {qs[x], Append(qs[x], m)}
  BY DEF Sent
<1>3. QED
  BY <1>1, <1>2

\* What service_dispatch does to the places of the workers.
LEMMA DispatchMoves ==
    ASSUME IInv, NEW s \in Services, NEW requests, NEW joining \in SUBSET Ids,
           NEW counts, NEW qs \in [Ids -> Seq(FromBroker)],
           service_dispatch(s, requests, joining, counts, qs),
           \A x \in Ids : /\ Once(qs[x], Tasks)
                          /\ x \in m_waiting \union joining => ~Has(qs[x], Tasks),
           NEW id \in Ids
    PROVE  /\ id \in m_waiting' => id \in m_waiting \union joining
           /\ id \in m_workers' => id \in m_workers \union joining
           /\ Once(fromBroker'[id], Tasks)
           /\ Has(qs[id], Tasks) => Has(fromBroker'[id], Tasks)
           /\ Has(fromBroker'[id], Tasks) =>
                  \/ Has(qs[id], Tasks)
                  \/ id \notin m_waiting' /\ id \in m_waiting \union joining
           /\ id \in (m_workers' \ m_waiting') \intersect connected =>
                  \/ Has(fromBroker'[id], Tasks)
                  \/ id \in m_workers \ (m_waiting \union joining)
<1> DEFINE gone == Expired \ joining
           idle == (srv_waiting[s] \union joining) \ gone
           k    == AtMost(Cardinality(idle), Len(requests))
<1>1. idle \subseteq m_waiting \union joining
  BY DEF IInv, Lists, ListsAgree
<1> HIDE DEF gone, idle, k
<1>2. PICK pick \in Picks(idle, k, m_expiry') :
          LET busy == {pick[i] : i \in 1 .. k}
          IN /\ m_waiting' = ((m_waiting \union joining) \ gone) \ busy
             /\ fromBroker' = [x \in Ids |->
                    IF x \in busy \intersect connected
                    THEN Append(qs[x],
                           Request(requests[CHOOSE i \in 1 .. k : pick[i] = x]))
                    ELSE qs[x]]
  BY Zenon DEF service_dispatch, gone, idle, k
<1>3. m_workers' = (m_workers \union joining) \ gone
  BY Zenon DEF service_dispatch, gone
<1> DEFINE busy == {pick[i] : i \in 1 .. k}
           task == Request(requests[CHOOSE i \in 1 .. k : pick[i] = id])
<1>4. busy \subseteq idle
  BY <1>2 DEF Picks
<1>5. task.cmd = "REQUEST"
  BY DEF Request
<1>6. /\ m_waiting' = ((m_waiting \union joining) \ gone) \ busy
      /\ fromBroker'[id] = IF id \in busy \intersect connected
                           THEN Append(qs[id], task) ELSE qs[id]
  BY <1>2
<1> HIDE DEF busy, task
<1>7. /\ Has(Append(qs[id], task), Tasks)
      /\ Once(qs[id], Tasks) /\ ~Has(qs[id], Tasks)
             => Once(Append(qs[id], task), Tasks)
  BY <1>5, AppendQueue DEF Tasks
<1>8. CASE id \in busy
  <2>1. id \in m_waiting \union joining /\ id \notin m_waiting'
    BY <1>1, <1>4, <1>6, <1>8
  <2>2. ~Has(qs[id], Tasks) /\ Once(qs[id], Tasks)
    BY <2>1
  <2>3. QED
    BY <1>3, <1>6, <1>7, <1>8, <2>1, <2>2
<1>9. CASE id \notin busy
  BY <1>3, <1>6, <1>9
<1>10. QED
  BY <1>8, <1>9

LEMMA TakesMoves ==
    ASSUME IInv, IInv', WorkersInv, NEW id \in Ids, BrokerTakes(id),
           UNCHANGED peerVars
    PROVE  WorkersInv'
<1> DEFINE r == Head(toBroker[id])
<1>1. /\ Queues /\ Lists
      /\ m_waiting \subseteq m_workers
      /\ m_workers \subseteq Ids /\ m_workers' \subseteq Ids
      /\ \A w \in m_workers : m_service[w] \in Services
      /\ fromBroker \in [Ids -> Seq(FromBroker)]
  BY DEF IInv, Queues, Lists, Tables, ListsAgree
<1>2. /\ broker = "running" /\ broker' # "down" /\ UNCHANGED connected
      /\ toBroker[id] # <<>>
      /\ toBroker' = [toBroker EXCEPT ![id] = Tail(@)]
  BY DEF BrokerTakes, BrokerReady, BrokerReply, BrokerBeaten, BrokerCall,
         BrokerMmi, Takes
<1>3. toBroker[id] \in Seq(ToBroker) /\ r \in ToBroker
  BY <1>1, <1>2, HeadTyped DEF Queues
<1> HIDE DEF r
\* The queues to the broker.
<1>4. ASSUME NEW x \in Ids
      PROVE  /\ Has(toBroker'[x], Offers) => Has(toBroker[x], Offers)
             /\ Has(toBroker'[x], {"READY"}) => Has(toBroker[x], {"READY"})
             /\ Once(toBroker'[x], Offers)
             /\ x # id \/ r.cmd \notin Offers
                    => (Has(toBroker[x], Offers) => Has(toBroker'[x], Offers))
  <2>1. Once(toBroker[x], Offers)
    BY DEF WorkersInv, AtMostOnePlace
  <2>2. CASE x # id
    BY <1>1, <1>2, <2>1, <2>2 DEF Queues
  <2>3. CASE x = id
    <3>1. toBroker'[id] = Tail(toBroker[id])
      BY <1>1, <1>2 DEF Queues
    <3>2. QED
      BY <1>2, <1>3, <2>1, <2>3, <3>1, TailQueue DEF r
  <2>4. QED
    BY <2>2, <2>3
<1>5. ASSUME r.cmd \in Offers
      PROVE  /\ Has(toBroker[id], Offers) /\ ~Has(toBroker'[id], Offers)
             /\ r.cmd = "READY" => /\ Has(toBroker[id], {"READY"})
                                   /\ ~Has(toBroker'[id], {"READY"})
  <2>1. Once(toBroker[id], Offers) /\ toBroker'[id] = Tail(toBroker[id])
    BY <1>1, <1>2 DEF WorkersInv, AtMostOnePlace, Queues
  <2>2. Has(toBroker[id], Offers) /\ ~Has(toBroker'[id], Offers)
    BY <1>2, <1>3, <1>5, <2>1, TailQueue DEF r
  <2>3. r.cmd = "READY" => Has(toBroker[id], {"READY"})
    BY <1>2, <1>3, TailQueue DEF r
  <2>4. QED
    BY <2>2, <2>3, ReadyIsOffer
<1>6. UNCHANGED wstate /\ \A w \in Workers : session'[w] = session[w]
  BY DEF peerVars, workerVars
\* Steps that dispatch: the worker that joins has made an offer.
<1>7. ASSUME NEW s \in Services, NEW requests, NEW joining \in SUBSET {id},
             NEW counts, NEW qs \in [Ids -> Seq(FromBroker)],
             service_dispatch(s, requests, joining, counts, qs),
             \A x \in Ids : /\ Has(qs[x], Tasks) <=> Has(fromBroker[x], Tasks)
                            /\ Once(fromBroker[x], Tasks) => Once(qs[x], Tasks),
             IF r.cmd \in Offers THEN id \in joining ELSE joining = {},
             id \in m_workers \/ r.cmd \in {"CALL", "READY"}
      PROVE  WorkersInv'
  <2>1. \A x \in Ids : /\ Once(qs[x], Tasks)
                       /\ x \in m_waiting \union joining => ~Has(qs[x], Tasks)
    BY <1>5, <1>7 DEF WorkersInv, AtMostOnePlace
  <2>2. joining \in SUBSET Ids
    OBVIOUS
  <2>3. \A x \in Ids :
           /\ x \in m_waiting' => x \in m_waiting \union joining
           /\ x \in m_workers' => x \in m_workers \union joining
           /\ Once(fromBroker'[x], Tasks)
           /\ Has(qs[x], Tasks) => Has(fromBroker'[x], Tasks)
           /\ Has(fromBroker'[x], Tasks) =>
                  \/ Has(qs[x], Tasks)
                  \/ x \notin m_waiting' /\ x \in m_waiting \union joining
           /\ x \in (m_workers' \ m_waiting') \intersect connected =>
                  \/ Has(fromBroker'[x], Tasks)
                  \/ x \in m_workers \ (m_waiting \union joining)
    BY <1>7, <2>1, <2>2, DispatchMoves
  <2>4. ASSUME NEW x \in Ids
        PROVE  /\ x \in m_waiting' =>
                      \/ x \in m_waiting
                      \/ Has(toBroker[x], Offers) /\ ~Has(toBroker'[x], Offers)
               /\ Has(fromBroker'[x], Tasks) =>
                      \/ Has(fromBroker[x], Tasks)
                      \/ /\ x \notin m_waiting'
                         /\ \/ x \in m_waiting
                            \/ /\ Has(toBroker[x], Offers)
                               /\ ~Has(toBroker'[x], Offers)
               /\ x \in m_workers' =>
                      \/ x \in m_workers
                      \/ /\ Has(toBroker[x], {"READY"})
                         /\ ~Has(toBroker'[x], {"READY"})
    <3>1. x \in joining => x = id /\ r.cmd \in Offers
      BY <1>7
    <3>2. x \in joining => x \in m_workers \/ r.cmd = "READY"
      BY <1>7, <3>1 DEF Offers
    <3>3. QED
      BY <1>5, <1>7, <2>3, <3>1, <3>2
  <2>5. ASSUME NEW x \in (m_workers' \ m_waiting') \intersect connected'
        PROVE  \/ Has(toBroker'[x], Offers) \/ Has(fromBroker'[x], Tasks)
               \/ Busy(x)
    <3>1. x \in Ids
      BY <1>1
    <3>2. CASE x \in m_workers \ (m_waiting \union joining)
      <4>1. Somewhere(x)
        BY <1>2, <3>2 DEF WorkersInv
      <4>2. x # id \/ r.cmd \notin Offers
        BY <1>7, <3>2
      <4>3. QED
        BY <1>4, <1>7, <2>3, <3>1, <4>1, <4>2 DEF Somewhere
    <3>3. QED
      BY <1>2, <2>3, <3>1, <3>2
  <2>6. QED
    BY <1>2, <1>4, <1>6, <2>3, <2>4, <2>5, Moves
\* Steps that leave the lists alone.
<1>8. ASSUME UNCHANGED <<m_workers, m_waiting>>,
             \A x \in Ids : /\ Has(fromBroker'[x], Tasks) <=> Has(fromBroker[x], Tasks)
                            /\ Once(fromBroker[x], Tasks) => Once(fromBroker'[x], Tasks),
             id \in m_workers => r.cmd \notin Offers
      PROVE  WorkersInv'
  <2>1. \A x \in Ids : Once(fromBroker'[x], Tasks)
    BY <1>8 DEF WorkersInv, AtMostOnePlace
  <2>2. ASSUME NEW x \in (m_workers' \ m_waiting') \intersect connected'
        PROVE  \/ Has(toBroker'[x], Offers) \/ Has(fromBroker'[x], Tasks)
               \/ Busy(x)
    <3>1. x \in Ids /\ Somewhere(x)
      BY <1>1, <1>2, <1>8 DEF WorkersInv
    <3>2. x # id \/ r.cmd \notin Offers
      BY <1>8
    <3>3. QED
      BY <1>4, <1>8, <3>1, <3>2 DEF Somewhere
  <2>3. QED
    BY <1>2, <1>4, <1>6, <1>8, <2>1, <2>2, Moves
<1>9. ASSUME NEW x, NEW m, m.cmd # "REQUEST",
             fromBroker' = Sent(fromBroker, x, m), UNCHANGED <<m_workers, m_waiting>>,
             id \in m_workers => r.cmd \notin Offers
      PROVE  WorkersInv'
  BY <1>1, <1>8, <1>9, SentMoves
<1>10. ASSUME id \notin m_workers, TurnAway(id) PROVE WorkersInv'
  BY <1>9, <1>10 DEF TurnAway, tables, Disconnect
<1>11. CASE BrokerReady(id)
  <2>1. r.cmd = "READY" /\ r.service \in Services
    BY <1>3, <1>11, ToBrokerTypes DEF BrokerReady, Takes, r
  <2>2. id \notin m_workers
    BY <1>5, <2>1 DEF WorkersInv, Offers
  <2>3. PICK garbage \in Garbage :
           service_dispatch(r.service, srv_requests[r.service], {id},
               [srv_workers EXCEPT ![r.service] = Count(r.service, garbage) + 1],
               fromBroker)
    BY <1>11, <2>2 DEF BrokerReady, r
  <2>4. r.cmd \in Offers /\ id \in {id} /\ {id} \in SUBSET {id}
    BY <2>1 DEF Offers
  <2>5. QED
    BY <1>1, <1>7, <2>1, <2>3, <2>4
<1>12. CASE BrokerReply(id)
  <2>1. r.cmd = "REPLY"
    BY <1>12 DEF BrokerReply, Takes, r
  <2>2. CASE id \in m_workers
    <3> DEFINE qs == Sent(fromBroker, r.client, Answer("done", r.n))
               s  == m_service[id]
    <3>1. service_dispatch(s, srv_requests[s], {id}, srv_workers, qs)
      BY <1>12, <2>2 DEF BrokerReply, r
    <3>2. qs \in [Ids -> Seq(FromBroker)]
      BY <1>1, <1>3, <2>1, ToBrokerTypes, AnswerTyped, SentTyped
    <3>3. \A x \in Ids : /\ Has(qs[x], Tasks) <=> Has(fromBroker[x], Tasks)
                         /\ Once(fromBroker[x], Tasks) => Once(qs[x], Tasks)
      BY <1>1, SentMoves DEF Answer
    <3>4. s \in Services /\ r.cmd \in Offers /\ id \in {id} /\ {id} \in SUBSET {id}
      BY <1>1, <2>1, <2>2 DEF Offers
    <3> HIDE DEF qs, s
    <3>5. QED
      BY <1>7, <2>2, <3>1, <3>2, <3>3, <3>4
  <2>3. CASE id \notin m_workers
    BY <1>10, <1>12, <2>3 DEF BrokerReply
  <2>4. QED
    BY <2>2, <2>3
<1>13. CASE BrokerBeaten(id)
  <2>1. r.cmd \notin Offers
    BY <1>13 DEF BrokerBeaten, Takes, Offers, r
  <2>2. CASE id \in m_workers
    BY <1>8, <1>13, <2>1, <2>2 DEF BrokerBeaten
  <2>3. CASE id \notin m_workers
    BY <1>10, <1>13, <2>3 DEF BrokerBeaten
  <2>4. QED
    BY <2>2, <2>3
<1>14. CASE BrokerCall(id)
  <2>1. r.cmd = "CALL" /\ r.cmd \notin Offers /\ r.service \in Services
    BY <1>3, <1>14, ToBrokerTypes DEF BrokerCall, Takes, Offers, r
  <2>2. CASE r.service \in Internal
    <3>1. /\ fromBroker' = Sent(fromBroker, id, Answer("501", r.n))
          /\ UNCHANGED <<m_workers, m_waiting>>
      BY <1>14, <2>2 DEF BrokerCall, r
    <3>2. QED
      BY <1>9, <2>1, <3>1 DEF Answer
  <2>3. CASE r.service \notin Internal
    <3>1. PICK garbage \in Garbage :
             service_dispatch(r.service,
                 Append(srv_requests[r.service], [client |-> id, n |-> r.n]), {},
                 [srv_workers EXCEPT ![r.service] = Count(r.service, garbage)],
                 fromBroker)
      BY <1>14, <2>3 DEF BrokerCall, r
    <3>2. {} \in SUBSET {id}
      OBVIOUS
    <3>3. QED
      BY <1>1, <1>7, <2>1, <3>1, <3>2
  <2>4. QED
    BY <2>2, <2>3
<1>15. CASE BrokerMmi(id)
  <2>1. r.cmd \notin Offers /\ UNCHANGED <<m_workers, m_waiting>>
    BY <1>15 DEF BrokerMmi, Offers, r, tables
  <2>2. \/ UNCHANGED fromBroker
        \/ \E code \in {"200", "404"} :
               fromBroker' = Sent(fromBroker, id, Answer(code, r.n))
    BY <1>15 DEF BrokerMmi, r
  <2>3. CASE UNCHANGED fromBroker
    BY <1>8, <2>1, <2>3
  <2>4. CASE \E code \in {"200", "404"} :
                 fromBroker' = Sent(fromBroker, id, Answer(code, r.n))
    BY <1>9, <2>1, <2>4 DEF Answer
  <2>5. QED
    BY <2>2, <2>3, <2>4
<1>16. QED
  BY <1>11, <1>12, <1>13, <1>14, <1>15 DEF BrokerTakes

\* Steps in which no worker comes to wait or is sent a request.
LEMMA NothingMoves ==
    ASSUME IInv, IInv', WorkersInv,
           UNCHANGED wstate, \A w \in Workers : session'[w] = session[w],
           m_workers' \subseteq m_workers, m_waiting' \subseteq m_waiting,
           m_workers' \ m_waiting' \subseteq m_workers \ m_waiting,
           \A id \in Ids :
               /\ Has(toBroker'[id], Offers) => Has(toBroker[id], Offers)
               /\ Has(toBroker'[id], {"READY"}) => Has(toBroker[id], {"READY"})
               /\ Once(toBroker[id], Offers) => Once(toBroker'[id], Offers)
               /\ Has(fromBroker'[id], Tasks) => Has(fromBroker[id], Tasks)
               /\ Once(fromBroker[id], Tasks) => Once(fromBroker'[id], Tasks),
           \A id \in m_workers' \intersect connected' :
               /\ id \in connected
               /\ Has(toBroker[id], Offers) => Has(toBroker'[id], Offers)
               /\ Has(fromBroker[id], Tasks) => Has(fromBroker'[id], Tasks),
           broker' = "down" => m_workers' = {}
    PROVE  WorkersInv'
<1>1. \A id \in Ids : Once(toBroker'[id], Offers) /\ Once(fromBroker'[id], Tasks)
  BY DEF WorkersInv, AtMostOnePlace
<1>2. ASSUME NEW id \in (m_workers' \ m_waiting') \intersect connected'
      PROVE  \/ Has(toBroker'[id], Offers) \/ Has(fromBroker'[id], Tasks)
             \/ Busy(id)
  <2>1. id \in (m_workers \ m_waiting) \intersect connected
    BY <1>2
  <2>2. Somewhere(id)
    BY <2>1 DEF WorkersInv
  <2>3. QED
    BY <2>2 DEF Somewhere
<1>3. QED
  BY <1>1, <1>2, Moves

LEMMA BeatsMoves ==
    ASSUME IInv, IInv', WorkersInv, BrokerBeats, UNCHANGED peerVars
    PROVE  WorkersInv'
<1>1. UNCHANGED wstate /\ \A w \in Workers : session'[w] = session[w]
  BY DEF peerVars, workerVars
<1>2. /\ m_waiting' = m_waiting \ Expired /\ m_workers' = m_workers \ Expired
      /\ UNCHANGED <<broker, connected, toBroker>> /\ broker = "running"
      /\ \A id \in Ids : fromBroker'[id] \in
             {fromBroker[id], Append(fromBroker[id], Heartbeat)}
  BY DEF BrokerBeats
<1>3. \A id \in Ids : fromBroker[id] \in Seq(FromBroker)
  BY DEF IInv, Queues
<1>4. ASSUME NEW id \in Ids
      PROVE  /\ Has(fromBroker'[id], Tasks) <=> Has(fromBroker[id], Tasks)
             /\ Once(fromBroker[id], Tasks) => Once(fromBroker'[id], Tasks)
  <2>1. Heartbeat.cmd \notin Tasks
    BY DEF Heartbeat, Tasks
  <2>2. /\ Has(Append(fromBroker[id], Heartbeat), Tasks) <=> Has(fromBroker[id], Tasks)
        /\ Once(fromBroker[id], Tasks) => Once(Append(fromBroker[id], Heartbeat), Tasks)
    BY <1>3, <2>1, AppendQueue
  <2>3. QED
    BY <1>2, <2>2
<1>5. m_workers' \subseteq Ids
  BY DEF IInv, Lists, Tables
<1>6. QED
  BY <1>1, <1>2, <1>4, <1>5, NothingMoves

LEMMA TickMoves ==
    ASSUME IInv, IInv', WorkersInv, Tick, UNCHANGED peerVars
    PROVE  WorkersInv'
<1>1. UNCHANGED wstate /\ \A w \in Workers : session'[w] = session[w]
  BY DEF peerVars, workerVars
<1>2. /\ UNCHANGED <<broker, m_workers, m_waiting, connected, toBroker, fromBroker>>
      /\ broker = "running"
  BY DEF Tick, queues
<1>3. QED
  BY <1>1, <1>2, NothingMoves

LEMMA FailsMoves ==
    ASSUME IInv, IInv', WorkersInv, BrokerFails
    PROVE  WorkersInv'
<1>1. UNCHANGED wstate /\ \A w \in Workers : session'[w] = session[w]
  BY DEF BrokerFails, peerVars, workerVars
<1>2. CASE BrokerDies
  <2>1. /\ m_workers' = {} /\ m_waiting' = {} /\ UNCHANGED fromBroker
        /\ \A id \in Ids : toBroker'[id] \in {toBroker[id], <<>>}
    BY <1>2 DEF BrokerDies
  <2>2. \A id \in Ids :
           /\ Has(toBroker'[id], Offers) => Has(toBroker[id], Offers)
           /\ Has(toBroker'[id], {"READY"}) => Has(toBroker[id], {"READY"})
           /\ Once(toBroker[id], Offers) => Once(toBroker'[id], Offers)
    BY <2>1, EmptyQueue
  <2>3. QED
    BY <1>1, <2>1, <2>2, NothingMoves
<1>3. ASSUME NEW id \in Ids, BrokerLoses(id) PROVE WorkersInv'
  <2>1. m_workers = {} /\ UNCHANGED <<broker, m_workers, m_waiting, connected>>
    BY <1>3 DEF BrokerLoses, tables, WorkersInv
  <2>2. toBroker \in [Ids -> Seq(ToBroker)] /\ fromBroker \in [Ids -> Seq(FromBroker)]
    BY DEF IInv, Queues
  <2>3. ASSUME NEW x \in Ids
        PROVE  /\ Has(toBroker'[x], Offers) => Has(toBroker[x], Offers)
               /\ Has(toBroker'[x], {"READY"}) => Has(toBroker[x], {"READY"})
               /\ Once(toBroker[x], Offers) => Once(toBroker'[x], Offers)
    <3>1. \/ toBroker'[x] = toBroker[x]
          \/ toBroker[x] # <<>> /\ toBroker'[x] = Tail(toBroker[x])
      BY <1>3, <2>2 DEF BrokerLoses
    <3>2. toBroker[x] \in Seq(ToBroker)
      BY <2>2
    <3>3. QED
      BY <3>1, <3>2, TailQueue
  <2>4. ASSUME NEW x \in Ids
        PROVE  /\ Has(fromBroker'[x], Tasks) => Has(fromBroker[x], Tasks)
               /\ Once(fromBroker[x], Tasks) => Once(fromBroker'[x], Tasks)
    <3>1. fromBroker[x] \in Seq(FromBroker)
      BY <2>2
    <3> DEFINE q == fromBroker[x]
    <3>2. \/ fromBroker'[x] = q
          \/ q # <<>> /\ fromBroker'[x] = SubSeq(q, 1, Len(q) - 1)
      BY <1>3, <2>2 DEF BrokerLoses
    <3>3. q # <<>> => Len(q) - 1 \in Nat /\ Len(q) - 1 <= Len(q)
      BY <3>1, EmptySeq, LenProperties
    <3> HIDE DEF q
    <3>4. QED
      BY <3>1, <3>2, <3>3, CutQueue DEF q
  <2>5. QED
    BY <1>1, <2>1, <2>3, <2>4, NothingMoves
<1>4. CASE BrokerRestarts
  <2>1. /\ broker' = "running"
        /\ UNCHANGED <<m_workers, m_waiting, connected, toBroker, fromBroker>>
    BY <1>4 DEF BrokerRestarts, tables, queues
  <2>2. QED
    BY <1>1, <2>1, NothingMoves
<1>5. QED
  BY <1>2, <1>3, <1>4 DEF BrokerFails

LEMMA CutMoves ==
    ASSUME IInv, NEW p \in Peers, NEW kept \in Received(p), NEW cmds
    PROVE  /\ Has(SubSeq(toBroker[Id(p)], 1, kept), cmds)
                  => Has(toBroker[Id(p)], cmds)
           /\ Once(toBroker[Id(p)], cmds)
                  => Once(SubSeq(toBroker[Id(p)], 1, kept), cmds)
<1>1. toBroker[Id(p)] \in Seq(ToBroker)
  BY IdTyped DEF IInv, PeersInv, Queues
<1>2. kept \in Nat /\ kept <= Len(toBroker[Id(p)])
  BY <1>1, LenProperties DEF Received
<1>3. QED
  BY <1>1, <1>2, CutQueue

LEMMA ClientMoves ==
    ASSUME IInv, IInv', WorkersInv, NEW c \in Clients, ClientStep(c)
    PROVE  WorkersInv'
<1>1. /\ c \in Peers /\ c \notin Workers /\ Id(c) \in Ids /\ Id(c)[1] = c
      /\ toBroker \in [Ids -> Seq(ToBroker)]
      /\ fromBroker \in [Ids -> Seq(FromBroker)]
      /\ session \in [Peers -> Nat]
  BY BrokerAssumption, IdTyped DEF Peers, IInv, PeersInv, Queues, Sessions, Id
<1>2. UNCHANGED wstate /\ UNCHANGED <<broker, m_workers, m_waiting>>
  BY DEF ClientStep, ClientCalls, ClientTakes, ClientTimesOut, tables, workerVars
<1>3. \A w \in Workers : session'[w] = session[w]
  BY <1>1 DEF ClientStep, ClientCalls, ClientTakes, ClientTimesOut, Sends,
              Reconnects, Peers
<1>4. \A id \in m_workers : id \in Ids /\ id[1] # c
  BY <1>1 DEF WorkersInv, Unused, IInv, Lists, Tables, Ids, WorkerIds
<1>5. \A n : /\ Call(c, n).cmd \notin Offers /\ Call(c, n).cmd # "READY"
  BY DEF Call, Offers
\* What the client sends is no offer, what it reads or throws away no task of
\* a worker.
<1>6. ASSUME NEW x \in Ids
      PROVE  /\ Has(toBroker'[x], Offers) => Has(toBroker[x], Offers)
             /\ Has(toBroker'[x], {"READY"}) => Has(toBroker[x], {"READY"})
             /\ Once(toBroker[x], Offers) => Once(toBroker'[x], Offers)
             /\ x[1] # c => toBroker'[x] = toBroker[x]
  <2>1. \/ toBroker'[x] = toBroker[x]
        \/ x[1] = c /\ \E n : toBroker'[x] = Append(toBroker[x], Call(c, n))
        \/ x[1] = c /\ \E n : toBroker'[x] = <<Call(c, n)>>
        \/ /\ x = Id(c) /\ x[1] = c
           /\ \E kept \in Received(c) : toBroker'[x] = SubSeq(toBroker[x], 1, kept)
    <3>1. CASE ClientCalls(c)
      <4>1. toBroker' = [toBroker EXCEPT ![Id(c)] = Append(@, Call(c, asked[c] + 1))]
        BY <3>1 DEF ClientCalls, Sends
      <4>2. CASE x = Id(c)
        <5>1. toBroker'[x] = Append(toBroker[x], Call(c, asked[c] + 1))
          BY <1>1, <4>1, <4>2
        <5>2. QED
          BY <1>1, <4>2, <5>1
      <4>3. CASE x # Id(c)
        BY <1>1, <4>1, <4>3
      <4>4. QED
        BY <4>2, <4>3
    <3>2. CASE ClientTakes(c)
      BY <3>2 DEF ClientTakes
    <3>3. CASE ClientTimesOut(c)
      <4> DEFINE new == <<c, session[c] + 1>>
      <4>1. \E kept \in Received(c) :
               \/ toBroker' = [toBroker EXCEPT ![Id(c)] = SubSeq(@, 1, kept),
                                               ![new] = <<Call(c, asked[c])>>]
               \/ toBroker' = [toBroker EXCEPT ![Id(c)] = SubSeq(@, 1, kept)]
        BY <3>3 DEF ClientTimesOut, Reconnects, Closes
      <4>2. new[1] = c
        OBVIOUS
      <4> HIDE DEF new
      <4>3. CASE x = new
        <5>1. \/ toBroker'[x] = <<Call(c, asked[c])>>
              \/ toBroker'[x] = toBroker[x]
              \/ x = Id(c) /\ \E kept \in Received(c) :
                                  toBroker'[x] = SubSeq(toBroker[x], 1, kept)
          BY <1>1, <4>1, <4>3
        <5>2. QED
          BY <1>1, <4>2, <4>3, <5>1
      <4>4. CASE x # new /\ x = Id(c)
        BY <1>1, <4>1, <4>4
      <4>5. CASE x # new /\ x # Id(c)
        BY <1>1, <4>1, <4>5
      <4>6. QED
        BY <4>3, <4>4, <4>5
    <3>4. QED
      BY <3>1, <3>2, <3>3 DEF ClientStep
  <2>2. toBroker[x] \in Seq(ToBroker)
    BY <1>1
  <2>3. CASE \E n : toBroker'[x] = Append(toBroker[x], Call(c, n))
    <3>1. PICK n : toBroker'[x] = Append(toBroker[x], Call(c, n))
      BY <2>3
    <3> DEFINE m == Call(c, n)
    <3>2. m.cmd \notin Offers /\ m.cmd \notin {"READY"}
      BY <1>5
    <3> HIDE DEF m
    <3>3. /\ Has(Append(toBroker[x], m), Offers) <=> Has(toBroker[x], Offers)
          /\ Has(Append(toBroker[x], m), {"READY"}) <=> Has(toBroker[x], {"READY"})
          /\ Once(toBroker[x], Offers) => Once(Append(toBroker[x], m), Offers)
      BY <2>2, <3>2, AppendQueue
    <3>4. toBroker'[x] = toBroker[x] \/ x[1] = c
      BY <2>1
    <3>5. QED
      BY <3>1, <3>3, <3>4 DEF m
  <2>4. CASE \E n : toBroker'[x] = <<Call(c, n)>>
    BY <1>5, <2>1, <2>4, OneMessage
  <2>5. CASE x = Id(c) /\ \E kept \in Received(c) :
                 toBroker'[x] = SubSeq(toBroker[x], 1, kept)
    BY <1>1, <2>1, <2>5, CutMoves
  <2>6. QED
    BY <2>1, <2>3, <2>4, <2>5
<1>7. ASSUME NEW x \in Ids
      PROVE  /\ Has(fromBroker'[x], Tasks) => Has(fromBroker[x], Tasks)
             /\ Once(fromBroker[x], Tasks) => Once(fromBroker'[x], Tasks)
             /\ x[1] # c => fromBroker'[x] = fromBroker[x]
  <2>1. \/ fromBroker'[x] = fromBroker[x]
        \/ x[1] = c /\ fromBroker'[x] = <<>>
        \/ /\ x[1] = c /\ fromBroker[x] # <<>>
           /\ fromBroker'[x] = Tail(fromBroker[x])
    <3>1. \/ fromBroker' = fromBroker
          \/ fromBroker' = [fromBroker EXCEPT ![Id(c)] = <<>>]
          \/ /\ fromBroker[Id(c)] # <<>>
             /\ fromBroker' = [fromBroker EXCEPT ![Id(c)] = Tail(@)]
      BY DEF ClientStep, ClientCalls, ClientTakes, ClientTimesOut, Reconnects,
             Closes
    <3>2. QED
      BY <1>1, <3>1
  <2>2. fromBroker[x] \in Seq(FromBroker)
    BY <1>1
  <2>3. QED
    BY <2>1, <2>2, EmptyQueue, TailQueue
<1>8. \A id \in m_workers' \intersect connected' : id \in connected
  BY <1>2, <1>4 DEF ClientStep, ClientCalls, ClientTakes, ClientTimesOut, Sends,
                    Reconnects, Closes, Id
<1>9. ASSUME broker' = "down" PROVE m_workers' = {}
  BY <1>2, <1>9 DEF WorkersInv
<1>10. QED
  BY <1>2, <1>3, <1>4, <1>6, <1>7, <1>8, <1>9, NothingMoves

-----------------------------------------------------------------------------
(* The steps of a worker.                                                  *)

\* A new session: nothing is left of the old one but what the broker had
\* received, and the new one begins with its offer.
LEMMA NewSession ==
    ASSUME IInv, IInv', WorkersInv, NEW w \in Workers, WorkerConnects(w),
           wstate[w] # "busy", wstate'[w] # "busy",
           \A v \in Workers \ {w} : wstate'[v] = wstate[v],
           UNCHANGED <<broker, m_workers, m_waiting>>
    PROVE  WorkersInv'
<1> DEFINE old == Id(w)
           new == <<w, session[w] + 1>>
<1>1. /\ w \in Peers /\ session \in [Peers -> Nat] /\ session[w] \in Nat
      /\ toBroker \in [Ids -> Seq(ToBroker)]
      /\ fromBroker \in [Ids -> Seq(FromBroker)]
      /\ old \in Ids
  BY IdTyped DEF Peers, IInv, PeersInv, Queues, Sessions
<1>2. /\ session[w] < MaxWorkerSockets
      /\ session' = [session EXCEPT ![w] = @ + 1]
      /\ connected' = (connected \ {old}) \union {new}
      /\ fromBroker' = [fromBroker EXCEPT ![old] = <<>>]
  BY DEF WorkerConnects, Reconnects, MaxSockets
<1>3. PICK kept \in Received(w) :
          toBroker' = [toBroker EXCEPT ![old] = SubSeq(@, 1, kept),
                                       ![new] = <<Ready(w)>>]
  BY DEF WorkerConnects, Reconnects
<1>4. new # old /\ new \in WorkerIds /\ new \in Ids /\ new \in Unused
  <2>1. session[w] + 1 \in 0 .. MaxWorkerSockets
    BY <1>1, <1>2, BrokerAssumption
  <2>2. new # old /\ new \in WorkerIds
    BY <1>1, <2>1 DEF Id, WorkerIds
  <2>3. QED
    BY <1>1, <2>2 DEF Unused, Ids
<1>5. \A id : ~Busy(id) \/ id[1] # w
  BY DEF Busy
<1>6. \A id : (Busy(id)' <=> Busy(id))
  <2> SUFFICES ASSUME NEW id \in WorkerIds PROVE Busy(id)' <=> Busy(id)
    BY DEF Busy, WorkerIds
  <2>1. CASE id[1] = w
    BY <2>1 DEF Busy
  <2>2. CASE id[1] # w
    <3>1. id[1] \in Workers /\ id[1] \in Peers
      BY DEF WorkerIds, Peers
    <3>2. session'[id[1]] = session[id[1]] /\ wstate'[id[1]] = wstate[id[1]]
      BY <1>1, <1>2, <2>2, <3>1
    <3>3. QED
      BY <3>2 DEF Busy, Id, WorkerIds
  <2>3. QED
    BY <2>1, <2>2
<1>7. ASSUME NEW id \in Unused' PROVE id \in Unused /\ id # new
  <2>1. CASE id \in ClientIds
    BY <1>4, <2>1, BrokerAssumption DEF Unused, WorkerIds, ClientIds
  <2>2. CASE id \in WorkerIds /\ id[2] > session'[id[1]]
    <3>1. id[1] \in Peers /\ id[2] \in Nat /\ session[id[1]] \in Nat
      BY <1>1, <2>2 DEF WorkerIds, Peers
    <3>2. session'[id[1]] = IF id[1] = w THEN session[w] + 1 ELSE session[id[1]]
      BY <1>1, <1>2, <3>1
    <3>3. QED
      BY <1>1, <2>2, <3>1, <3>2 DEF Unused
  <2>3. QED
    BY <2>1, <2>2 DEF Unused, WorkerIds, ClientIds
<1>8. new \notin m_workers /\ ~Somewhere(new)
  BY <1>4 DEF WorkersInv
<1>9. m_waiting \subseteq m_workers /\ m_workers \subseteq Ids
  BY DEF IInv, Lists, Tables, ListsAgree
<1>10. /\ toBroker'[new] = <<Ready(w)>> /\ fromBroker'[new] = fromBroker[new]
       /\ toBroker'[old] = SubSeq(toBroker[old], 1, kept)
       /\ fromBroker'[old] = <<>>
       /\ \A id \in Ids \ {old, new} : /\ toBroker'[id] = toBroker[id]
                                       /\ fromBroker'[id] = fromBroker[id]
                                       /\ id \in connected' <=> id \in connected
       /\ old \notin connected'
  BY <1>1, <1>2, <1>3, <1>4
<1> HIDE DEF old, new
<1>11. ASSUME NEW id \in Ids, id # new
       PROVE  /\ \A cmds : /\ Has(toBroker'[id], cmds) => Has(toBroker[id], cmds)
                           /\ Once(toBroker[id], cmds) => Once(toBroker'[id], cmds)
              /\ Has(fromBroker'[id], Tasks) => Has(fromBroker[id], Tasks)
              /\ Once(fromBroker[id], Tasks) => Once(fromBroker'[id], Tasks)
  <2>1. CASE id = old
    BY <1>1, <1>10, <2>1, CutMoves, EmptyQueue DEF old
  <2>2. CASE id # old
    BY <1>10, <1>11, <2>2
  <2>3. QED
    BY <2>1, <2>2
<1>12. ASSUME NEW id \in Ids PROVE AtMostOnePlace(id)'
  <2>1. AtMostOnePlace(id)
    BY DEF WorkersInv
  <2>2. CASE id = new
    <3>1. Once(toBroker'[id], Offers)
      BY <1>10, <2>2, OneMessage
    <3>2. Once(fromBroker'[id], Tasks) /\ ~Has(fromBroker'[id], Tasks)
      BY <1>8, <1>10, <2>1, <2>2 DEF AtMostOnePlace, Somewhere
    <3>3. id \notin m_waiting' /\ ~Busy(id)'
      BY <1>6, <1>8, <1>9, <2>2 DEF Somewhere
    <3>4. QED
      BY <3>1, <3>2, <3>3 DEF AtMostOnePlace
  <2>3. CASE id # new
    BY <1>6, <1>11, <2>1, <2>3 DEF AtMostOnePlace
  <2>4. QED
    BY <2>2, <2>3
<1>13. ASSUME NEW id \in Unused' PROVE id \notin m_workers' /\ ~Somewhere(id)'
  <2>1. id \in Unused /\ id # new /\ id \in Ids
    BY <1>7, <1>13 DEF Unused, Ids
  <2>2. id \notin m_workers /\ ~Somewhere(id)
    BY <2>1 DEF WorkersInv
  <2>3. QED
    BY <1>6, <1>11, <2>1, <2>2 DEF Somewhere
<1>14. ASSUME NEW id \in m_workers' PROVE ~Has(toBroker'[id], {"READY"})
  BY <1>8, <1>9, <1>11 DEF WorkersInv
<1>15. ASSUME NEW id \in (m_workers' \ m_waiting') \intersect connected'
       PROVE  Somewhere(id)'
  <2>1. id \in Ids \ {old, new}
    BY <1>8, <1>9, <1>10
  <2>2. Somewhere(id)
    BY <1>10, <2>1 DEF WorkersInv
  <2>3. QED
    BY <1>6, <1>10, <2>1, <2>2 DEF Somewhere
<1>16. QED
  BY <1>12, <1>13, <1>14, <1>15 DEF WorkersInv

\* Steps within a session change the place of their worker only.
LEMMA SameSession ==
    ASSUME IInv, IInv', WorkersInv, NEW w \in Workers, NEW id, id = Id(w),
           UNCHANGED <<session, broker, m_workers, m_waiting>>,
           \A v \in Workers \ {w} : wstate'[v] = wstate[v],
           \A x \in Ids \ {id} : /\ toBroker'[x] = toBroker[x]
                                 /\ fromBroker'[x] = fromBroker[x],
           connected' \subseteq connected,
           AtMostOnePlace(id)',
           Somewhere(id)' => Somewhere(id),
           id \in connected' /\ Somewhere(id) => Somewhere(id)',
           Has(toBroker'[id], {"READY"}) => Has(toBroker[id], {"READY"})
    PROVE  WorkersInv'
<1>1. \A x : x # id => (Busy(x)' <=> Busy(x))
  <2> SUFFICES ASSUME NEW x \in WorkerIds, x # id PROVE Busy(x)' <=> Busy(x)
    BY DEF Busy, WorkerIds
  <2>1. x[1] \in Workers
    BY DEF WorkerIds
  <2>2. CASE x[1] = w
    BY <2>2 DEF Busy, Id
  <2>3. CASE x[1] # w
    BY <2>1, <2>3 DEF Busy, Id, WorkerIds
  <2>4. QED
    BY <2>2, <2>3
<1>2. Unused' = Unused
  BY DEF Unused, WorkerIds, ClientIds
<1>3. m_workers \subseteq Ids /\ Unused \subseteq Ids
  BY DEF IInv, Lists, Tables, Unused, Ids
<1>4. ASSUME NEW x \in Ids PROVE AtMostOnePlace(x)'
  <2>1. CASE x = id
    BY <2>1
  <2>2. CASE x # id
    <3>1. AtMostOnePlace(x)
      BY DEF WorkersInv
    <3>2. QED
      BY <1>1, <2>2, <3>1 DEF AtMostOnePlace
  <2>3. QED
    BY <2>1, <2>2
<1>5. ASSUME NEW x \in Ids PROVE Somewhere(x)' => Somewhere(x)
  <2>1. CASE x # id
    BY <1>1, <2>1 DEF Somewhere
  <2>2. QED
    BY <2>1
<1>6. ASSUME NEW x \in Ids, x \in connected', Somewhere(x) PROVE Somewhere(x)'
  <2>1. CASE x # id
    BY <1>1, <1>6, <2>1 DEF Somewhere
  <2>2. QED
    BY <1>6, <2>1
<1>7. \A x \in m_workers : ~Has(toBroker'[x], {"READY"})
  BY <1>3 DEF WorkersInv
<1>8. \A x \in Unused : x \notin m_workers /\ ~Somewhere(x)'
  BY <1>3, <1>5 DEF WorkersInv
<1>9. \A x \in (m_workers \ m_waiting) \intersect connected' : Somewhere(x)'
  BY <1>3, <1>6 DEF WorkersInv
<1>10. \A x \in Unused' : x \notin m_workers' /\ ~Somewhere(x)'
  BY <1>2, <1>8
<1>11. broker' = "down" => m_workers' = {}
  BY DEF WorkersInv
<1>12. QED
  BY <1>4, <1>7, <1>9, <1>10, <1>11 DEF WorkersInv

LEMMA WorkerMoves ==
    ASSUME IInv, IInv', WorkersInv, NEW w \in Workers, WorkerStep(w)
    PROVE  WorkersInv'
<1>1. PICK id \in WorkerIds : id = Id(w)
  <2>1. session[w] \in 0 .. MaxWorkerSockets
    BY BrokerAssumption DEF IInv, PeersInv, Sessions, Peers, MaxSockets
  <2>2. QED
    BY <2>1 DEF Id, WorkerIds
<1>2. /\ id \in Ids /\ id[1] = w /\ w \in Peers
      /\ toBroker \in [Ids -> Seq(ToBroker)]
      /\ fromBroker \in [Ids -> Seq(FromBroker)]
      /\ wstate \in [Workers -> {"off", "idle", "busy"}]
  BY <1>1 DEF IInv, PeersInv, Queues, Hands, Ids, Peers, Id
<1>3. /\ UNCHANGED <<broker, m_workers, m_waiting>>
      /\ \A v \in Workers \ {w} : wstate'[v] = wstate[v]
  <2>1. UNCHANGED <<broker, m_workers, m_waiting>>
    BY DEF WorkerStep, WorkerStarts, WorkerTakes, WorkerReplies,
           WorkerTimesOut, WorkerBeats, WorkerDies, tables
  <2>2. \A v \in Workers \ {w} : wstate'[v] = wstate[v]
    BY <1>2 DEF WorkerStep, WorkerStarts, WorkerTakes, WorkerReplies,
                WorkerTimesOut, WorkerBeats, WorkerDies, workerVars
  <2>3. QED
    BY <2>1, <2>2
<1>4. /\ Once(toBroker[id], Offers) /\ Once(fromBroker[id], Tasks)
      /\ id \in m_waiting => /\ ~Has(toBroker[id], Offers)
                             /\ ~Has(fromBroker[id], Tasks) /\ ~Busy(id)
      /\ Has(toBroker[id], Offers) => ~Has(fromBroker[id], Tasks) /\ ~Busy(id)
      /\ Has(fromBroker[id], Tasks) => ~Busy(id)
  BY <1>2 DEF WorkersInv, AtMostOnePlace
<1>5. Busy(id) <=> wstate[w] = "busy"
  BY <1>1, <1>2 DEF Busy
<1>6. ASSUME UNCHANGED session PROVE Busy(id)' <=> wstate'[w] = "busy"
  BY <1>1, <1>2, <1>6 DEF Busy, Id, WorkerIds
<1>7. toBroker[id] \in Seq(ToBroker) /\ fromBroker[id] \in Seq(FromBroker)
  BY <1>2
<1>8. CASE WorkerStarts(w)
  <2>1. WorkerConnects(w) /\ wstate[w] # "busy" /\ wstate'[w] # "busy"
    BY <1>2, <1>8 DEF WorkerStarts
  <2>2. QED
    BY <1>3, <2>1, NewSession
<1>9. ASSUME WorkerConnects(w), wstate[w] = "idle", UNCHANGED wstate
      PROVE  WorkersInv'
  BY <1>3, <1>9, NewSession
<1>10. CASE WorkerTakes(w)
  <2> DEFINE m == Head(fromBroker[id])
  <2>1. fromBroker[id] # <<>> /\ wstate[w] = "idle"
    BY <1>1, <1>10 DEF WorkerTakes
  <2>2. CASE m.cmd = "DISCONNECT"
    BY <1>1, <1>9, <1>10, <2>1, <2>2 DEF WorkerTakes
  <2>3. CASE m.cmd # "DISCONNECT"
    <3>1. /\ fromBroker' = [fromBroker EXCEPT ![id] = Tail(@)]
          /\ UNCHANGED <<session, connected, toBroker>>
          /\ wstate'[w] = "busy" <=> m.cmd = "REQUEST"
      BY <1>1, <1>2, <1>10, <2>1, <2>3 DEF WorkerTakes
    <3>2. /\ fromBroker'[id] = Tail(fromBroker[id])
          /\ \A x \in Ids \ {id} : fromBroker'[x] = fromBroker[x]
      BY <1>2, <3>1
    <3>3. m.cmd = "REQUEST" <=> m.cmd \in Tasks
      BY DEF Tasks
    <3>4. /\ Has(fromBroker[id], Tasks) <=> m.cmd \in Tasks \/ Has(fromBroker'[id], Tasks)
          /\ Once(fromBroker'[id], Tasks)
          /\ m.cmd \in Tasks => ~Has(fromBroker'[id], Tasks)
      BY <1>4, <1>7, <2>1, <3>2, TailQueue
    <3>5. /\ ~Busy(id)
          /\ Busy(id)' <=> m.cmd \in Tasks
      BY <1>5, <1>6, <2>1, <3>1, <3>3
    <3> HIDE DEF m
    <3>6. AtMostOnePlace(id)'
      BY <1>3, <1>4, <3>1, <3>4, <3>5 DEF AtMostOnePlace
    <3>7. Somewhere(id)' <=> Somewhere(id)
      BY <3>1, <3>4, <3>5 DEF Somewhere
    <3>8. QED
      BY <1>1, <1>3, <3>1, <3>2, <3>6, <3>7, SameSession
  <2>4. QED
    BY <2>2, <2>3
<1>11. CASE WorkerReplies(w)
  <2> DEFINE m == Reply(request[w])
  <2>1. /\ wstate[w] = "busy" /\ wstate'[w] = "idle"
        /\ toBroker' = [toBroker EXCEPT ![id] = Append(@, m)]
        /\ UNCHANGED <<session, connected, fromBroker>>
    BY <1>1, <1>2, <1>11 DEF WorkerReplies, Sends
  <2>2. m.cmd \in Offers /\ m.cmd \notin {"READY"}
    BY DEF Reply, Offers
  <2> HIDE DEF m
  <2>3. /\ toBroker'[id] = Append(toBroker[id], m)
        /\ \A x \in Ids \ {id} : toBroker'[x] = toBroker[x]
    BY <1>2, <2>1
  <2>4. Busy(id) /\ ~Busy(id)'
    BY <1>5, <1>6, <2>1
  <2>5. ~Has(toBroker[id], Offers) /\ ~Has(fromBroker[id], Tasks) /\ id \notin m_waiting
    BY <1>4, <2>4
  <2>6. /\ Has(toBroker'[id], Offers) /\ Once(toBroker'[id], Offers)
        /\ Has(toBroker'[id], {"READY"}) => Has(toBroker[id], {"READY"})
    BY <1>4, <1>7, <2>2, <2>3, <2>5, AppendQueue
  <2>7. AtMostOnePlace(id)'
    BY <1>3, <1>4, <2>1, <2>4, <2>5, <2>6 DEF AtMostOnePlace
  <2>8. Somewhere(id)' /\ Somewhere(id)
    BY <2>4, <2>6 DEF Somewhere
  <2>9. QED
    BY <1>1, <1>3, <2>1, <2>3, <2>6, <2>7, <2>8, SameSession
<1>12. CASE WorkerTimesOut(w)
  <2>1. wstate[w] = "idle" /\ UNCHANGED wstate
    BY <1>12 DEF WorkerTimesOut
  <2>2. CASE WorkerConnects(w)
    BY <1>9, <2>1, <2>2
  <2>3. CASE UNCHANGED <<session, connected, queues>>
    <3>1. UNCHANGED <<session, connected, toBroker, fromBroker>>
      BY <2>3 DEF queues
    <3>2. Busy(id)' <=> Busy(id)
      BY <1>5, <1>6, <2>1, <3>1
    <3>3. AtMostOnePlace(id)' /\ (Somewhere(id)' <=> Somewhere(id))
      BY <1>3, <1>4, <3>1, <3>2 DEF AtMostOnePlace, Somewhere
    <3>4. QED
      BY <1>1, <1>3, <3>1, <3>3, SameSession
  <2>4. QED
    BY <1>12, <2>2, <2>3 DEF WorkerTimesOut
<1>13. CASE WorkerBeats(w)
  <2>1. /\ UNCHANGED <<wstate, session, connected, fromBroker>>
        /\ toBroker' = [toBroker EXCEPT ![id] = Append(@, Heartbeat)]
    BY <1>1, <1>13 DEF WorkerBeats, Sends, workerVars
  <2>2. Heartbeat.cmd \notin Offers /\ Heartbeat.cmd \notin {"READY"}
    BY DEF Heartbeat, Offers
  <2>3. /\ toBroker'[id] = Append(toBroker[id], Heartbeat)
        /\ \A x \in Ids \ {id} : toBroker'[x] = toBroker[x]
    BY <1>2, <2>1
  <2>4. /\ Has(toBroker'[id], Offers) <=> Has(toBroker[id], Offers)
        /\ Once(toBroker'[id], Offers)
        /\ Has(toBroker'[id], {"READY"}) => Has(toBroker[id], {"READY"})
    BY <1>4, <1>7, <2>2, <2>3, AppendQueue
  <2>5. Busy(id)' <=> Busy(id)
    BY <1>5, <1>6, <2>1
  <2>6. AtMostOnePlace(id)' /\ (Somewhere(id)' <=> Somewhere(id))
    BY <1>3, <1>4, <2>1, <2>4, <2>5 DEF AtMostOnePlace, Somewhere
  <2>7. QED
    BY <1>1, <1>3, <2>1, <2>3, <2>4, <2>6, SameSession
<1>14. CASE WorkerDies(w)
  <2>1. PICK kept \in Received(w) :
           toBroker' = [toBroker EXCEPT ![id] = SubSeq(@, 1, kept)]
    BY <1>1, <1>14 DEF WorkerDies, Closes
  <2>2. /\ fromBroker' = [fromBroker EXCEPT ![id] = <<>>]
        /\ connected' = connected \ {id} /\ UNCHANGED session
        /\ wstate'[w] = "off"
    BY <1>1, <1>2, <1>14 DEF WorkerDies, Closes
  <2>3. /\ toBroker'[id] = SubSeq(toBroker[id], 1, kept) /\ fromBroker'[id] = <<>>
        /\ \A x \in Ids \ {id} : /\ toBroker'[x] = toBroker[x]
                                 /\ fromBroker'[x] = fromBroker[x]
    BY <1>2, <2>1, <2>2
  <2>4. ASSUME NEW cmds
        PROVE  /\ Has(toBroker'[id], cmds) => Has(toBroker[id], cmds)
               /\ Once(toBroker[id], cmds) => Once(toBroker'[id], cmds)
    <3>1. /\ Has(SubSeq(toBroker[Id(w)], 1, kept), cmds) => Has(toBroker[Id(w)], cmds)
          /\ Once(toBroker[Id(w)], cmds)
                 => Once(SubSeq(toBroker[Id(w)], 1, kept), cmds)
      BY <1>2, CutMoves
    <3>2. QED
      BY <1>1, <2>3, <3>1
  <2>5. ~Has(fromBroker'[id], Tasks) /\ Once(fromBroker'[id], Tasks) /\ ~Busy(id)'
    BY <1>6, <2>2, <2>3, EmptyQueue
  <2>6. AtMostOnePlace(id)' /\ (Somewhere(id)' => Somewhere(id))
    BY <1>3, <1>4, <2>4, <2>5 DEF AtMostOnePlace, Somewhere
  <2>7. QED
    BY <1>1, <1>3, <2>2, <2>3, <2>4, <2>6, SameSession
<1>15. QED
  BY <1>8, <1>10, <1>11, <1>12, <1>13, <1>14 DEF WorkerStep

-----------------------------------------------------------------------------
(* Theorems about the workers.                                              *)

LEMMA WorkersInitial == Init => WorkersInv
<1> SUFFICES ASSUME Init PROVE WorkersInv
  OBVIOUS
<1>1. /\ toBroker = [id \in Ids |-> <<>>] /\ fromBroker = [id \in Ids |-> <<>>]
      /\ m_workers = {} /\ m_waiting = {}
      /\ wstate = [w \in Workers |-> "off"]
  BY DEF Init, EmptyTables
<1>2. \A id : ~Busy(id)
  BY <1>1 DEF Busy, WorkerIds
<1>3. \A id \in Ids : \A cmds :
          /\ ~Has(toBroker[id], cmds) /\ Once(toBroker[id], cmds)
          /\ ~Has(fromBroker[id], cmds) /\ Once(fromBroker[id], cmds)
  BY <1>1, EmptyQueue
<1>4. Unused \subseteq Ids
  BY DEF Unused, Ids
<1>5. QED
  BY <1>1, <1>2, <1>3, <1>4 DEF WorkersInv, AtMostOnePlace, Somewhere

LEMMA WorkersInductive == IInv /\ IInv' /\ WorkersInv /\ [Next]_vars => WorkersInv'
<1> SUFFICES ASSUME IInv, IInv', WorkersInv, [Next]_vars PROVE WorkersInv'
  OBVIOUS
<1>1. CASE BrokerStep
  BY <1>1, TakesMoves, BeatsMoves, TickMoves DEF BrokerStep
<1>2. CASE BrokerFails
  BY <1>2, FailsMoves
<1>3. CASE \E w \in Workers : WorkerStep(w)
  BY <1>3, WorkerMoves
<1>4. CASE \E c \in Clients : ClientStep(c)
  BY <1>4, ClientMoves
<1>5. CASE UNCHANGED vars
  BY <1>5 DEF vars, brokerVars, tables, queues, workerVars, WorkersInv,
              AtMostOnePlace, Somewhere, Busy, Unused, Id, WorkerIds, ClientIds
<1>6. QED
  BY <1>1, <1>2, <1>3, <1>4, <1>5 DEF Next

\* Its places, in the words of the properties.
LEMMA EngagedIsSomewhere ==
    ASSUME IInv, WorkersInv, NEW id \in m_workers
    PROVE  /\ id \in Ids
           /\ Engaged(id) => Somewhere(id)
           /\ Somewhere(id) => Engaged(id)
<1>1. id \in Ids /\ id \in WorkerIds /\ ~Has(toBroker[id], {"READY"})
  BY DEF IInv, Lists, Tables, WorkersInv, Unused, Ids
<1>2. Busy(id) <=> id = Id(id[1]) /\ wstate[id[1]] = "busy"
  BY <1>1 DEF Busy
<1>3. Has(fromBroker[id], Tasks) <=> HasCommand(fromBroker[id], "REQUEST")
  BY DEF Has, HasCommand, Tasks
<1>4. Has(toBroker[id], Offers) <=> HasCommand(toBroker[id], "REPLY")
  BY <1>1 DEF Has, HasCommand, Offers
<1>5. QED
  BY <1>1, <1>2, <1>3, <1>4 DEF Engaged, Somewhere

\* A worker the broker lists as waiting has no request on its way to it, none
\* in its hand and no reply on its way back, whatever is purged, lost, killed
\* or opened anew (worker_process, service_dispatch and mdwrk::recv).
THEOREM OneAtATime == Spec => []OneRequestAtATime
<1>1. IInv /\ WorkersInv => OneRequestAtATime
  <2> SUFFICES ASSUME IInv, WorkersInv, NEW id \in m_waiting PROVE ~Engaged(id)
    BY DEF OneRequestAtATime
  <2>1. id \in m_workers
    BY DEF IInv, Lists, ListsAgree
  <2>2. id \in Ids /\ AtMostOnePlace(id)
    BY <2>1, EngagedIsSomewhere DEF WorkersInv
  <2>3. ~Somewhere(id)
    BY <2>2 DEF AtMostOnePlace, Somewhere
  <2>4. QED
    BY <2>1, <2>3, EngagedIsSomewhere
<1>2. QED
  BY <1>1, Initial, Inductive, WorkersInitial, WorkersInductive, PTL DEF Spec

\* A worker the broker knows, whose socket is open, waits or is engaged: its
\* reply will put it back on the list.  No step drops it between the two.
THEOREM NobodyForgotten == Spec => []NoWorkerForgotten
<1>1. IInv /\ WorkersInv => NoWorkerForgotten
  <2> SUFFICES ASSUME IInv, WorkersInv,
                      NEW id \in (m_workers \ m_waiting) \intersect connected
               PROVE  Engaged(id)
    BY DEF NoWorkerForgotten
  <2>1. Somewhere(id)
    BY DEF WorkersInv
  <2>2. QED
    BY <2>1, EngagedIsSomewhere
<1>2. QED
  BY <1>1, Initial, Inductive, WorkersInitial, WorkersInductive, PTL DEF Spec

-----------------------------------------------------------------------------
(***************************************************************************)
(* The requests of the clients: the broker and the workers never multiply  *)
(* one, a client reads only the answer to the call it waits for, and the   *)
(* programs together implement RequestService.                             *)
(*                                                                         *)
(* Every step moves the requests of a socket as a whole, from one place to *)
(* another, or leaves them where they are, or drops some.                  *)
(***************************************************************************)

(* Where the requests are.                                                 *)

\* What the clients have asked for: of each at most its latest call, and that
\* call alone on the socket it has now.
Made ==
    {r \in [client : ClientIds, n : Nat] :
        LET c == r.client[1]
        IN /\ r.n \in 1 .. asked[c]
           /\ r.client[2] <= session[c]
           /\ r.client[2] = session[c] => r.n = asked[c]}

Single(q)  == \A i, j \in DOMAIN q : i = j
OneEach(q) == \A i, j \in DOMAIN q : q[i].client = q[j].client => i = j
InList(q, x)  == \E i \in DOMAIN q : q[i].client = x
Carries(q, x) == \E i \in DOMAIN q :
                     q[i].cmd \in {"REQUEST", "REPLY"} /\ q[i].client = x

\* The queues of workers and of clients, and the list of a service, when the
\* requests in made are the ones there are.
WorkerQueue(q, cmds, made) ==
    \A i \in DOMAIN q :
        /\ q[i].cmd \in cmds
        /\ q[i].cmd \in {"REQUEST", "REPLY"} =>
               [client |-> q[i].client, n |-> q[i].n] \in made
ClientQueue(q, x, cmds, made) ==
    /\ Single(q)
    /\ \A i \in DOMAIN q : q[i].cmd \in cmds /\ [client |-> x, n |-> q[i].n] \in made
List(q, made) == OneEach(q) /\ \A i \in DOMAIN q : q[i] \in made

Said  == {"READY", "HEARTBEAT", "REPLY"}
Told  == {"REQUEST", "HEARTBEAT", "DISCONNECT"}
Asked == {"CALL", "MMI"}

AllMade ==
    /\ \A id \in WorkerIds : /\ WorkerQueue(toBroker[id], Said, Made)
                             /\ WorkerQueue(fromBroker[id], Told, Made)
    /\ \A x \in ClientIds : /\ ClientQueue(toBroker[x], x, Asked, Made)
                            /\ ClientQueue(fromBroker[x], x, {"ANSWER"}, Made)
    /\ \A s \in Services : List(srv_requests[s], Made)
    /\ \A w \in Workers : IF wstate[w] = "busy" THEN request[w] \in Made
                          ELSE request[w] = NoRequest

Holds(w, x) == wstate[w] = "busy" /\ request[w].client = x

\* There is a request of socket x at place p.
At(p, x) ==
    \/ p = <<"called", x>> /\ toBroker[x] # <<>>
    \/ \E s \in Services : p = <<"listed", s>> /\ InList(srv_requests[s], x)
    \/ \E id \in WorkerIds : p = <<"sent", id>> /\ Carries(fromBroker[id], x)
    \/ \E w \in Workers : p = <<"held", w>> /\ Holds(w, x)
    \/ \E id \in WorkerIds : p = <<"replied", id>> /\ Carries(toBroker[id], x)
    \/ p = <<"answered", x>> /\ fromBroker[x] # <<>>

OnePlace == \A x \in ClientIds : \A p, q : At(p, x) /\ At(q, x) => p = q

ClientsInv ==
    /\ cstate \in [Clients -> {"ready", "waiting", "failed"}]
    /\ \A c \in Clients : cstate[c] = "waiting" => asked[c] > 0
    /\ \A c \in Clients :
          /\ cstate[c] = "ready" => \A p : ~At(p, Id(c))
          /\ cstate[c] = "failed" => fromBroker[Id(c)] = <<>> /\ Id(c) \notin connected

RequestsInv == AllMade /\ OnePlace /\ ClientsInv

-----------------------------------------------------------------------------
(* Queues.                                                                 *)

\* q2 holds nothing that q1 does not hold.
Part(q2, q1) ==
    /\ \A i \in DOMAIN q2 : \E j \in DOMAIN q1 : q2[i] = q1[j]
    /\ Single(q1) => Single(q2)
    /\ q2 # <<>> => q1 # <<>>

LEMMA PartTransfers ==
    ASSUME NEW q1, NEW q2, Part(q2, q1), NEW made
    PROVE  /\ \A cmds : WorkerQueue(q1, cmds, made) => WorkerQueue(q2, cmds, made)
           /\ \A x, cmds : ClientQueue(q1, x, cmds, made) => ClientQueue(q2, x, cmds, made)
           /\ \A x : Carries(q2, x) => Carries(q1, x)
<1>1. \A cmds : WorkerQueue(q1, cmds, made) => WorkerQueue(q2, cmds, made)
  BY DEF Part, WorkerQueue
<1>2. \A x, cmds : ClientQueue(q1, x, cmds, made) => ClientQueue(q2, x, cmds, made)
  BY DEF Part, ClientQueue
<1>3. \A x : Carries(q2, x) => Carries(q1, x)
  BY DEF Part, Carries
<1>4. QED
  BY <1>1, <1>2, <1>3

LEMMA SamePart == ASSUME NEW q PROVE Part(q, q)
  BY DEF Part

LEMMA EmptyPart == ASSUME NEW q PROVE Part(<<>>, q)
  BY DEF Part, Single

LEMMA TailPart == ASSUME NEW S, NEW q \in Seq(S), q # <<>> PROVE Part(Tail(q), q)
<1>1. /\ Len(q) \in Nat \ {0} /\ DOMAIN q = 1 .. Len(q)
      /\ DOMAIN Tail(q) = 1 .. Len(q) - 1
      /\ \A i \in 1 .. Len(q) - 1 : Tail(q)[i] = q[i + 1]
  BY HeadTailProperties, LenProperties, EmptySeq
<1>2. \A i \in DOMAIN Tail(q) : i + 1 \in DOMAIN q /\ Tail(q)[i] = q[i + 1]
  BY <1>1
<1>3. Single(q) => Single(Tail(q))
  BY <1>1, <1>2 DEF Single
<1>4. QED
  BY <1>2, <1>3 DEF Part

LEMMA SingleTail ==
    ASSUME NEW S, NEW q \in Seq(S), q # <<>>, Single(q) PROVE Tail(q) = <<>>
<1>1. /\ Len(q) \in Nat \ {0} /\ DOMAIN q = 1 .. Len(q)
      /\ Tail(q) \in Seq(S) /\ Len(Tail(q)) = Len(q) - 1
  BY HeadTailProperties, LenProperties, EmptySeq
<1>2. Len(q) = 1
  BY <1>1 DEF Single
<1>3. Len(Tail(q)) = 0
  BY <1>1, <1>2
<1>4. QED
  BY <1>1, <1>3, EmptySeq

LEMMA CutPart ==
    ASSUME NEW S, NEW q \in Seq(S), NEW k \in Nat, k <= Len(q)
    PROVE  Part(SubSeq(q, 1, k), q)
<1> DEFINE cut == SubSeq(q, 1, k)
<1>1. Len(q) \in Nat /\ DOMAIN q = 1 .. Len(q)
  BY LenProperties
<1>2. /\ 1 \in Int /\ k \in Int
      /\ \A i \in 1 .. k : q[i] \in S
  BY <1>1, ElementOfSeq
<1>3. DOMAIN cut = 1 .. k /\ \A i \in 1 .. k : cut[i] = q[i]
  BY <1>1, <1>2
<1>4. \A i \in DOMAIN cut : i \in DOMAIN q /\ cut[i] = q[i]
  BY <1>1, <1>3
<1>5. Single(q) => Single(cut)
  BY <1>4 DEF Single
<1>6. cut # <<>> => q # <<>>
  BY <1>1, <1>3
<1>7. QED
  BY <1>4, <1>5, <1>6 DEF Part

\* One message more.
LEMMA AppendCarries ==
    ASSUME NEW S, NEW q \in Seq(S), NEW m, NEW x
    PROVE  Carries(Append(q, m), x) =>
               \/ Carries(q, x)
               \/ m.cmd \in {"REQUEST", "REPLY"} /\ m.client = x
<1>1. /\ Len(q) \in Nat /\ DOMAIN q = 1 .. Len(q)
      /\ DOMAIN Append(q, m) = 1 .. Len(q) + 1
      /\ \A i \in 1 .. Len(q) : Append(q, m)[i] = q[i]
      /\ Append(q, m)[Len(q) + 1] = m
  BY AppendProperties, LenProperties
<1>2. \A i \in DOMAIN Append(q, m) :
          \/ i \in DOMAIN q /\ Append(q, m)[i] = q[i]
          \/ Append(q, m)[i] = m
  BY <1>1
<1> DEFINE new == Append(q, m)
<1> HIDE DEF new
<1>3. \A i \in DOMAIN new : (i \in DOMAIN q /\ new[i] = q[i]) \/ new[i] = m
  BY <1>2 DEF new
<1>4. SUFFICES ASSUME Carries(new, x)
      PROVE  \/ Carries(q, x)
             \/ m.cmd \in {"REQUEST", "REPLY"} /\ m.client = x
  BY DEF new
<1>5. PICK i \in DOMAIN new : new[i].cmd \in {"REQUEST", "REPLY"} /\ new[i].client = x
  BY <1>4, Zenon DEF Carries
<1>6. CASE new[i] = m
  BY <1>5, <1>6
<1>7. CASE i \in DOMAIN q /\ new[i] = q[i]
  <2>1. q[i].cmd \in {"REQUEST", "REPLY"} /\ q[i].client = x
    BY <1>5, <1>7
  <2>2. QED
    BY <1>7, <2>1, Zenon DEF Carries
<1>8. QED
  BY <1>3, <1>6, <1>7

LEMMA AppendWorkerQueue ==
    ASSUME NEW S, NEW q \in Seq(S), NEW m, NEW cmds, NEW made,
           WorkerQueue(q, cmds, made), m.cmd \in cmds,
           m.cmd \in {"REQUEST", "REPLY"} => [client |-> m.client, n |-> m.n] \in made
    PROVE  WorkerQueue(Append(q, m), cmds, made)
<1>1. /\ Len(q) \in Nat /\ DOMAIN q = 1 .. Len(q)
      /\ DOMAIN Append(q, m) = 1 .. Len(q) + 1
      /\ \A i \in 1 .. Len(q) : Append(q, m)[i] = q[i]
      /\ Append(q, m)[Len(q) + 1] = m
  BY AppendProperties, LenProperties
<1>2. \A i \in DOMAIN Append(q, m) :
          \/ i \in DOMAIN q /\ Append(q, m)[i] = q[i]
          \/ Append(q, m)[i] = m
  BY <1>1
<1> DEFINE new == Append(q, m)
<1> HIDE DEF new
<1>3. \A i \in DOMAIN new : (i \in DOMAIN q /\ new[i] = q[i]) \/ new[i] = m
  BY <1>2 DEF new
<1>4. WorkerQueue(new, cmds, made)
  BY <1>3 DEF WorkerQueue
<1>5. QED
  BY <1>4 DEF new

LEMMA AppendList ==
    ASSUME NEW q \in Seq(Calls), NEW m \in Calls, NEW made
    PROVE  /\ Append(q, m) \in Seq(Calls)
           /\ \A x : InList(Append(q, m), x) <=> InList(q, x) \/ m.client = x
           /\ List(q, made) /\ m \in made /\ ~InList(q, m.client)
                  => List(Append(q, m), made)
<1>1. /\ Len(q) \in Nat /\ DOMAIN q = 1 .. Len(q)
      /\ DOMAIN Append(q, m) = 1 .. Len(q) + 1
      /\ \A i \in 1 .. Len(q) : Append(q, m)[i] = q[i]
      /\ Append(q, m)[Len(q) + 1] = m
      /\ Append(q, m) \in Seq(Calls)
  BY AppendProperties, LenProperties
<1> DEFINE new == Append(q, m)
           last == Len(q) + 1
<1>2. /\ \A i \in DOMAIN new :
             (i \in DOMAIN q /\ new[i] = q[i]) \/ (i = last /\ new[i] = m)
      /\ \A i \in DOMAIN q : i \in DOMAIN new /\ new[i] = q[i]
      /\ last \in DOMAIN new /\ new[last] = m
  <2>1. DOMAIN new = DOMAIN q \union {last}
    BY <1>1
  <2>2. \A i \in DOMAIN q : new[i] = q[i]
    BY <1>1
  <2>3. new[last] = m
    BY <1>1
  <2> HIDE DEF new, last
  <2>4. QED
    BY <2>1, <2>2, <2>3
<1> HIDE DEF new, last
<1>3. \A x : InList(new, x) <=> InList(q, x) \/ m.client = x
  BY <1>2 DEF InList
<1>4. ASSUME List(q, made), m \in made, ~InList(q, m.client) PROVE List(new, made)
  <2>1. OneEach(new)
    BY <1>2, <1>4 DEF List, OneEach, InList
  <2>2. \A i \in DOMAIN new : new[i] \in made
    BY <1>2, <1>4 DEF List
  <2>3. QED
    BY <2>1, <2>2 DEF List
<1>5. QED
  BY <1>1, <1>3, <1>4 DEF new

LEMMA OneInQueue ==
    ASSUME NEW x, NEW cmds, NEW made, NEW m, m.cmd \in cmds,
           [client |-> x, n |-> m.n] \in made
    PROVE  ClientQueue(<<m>>, x, cmds, made)
  BY DEF ClientQueue, Single

LEMMA NoneInQueue ==
    ASSUME NEW x, NEW cmds, NEW made
    PROVE  /\ ClientQueue(<<>>, x, cmds, made) /\ WorkerQueue(<<>>, cmds, made)
           /\ ~Carries(<<>>, x)
  BY DEF ClientQueue, Single, WorkerQueue, Carries

\* What is left of a list without its first k requests.
LEMMA RestOfList ==
    ASSUME NEW q \in Seq(Calls), NEW k \in Nat, k <= Len(q), NEW rest,
           rest = SubSeq(q, k + 1, Len(q))
    PROVE  /\ \A i \in DOMAIN rest : /\ i \in Nat /\ i + k \in DOMAIN q
                                     /\ rest[i] = q[i + k] /\ i > 0
<1>1. Len(q) \in Nat /\ DOMAIN q = 1 .. Len(q)
  BY LenProperties
<1>2. /\ k + 1 \in Int /\ Len(q) \in Int
      /\ \A i \in k + 1 .. Len(q) : i \in 1 .. Len(q)
  BY <1>1
<1>3. \A i \in k + 1 .. Len(q) : q[i] \in Calls
  BY <1>1, <1>2, ElementOfSeq
<1>4. rest = [i \in 1 .. (1 + Len(q) - (k + 1)) |-> q[i + (k + 1) - 1]]
  BY <1>1, <1>2, <1>3
<1>5. \A i \in DOMAIN rest : i \in 1 .. Len(q) - k /\ rest[i] = q[i + k]
  BY <1>1, <1>4
<1>6. QED
  BY <1>1, <1>5

\* Of the requests of x in a list, one stays on what is left of it or is added
\* to one queue, when the queues change from q1 to q2.
Passes(x, s, requests, left, q1, q2) ==
    \E dst :
        /\ InList(left, x) => InList(requests, x) /\ dst = <<"listed", s>>
        /\ \A id \in WorkerIds : Carries(q2[id], x) =>
               \/ Carries(q1[id], x)
               \/ InList(requests, x) /\ dst = <<"sent", id>>

\* service_dispatch hands each request to one worker or leaves it on the list.
LEMMA Dispatched ==
    ASSUME IInv, NEW s \in Services, NEW requests \in Seq(Calls),
           NEW joining \in SUBSET Ids, NEW counts,
           NEW qs \in [Ids -> Seq(FromBroker)],
           service_dispatch(s, requests, joining, counts, qs),
           NEW made, List(requests, made)
    PROVE  /\ \A t \in Services : t # s => srv_requests'[t] = srv_requests[t]
           /\ List(srv_requests'[s], made)
           /\ \A id \in Ids :
                  \/ fromBroker'[id] = qs[id]
                  \/ /\ id \in m_waiting \union joining
                     /\ \E r \in made : /\ r \in Calls
                                        /\ fromBroker'[id] = Append(qs[id], Request(r))
           /\ \A x : Passes(x, s, requests, srv_requests'[s], qs, fromBroker')
<1> DEFINE gone == Expired \ joining
           idle == (srv_waiting[s] \union joining) \ gone
           k    == AtMost(Cardinality(idle), Len(requests))
<1>1. idle \subseteq m_waiting \union joining /\ idle \subseteq Ids
  BY DEF IInv, Lists, Tables, ListsAgree
<1>2. k \in Nat /\ k <= Len(requests)
  <2>1. IsFiniteSet(idle) /\ Cardinality(idle) \in Nat
    BY <1>1, IdsFinite, FS_Subset, FS_CardinalityType
  <2>2. Len(requests) \in Nat
    BY LenProperties
  <2> HIDE DEF idle
  <2>3. QED
    BY <2>1, <2>2 DEF AtMost
<1> HIDE DEF gone, idle, k
<1>3. PICK pick \in Picks(idle, k, m_expiry') :
          LET busy == {pick[i] : i \in 1 .. k}
          IN /\ srv_requests' = [srv_requests EXCEPT ![s] =
                    SubSeq(requests, k + 1, Len(requests))]
             /\ fromBroker' = [x \in Ids |->
                    IF x \in busy \intersect connected
                    THEN Append(qs[x],
                           Request(requests[CHOOSE i \in 1 .. k : pick[i] = x]))
                    ELSE qs[x]]
  BY Zenon DEF service_dispatch, gone, idle, k
<1> DEFINE busy == {pick[i] : i \in 1 .. k}
           job(x) == CHOOSE i \in 1 .. k : pick[i] = x
           rest == SubSeq(requests, k + 1, Len(requests))
<1>4. /\ \A t \in Services : t # s => srv_requests'[t] = srv_requests[t]
      /\ srv_requests'[s] = rest
  <2>1. srv_requests \in [Services -> Seq(Calls)]
    BY DEF IInv, Lists, Tables
  <2>2. QED
    BY <1>3, <2>1
<1>5. /\ \A x \in busy : /\ job(x) \in 1 .. k /\ pick[job(x)] = x
                         /\ x \in m_waiting \union joining
      /\ \A x \in Ids : \/ fromBroker'[x] = qs[x]
                        \/ /\ x \in busy
                           /\ fromBroker'[x] = Append(qs[x], Request(requests[job(x)]))
  <2>1. \A x \in busy : job(x) \in 1 .. k /\ pick[job(x)] = x
    OBVIOUS
  <2>2. busy \subseteq idle
    BY <1>3 DEF Picks
  <2>3. QED
    BY <1>1, <1>3, <2>1, <2>2
<1>6. DOMAIN requests = 1 .. Len(requests) /\ Len(requests) \in Nat
  BY LenProperties
<1>7. \A i \in DOMAIN rest : /\ i \in Nat /\ i + k \in DOMAIN requests
                             /\ rest[i] = requests[i + k] /\ i > 0
  <2> HIDE DEF rest
  <2>1. rest = SubSeq(requests, k + 1, Len(requests))
    BY DEF rest
  <2>2. QED
    BY <1>2, <2>1, RestOfList
<1> HIDE DEF busy, job, rest
<1>8. \A i \in 1 .. k : i \in DOMAIN requests /\ requests[i] \in Calls /\ requests[i] \in made
  <2>1. \A i \in 1 .. k : i \in 1 .. Len(requests)
    BY <1>2, <1>6
  <2>2. QED
    BY <1>6, <2>1, ElementOfSeq DEF List
<1>9. \A i, j \in DOMAIN requests : requests[i].client = requests[j].client => i = j
  BY DEF List, OneEach
<1>10. List(rest, made)
  <2>1. OneEach(rest)
    <3> SUFFICES ASSUME NEW i \in DOMAIN rest, NEW j \in DOMAIN rest,
                        rest[i].client = rest[j].client
                 PROVE  i = j
      BY DEF OneEach
    <3>1. i + k = j + k
      BY <1>7, <1>9
    <3>2. QED
      BY <1>2, <1>7, <3>1
  <2>2. \A i \in DOMAIN rest : rest[i] \in made
    BY <1>7 DEF List
  <2>3. QED
    BY <2>1, <2>2 DEF List
<1>11. ASSUME NEW id \in Ids
       PROVE  \/ fromBroker'[id] = qs[id]
              \/ /\ id \in m_waiting \union joining
                 /\ \E r \in made : /\ r \in Calls
                                    /\ fromBroker'[id] = Append(qs[id], Request(r))
  BY <1>5, <1>8
<1>12. ASSUME NEW id \in Ids, NEW x, Carries(fromBroker'[id], x)
       PROVE  \/ Carries(qs[id], x)
              \/ /\ job(id) \in 1 .. k /\ pick[job(id)] = id
                 /\ requests[job(id)].client = x
  <2>1. CASE fromBroker'[id] = qs[id]
    BY <1>12, <2>1
  <2>2. CASE id \in busy /\ fromBroker'[id] = Append(qs[id], Request(requests[job(id)]))
    <3> DEFINE m == Request(requests[job(id)])
    <3>1. m.client = requests[job(id)].client
      BY DEF Request
    <3> HIDE DEF m
    <3>2. Carries(Append(qs[id], m), x)
      BY <1>12, <2>2 DEF m
    <3>3. Carries(qs[id], x) \/ m.client = x
      BY <3>2, AppendCarries
    <3>4. QED
      BY <1>5, <2>2, <3>1, <3>3
  <2>3. QED
    BY <1>5, <2>1, <2>2
<1>13. ASSUME NEW x
       PROVE  \E dst :
                  /\ InList(rest, x) => InList(requests, x) /\ dst = <<"listed", s>>
                  /\ \A id \in Ids : Carries(fromBroker'[id], x) =>
                         \/ Carries(qs[id], x)
                         \/ InList(requests, x) /\ dst = <<"sent", id>>
  <2>1. CASE ~InList(requests, x)
    <3>1. ~InList(rest, x)
      BY <1>7, <2>1 DEF InList
    <3>2. \A id \in Ids : Carries(fromBroker'[id], x) => Carries(qs[id], x)
      BY <1>8, <1>12, <2>1 DEF InList
    <3>3. QED
      BY <3>1, <3>2
  <2>2. CASE InList(requests, x)
    <3>1. PICK j \in DOMAIN requests : requests[j].client = x
      BY <2>2 DEF InList
    <3>2. \A i \in DOMAIN requests : requests[i].client = x => i = j
      BY <1>9, <3>1
    <3>3. CASE j \in 1 .. k
      <4>1. ~InList(rest, x)
        <5> SUFFICES ASSUME NEW i \in DOMAIN rest, rest[i].client = x PROVE FALSE
          BY DEF InList
        <5>1. i + k = j
          BY <1>7, <3>2
        <5>2. QED
          BY <1>2, <1>7, <3>3, <5>1
      <4>2. \A id \in Ids : Carries(fromBroker'[id], x) =>
                Carries(qs[id], x) \/ <<"sent", pick[j]>> = <<"sent", id>>
        BY <1>8, <1>12, <3>2
      <4>3. QED
        BY <2>2, <4>1, <4>2
    <3>4. CASE j \notin 1 .. k
      <4>1. \A id \in Ids : Carries(fromBroker'[id], x) => Carries(qs[id], x)
        BY <1>8, <1>12, <3>2, <3>4
      <4>2. QED
        BY <2>2, <4>1
    <3>5. QED
      BY <3>3, <3>4
  <2>3. QED
    BY <2>1, <2>2
<1>14. \A x : Passes(x, s, requests, srv_requests'[s], qs, fromBroker')
  <2> SUFFICES ASSUME NEW x
               PROVE  Passes(x, s, requests, rest, qs, fromBroker')
    BY <1>4
  <2>1. PICK dst :
            /\ InList(rest, x) => InList(requests, x) /\ dst = <<"listed", s>>
            /\ \A id \in Ids : Carries(fromBroker'[id], x) =>
                   \/ Carries(qs[id], x)
                   \/ InList(requests, x) /\ dst = <<"sent", id>>
    BY <1>13
  <2>2. \A id \in WorkerIds : id \in Ids
    BY DEF Ids
  <2>3. QED
    BY <2>1, <2>2 DEF Passes
<1>15. QED
  BY <1>4, <1>10, <1>11, <1>14

-----------------------------------------------------------------------------
(* Where a step takes the requests of a socket.                            *)

\* Nothing of it comes to a place where nothing was.
Stays(x) == \A p : At(p, x)' => At(p, x)

\* It was at src and is nowhere but at dst now.
Goes(x, src, dst) ==
    /\ At(src, x)
    /\ \A p : At(p, x)' => p = dst \/ (At(p, x) /\ p # src)

\* It is moved as a whole.
Whole(x) == Stays(x) \/ \E src, dst : Goes(x, src, dst)

LEMMA StaysByPlace ==
    ASSUME NEW x \in ClientIds,
           toBroker'[x] # <<>> => toBroker[x] # <<>>,
           fromBroker'[x] # <<>> => fromBroker[x] # <<>>,
           \A s \in Services : InList(srv_requests'[s], x) => InList(srv_requests[s], x),
           \A w \in Workers : Holds(w, x)' => Holds(w, x),
           \A id \in WorkerIds :
               /\ Carries(fromBroker'[id], x) => Carries(fromBroker[id], x)
               /\ Carries(toBroker'[id], x) => Carries(toBroker[id], x)
    PROVE  Whole(x)
<1> SUFFICES ASSUME NEW p, At(p, x)' PROVE At(p, x)
  BY DEF Stays, Whole
<1>1. QED
  BY DEF At

LEMMA GoesByPlace ==
    ASSUME NEW x \in ClientIds, NEW src, NEW dst, At(src, x),
           toBroker'[x] # <<>> =>
               \/ dst = <<"called", x>>
               \/ toBroker[x] # <<>> /\ src # <<"called", x>>,
           fromBroker'[x] # <<>> =>
               \/ dst = <<"answered", x>>
               \/ fromBroker[x] # <<>> /\ src # <<"answered", x>>,
           \A s \in Services : InList(srv_requests'[s], x) =>
               \/ dst = <<"listed", s>>
               \/ InList(srv_requests[s], x) /\ src # <<"listed", s>>,
           \A w \in Workers : Holds(w, x)' =>
               \/ dst = <<"held", w>>
               \/ Holds(w, x) /\ src # <<"held", w>>,
           \A id \in WorkerIds : Carries(fromBroker'[id], x) =>
               \/ dst = <<"sent", id>>
               \/ Carries(fromBroker[id], x) /\ src # <<"sent", id>>,
           \A id \in WorkerIds : Carries(toBroker'[id], x) =>
               \/ dst = <<"replied", id>>
               \/ Carries(toBroker[id], x) /\ src # <<"replied", id>>
    PROVE  Whole(x)
<1>1. ASSUME NEW p, At(p, x)' PROVE p = dst \/ (At(p, x) /\ p # src)
  <2>1. CASE p = <<"called", x>> /\ toBroker'[x] # <<>>
    BY <2>1 DEF At
  <2>2. CASE \E s \in Services : p = <<"listed", s>> /\ InList(srv_requests'[s], x)
    BY <2>2 DEF At
  <2>3. CASE \E id \in WorkerIds : p = <<"sent", id>> /\ Carries(fromBroker'[id], x)
    BY <2>3 DEF At
  <2>4. CASE \E w \in Workers : p = <<"held", w>> /\ Holds(w, x)'
    BY <2>4 DEF At
  <2>5. CASE \E id \in WorkerIds : p = <<"replied", id>> /\ Carries(toBroker'[id], x)
    BY <2>5 DEF At
  <2>6. CASE p = <<"answered", x>> /\ fromBroker'[x] # <<>>
    BY <2>6 DEF At
  <2>7. QED
    BY <1>1, <2>1, <2>2, <2>3, <2>4, <2>5, <2>6 DEF At
<1>2. \A p : At(p, x)' => p = dst \/ (At(p, x) /\ p # src)
  BY <1>1
<1>3. Goes(x, src, dst)
  BY <1>2 DEF Goes
<1>4. QED
  BY <1>3 DEF Whole

LEMMA SameMade ==
    ASSUME UNCHANGED asked, \A c \in Clients : session'[c] = session[c]
    PROVE  Made' = Made
  BY DEF Made, ClientIds

LEMMA ClientIdTyped == ASSUME Sessions, NEW c \in Clients PROVE Id(c) \in ClientIds
<1>1. session[c] \in Nat /\ session[c] <= MaxClientSockets
  BY BrokerAssumption DEF Sessions, Peers, MaxSockets
<1>2. QED
  BY <1>1, BrokerAssumption DEF Id, ClientIds

\* A step in which no client does anything keeps the invariant if it keeps
\* the requests what they are, and moves each as a whole.
LEMMA Keeps ==
    ASSUME IInv, RequestsInv, UNCHANGED <<asked, cstate>>,
           \A c \in Clients : session'[c] = session[c],
           AllMade',
           \A x \in ClientIds : Whole(x),
           \A c \in Clients : cstate[c] = "failed" =>
               fromBroker'[Id(c)] = <<>> /\ Id(c) \notin connected'
    PROVE  RequestsInv'
<1>2. OnePlace'
  <2> SUFFICES ASSUME NEW x \in ClientIds, NEW p, NEW q, At(p, x)', At(q, x)'
               PROVE  p = q
    BY DEF OnePlace
  <2>1. \A y, z : At(y, x) /\ At(z, x) => y = z
    BY DEF RequestsInv, OnePlace
  <2>2. CASE Stays(x)
    BY <2>1, <2>2 DEF Stays
  <2>3. ASSUME NEW src, NEW dst, Goes(x, src, dst) PROVE p = q
    BY <2>1, <2>3 DEF Goes
  <2>4. QED
    BY <2>2, <2>3 DEF Whole
<1>3. ASSUME NEW c \in Clients
      PROVE  /\ cstate'[c] = "ready" => \A p : ~At(p, Id(c))'
             /\ cstate'[c] = "failed" =>
                    fromBroker'[Id(c)'] = <<>> /\ Id(c)' \notin connected'
  <2>1. Id(c)' = Id(c)
    BY DEF Id
  <2>2. PICK x \in ClientIds : x = Id(c)
    BY ClientIdTyped DEF IInv, PeersInv
  <2>3. ASSUME cstate[c] = "ready", NEW p PROVE ~At(p, x)'
    <3>1. \A y : ~At(y, x)
      BY <2>2, <2>3 DEF RequestsInv, ClientsInv
    <3>2. Stays(x)
      BY <3>1 DEF Whole, Goes
    <3>3. QED
      BY <3>1, <3>2 DEF Stays
  <2>4. \A p : At(p, x)' <=> At(p, Id(c))'
    BY <2>1, <2>2 DEF At
  <2>5. QED
    BY <2>1, <2>2, <2>3, <2>4
<1>4. ClientsInv'
  BY <1>3 DEF ClientsInv, RequestsInv
<1>5. QED
  BY <1>2, <1>4 DEF RequestsInv

\* Nothing comes into q but words that carry no request.
Adds(q2, q1, cmds) ==
    Part(q2, q1) \/ \E m : m.cmd \in cmds /\ (q2 = Append(q1, m) \/ q2 = <<m>>)

LEMMA AddsTransfers ==
    ASSUME NEW S, NEW q1 \in Seq(S), NEW q2, NEW cmds, Adds(q2, q1, cmds),
           "REQUEST" \notin cmds, "REPLY" \notin cmds,
           NEW all, cmds \subseteq all, NEW made
    PROVE  /\ WorkerQueue(q1, all, made) => WorkerQueue(q2, all, made)
           /\ \A x : Carries(q2, x) => Carries(q1, x)
<1>1. CASE Part(q2, q1)
  BY <1>1, PartTransfers
<1>2. ASSUME NEW m, m.cmd \in cmds, q2 = Append(q1, m) \/ q2 = <<m>>
      PROVE  /\ WorkerQueue(q1, all, made) => WorkerQueue(q2, all, made)
             /\ \A x : Carries(q2, x) => Carries(q1, x)
  <2>1. m.cmd \in all /\ m.cmd \notin {"REQUEST", "REPLY"}
    BY <1>2
  <2>2. CASE q2 = Append(q1, m)
    BY <2>1, <2>2, AppendCarries, AppendWorkerQueue
  <2>3. CASE q2 = <<m>>
    BY <2>1, <2>3 DEF WorkerQueue, Carries
  <2>4. QED
    BY <1>2, <2>2, <2>3
<1>3. QED
  BY <1>1, <1>2 DEF Adds

\* Steps that pass no request on.
LEMMA Quiet ==
    ASSUME IInv, RequestsInv, UNCHANGED <<asked, cstate>>,
           \A c \in Clients : session'[c] = session[c],
           \A x \in ClientIds :
               /\ Part(toBroker'[x], toBroker[x])
               /\ Part(fromBroker'[x], fromBroker[x])
               /\ x \in connected' => x \in connected,
           \A id \in WorkerIds :
               /\ Adds(toBroker'[id], toBroker[id], {"READY", "HEARTBEAT"})
               /\ Adds(fromBroker'[id], fromBroker[id], {"HEARTBEAT", "DISCONNECT"}),
           \A s \in Services : srv_requests'[s] \in {srv_requests[s], <<>>},
           \A w \in Workers :
               \/ wstate'[w] = wstate[w] /\ request'[w] = request[w]
               \/ wstate'[w] # "busy" /\ request'[w] = NoRequest
               \/ {wstate'[w], wstate[w]} \subseteq {"off", "idle"} /\ request'[w] = request[w]
    PROVE  RequestsInv'
<1>1. Made' = Made
  BY SameMade
<1>2. \A id \in WorkerIds :
          /\ WorkerQueue(toBroker'[id], Said, Made)
          /\ WorkerQueue(fromBroker'[id], Told, Made)
          /\ \A x : /\ Carries(toBroker'[id], x) => Carries(toBroker[id], x)
                    /\ Carries(fromBroker'[id], x) => Carries(fromBroker[id], x)
  <2> SUFFICES ASSUME NEW id \in WorkerIds
               PROVE  /\ WorkerQueue(toBroker'[id], Said, Made)
                      /\ WorkerQueue(fromBroker'[id], Told, Made)
                      /\ \A x : /\ Carries(toBroker'[id], x) => Carries(toBroker[id], x)
                                /\ Carries(fromBroker'[id], x) => Carries(fromBroker[id], x)
    OBVIOUS
  <2>1. toBroker[id] \in Seq(ToBroker) /\ fromBroker[id] \in Seq(FromBroker)
    BY DEF IInv, Queues, Ids
  <2>2. /\ {"READY", "HEARTBEAT"} \subseteq Said
        /\ {"HEARTBEAT", "DISCONNECT"} \subseteq Told
    BY DEF Said, Told
  <2>3. /\ WorkerQueue(toBroker[id], Said, Made)
        /\ WorkerQueue(fromBroker[id], Told, Made)
    BY DEF RequestsInv, AllMade
  <2>4. /\ "REQUEST" \notin {"READY", "HEARTBEAT"} /\ "REPLY" \notin {"READY", "HEARTBEAT"}
        /\ "REQUEST" \notin {"HEARTBEAT", "DISCONNECT"}
        /\ "REPLY" \notin {"HEARTBEAT", "DISCONNECT"}
    OBVIOUS
  <2>5. /\ WorkerQueue(toBroker'[id], Said, Made)
        /\ \A x : Carries(toBroker'[id], x) => Carries(toBroker[id], x)
    BY <2>1, <2>2, <2>3, <2>4, AddsTransfers
  <2>6. /\ WorkerQueue(fromBroker'[id], Told, Made)
        /\ \A x : Carries(fromBroker'[id], x) => Carries(fromBroker[id], x)
    BY <2>1, <2>2, <2>3, <2>4, AddsTransfers
  <2>7. QED
    BY <2>5, <2>6
<1>3. \A x \in ClientIds :
          /\ ClientQueue(toBroker'[x], x, Asked, Made)
          /\ ClientQueue(fromBroker'[x], x, {"ANSWER"}, Made)
          /\ toBroker'[x] # <<>> => toBroker[x] # <<>>
          /\ fromBroker'[x] # <<>> => fromBroker[x] # <<>>
  <2>1. \A x \in ClientIds :
            /\ ClientQueue(toBroker[x], x, Asked, Made)
            /\ ClientQueue(fromBroker[x], x, {"ANSWER"}, Made)
    BY DEF RequestsInv, AllMade
  <2>2. \A x \in ClientIds :
            /\ ClientQueue(toBroker'[x], x, Asked, Made)
            /\ ClientQueue(fromBroker'[x], x, {"ANSWER"}, Made)
    BY <2>1, PartTransfers
  <2>3. QED
    BY <2>2 DEF Part
<1>4. \A s \in Services :
          /\ List(srv_requests'[s], Made)
          /\ \A x : InList(srv_requests'[s], x) => InList(srv_requests[s], x)
  <2>1. \A s \in Services : List(srv_requests[s], Made)
    BY DEF RequestsInv, AllMade
  <2>2. List(<<>>, Made) /\ \A x : ~InList(<<>>, x)
    BY DEF List, OneEach, InList
  <2>3. QED
    BY <2>1, <2>2
<1>5. \A w \in Workers :
          /\ IF wstate'[w] = "busy" THEN request'[w] \in Made ELSE request'[w] = NoRequest
          /\ \A x : Holds(w, x)' => Holds(w, x)
  BY DEF RequestsInv, AllMade, Holds
<1>6. AllMade'
  BY <1>1, <1>2, <1>3, <1>4, <1>5 DEF AllMade
<1>7. \A x \in ClientIds : Whole(x)
  BY <1>2, <1>3, <1>4, <1>5, StaysByPlace
<1>8. ASSUME NEW c \in Clients, cstate[c] = "failed"
      PROVE  fromBroker'[Id(c)] = <<>> /\ Id(c) \notin connected'
  <2>1. Id(c) \in ClientIds
    BY ClientIdTyped DEF IInv, PeersInv
  <2>2. fromBroker[Id(c)] = <<>> /\ Id(c) \notin connected
    BY <1>8 DEF RequestsInv, ClientsInv
  <2>3. QED
    BY <1>3, <2>1, <2>2
<1>9. QED
  BY <1>6, <1>7, <1>8, Keeps

-----------------------------------------------------------------------------
(* The steps of the broker.                                                *)

LEMMA SentAdds ==
    ASSUME NEW qs \in [Ids -> Seq(FromBroker)], NEW id \in WorkerIds, NEW m,
           NEW cmds, m.cmd \in cmds
    PROVE  /\ \A x \in ClientIds : Part(Sent(qs, id, m)[x], qs[x])
           /\ \A y \in WorkerIds : Adds(Sent(qs, id, m)[y], qs[y], cmds)
<1>1. \A x \in Ids : Sent(qs, id, m)[x] \in {qs[x], Append(qs[x], m)}
  BY DEF Sent
<1>2. \A x \in ClientIds : x \in Ids /\ x # id
  BY BrokerAssumption DEF ClientIds, WorkerIds, Ids
<1>3. \A x \in ClientIds : Sent(qs, id, m)[x] = qs[x]
  BY <1>2 DEF Sent
<1>4. \A y \in WorkerIds : y \in Ids
  BY DEF Ids
<1>5. \A y \in WorkerIds : Adds(Sent(qs, id, m)[y], qs[y], cmds)
  BY <1>1, <1>4, SamePart DEF Adds
<1>6. QED
  BY <1>3, <1>5, SamePart

LEMMA PartAdds == ASSUME NEW q2, NEW q1, Part(q2, q1), NEW cmds PROVE Adds(q2, q1, cmds)
  BY DEF Adds

LEMMA BeatsRequests ==
    ASSUME IInv, RequestsInv, BrokerBeats, UNCHANGED peerVars,
           m_waiting \subseteq WorkerIds
    PROVE  RequestsInv'
<1>1. UNCHANGED <<asked, cstate, session, wstate, request, toBroker, connected, srv_requests>>
  BY DEF BrokerBeats, peerVars, workerVars, clientVars
<1>2. /\ m_waiting' \subseteq m_waiting
      /\ fromBroker' = [id \in Ids |->
             IF id \in m_waiting' \intersect connected
             THEN Append(fromBroker[id], Heartbeat) ELSE fromBroker[id]]
  BY DEF BrokerBeats
<1>3. \A x \in ClientIds : fromBroker'[x] = fromBroker[x]
  BY <1>2, BrokerAssumption DEF ClientIds, WorkerIds, Ids
<1>4. \A id \in WorkerIds :
          fromBroker'[id] \in {fromBroker[id], Append(fromBroker[id], Heartbeat)}
  BY <1>2 DEF Ids
<1>5. Heartbeat.cmd \in {"HEARTBEAT", "DISCONNECT"}
  BY DEF Heartbeat
<1>6. \A id \in WorkerIds : /\ Adds(fromBroker'[id], fromBroker[id], {"HEARTBEAT", "DISCONNECT"})
                            /\ Adds(toBroker'[id], toBroker[id], {"READY", "HEARTBEAT"})
  BY <1>1, <1>4, <1>5, SamePart DEF Adds
<1>7. QED
  BY <1>1, <1>3, <1>6, SamePart, Quiet

\* Time, deaths and losses leave parts of the queues.
LEMMA FailsParts ==
    ASSUME IInv, Tick \/ BrokerDies \/ BrokerRestarts \/ \E id \in Ids : BrokerLoses(id),
           NEW id \in Ids
    PROVE  Part(toBroker'[id], toBroker[id]) /\ Part(fromBroker'[id], fromBroker[id])
<1> DEFINE q == fromBroker[id]
<1>0. toBroker[id] \in Seq(ToBroker) /\ fromBroker[id] \in Seq(FromBroker)
  BY DEF IInv, Queues
<1>1. \/ toBroker'[id] \in {toBroker[id], <<>>}
      \/ toBroker[id] # <<>> /\ toBroker'[id] = Tail(toBroker[id])
  BY DEF Tick, BrokerDies, BrokerRestarts, BrokerLoses, queues, IInv, Queues
<1>2. \/ fromBroker'[id] = q
      \/ q # <<>> /\ fromBroker'[id] = SubSeq(q, 1, Len(q) - 1)
  BY DEF Tick, BrokerDies, BrokerRestarts, BrokerLoses, queues, IInv, Queues
<1>3. q # <<>> => Len(q) - 1 \in Nat /\ Len(q) - 1 <= Len(q)
  BY <1>0, EmptySeq, LenProperties
<1>4. Part(toBroker'[id], toBroker[id])
  BY <1>0, <1>1, SamePart, EmptyPart, TailPart
<1>5. q \in Seq(FromBroker)
  BY <1>0
<1> HIDE DEF q
<1>6. Part(fromBroker'[id], q)
  BY <1>2, <1>3, <1>5, SamePart, CutPart
<1>7. QED
  BY <1>4, <1>6 DEF q

LEMMA FailsRequests ==
    ASSUME IInv, RequestsInv, Tick \/ BrokerDies \/ BrokerRestarts
                              \/ \E id \in Ids : BrokerLoses(id),
           UNCHANGED peerVars
    PROVE  RequestsInv'
<1>1. UNCHANGED <<asked, cstate, session, wstate, request, connected>>
  BY DEF Tick, BrokerDies, BrokerRestarts, BrokerLoses, peerVars, workerVars, clientVars
<1>3. \A s \in Services : srv_requests'[s] \in {srv_requests[s], <<>>}
  BY DEF Tick, BrokerDies, BrokerRestarts, BrokerLoses, tables
<1>4. \A id \in Ids : Part(toBroker'[id], toBroker[id]) /\ Part(fromBroker'[id], fromBroker[id])
  BY FailsParts
<1>5. \A x \in ClientIds : x \in Ids
  BY DEF Ids
<1>6. \A id \in WorkerIds : /\ Adds(fromBroker'[id], fromBroker[id], {"HEARTBEAT", "DISCONNECT"})
                            /\ Adds(toBroker'[id], toBroker[id], {"READY", "HEARTBEAT"})
  BY <1>4, PartAdds DEF Ids
<1>7. QED
  BY <1>1, <1>3, <1>4, <1>5, <1>6, Quiet

\* What the broker takes from a queue.
LEMMA Taken ==
    ASSUME IInv, WorkersInv, RequestsInv, NEW id \in Ids, toBroker[id] # <<>>,
           toBroker' = [toBroker EXCEPT ![id] = Tail(@)],
           NEW r, r = Head(toBroker[id])
    PROVE  /\ \A y \in Ids : Part(toBroker'[y], toBroker[y])
           /\ \A y \in WorkerIds : WorkerQueue(toBroker'[y], Said, Made)
           /\ \A x \in ClientIds : ClientQueue(toBroker'[x], x, Asked, Made)
           /\ id \in WorkerIds => r.cmd \in Said
           /\ r.cmd = "REPLY" => /\ [client |-> r.client, n |-> r.n] \in Made
                                 /\ r.client \in ClientIds
                                 /\ Carries(toBroker[id], r.client)
                                 /\ \A x : ~Carries(toBroker'[id], x)
           /\ id \in ClientIds => /\ r.cmd \in Asked
                                  /\ [client |-> id, n |-> r.n] \in Made
                                  /\ toBroker'[id] = <<>>
<1>1. /\ toBroker[id] \in Seq(ToBroker) /\ toBroker'[id] = Tail(toBroker[id])
      /\ \A y \in Ids : y # id => toBroker'[y] = toBroker[y]
  BY DEF IInv, Queues
<1>2. 1 \in DOMAIN toBroker[id] /\ r = toBroker[id][1] /\ r \in ToBroker
  <2>1. /\ Len(toBroker[id]) \in Nat \ {0} /\ DOMAIN toBroker[id] = 1 .. Len(toBroker[id])
        /\ Head(toBroker[id]) = toBroker[id][1] /\ Head(toBroker[id]) \in ToBroker
    BY <1>1, HeadTailProperties, LenProperties, EmptySeq
  <2>2. QED
    BY <2>1
<1>3. \A y \in Ids : Part(toBroker'[y], toBroker[y])
  BY <1>1, SamePart, TailPart
<1>4. /\ \A y \in WorkerIds : y \in Ids /\ WorkerQueue(toBroker[y], Said, Made)
      /\ \A x \in ClientIds : x \in Ids /\ ClientQueue(toBroker[x], x, Asked, Made)
      /\ id \in WorkerIds \/ id \in ClientIds
  BY DEF RequestsInv, AllMade, Ids
<1>5. /\ \A y \in WorkerIds : WorkerQueue(toBroker'[y], Said, Made)
      /\ \A x \in ClientIds : ClientQueue(toBroker'[x], x, Asked, Made)
  BY <1>3, <1>4, PartTransfers
<1>6. id \in WorkerIds => r.cmd \in Said
  BY <1>2, <1>4 DEF WorkerQueue
<1>7. ASSUME id \in ClientIds
      PROVE  /\ r.cmd \in Asked /\ [client |-> id, n |-> r.n] \in Made
             /\ toBroker'[id] = <<>>
  <2>1. ClientQueue(toBroker[id], id, Asked, Made)
    BY <1>4, <1>7
  <2>2. toBroker'[id] = <<>>
    BY <1>1, <2>1, SingleTail DEF ClientQueue
  <2>3. QED
    BY <1>2, <2>1, <2>2 DEF ClientQueue
<1>8. ASSUME r.cmd = "REPLY"
      PROVE  /\ [client |-> r.client, n |-> r.n] \in Made /\ r.client \in ClientIds
             /\ Carries(toBroker[id], r.client)
             /\ \A x : ~Carries(toBroker'[id], x)
  <2>1. id \in WorkerIds
    BY <1>4, <1>7, <1>8 DEF Asked
  <2>2. [client |-> r.client, n |-> r.n] \in Made /\ Carries(toBroker[id], r.client)
    BY <1>2, <1>4, <1>8, <2>1 DEF WorkerQueue, Carries
  <2>3. r.client \in ClientIds
    BY <2>2 DEF Made
  <2>4. ~Has(toBroker'[id], Offers)
    <3>1. Once(toBroker[id], Offers) /\ r.cmd \in Offers
      BY <1>8 DEF WorkersInv, AtMostOnePlace, Offers
    <3>2. QED
      BY <1>1, <3>1, TailQueue
  <2>5. \A x : ~Carries(toBroker'[id], x)
    BY <1>5, <2>1, <2>4 DEF WorkerQueue, Carries, Has, Offers, Said
  <2>6. QED
    BY <2>2, <2>3, <2>5
<1>9. QED
  BY <1>3, <1>5, <1>6, <1>7, <1>8

\* A dispatch moves the request of a socket as a whole.
LEMMA DispatchWhole ==
    ASSUME NEW x \in ClientIds, NEW s \in Services, NEW requests,
           \A t \in Services : t # s => srv_requests'[t] = srv_requests[t],
           InList(requests, x) => InList(srv_requests[s], x),
           toBroker'[x] # <<>> => toBroker[x] # <<>>,
           fromBroker'[x] # <<>> => fromBroker[x] # <<>>,
           \A y \in WorkerIds : Carries(toBroker'[y], x) => Carries(toBroker[y], x),
           UNCHANGED <<wstate, request>>,
           Passes(x, s, requests, srv_requests'[s], fromBroker, fromBroker')
    PROVE  Whole(x)
<1>1. PICK dst :
          /\ InList(srv_requests'[s], x) =>
                 InList(requests, x) /\ dst = <<"listed", s>>
          /\ \A y \in WorkerIds : Carries(fromBroker'[y], x) =>
                 \/ Carries(fromBroker[y], x)
                 \/ InList(requests, x) /\ dst = <<"sent", y>>
  BY DEF Passes
<1>2. \A w \in Workers : Holds(w, x)' <=> Holds(w, x)
  BY DEF Holds
<1>3. CASE InList(requests, x)
  <2>1. At(<<"listed", s>>, x)
    BY <1>3 DEF At
  <2>2. \A t \in Services : InList(srv_requests'[t], x) =>
            \/ dst = <<"listed", t>>
            \/ InList(srv_requests[t], x) /\ <<"listed", s>> # <<"listed", t>>
    BY <1>1
  <2>3. \A y \in WorkerIds : Carries(fromBroker'[y], x) =>
            \/ dst = <<"sent", y>>
            \/ Carries(fromBroker[y], x) /\ <<"listed", s>> # <<"sent", y>>
    BY <1>1
  <2>4. /\ <<"listed", s>> # <<"called", x>> /\ <<"listed", s>> # <<"answered", x>>
        /\ \A w \in Workers : <<"listed", s>> # <<"held", w>>
        /\ \A y \in WorkerIds : <<"listed", s>> # <<"replied", y>>
    OBVIOUS
  <2>5. QED
    BY <1>2, <2>1, <2>2, <2>3, <2>4, GoesByPlace
<1>4. CASE ~InList(requests, x)
  <2>1. \A t \in Services : InList(srv_requests'[t], x) => InList(srv_requests[t], x)
    BY <1>1, <1>4
  <2>2. \A y \in WorkerIds : Carries(fromBroker'[y], x) => Carries(fromBroker[y], x)
    BY <1>1, <1>4
  <2>3. QED
    BY <1>2, <2>1, <2>2, StaysByPlace
<1>5. QED
  BY <1>3, <1>4

LEMMA TakesRequests ==
    ASSUME IInv, WorkersInv, RequestsInv, NEW id \in Ids, BrokerTakes(id),
           UNCHANGED peerVars
    PROVE  RequestsInv'
<1> DEFINE r == Head(toBroker[id])
<1>1. /\ toBroker[id] # <<>> /\ UNCHANGED connected
      /\ toBroker' = [toBroker EXCEPT ![id] = Tail(@)]
      /\ UNCHANGED <<asked, cstate, session, wstate, request>>
  BY DEF BrokerTakes, BrokerReady, BrokerReply, BrokerBeaten, BrokerCall,
         BrokerMmi, Takes, peerVars, workerVars, clientVars
<1>2. /\ \A y \in Ids : Part(toBroker'[y], toBroker[y])
      /\ \A y \in WorkerIds : WorkerQueue(toBroker'[y], Said, Made)
      /\ \A x \in ClientIds : ClientQueue(toBroker'[x], x, Asked, Made)
      /\ id \in WorkerIds => r.cmd \in Said
      /\ r.cmd = "REPLY" => /\ [client |-> r.client, n |-> r.n] \in Made
                            /\ r.client \in ClientIds
                            /\ Carries(toBroker[id], r.client)
                            /\ \A x : ~Carries(toBroker'[id], x)
      /\ id \in ClientIds => /\ r.cmd \in Asked
                             /\ [client |-> id, n |-> r.n] \in Made
                             /\ toBroker'[id] = <<>>
  BY <1>1, Taken
<1>3. r \in ToBroker
  BY <1>1, HeadTyped DEF IInv
<1> HIDE DEF r
<1>4. /\ \A x \in ClientIds : x \in Ids /\ x \notin WorkerIds
      /\ \A y \in WorkerIds : y \in Ids
      /\ id \in WorkerIds \/ id \in ClientIds
  BY BrokerAssumption DEF Ids, WorkerIds, ClientIds
<1>5. /\ fromBroker \in [Ids -> Seq(FromBroker)]
      /\ \A s \in Services : srv_requests[s] \in Seq(Calls) /\ List(srv_requests[s], Made)
      /\ \A y \in m_workers : y \in WorkerIds /\ m_service[y] \in Services
      /\ m_waiting \subseteq m_workers
      /\ \A y \in WorkerIds : WorkerQueue(fromBroker[y], Told, Made)
      /\ \A x \in ClientIds : ClientQueue(fromBroker[x], x, {"ANSWER"}, Made)
  <2>1. m_workers \subseteq WorkerIds
    BY DEF IInv, Lists, Tables, WorkersInv, Unused, Ids
  <2>2. \A s \in Services : srv_requests[s] \in Seq(Calls)
    BY DEF IInv, Lists, Tables
  <2>3. \A y \in m_workers : m_service[y] \in Services
    BY DEF IInv, Lists, Tables
  <2>4. m_waiting \subseteq m_workers /\ fromBroker \in [Ids -> Seq(FromBroker)]
    BY DEF IInv, Lists, ListsAgree, Queues
  <2>5. QED
    BY <2>1, <2>2, <2>3, <2>4 DEF RequestsInv, AllMade
<1>6. \A c \in Clients : cstate[c] = "failed" =>
          /\ Id(c) \in ClientIds /\ Id(c) \notin connected
          /\ fromBroker[Id(c)] = <<>>
  BY ClientIdTyped DEF IInv, PeersInv, RequestsInv, ClientsInv
<1>7. /\ \A x \in ClientIds : toBroker'[x] # <<>> => toBroker[x] # <<>>
      /\ \A y \in WorkerIds : \A x : Carries(toBroker'[y], x) => Carries(toBroker[y], x)
  <2>1. \A x \in ClientIds : toBroker'[x] # <<>> => toBroker[x] # <<>>
    BY <1>2, <1>4 DEF Part
  <2>2. \A y \in WorkerIds : \A x : Carries(toBroker'[y], x) => Carries(toBroker[y], x)
    BY <1>2, <1>4, PartTransfers
  <2>3. QED
    BY <2>1, <2>2
<1>8. \A x \in ClientIds : \A p, q : At(p, x) /\ At(q, x) => p = q
  BY DEF RequestsInv, OnePlace
<1>9. \A w \in Workers : \A x : Holds(w, x)' <=> Holds(w, x)
  BY <1>1 DEF Holds
\* Steps that move requests.
<1>10. ASSUME \A s \in Services : List(srv_requests'[s], Made),
              \A y \in WorkerIds : WorkerQueue(fromBroker'[y], Told, Made),
              \A x \in ClientIds : ClientQueue(fromBroker'[x], x, {"ANSWER"}, Made),
              \A x \in ClientIds : Whole(x),
              \A x \in ClientIds : x \notin connected => fromBroker'[x] = fromBroker[x]
       PROVE  RequestsInv'
  <2>1. Made' = Made
    BY <1>1, SameMade
  <2>2. \A w \in Workers : IF wstate'[w] = "busy" THEN request'[w] \in Made
                           ELSE request'[w] = NoRequest
    BY <1>1 DEF RequestsInv, AllMade
  <2>3. AllMade'
    BY <1>2, <1>10, <2>1, <2>2 DEF AllMade
  <2>4. \A c \in Clients : cstate[c] = "failed" =>
            fromBroker'[Id(c)] = <<>> /\ Id(c) \notin connected'
    BY <1>1, <1>6, <1>10
  <2>5. UNCHANGED <<asked, cstate>> /\ \A c \in Clients : session'[c] = session[c]
    BY <1>1
  <2>6. QED
    BY <1>10, <2>3, <2>4, <2>5, Keeps
\* Steps that do not.
<1>11. ASSUME \A x \in ClientIds : Part(fromBroker'[x], fromBroker[x]),
              \A y \in WorkerIds :
                  Adds(fromBroker'[y], fromBroker[y], {"HEARTBEAT", "DISCONNECT"}),
              UNCHANGED srv_requests
       PROVE  RequestsInv'
  <2>1. \A y \in WorkerIds : Adds(toBroker'[y], toBroker[y], {"READY", "HEARTBEAT"})
    BY <1>2, <1>4, PartAdds
  <2>2. \A x \in ClientIds : Part(toBroker'[x], toBroker[x])
    BY <1>2, <1>4
  <2>3. QED
    BY <1>1, <1>11, <2>1, <2>2, Quiet
<1>12. ASSUME id \in WorkerIds, TurnAway(id) PROVE RequestsInv'
  <2>1. Disconnect.cmd \in {"HEARTBEAT", "DISCONNECT"}
    BY DEF Disconnect
  <2>2. fromBroker' = Sent(fromBroker, id, Disconnect) /\ UNCHANGED srv_requests
    BY <1>12 DEF TurnAway, tables
  <2>3. QED
    BY <1>5, <1>11, <1>12, <2>1, <2>2, SentAdds
\* Dispatch.
<1>13. ASSUME NEW s \in Services, NEW requests \in Seq(Calls), List(requests, Made),
              NEW joining \in SUBSET WorkerIds, NEW counts,
              NEW qs \in [Ids -> Seq(FromBroker)],
              service_dispatch(s, requests, joining, counts, qs),
              \A y \in WorkerIds : qs[y] = fromBroker[y]
       PROVE  /\ \A t \in Services : t # s => srv_requests'[t] = srv_requests[t]
              /\ \A t \in Services : List(srv_requests'[t], Made)
              /\ \A y \in WorkerIds : WorkerQueue(fromBroker'[y], Told, Made)
              /\ \A x \in ClientIds : fromBroker'[x] = qs[x]
              /\ \A x : Passes(x, s, requests, srv_requests'[s], fromBroker, fromBroker')
              /\ \A x \in ClientIds :
                     (/\ InList(requests, x) => InList(srv_requests[s], x)
                      /\ qs[x] # <<>> => fromBroker[x] # <<>>)
                     => Whole(x)
  <2>1. /\ \A t \in Services : t # s => srv_requests'[t] = srv_requests[t]
        /\ List(srv_requests'[s], Made)
        /\ \A y \in Ids :
               \/ fromBroker'[y] = qs[y]
               \/ /\ y \in m_waiting \union joining
                  /\ \E c \in Made : /\ c \in Calls
                                     /\ fromBroker'[y] = Append(qs[y], Request(c))
        /\ \A x : Passes(x, s, requests, srv_requests'[s], qs, fromBroker')
    <3>1. joining \in SUBSET Ids
      BY <1>4
    <3>2. PICK made : made = Made
      OBVIOUS
    <3>3. List(requests, made)
      BY <1>13, <3>2
    <3>4. /\ \A t \in Services : t # s => srv_requests'[t] = srv_requests[t]
          /\ List(srv_requests'[s], made)
          /\ \A y \in Ids :
                 \/ fromBroker'[y] = qs[y]
                 \/ /\ y \in m_waiting \union joining
                    /\ \E c \in made : /\ c \in Calls
                                       /\ fromBroker'[y] = Append(qs[y], Request(c))
          /\ \A x : Passes(x, s, requests, srv_requests'[s], qs, fromBroker')
      BY <1>13, <3>1, <3>3, Dispatched
    <3>5. QED
      BY <3>2, <3>4
  <2>2. \A t \in Services : List(srv_requests'[t], Made)
    BY <1>5, <2>1
  <2>3. \A x \in ClientIds : fromBroker'[x] = qs[x]
    BY <1>4, <1>5, <2>1
  <2>4. ASSUME NEW y \in WorkerIds PROVE WorkerQueue(fromBroker'[y], Told, Made)
    <3>1. WorkerQueue(qs[y], Told, Made) /\ qs[y] \in Seq(FromBroker)
      BY <1>4, <1>5, <1>13
    <3>2. ASSUME NEW c \in Made, c \in Calls, fromBroker'[y] = Append(qs[y], Request(c))
          PROVE  WorkerQueue(fromBroker'[y], Told, Made)
      <4> DEFINE m == Request(c)
      <4>1. /\ m.cmd \in Told
            /\ [client |-> m.client, n |-> m.n] \in Made
        <5>1. m.cmd \in Told /\ m.client = c.client /\ m.n = c.n
          BY DEF Request, Told
        <5>2. [client |-> c.client, n |-> c.n] = c
          BY <3>2 DEF Calls
        <5>3. QED
          BY <5>1, <5>2
      <4> HIDE DEF m
      <4>2. WorkerQueue(Append(qs[y], m), Told, Made)
        BY <3>1, <4>1, AppendWorkerQueue
      <4>3. QED
        BY <3>2, <4>2 DEF m
    <3>3. QED
      BY <1>4, <2>1, <3>1, <3>2
  <2>5. ASSUME NEW x
        PROVE  Passes(x, s, requests, srv_requests'[s], fromBroker, fromBroker')
    <3>1. Passes(x, s, requests, srv_requests'[s], qs, fromBroker')
      BY <2>1
    <3>2. QED
      BY <1>13, <3>1 DEF Passes
  <2>6. ASSUME NEW x \in ClientIds,
               InList(requests, x) => InList(srv_requests[s], x),
               qs[x] # <<>> => fromBroker[x] # <<>>
        PROVE  Whole(x)
    <3>1. UNCHANGED <<wstate, request>>
      BY <1>1
    <3>2. fromBroker'[x] # <<>> => fromBroker[x] # <<>>
      BY <2>3, <2>6
    <3>3. QED
      BY <1>7, <2>1, <2>5, <2>6, <3>1, <3>2, DispatchWhole
  <2>7. QED
    BY <2>1, <2>2, <2>3, <2>4, <2>5, <2>6
\* An answer from the broker itself.
<1>14. ASSUME id \in ClientIds, NEW code,
              fromBroker' = Sent(fromBroker, id, Answer(code, r.n)),
              UNCHANGED srv_requests
       PROVE  RequestsInv'
  <2>1. /\ At(<<"called", id>>, id) /\ toBroker'[id] = <<>>
        /\ fromBroker[id] = <<>>
    <3>1. At(<<"called", id>>, id)
      BY <1>1 DEF At
    <3>2. fromBroker[id] # <<>> => At(<<"answered", id>>, id)
      BY DEF At
    <3>3. <<"called", id>> # <<"answered", id>>
      OBVIOUS
    <3>4. QED
      BY <1>2, <1>8, <1>14, <3>1, <3>2, <3>3
  <2> DEFINE m == Answer(code, r.n)
  <2>2. m.cmd \in {"ANSWER"} /\ [client |-> id, n |-> m.n] \in Made
    BY <1>2, <1>14 DEF Answer
  <2> HIDE DEF m
  <2>3. /\ fromBroker'[id] \in {<<>>, <<m>>}
        /\ \A y \in Ids : y # id => fromBroker'[y] = fromBroker[y]
        /\ id \notin connected => fromBroker'[id] = fromBroker[id]
    <3>1. fromBroker' = Sent(fromBroker, id, m)
      BY <1>14 DEF m
    <3>2. Append(<<>>, m) = <<m>>
      OBVIOUS
    <3>3. QED
      BY <1>5, <2>1, <3>1, <3>2 DEF Sent
  <2>4. \A y \in WorkerIds : fromBroker'[y] = fromBroker[y]
    BY <1>4, <1>14, <2>3
  <2>5. \A x \in ClientIds : ClientQueue(fromBroker'[x], x, {"ANSWER"}, Made)
    BY <1>4, <1>5, <2>2, <2>3, OneInQueue, NoneInQueue
  <2>6. Whole(id)
    <3> DEFINE src == <<"called", id>>
               dst == <<"answered", id>>
    <3>1. /\ src # dst /\ \A s \in Services : src # <<"listed", s>>
          /\ \A w \in Workers : src # <<"held", w>>
          /\ \A y \in WorkerIds : src # <<"sent", y>> /\ src # <<"replied", y>>
      OBVIOUS
    <3>2. dst = <<"answered", id>> /\ At(src, id)
      BY <2>1
    <3> HIDE DEF src, dst
    <3>3. QED
      BY <1>7, <1>9, <1>14, <2>1, <2>4, <3>1, <3>2, GoesByPlace
  <2>7. ASSUME NEW x \in ClientIds, x # id PROVE Whole(x)
    BY <1>4, <1>7, <1>9, <1>14, <2>3, <2>4, <2>7, StaysByPlace
  <2>8. \A s \in Services : List(srv_requests'[s], Made)
    BY <1>5, <1>14
  <2>9. \A y \in WorkerIds : WorkerQueue(fromBroker'[y], Told, Made)
    BY <1>5, <2>4
  <2>10. \A x \in ClientIds : x \notin connected => fromBroker'[x] = fromBroker[x]
    BY <1>4, <2>3
  <2>11. \A x \in ClientIds : Whole(x)
    BY <2>6, <2>7
  <2>12. QED
    BY <1>10, <2>5, <2>8, <2>9, <2>10, <2>11
<1>15. ASSUME r.cmd \in Said PROVE id \in WorkerIds
  BY <1>2, <1>4, <1>15 DEF Said, Asked
<1>16. ASSUME r.cmd \in Asked PROVE id \in ClientIds
  BY <1>2, <1>4, <1>16 DEF Said, Asked
<1>17. CASE BrokerReady(id)
  <2>1. r.cmd = "READY" /\ r.service \in Services
    BY <1>3, <1>17, ToBrokerTypes DEF BrokerReady, Takes, r
  <2>2. id \in WorkerIds
    BY <1>15, <2>1 DEF Said
  <2>3. id \notin m_workers
    <3>1. Has(toBroker[id], {"READY"})
      <4>1. toBroker[id] \in Seq(ToBroker)
        BY DEF IInv, Queues
      <4>2. QED
        BY <1>1, <2>1, <4>1, TailQueue DEF r
    <3>2. QED
      BY <3>1 DEF WorkersInv
  <2> DEFINE s == r.service
  <2>4. PICK garbage \in Garbage :
           service_dispatch(s, srv_requests[s], {id},
               [srv_workers EXCEPT ![s] = Count(s, garbage) + 1], fromBroker)
    BY <1>17, <2>3 DEF BrokerReady, r
  <2>5. s \in Services /\ {id} \in SUBSET WorkerIds
    BY <2>1, <2>2
  <2> HIDE DEF s
  <2>6. srv_requests[s] \in Seq(Calls) /\ List(srv_requests[s], Made)
    BY <1>5, <2>5
  <2>7. /\ \A t \in Services : List(srv_requests'[t], Made)
        /\ \A y \in WorkerIds : WorkerQueue(fromBroker'[y], Told, Made)
        /\ \A x \in ClientIds : fromBroker'[x] = fromBroker[x]
        /\ \A x \in ClientIds :
               (/\ InList(srv_requests[s], x) => InList(srv_requests[s], x)
                /\ fromBroker[x] # <<>> => fromBroker[x] # <<>>)
               => Whole(x)
    BY <1>5, <1>13, <2>4, <2>5, <2>6
  <2>8. QED
    BY <1>5, <1>10, <2>7
<1>18. CASE BrokerReply(id)
  <2>1. r.cmd = "REPLY"
    BY <1>18 DEF BrokerReply, Takes, r
  <2>2. id \in WorkerIds
    BY <1>15, <2>1 DEF Said
  <2>3. CASE id \notin m_workers
    BY <1>12, <1>18, <2>2, <2>3 DEF BrokerReply
  <2>4. CASE id \in m_workers
    <3> DEFINE m  == Answer("done", r.n)
               qs == Sent(fromBroker, r.client, m)
               s  == m_service[id]
    <3>1. PICK z \in ClientIds : z = r.client
      BY <1>2, <2>1
    <3>2. service_dispatch(s, srv_requests[s], {id}, srv_workers, qs)
      BY <1>18, <2>4 DEF BrokerReply, r
    <3>3. qs \in [Ids -> Seq(FromBroker)]
      BY <1>3, <1>5, <2>1, ToBrokerTypes, AnswerTyped, SentTyped
    <3>4. s \in Services /\ {id} \in SUBSET WorkerIds
      BY <1>5, <2>2, <2>4
    <3>5. m.cmd \in {"ANSWER"} /\ [client |-> z, n |-> m.n] \in Made
      BY <1>2, <2>1, <3>1 DEF Answer
    <3> HIDE DEF s, m
    <3>6. /\ At(<<"replied", id>>, z) /\ fromBroker[z] = <<>>
          /\ ~InList(srv_requests[s], z)
      <4>1. At(<<"replied", id>>, z)
        BY <1>2, <2>1, <2>2, <3>1 DEF At
      <4>2. fromBroker[z] # <<>> => At(<<"answered", z>>, z)
        BY DEF At
      <4>3. InList(srv_requests[s], z) => At(<<"listed", s>>, z)
        BY <3>4 DEF At
      <4>4. <<"replied", id>> # <<"answered", z>> /\ <<"replied", id>> # <<"listed", s>>
        OBVIOUS
      <4>5. QED
        BY <1>8, <4>1, <4>2, <4>3, <4>4
    <3>7. /\ qs[z] \in {<<>>, <<m>>}
          /\ \A y \in Ids : y # z => qs[y] = fromBroker[y]
          /\ \A y \in Ids : y \notin connected => qs[y] = fromBroker[y]
      <4>1. Append(<<>>, m) = <<m>>
        OBVIOUS
      <4>2. QED
        BY <1>5, <3>1, <3>6, <4>1 DEF Sent
    <3> HIDE DEF qs
    <3>8. \A y \in WorkerIds : qs[y] = fromBroker[y]
      BY <1>4, <3>7
    <3>9. srv_requests[s] \in Seq(Calls) /\ List(srv_requests[s], Made)
      BY <1>5, <3>4
    <3>10. /\ \A t \in Services : t # s => srv_requests'[t] = srv_requests[t]
           /\ \A t \in Services : List(srv_requests'[t], Made)
           /\ \A y \in WorkerIds : WorkerQueue(fromBroker'[y], Told, Made)
           /\ \A x \in ClientIds : fromBroker'[x] = qs[x]
           /\ \A x : Passes(x, s, srv_requests[s], srv_requests'[s], fromBroker, fromBroker')
           /\ \A x \in ClientIds :
                  (/\ InList(srv_requests[s], x) => InList(srv_requests[s], x)
                   /\ qs[x] # <<>> => fromBroker[x] # <<>>)
                  => Whole(x)
      BY <1>13, <3>2, <3>3, <3>4, <3>8, <3>9
    <3>11. \A x \in ClientIds : ClientQueue(fromBroker'[x], x, {"ANSWER"}, Made)
      BY <1>4, <1>5, <3>5, <3>7, <3>10, OneInQueue, NoneInQueue
    <3>12. Whole(z)
      <4> DEFINE src == <<"replied", id>>
                 dst == <<"answered", z>>
      <4>1. /\ ~InList(srv_requests'[s], z)
            /\ \A y \in WorkerIds : Carries(fromBroker'[y], z) => Carries(fromBroker[y], z)
        <5>1. Passes(z, s, srv_requests[s], srv_requests'[s], fromBroker, fromBroker')
          BY <3>10
        <5>2. QED
          BY <3>6, <5>1 DEF Passes
      <4>2. \A y \in WorkerIds : Carries(toBroker'[y], z) => Carries(toBroker[y], z) /\ y # id
        BY <1>2, <1>7, <2>1
      <4>3. /\ src # <<"called", z>> /\ \A t \in Services : src # <<"listed", t>>
            /\ \A w \in Workers : src # <<"held", w>>
            /\ \A y \in WorkerIds : /\ src # <<"sent", y>>
                                    /\ y # id => src # <<"replied", y>>
        OBVIOUS
      <4>4. dst = <<"answered", z>> /\ At(src, z)
        BY <3>6
      <4>5. \A t \in Services : InList(srv_requests'[t], z) => InList(srv_requests[t], z)
        BY <3>10, <4>1
      <4> HIDE DEF src, dst
      <4>6. QED
        BY <1>7, <1>9, <4>1, <4>2, <4>3, <4>4, <4>5, GoesByPlace
    <3>13. \A x \in ClientIds : Whole(x)
      BY <1>4, <3>7, <3>10, <3>12
    <3>14. \A x \in ClientIds : x \notin connected => fromBroker'[x] = fromBroker[x]
      BY <1>4, <3>7, <3>10
    <3>15. QED
      BY <1>10, <3>10, <3>11, <3>13, <3>14
  <2>5. QED
    BY <2>3, <2>4
<1>19. CASE BrokerBeaten(id)
  <2>1. id \in WorkerIds
    BY <1>15, <1>19 DEF BrokerBeaten, Takes, Said, r
  <2>2. CASE id \notin m_workers
    BY <1>12, <1>19, <2>1, <2>2 DEF BrokerBeaten
  <2>3. CASE id \in m_workers
    <3>1. UNCHANGED <<fromBroker, srv_requests>>
      BY <1>19, <2>3 DEF BrokerBeaten
    <3>2. QED
      BY <1>11, <3>1, SamePart, PartAdds
  <2>4. QED
    BY <2>2, <2>3
<1>20. CASE BrokerCall(id)
  <2>1. r.cmd = "CALL" /\ r.service \in Services /\ r.n \in Nat
    BY <1>3, <1>20, ToBrokerTypes DEF BrokerCall, Takes, r
  <2>2. id \in ClientIds
    BY <1>16, <2>1 DEF Asked
  <2> DEFINE s == r.service
             call == [client |-> id, n |-> r.n]
             requests == Append(srv_requests[s], call)
  <2>3. CASE s \in Internal
    <3>1. fromBroker' = Sent(fromBroker, id, Answer("501", r.n)) /\ UNCHANGED srv_requests
      BY <1>20, <2>3 DEF BrokerCall, r
    <3>2. QED
      BY <1>14, <2>2, <3>1
  <2>4. CASE s \notin Internal
    <3>1. PICK garbage \in Garbage :
             service_dispatch(s, requests, {},
                 [srv_workers EXCEPT ![s] = Count(s, garbage)], fromBroker)
      BY <1>20, <2>4 DEF BrokerCall, r
    <3>2. /\ call \in Made /\ call \in Calls /\ call.client = id
          /\ s \in Services /\ {} \in SUBSET WorkerIds
      BY <1>2, <2>1, <2>2 DEF Calls
    <3> HIDE DEF s, call
    <3>3. /\ At(<<"called", id>>, id) /\ toBroker'[id] = <<>>
          /\ ~InList(srv_requests[s], id)
      <4>1. At(<<"called", id>>, id)
        BY <1>1 DEF At
      <4>2. InList(srv_requests[s], id) => At(<<"listed", s>>, id)
        BY <3>2 DEF At
      <4>3. <<"called", id>> # <<"listed", s>>
        OBVIOUS
      <4>4. QED
        BY <1>2, <1>8, <2>2, <4>1, <4>2, <4>3
    <3>4. /\ requests \in Seq(Calls) /\ List(requests, Made)
          /\ \A x : InList(requests, x) <=> InList(srv_requests[s], x) \/ call.client = x
      BY <1>5, <3>2, <3>3, AppendList
    <3> HIDE DEF requests
    <3>5. /\ \A t \in Services : t # s => srv_requests'[t] = srv_requests[t]
          /\ \A t \in Services : List(srv_requests'[t], Made)
          /\ \A y \in WorkerIds : WorkerQueue(fromBroker'[y], Told, Made)
          /\ \A x \in ClientIds : fromBroker'[x] = fromBroker[x]
          /\ \A x : Passes(x, s, requests, srv_requests'[s], fromBroker, fromBroker')
          /\ \A x \in ClientIds :
                 (/\ InList(requests, x) => InList(srv_requests[s], x)
                  /\ fromBroker[x] # <<>> => fromBroker[x] # <<>>)
                 => Whole(x)
      BY <1>5, <1>13, <3>1, <3>2, <3>4
    <3>6. \A x \in ClientIds : x # id => Whole(x)
      BY <3>2, <3>4, <3>5
    <3>7. Whole(id)
      <4>1. PICK dst :
                /\ InList(srv_requests'[s], id) => dst = <<"listed", s>>
                /\ \A y \in WorkerIds : Carries(fromBroker'[y], id) =>
                       Carries(fromBroker[y], id) \/ dst = <<"sent", y>>
        <5>1. Passes(id, s, requests, srv_requests'[s], fromBroker, fromBroker')
          BY <3>5
        <5>2. QED
          BY <5>1 DEF Passes
      <4> DEFINE src == <<"called", id>>
      <4>2. /\ src # <<"answered", id>> /\ \A t \in Services : src # <<"listed", t>>
            /\ \A w \in Workers : src # <<"held", w>>
            /\ \A y \in WorkerIds : src # <<"sent", y>> /\ src # <<"replied", y>>
        OBVIOUS
      <4>3. At(src, id)
        BY <3>3
      <4> HIDE DEF src
      <4>4. \A t \in Services : InList(srv_requests'[t], id) =>
                \/ dst = <<"listed", t>>
                \/ InList(srv_requests[t], id) /\ src # <<"listed", t>>
        BY <3>5, <4>1, <4>2
      <4>5. fromBroker'[id] # <<>> =>
                \/ dst = <<"answered", id>>
                \/ fromBroker[id] # <<>> /\ src # <<"answered", id>>
        BY <2>2, <3>5, <4>2
      <4>6. \A w \in Workers : Holds(w, id)' =>
                dst = <<"held", w>> \/ (Holds(w, id) /\ src # <<"held", w>>)
        BY <1>9, <4>2
      <4>7. \A y \in WorkerIds : Carries(fromBroker'[y], id) =>
                dst = <<"sent", y>> \/ (Carries(fromBroker[y], id) /\ src # <<"sent", y>>)
        BY <4>1, <4>2
      <4>8. \A y \in WorkerIds : Carries(toBroker'[y], id) =>
                dst = <<"replied", y>> \/ (Carries(toBroker[y], id) /\ src # <<"replied", y>>)
        BY <1>7, <4>2
      <4>9. QED
        BY <2>2, <3>3, <4>3, <4>4, <4>5, <4>6, <4>7, <4>8, GoesByPlace
    <3>8. \A x \in ClientIds : Whole(x)
      BY <3>6, <3>7
    <3>9. QED
      BY <1>5, <1>10, <3>5, <3>8
  <2>5. QED
    BY <2>3, <2>4
<1>21. CASE BrokerMmi(id)
  <2>1. r.cmd = "MMI" /\ UNCHANGED srv_requests
    BY <1>21 DEF BrokerMmi, r, tables
  <2>2. id \in ClientIds
    BY <1>16, <2>1 DEF Asked
  <2>3. CASE UNCHANGED fromBroker
    BY <1>11, <2>1, <2>3, SamePart, PartAdds
  <2>4. CASE \E code : fromBroker' = Sent(fromBroker, id, Answer(code, r.n))
    BY <1>14, <2>1, <2>2, <2>4
  <2>5. QED
    BY <1>21, <2>3, <2>4 DEF BrokerMmi, r
<1>22. QED
  BY <1>17, <1>18, <1>19, <1>20, <1>21 DEF BrokerTakes

-----------------------------------------------------------------------------
(* The steps of a worker.                                                  *)

LEMMA WorkerIdTyped ==
    ASSUME Sessions, NEW w \in Workers
    PROVE  Id(w) \in WorkerIds /\ w \in Peers
<1>1. w \in Peers /\ session[w] \in Nat /\ session[w] <= MaxWorkerSockets
  BY BrokerAssumption DEF Sessions, Peers, MaxSockets
<1>2. QED
  BY <1>1, BrokerAssumption DEF Id, WorkerIds

LEMMA CutRequests ==
    ASSUME IInv, NEW p \in Peers, NEW kept \in Received(p)
    PROVE  Part(SubSeq(toBroker[Id(p)], 1, kept), toBroker[Id(p)])
<1>1. toBroker[Id(p)] \in Seq(ToBroker)
  BY IdTyped DEF IInv, PeersInv, Queues
<1>2. kept \in Nat /\ kept <= Len(toBroker[Id(p)])
  BY <1>1, LenProperties DEF Received
<1>3. QED
  BY <1>1, <1>2, CutPart

\* A new socket: READY is the first word on it, the rest is thrown away.
LEMMA ConnectsAdds ==
    ASSUME IInv, NEW w \in Workers, WorkerConnects(w)
    PROVE  /\ \A x \in ClientIds :
                  /\ toBroker'[x] = toBroker[x] /\ fromBroker'[x] = fromBroker[x]
                  /\ x \in connected' => x \in connected
           /\ \A y \in WorkerIds :
                  /\ Adds(toBroker'[y], toBroker[y], {"READY", "HEARTBEAT"})
                  /\ Adds(fromBroker'[y], fromBroker[y], {"HEARTBEAT", "DISCONNECT"})
<1> DEFINE new == <<w, session[w] + 1>>
<1>1. PICK id \in WorkerIds : id = Id(w)
  BY WorkerIdTyped DEF IInv, PeersInv
<1>2. /\ \A x \in ClientIds : x \in Ids /\ x \notin WorkerIds
      /\ \A y \in WorkerIds : y \in Ids
      /\ toBroker \in [Ids -> Seq(ToBroker)] /\ fromBroker \in [Ids -> Seq(FromBroker)]
      /\ w \in Peers
  BY BrokerAssumption DEF Ids, WorkerIds, ClientIds, IInv, Queues, Peers
<1>3. PICK kept \in Received(w) :
          toBroker' = [toBroker EXCEPT ![id] = SubSeq(@, 1, kept), ![new] = <<Ready(w)>>]
  BY <1>1 DEF WorkerConnects, Reconnects
<1>4. /\ fromBroker' = [fromBroker EXCEPT ![id] = <<>>]
      /\ connected' = (connected \ {id}) \union {new}
  BY <1>1 DEF WorkerConnects, Reconnects
<1>5. new # id /\ new \in WorkerIds
  <2>1. session[w] \in Nat /\ session[w] + 1 \in 0 .. MaxWorkerSockets
    BY <1>2, BrokerAssumption
       DEF WorkerConnects, Reconnects, MaxSockets, IInv, PeersInv, Sessions
  <2>2. QED
    BY <1>1, <2>1 DEF Id, WorkerIds
<1>6. Ready(w).cmd \in {"READY", "HEARTBEAT"}
  BY DEF Ready
<1>7. Part(SubSeq(toBroker[id], 1, kept), toBroker[id])
  BY <1>1, <1>2, CutRequests
<1> HIDE DEF new
<1>8. \A x \in ClientIds :
          /\ toBroker'[x] = toBroker[x] /\ fromBroker'[x] = fromBroker[x]
          /\ x \in connected' => x \in connected
  BY <1>2, <1>3, <1>4, <1>5
<1>9. ASSUME NEW y \in WorkerIds
      PROVE  /\ Adds(toBroker'[y], toBroker[y], {"READY", "HEARTBEAT"})
             /\ Adds(fromBroker'[y], fromBroker[y], {"HEARTBEAT", "DISCONNECT"})
  <2>1. toBroker'[y] = IF y = new THEN <<Ready(w)>>
                       ELSE IF y = id THEN SubSeq(toBroker[id], 1, kept)
                       ELSE toBroker[y]
    BY <1>2, <1>3, <1>5
  <2>2. fromBroker'[y] \in {fromBroker[y], <<>>}
    BY <1>2, <1>4
  <2>3. Adds(fromBroker'[y], fromBroker[y], {"HEARTBEAT", "DISCONNECT"})
    BY <2>2, SamePart, EmptyPart, PartAdds
  <2>4. Adds(toBroker'[y], toBroker[y], {"READY", "HEARTBEAT"})
    BY <1>6, <1>7, <2>1, SamePart DEF Adds
  <2>5. QED
    BY <2>3, <2>4
<1>10. QED
  BY <1>8, <1>9

LEMMA WorkerRequests ==
    ASSUME IInv, WorkersInv, RequestsInv, NEW w \in Workers, WorkerStep(w)
    PROVE  RequestsInv'
<1>1. /\ UNCHANGED <<asked, cstate, srv_requests>> /\ w \in Peers
      /\ \A c \in Clients : session'[c] = session[c]
  <2>1. UNCHANGED <<asked, cstate, srv_requests>> /\ w \in Peers
    BY DEF WorkerStep, WorkerStarts, WorkerTakes, WorkerReplies, WorkerTimesOut,
           WorkerBeats, WorkerDies, clientVars, tables, Peers
  <2>2. session' = session \/ session' = [session EXCEPT ![w] = @ + 1]
    BY DEF WorkerStep, WorkerStarts, WorkerTakes, WorkerReplies, WorkerTimesOut,
           WorkerBeats, WorkerDies, WorkerConnects, Reconnects, Sends
  <2>3. \A c \in Clients : c # w /\ c \in Peers /\ session \in [Peers -> Nat]
    BY BrokerAssumption DEF IInv, PeersInv, Sessions, Peers
  <2>4. QED
    BY <2>1, <2>2, <2>3
<1>2. PICK id \in WorkerIds : id = Id(w)
  BY WorkerIdTyped DEF IInv, PeersInv
<1>3. /\ \A x \in ClientIds : x \in Ids /\ x \notin WorkerIds
      /\ \A y \in WorkerIds : y \in Ids
      /\ toBroker \in [Ids -> Seq(ToBroker)]
      /\ fromBroker \in [Ids -> Seq(FromBroker)]
      /\ \A y \in WorkerIds : /\ WorkerQueue(toBroker[y], Said, Made)
                              /\ WorkerQueue(fromBroker[y], Told, Made)
      /\ \A x \in ClientIds : /\ ClientQueue(toBroker[x], x, Asked, Made)
                              /\ ClientQueue(fromBroker[x], x, {"ANSWER"}, Made)
      /\ \A s \in Services : List(srv_requests[s], Made)
      /\ \A v \in Workers : IF wstate[v] = "busy" THEN request[v] \in Made
                            ELSE request[v] = NoRequest
  <2>1. /\ \A x \in ClientIds : x \in Ids /\ x \notin WorkerIds
        /\ \A y \in WorkerIds : y \in Ids
    BY BrokerAssumption DEF Ids, WorkerIds, ClientIds
  <2>2. QED
    BY <2>1 DEF RequestsInv, AllMade, IInv, Queues
<1>4. /\ wstate \in [Workers -> {"off", "idle", "busy"}]
      /\ DOMAIN request = Workers
  BY DEF IInv, PeersInv, Hands
\* Steps that pass nothing on.
<1>5. ASSUME \A x \in ClientIds :
                 /\ toBroker'[x] = toBroker[x] /\ fromBroker'[x] = fromBroker[x]
                 /\ x \in connected' => x \in connected,
             \A y \in WorkerIds :
                 /\ Adds(toBroker'[y], toBroker[y], {"READY", "HEARTBEAT"})
                 /\ Adds(fromBroker'[y], fromBroker[y], {"HEARTBEAT", "DISCONNECT"}),
             \A v \in Workers :
                 \/ wstate'[v] = wstate[v] /\ request'[v] = request[v]
                 \/ wstate'[v] # "busy" /\ request'[v] = NoRequest
                 \/ {wstate'[v], wstate[v]} \subseteq {"off", "idle"} /\ request'[v] = request[v]
      PROVE  RequestsInv'
  BY <1>1, <1>5, SamePart, Quiet
<1>6. ASSUME WorkerConnects(w), UNCHANGED request,
             \/ UNCHANGED wstate
             \/ wstate[w] = "off" /\ wstate' = [wstate EXCEPT ![w] = "idle"]
      PROVE  RequestsInv'
  <2>1. \A v \in Workers :
            \/ wstate'[v] = wstate[v] /\ request'[v] = request[v]
            \/ {wstate'[v], wstate[v]} \subseteq {"off", "idle"} /\ request'[v] = request[v]
    BY <1>4, <1>6
  <2>2. QED
    BY <1>5, <1>6, <2>1, ConnectsAdds
\* Steps that do.
<1>7. ASSUME \A y \in WorkerIds : /\ WorkerQueue(toBroker'[y], Said, Made)
                                  /\ WorkerQueue(fromBroker'[y], Told, Made),
             \A x \in ClientIds :
                 toBroker'[x] = toBroker[x] /\ fromBroker'[x] = fromBroker[x],
             \A v \in Workers : IF wstate'[v] = "busy" THEN request'[v] \in Made
                                ELSE request'[v] = NoRequest,
             UNCHANGED connected, \A x \in ClientIds : Whole(x)
      PROVE  RequestsInv'
  <2>1. Made' = Made
    BY <1>1, SameMade
  <2>2. AllMade'
    BY <1>1, <1>3, <1>7, <2>1 DEF AllMade
  <2>3. \A c \in Clients : cstate[c] = "failed" =>
            fromBroker'[Id(c)] = <<>> /\ Id(c) \notin connected'
    BY <1>7, ClientIdTyped DEF IInv, PeersInv, RequestsInv, ClientsInv
  <2>4. QED
    BY <1>1, <1>7, <2>2, <2>3, Keeps
<1>8. CASE WorkerStarts(w)
  BY <1>6, <1>8 DEF WorkerStarts
<1>9. CASE WorkerTakes(w)
  <2> DEFINE m == Head(fromBroker[id])
             q == fromBroker[id]
  <2>1. wstate[w] = "idle" /\ q # <<>>
    BY <1>2, <1>9 DEF WorkerTakes
  <2>2. CASE m.cmd = "DISCONNECT"
    BY <1>2, <1>6, <1>9, <2>2 DEF WorkerTakes
  <2>3. ASSUME m.cmd # "DISCONNECT"
        PROVE  /\ fromBroker' = [fromBroker EXCEPT ![id] = Tail(@)]
               /\ UNCHANGED <<session, connected, toBroker>>
    BY <1>2, <1>9, <2>3 DEF WorkerTakes
  <2>4. CASE m.cmd = "HEARTBEAT"
    <3>1. /\ fromBroker' = [fromBroker EXCEPT ![id] = Tail(@)]
          /\ UNCHANGED <<session, connected, toBroker, wstate, request>>
      BY <1>2, <1>9, <2>4 DEF WorkerTakes
    <3>2. \A y \in Ids : Part(fromBroker'[y], fromBroker[y])
      BY <1>3, <2>1, <3>1, SamePart, TailPart
    <3>3. QED
      BY <1>3, <1>5, <3>1, <3>2, SamePart, PartAdds
  <2>5. CASE m.cmd = "REQUEST"
    <3>1. /\ fromBroker' = [fromBroker EXCEPT ![id] = Tail(@)]
          /\ UNCHANGED <<session, connected, toBroker>>
          /\ request' = [request EXCEPT ![w] = [client |-> m.client, n |-> m.n]]
          /\ wstate' = [wstate EXCEPT ![w] = "busy"]
      BY <1>2, <1>9, <2>3, <2>5 DEF WorkerTakes
    <3>2. q \in Seq(FromBroker) /\ 1 \in DOMAIN q /\ m = q[1]
      <4>1. q \in Seq(FromBroker)
        BY <1>3
      <4>2. Len(q) \in Nat \ {0} /\ DOMAIN q = 1 .. Len(q) /\ Head(q) = q[1]
        BY <2>1, <4>1, HeadTailProperties, LenProperties, EmptySeq
      <4>3. QED
        BY <4>1, <4>2
    <3>3. [client |-> m.client, n |-> m.n] \in Made /\ Carries(q, m.client)
      BY <1>3, <2>5, <3>2 DEF WorkerQueue, Carries
    <3>4. PICK z \in ClientIds : z = m.client
      BY <3>3 DEF Made
    <3>5. Part(Tail(q), q) /\ WorkerQueue(Tail(q), Told, Made)
      BY <1>3, <2>1, <3>2, TailPart, PartTransfers
    <3>6. ~Has(Tail(q), Tasks)
      <4>1. Once(q, Tasks) /\ m.cmd \in Tasks
        BY <1>3, <2>5 DEF WorkersInv, AtMostOnePlace, Tasks
      <4>2. QED
        BY <2>1, <3>2, <4>1, TailQueue
    <3>7. \A x : ~Carries(Tail(q), x)
      BY <3>5, <3>6 DEF WorkerQueue, Carries, Has, Tasks, Told
    <3>8. /\ fromBroker'[id] = Tail(q)
          /\ \A y \in Ids : y # id => fromBroker'[y] = fromBroker[y]
      BY <1>3, <3>1
    <3>9. /\ request'[w] = [client |-> m.client, n |-> m.n] /\ wstate'[w] = "busy"
          /\ \A v \in Workers : v # w => request'[v] = request[v] /\ wstate'[v] = wstate[v]
      BY <1>4, <3>1
    <3>10. /\ request'[w].client = z
           /\ Carries(fromBroker[id], z) /\ \A x : ~Carries(fromBroker'[id], x)
      BY <3>3, <3>4, <3>7, <3>8, <3>9
    <3> HIDE DEF m, q
    <3>11. \A v \in Workers : \A x : Holds(v, x)' => (v = w /\ x = z) \/ (v # w /\ Holds(v, x))
      BY <3>9, <3>10 DEF Holds
    <3>12. ASSUME NEW x \in ClientIds, x # z PROVE Whole(x)
      <4>1. \A v \in Workers : Holds(v, x)' => Holds(v, x)
        BY <3>11, <3>12
      <4>2. \A y \in WorkerIds : Carries(fromBroker'[y], x) => Carries(fromBroker[y], x)
        BY <1>3, <3>8, <3>10
      <4>3. fromBroker'[x] = fromBroker[x]
        BY <1>3, <3>8
      <4>4. QED
        BY <1>1, <3>1, <4>1, <4>2, <4>3, StaysByPlace
    <3>13. Whole(z)
      <4> DEFINE src == <<"sent", id>>
                 dst == <<"held", w>>
      <4>1. At(src, z)
        BY <3>10 DEF At
      <4>2. /\ src # <<"called", z>> /\ src # <<"answered", z>>
            /\ \A s \in Services : src # <<"listed", s>>
            /\ \A v \in Workers : src # <<"held", v>>
            /\ \A y \in WorkerIds : /\ src # <<"replied", y>>
                                    /\ y # id => src # <<"sent", y>>
        OBVIOUS
      <4>3. dst = <<"held", w>>
        OBVIOUS
      <4> HIDE DEF src, dst
      <4>4. \A v \in Workers : Holds(v, z)' =>
                dst = <<"held", v>> \/ (Holds(v, z) /\ src # <<"held", v>>)
        BY <3>11, <4>2, <4>3
      <4>5. \A y \in WorkerIds : Carries(fromBroker'[y], z) =>
                dst = <<"sent", y>> \/ (Carries(fromBroker[y], z) /\ src # <<"sent", y>>)
        BY <1>3, <3>8, <3>10, <4>2
      <4>6. fromBroker'[z] # <<>> =>
                dst = <<"answered", z>> \/ (fromBroker[z] # <<>> /\ src # <<"answered", z>>)
        BY <1>3, <3>8, <4>2
      <4>7. toBroker'[z] # <<>> =>
                dst = <<"called", z>> \/ (toBroker[z] # <<>> /\ src # <<"called", z>>)
        BY <3>1, <4>2
      <4>8. \A s \in Services : InList(srv_requests'[s], z) =>
                dst = <<"listed", s>> \/ (InList(srv_requests[s], z) /\ src # <<"listed", s>>)
        BY <1>1, <4>2
      <4>9. \A y \in WorkerIds : Carries(toBroker'[y], z) =>
                dst = <<"replied", y>> \/ (Carries(toBroker[y], z) /\ src # <<"replied", y>>)
        BY <3>1, <4>2
      <4>10. QED
        BY <4>1, <4>4, <4>5, <4>6, <4>7, <4>8, <4>9, GoesByPlace
    <3>14. \A y \in WorkerIds : /\ WorkerQueue(toBroker'[y], Said, Made)
                                /\ WorkerQueue(fromBroker'[y], Told, Made)
      BY <1>3, <3>1, <3>5, <3>8 DEF q
    <3>15. \A v \in Workers : IF wstate'[v] = "busy" THEN request'[v] \in Made
                              ELSE request'[v] = NoRequest
      BY <1>3, <3>3, <3>9
    <3>16. \A x \in ClientIds : toBroker'[x] = toBroker[x] /\ fromBroker'[x] = fromBroker[x]
      BY <1>3, <3>1, <3>8
    <3>17. \A x \in ClientIds : Whole(x)
      BY <3>12, <3>13
    <3>18. QED
      BY <1>7, <3>1, <3>14, <3>15, <3>16, <3>17
  <2>6. QED
    BY <1>2, <1>9, <2>2, <2>4, <2>5 DEF WorkerTakes
<1>10. CASE WorkerReplies(w)
  <2> DEFINE m == Reply(request[w])
  <2>1. /\ wstate[w] = "busy" /\ UNCHANGED <<session, connected, fromBroker>>
        /\ toBroker' = [toBroker EXCEPT ![id] = Append(@, m)]
        /\ request' = [request EXCEPT ![w] = NoRequest]
        /\ wstate' = [wstate EXCEPT ![w] = "idle"]
    BY <1>2, <1>10 DEF WorkerReplies, Sends
  <2>2. request[w] \in Made /\ [client |-> m.client, n |-> m.n] = request[w]
    <3>1. request[w] \in Made
      BY <1>3, <2>1
    <3>2. [client |-> request[w].client, n |-> request[w].n] = request[w]
      BY <3>1 DEF Made
    <3>3. QED
      BY <3>1, <3>2 DEF Reply
  <2>3. PICK z \in ClientIds : z = request[w].client
    BY <2>2 DEF Made
  <2>4. m.client = z /\ m.cmd = "REPLY" /\ m.cmd \in Said
    BY <2>3 DEF Reply, Said
  <2> HIDE DEF m
  <2>5. /\ toBroker'[id] = Append(toBroker[id], m)
        /\ \A y \in Ids : y # id => toBroker'[y] = toBroker[y]
    BY <1>3, <2>1
  <2>6. \A y \in WorkerIds : \A x : Carries(toBroker'[y], x) =>
            (y = id /\ x = z) \/ Carries(toBroker[y], x)
    <3> SUFFICES ASSUME NEW y \in WorkerIds, NEW x, Carries(toBroker'[y], x)
                 PROVE  (y = id /\ x = z) \/ Carries(toBroker[y], x)
      OBVIOUS
    <3>1. CASE y = id
      <4>1. Carries(Append(toBroker[id], m), x) /\ toBroker[id] \in Seq(ToBroker)
        BY <1>3, <2>5, <3>1
      <4>2. Carries(toBroker[id], x) \/ m.client = x
        BY <4>1, AppendCarries
      <4>3. QED
        BY <2>4, <3>1, <4>2
    <3>2. CASE y # id
      BY <1>3, <2>5, <3>2
    <3>3. QED
      BY <3>1, <3>2
  <2>7. \A y \in WorkerIds : WorkerQueue(toBroker'[y], Said, Made)
    <3>1. WorkerQueue(Append(toBroker[id], m), Said, Made)
      BY <1>3, <2>2, <2>4, AppendWorkerQueue
    <3>2. QED
      BY <1>3, <2>5, <3>1
  <2>8. /\ wstate'[w] = "idle" /\ request'[w] = NoRequest
        /\ \A v \in Workers : v # w => request'[v] = request[v] /\ wstate'[v] = wstate[v]
    BY <1>4, <2>1
  <2>9. \A v \in Workers : \A x : Holds(v, x)' => v # w /\ Holds(v, x)
    BY <2>8 DEF Holds
  <2>10. ASSUME NEW x \in ClientIds, x # z PROVE Whole(x)
    <3>1. \A y \in WorkerIds : Carries(toBroker'[y], x) => Carries(toBroker[y], x)
      BY <2>6, <2>10
    <3>2. toBroker'[x] = toBroker[x]
      BY <1>3, <2>5
    <3>3. QED
      BY <1>1, <2>1, <2>9, <3>1, <3>2, StaysByPlace
  <2>11. Whole(z)
    <3> DEFINE src == <<"held", w>>
               dst == <<"replied", id>>
    <3>1. At(src, z)
      <4>1. Holds(w, z)
        BY <2>1, <2>3 DEF Holds
      <4>2. QED
        BY <4>1 DEF At
    <3>2. /\ src # <<"called", z>> /\ src # <<"answered", z>>
          /\ \A s \in Services : src # <<"listed", s>>
          /\ \A v \in Workers : v # w => src # <<"held", v>>
          /\ \A y \in WorkerIds : src # <<"replied", y>> /\ src # <<"sent", y>>
      OBVIOUS
    <3>3. dst = <<"replied", id>>
      OBVIOUS
    <3> HIDE DEF src, dst
    <3>4. \A y \in WorkerIds : Carries(toBroker'[y], z) =>
              dst = <<"replied", y>> \/ (Carries(toBroker[y], z) /\ src # <<"replied", y>>)
      BY <2>6, <3>2, <3>3
    <3>5. \A v \in Workers : Holds(v, z)' =>
              dst = <<"held", v>> \/ (Holds(v, z) /\ src # <<"held", v>>)
      BY <2>9, <3>2
    <3>6. toBroker'[z] # <<>> =>
              dst = <<"called", z>> \/ (toBroker[z] # <<>> /\ src # <<"called", z>>)
      BY <1>3, <2>5, <3>2
    <3>7. fromBroker'[z] # <<>> =>
              dst = <<"answered", z>> \/ (fromBroker[z] # <<>> /\ src # <<"answered", z>>)
      BY <2>1, <3>2
    <3>8. \A s \in Services : InList(srv_requests'[s], z) =>
              dst = <<"listed", s>> \/ (InList(srv_requests[s], z) /\ src # <<"listed", s>>)
      BY <1>1, <3>2
    <3>9. \A y \in WorkerIds : Carries(fromBroker'[y], z) =>
              dst = <<"sent", y>> \/ (Carries(fromBroker[y], z) /\ src # <<"sent", y>>)
      BY <2>1, <3>2
    <3>10. QED
      BY <3>1, <3>4, <3>5, <3>6, <3>7, <3>8, <3>9, GoesByPlace
  <2>12. \A v \in Workers : IF wstate'[v] = "busy" THEN request'[v] \in Made
                            ELSE request'[v] = NoRequest
    BY <1>3, <2>8
  <2>13. \A x \in ClientIds : toBroker'[x] = toBroker[x] /\ fromBroker'[x] = fromBroker[x]
    BY <1>3, <2>1, <2>5
  <2>14. \A x \in ClientIds : Whole(x)
    BY <2>10, <2>11
  <2>15. \A y \in WorkerIds : WorkerQueue(fromBroker'[y], Told, Made)
    BY <1>3, <2>1
  <2>16. QED
    BY <1>7, <2>1, <2>7, <2>12, <2>13, <2>14, <2>15
<1>11. CASE WorkerTimesOut(w)
  <2>1. UNCHANGED <<wstate, request>>
    BY <1>11 DEF WorkerTimesOut
  <2>2. CASE WorkerConnects(w)
    BY <1>6, <2>1, <2>2
  <2>3. CASE UNCHANGED <<session, connected, queues>>
    <3>1. UNCHANGED <<connected, toBroker, fromBroker>>
      BY <2>3 DEF queues
    <3>2. QED
      BY <1>5, <2>1, <3>1, SamePart, PartAdds
  <2>4. QED
    BY <1>11, <2>2, <2>3 DEF WorkerTimesOut
<1>12. CASE WorkerBeats(w)
  <2>1. /\ UNCHANGED <<wstate, request, connected, fromBroker>>
        /\ toBroker' = [toBroker EXCEPT ![id] = Append(@, Heartbeat)]
    BY <1>2, <1>12 DEF WorkerBeats, Sends, workerVars
  <2>2. Heartbeat.cmd \in {"READY", "HEARTBEAT"}
    BY DEF Heartbeat
  <2>3. \A y \in WorkerIds :
            toBroker'[y] = toBroker[y] \/ toBroker'[y] = Append(toBroker[y], Heartbeat)
    BY <1>3, <2>1
  <2>4. \A y \in WorkerIds : Adds(toBroker'[y], toBroker[y], {"READY", "HEARTBEAT"})
    BY <2>2, <2>3, SamePart DEF Adds
  <2>5. \A x \in ClientIds : toBroker'[x] = toBroker[x]
    BY <1>3, <2>1
  <2>6. QED
    BY <1>5, <2>1, <2>4, <2>5, SamePart, PartAdds
<1>13. CASE WorkerDies(w)
  <2>1. PICK kept \in Received(w) :
            toBroker' = [toBroker EXCEPT ![id] = SubSeq(@, 1, kept)]
    BY <1>2, <1>13 DEF WorkerDies, Closes
  <2>2. /\ fromBroker' = [fromBroker EXCEPT ![id] = <<>>]
        /\ connected' = connected \ {id}
        /\ wstate' = [wstate EXCEPT ![w] = "off"]
        /\ request' = [request EXCEPT ![w] = NoRequest]
    BY <1>2, <1>13 DEF WorkerDies, Closes
  <2>3. Part(SubSeq(toBroker[id], 1, kept), toBroker[id])
    BY <1>1, <1>2, CutRequests
  <2>4. \A x \in ClientIds :
            /\ toBroker'[x] = toBroker[x] /\ fromBroker'[x] = fromBroker[x]
            /\ x \in connected' => x \in connected
    BY <1>3, <2>1, <2>2
  <2>5. \A y \in WorkerIds : Part(toBroker'[y], toBroker[y]) /\ Part(fromBroker'[y], fromBroker[y])
    <3>1. \A y \in WorkerIds :
              /\ toBroker'[y] = IF y = id THEN SubSeq(toBroker[id], 1, kept) ELSE toBroker[y]
              /\ fromBroker'[y] \in {fromBroker[y], <<>>}
      BY <1>3, <2>1, <2>2
    <3>2. QED
      BY <2>3, <3>1, SamePart, EmptyPart
  <2>6. \A v \in Workers :
            \/ wstate'[v] = wstate[v] /\ request'[v] = request[v]
            \/ wstate'[v] # "busy" /\ request'[v] = NoRequest
    BY <1>4, <2>2
  <2>7. QED
    BY <1>5, <2>4, <2>5, <2>6, PartAdds
<1>14. QED
  BY <1>8, <1>9, <1>10, <1>11, <1>12, <1>13 DEF WorkerStep

-----------------------------------------------------------------------------
(* The steps of a client.                                                  *)

\* There is nothing of socket x; it is at most at place dst.
Nowhere(x)   == \A p : ~At(p, x)
Only(x, dst) == \A p : At(p, x) => p = dst

LEMMA NowhereByPlace ==
    ASSUME NEW x \in ClientIds, toBroker[x] = <<>>, fromBroker[x] = <<>>,
           \A s \in Services : ~InList(srv_requests[s], x),
           \A w \in Workers : ~Holds(w, x),
           \A id \in WorkerIds : ~Carries(fromBroker[id], x) /\ ~Carries(toBroker[id], x)
    PROVE  Nowhere(x)
  BY DEF Nowhere, At

LEMMA PlacesOfNowhere ==
    ASSUME NEW x \in ClientIds, Nowhere(x)
    PROVE  /\ toBroker[x] = <<>> /\ fromBroker[x] = <<>>
           /\ \A s \in Services : ~InList(srv_requests[s], x)
           /\ \A w \in Workers : ~Holds(w, x)
           /\ \A id \in WorkerIds : ~Carries(fromBroker[id], x) /\ ~Carries(toBroker[id], x)
<1>1. toBroker[x] = <<>>
  BY DEF Nowhere, At
<1>2. fromBroker[x] = <<>>
  BY DEF Nowhere, At
<1>3. ASSUME NEW s \in Services PROVE ~InList(srv_requests[s], x)
  BY DEF Nowhere, At
<1>4. ASSUME NEW w \in Workers PROVE ~Holds(w, x)
  BY DEF Nowhere, At
<1>5. ASSUME NEW id \in WorkerIds
      PROVE  ~Carries(fromBroker[id], x) /\ ~Carries(toBroker[id], x)
  BY DEF Nowhere, At
<1>6. QED
  BY <1>1, <1>2, <1>3, <1>4, <1>5

\* No request has an identity that no socket has had yet.
LEMMA NewIsNowhere ==
    ASSUME IInv, RequestsInv, NEW x \in ClientIds, x[2] > session[x[1]], session[x[1]] \in Nat
    PROVE  Nowhere(x)
<1>1. \A r \in Made : r.client # x
  BY DEF Made, ClientIds
<1>2. toBroker[x] = <<>> /\ fromBroker[x] = <<>>
  <2>1. \A n : [client |-> x, n |-> n] \notin Made
    BY <1>1
  <2>2. ClientQueue(toBroker[x], x, Asked, Made) /\ ClientQueue(fromBroker[x], x, {"ANSWER"}, Made)
    BY DEF RequestsInv, AllMade
  <2>3. DOMAIN toBroker[x] = {} /\ DOMAIN fromBroker[x] = {}
    BY <2>1, <2>2 DEF ClientQueue
  <2>4. toBroker[x] \in Seq(ToBroker) /\ fromBroker[x] \in Seq(FromBroker)
    BY DEF IInv, Queues, Ids
  <2>5. /\ Len(toBroker[x]) \in Nat /\ DOMAIN toBroker[x] = 1 .. Len(toBroker[x])
        /\ Len(fromBroker[x]) \in Nat /\ DOMAIN fromBroker[x] = 1 .. Len(fromBroker[x])
    BY <2>4, LenProperties
  <2>6. Len(toBroker[x]) = 0 /\ Len(fromBroker[x]) = 0
    <3>1. 1 \notin 1 .. Len(toBroker[x]) /\ 1 \notin 1 .. Len(fromBroker[x])
      BY <2>3, <2>5
    <3>2. QED
      BY <2>5, <3>1
  <2>7. QED
    BY <2>4, <2>6, EmptySeq
<1>3. \A s \in Services : ~InList(srv_requests[s], x)
  BY <1>1 DEF RequestsInv, AllMade, List, InList
<1>4. \A w \in Workers : ~Holds(w, x)
  BY <1>1 DEF RequestsInv, AllMade, Holds
<1>5. \A id \in WorkerIds : ~Carries(fromBroker[id], x) /\ ~Carries(toBroker[id], x)
  <2>1. \A id \in WorkerIds : /\ WorkerQueue(toBroker[id], Said, Made)
                              /\ WorkerQueue(fromBroker[id], Told, Made)
    BY DEF RequestsInv, AllMade
  <2>2. \A n : [client |-> x, n |-> n] \notin Made
    BY <1>1
  <2>3. QED
    BY <2>1, <2>2 DEF WorkerQueue, Carries
<1>6. QED
  BY <1>2, <1>3, <1>4, <1>5, NowhereByPlace

\* A client that does something leaves the requests of the others alone.
LEMMA ClientKeeps ==
    ASSUME IInv, RequestsInv, NEW c \in Clients, NEW x \in ClientIds, x = Id(c)',
           cstate' \in [Clients -> {"ready", "waiting", "failed"}],
           \A d \in Clients \ {c} : 
               /\ cstate'[d] = cstate[d] /\ session'[d] = session[d]
               /\ asked'[d] = asked[d],
           cstate'[c] = "waiting" => asked'[c] > 0,
           \A y \in ClientIds : y[1] # c =>
               /\ Whole(y) /\ fromBroker'[y] = fromBroker[y]
               /\ y \in connected' => y \in connected,
           AllMade',
           \A y \in ClientIds : Whole(y) \/ \E dst : Only(y, dst)',
           cstate'[c] = "ready" => Nowhere(x)',
           cstate'[c] = "failed" => fromBroker'[x] = <<>> /\ x \notin connected'
    PROVE  RequestsInv'
<1>1. OnePlace'
  <2> SUFFICES ASSUME NEW y \in ClientIds, NEW p, NEW q, At(p, y)', At(q, y)'
               PROVE  p = q
    BY DEF OnePlace
  <2>1. \A a, b : At(a, y) /\ At(b, y) => a = b
    BY DEF RequestsInv, OnePlace
  <2>2. CASE Stays(y)
    BY <2>1, <2>2 DEF Stays
  <2>3. ASSUME NEW src, NEW dst, Goes(y, src, dst) PROVE p = q
    BY <2>1, <2>3 DEF Goes
  <2>4. ASSUME NEW dst, Only(y, dst)' PROVE p = q
    BY <2>4 DEF Only
  <2>5. QED
    BY <2>2, <2>3, <2>4 DEF Whole
<1>2. ASSUME NEW d \in Clients
      PROVE  /\ cstate'[d] = "ready" => \A p : ~At(p, Id(d))'
             /\ cstate'[d] = "failed" =>
                    fromBroker'[Id(d)'] = <<>> /\ Id(d)' \notin connected'
  <2>1. CASE d = c
    <3>1. \A p : At(p, x)' <=> At(p, Id(d))'
      BY <2>1 DEF At
    <3>2. QED
      BY <2>1, <3>1 DEF Nowhere
  <2>2. CASE d # c
    <3>1. cstate'[d] = cstate[d] /\ Id(d)' = Id(d)
      BY <2>2 DEF Id
    <3>2. PICK y \in ClientIds : y = Id(d)
      BY ClientIdTyped DEF IInv, PeersInv
    <3>3. y[1] # c
      BY <2>2, <3>2 DEF Id
    <3>4. ASSUME cstate[d] = "ready", NEW p PROVE ~At(p, y)'
      <4>1. \A z : ~At(z, y)
        BY <3>2, <3>4 DEF RequestsInv, ClientsInv
      <4>2. Stays(y)
        BY <3>3, <4>1 DEF Whole, Goes
      <4>3. QED
        BY <4>1, <4>2 DEF Stays
    <3>5. \A p : At(p, y)' <=> At(p, Id(d))'
      BY <3>1, <3>2 DEF At
    <3>6. cstate[d] = "failed" => fromBroker[y] = <<>> /\ y \notin connected
      BY <3>2 DEF RequestsInv, ClientsInv
    <3>7. QED
      BY <3>1, <3>2, <3>3, <3>4, <3>5, <3>6
  <2>3. QED
    BY <2>1, <2>2
<1>3. ClientsInv'
  BY <1>2 DEF ClientsInv, RequestsInv
<1>4. QED
  BY <1>1, <1>3 DEF RequestsInv

\* What is made of requests in made is made of requests in a larger set.
LEMMA MoreMade ==
    ASSUME NEW made, NEW more, made \subseteq more
    PROVE  /\ \A q, cmds : WorkerQueue(q, cmds, made) => WorkerQueue(q, cmds, more)
           /\ \A q, x, cmds : ClientQueue(q, x, cmds, made) => ClientQueue(q, x, cmds, more)
           /\ \A q : List(q, made) => List(q, more)
<1>1. \A q, cmds : WorkerQueue(q, cmds, made) => WorkerQueue(q, cmds, more)
  BY DEF WorkerQueue
<1>2. \A q, x, cmds : ClientQueue(q, x, cmds, made) => ClientQueue(q, x, cmds, more)
  BY DEF ClientQueue
<1>3. \A q : List(q, made) => List(q, more)
  BY DEF List
<1>4. QED
  BY <1>1, <1>2, <1>3

\* Requests are made anew, and those there are stay made.
LEMMA MadeAnew ==
    ASSUME RequestsInv, NEW kept \in SUBSET Made, kept \subseteq Made',
           \A id \in WorkerIds : /\ WorkerQueue(toBroker[id], Said, kept)
                                 /\ WorkerQueue(fromBroker[id], Told, kept)
                                 /\ toBroker'[id] = toBroker[id]
                                 /\ fromBroker'[id] = fromBroker[id],
           \A s \in Services : List(srv_requests[s], kept),
           \A w \in Workers : wstate[w] = "busy" => request[w] \in kept,
           UNCHANGED <<wstate, request, srv_requests>>,
           \A y \in ClientIds : /\ ClientQueue(toBroker'[y], y, Asked, Made')
                                /\ ClientQueue(fromBroker'[y], y, {"ANSWER"}, Made')
    PROVE  AllMade'
<1>1. \A id \in WorkerIds : /\ WorkerQueue(toBroker'[id], Said, Made')
                            /\ WorkerQueue(fromBroker'[id], Told, Made')
  BY MoreMade
<1>2. \A s \in Services : List(srv_requests'[s], Made')
  BY MoreMade
<1>3. \A w \in Workers : IF wstate'[w] = "busy" THEN request'[w] \in Made'
                         ELSE request'[w] = NoRequest
  BY DEF RequestsInv, AllMade
<1>4. QED
  BY <1>1, <1>2, <1>3 DEF AllMade

LEMMA ClientRequests ==
    ASSUME IInv, RequestsInv, NEW c \in Clients, ClientStep(c)
    PROVE  RequestsInv'
<1>1. PICK x \in ClientIds : x = Id(c)
  BY ClientIdTyped DEF IInv, PeersInv
<1>2. /\ UNCHANGED <<wstate, request, srv_requests>> /\ c \in Peers
      /\ asked \in [Clients -> Nat] /\ session[c] \in Nat /\ x = <<c, session[c]>>
      /\ session \in [Peers -> Nat] /\ Clients \subseteq Peers
      /\ cstate \in [Clients -> {"ready", "waiting", "failed"}]
  <2>1. UNCHANGED <<wstate, request, srv_requests>>
    BY DEF ClientStep, ClientCalls, ClientTakes, ClientTimesOut, tables, workerVars
  <2>2. QED
    BY <1>1, <2>1 DEF IInv, PeersInv, Hands, Sessions, Peers, Id, RequestsInv, ClientsInv
<1>3. /\ \A y \in ClientIds : y \in Ids /\ y \notin WorkerIds
      /\ \A y \in WorkerIds : y \in Ids
      /\ toBroker \in [Ids -> Seq(ToBroker)]
      /\ fromBroker \in [Ids -> Seq(FromBroker)]
      /\ \A y \in WorkerIds : /\ WorkerQueue(toBroker[y], Said, Made)
                              /\ WorkerQueue(fromBroker[y], Told, Made)
      /\ \A y \in ClientIds : /\ ClientQueue(toBroker[y], y, Asked, Made)
                              /\ ClientQueue(fromBroker[y], y, {"ANSWER"}, Made)
      /\ \A s \in Services : List(srv_requests[s], Made)
      /\ \A v \in Workers : IF wstate[v] = "busy" THEN request[v] \in Made
                            ELSE request[v] = NoRequest
  <2>1. /\ \A y \in ClientIds : y \in Ids /\ y \notin WorkerIds
        /\ \A y \in WorkerIds : y \in Ids
    BY BrokerAssumption DEF Ids, WorkerIds, ClientIds
  <2>2. QED
    BY <2>1 DEF RequestsInv, AllMade, IInv, Queues
\* Other sockets of clients: their queues at most lose something.
<1>4. ASSUME NEW y \in ClientIds,
             toBroker'[y] # <<>> => toBroker[y] # <<>>,
             fromBroker'[y] # <<>> => fromBroker[y] # <<>>,
             \A id \in WorkerIds :
                 toBroker'[id] = toBroker[id] /\ fromBroker'[id] = fromBroker[id]
      PROVE  Whole(y)
  <2>1. \A v \in Workers : Holds(v, y)' => Holds(v, y)
    BY <1>2 DEF Holds
  <2>2. QED
    BY <1>2, <1>4, <2>1, StaysByPlace
\* The request on the new call or the new try is all there is of its socket.
<1>5. ASSUME NEW y \in ClientIds, Nowhere(y), fromBroker'[y] = fromBroker[y],
             \A id \in WorkerIds :
                 toBroker'[id] = toBroker[id] /\ fromBroker'[id] = fromBroker[id]
      PROVE  Only(y, <<"called", y>>)'
  <2>1. /\ fromBroker[y] = <<>> /\ \A s \in Services : ~InList(srv_requests[s], y)
        /\ \A v \in Workers : ~Holds(v, y)
        /\ \A id \in WorkerIds : ~Carries(fromBroker[id], y) /\ ~Carries(toBroker[id], y)
    BY <1>5, PlacesOfNowhere
  <2>2. \A v \in Workers : ~Holds(v, y)'
    BY <1>2, <2>1 DEF Holds
  <2> SUFFICES ASSUME NEW p, At(p, y)' PROVE p = <<"called", y>>
    BY DEF Only
  <2>3. QED
    BY <1>2, <1>5, <2>1, <2>2 DEF At
<1>6. \A d \in Clients : d # c => d \in Peers /\ Id(d) # x
  BY <1>1, <1>2 DEF Id
<1>7. CASE ClientCalls(c)
  <2> DEFINE m == Call(c, asked[c] + 1)
             r == [client |-> x, n |-> asked[c] + 1]
             kept == {s \in Made : s.client # x}
  <2>1. /\ cstate[c] = "ready" /\ UNCHANGED <<session, connected, fromBroker>>
        /\ asked' = [asked EXCEPT ![c] = asked[c] + 1]
        /\ cstate' = [cstate EXCEPT ![c] = "waiting"]
        /\ toBroker' = [toBroker EXCEPT ![x] = Append(@, m)]
    BY <1>1, <1>7 DEF ClientCalls, Sends
  <2>2. Nowhere(x)
    BY <1>1, <2>1 DEF RequestsInv, ClientsInv, Nowhere
  <2>3. /\ toBroker[x] = <<>> /\ fromBroker[x] = <<>>
        /\ \A s \in Services : ~InList(srv_requests[s], x)
        /\ \A v \in Workers : ~Holds(v, x)
        /\ \A id \in WorkerIds : ~Carries(fromBroker[id], x) /\ ~Carries(toBroker[id], x)
    BY <2>2, PlacesOfNowhere
  <2>4. r \in Made' /\ kept \subseteq Made'
    <3>1. /\ r.client = x /\ r.n = asked'[c]
          /\ session'[c] = session[c] /\ x[1] = c /\ x[2] = session[c]
      BY <1>2, <2>1
    <3>2. r \in [client : ClientIds, n : Nat] /\ r.n \in 1 .. asked'[c]
      BY <1>2, <2>1
    <3>3. r \in Made'
      BY <1>2, <3>1, <3>2 DEF Made
    <3>4. ASSUME NEW s \in kept PROVE s \in Made'
      <4>1. s \in Made /\ s.client # x /\ s.client[1] \in Clients
            /\ s.client = <<s.client[1], s.client[2]>>
        BY DEF Made, ClientIds
      <4>2. s.n \in 1 .. asked'[s.client[1]]
        BY <1>2, <2>1, <4>1 DEF Made
      <4>3. s.client[2] = session[s.client[1]] => s.client[1] # c
        BY <1>2, <4>1
      <4>4. s.client[2] = session[s.client[1]] => s.n = asked'[s.client[1]]
        BY <1>2, <2>1, <4>1, <4>3 DEF Made
      <4>5. QED
        BY <2>1, <4>1, <4>2, <4>4 DEF Made
    <3>5. QED
      BY <3>3, <3>4
  <2>5. /\ toBroker'[x] = <<m>> /\ \A y \in Ids : y # x => toBroker'[y] = toBroker[y]
    BY <1>3, <2>1, <2>3
  <2>6. m.cmd \in Asked /\ m.n = asked[c] + 1
    BY DEF Call, Asked
  <2> HIDE DEF m
  <2>7. /\ \A s \in Services : List(srv_requests[s], kept)
        /\ \A v \in Workers : wstate[v] = "busy" => request[v] \in kept
        /\ \A y \in WorkerIds : /\ WorkerQueue(toBroker[y], Said, kept)
                                /\ WorkerQueue(fromBroker[y], Told, kept)
    <3>1. \A s \in Services : List(srv_requests[s], kept)
      BY <1>3, <2>3 DEF List, InList
    <3>2. \A v \in Workers : wstate[v] = "busy" => request[v] \in kept
      BY <1>3, <2>3 DEF Holds
    <3>3. \A y \in WorkerIds : WorkerQueue(toBroker[y], Said, kept)
      BY <1>3, <2>3 DEF WorkerQueue, Carries
    <3>4. \A y \in WorkerIds : WorkerQueue(fromBroker[y], Told, kept)
      BY <1>3, <2>3 DEF WorkerQueue, Carries
    <3>5. QED
      BY <3>1, <3>2, <3>3, <3>4
  <2>8. \A y \in ClientIds : y # x =>
            /\ ClientQueue(toBroker[y], y, Asked, kept)
            /\ ClientQueue(fromBroker[y], y, {"ANSWER"}, kept)
    BY <1>3 DEF ClientQueue
  <2>9. ClientQueue(<<m>>, x, Asked, Made')
    BY <2>4, <2>6, OneInQueue
  <2>10. kept \subseteq Made /\ kept \subseteq Made'
    BY <2>4
  <2> HIDE DEF kept
  <2>11. \A y \in ClientIds : /\ ClientQueue(toBroker'[y], y, Asked, Made')
                              /\ ClientQueue(fromBroker'[y], y, {"ANSWER"}, Made')
    <3>1. \A y \in ClientIds : y # x =>
              /\ ClientQueue(toBroker'[y], y, Asked, Made')
              /\ ClientQueue(fromBroker'[y], y, {"ANSWER"}, Made')
      BY <1>3, <2>1, <2>5, <2>8, <2>10, MoreMade
    <3>2. fromBroker'[x] = <<>>
      BY <2>1, <2>3
    <3>3. QED
      BY <2>5, <2>9, <3>1, <3>2, NoneInQueue
  <2>12. \A y \in WorkerIds : toBroker'[y] = toBroker[y] /\ fromBroker'[y] = fromBroker[y]
    BY <1>3, <2>1, <2>5
  <2>13. AllMade'
    BY <1>2, <2>7, <2>10, <2>11, <2>12, MadeAnew
  <2>14. \A y \in ClientIds : y # x => Whole(y)
    BY <1>3, <1>4, <2>1, <2>5, <2>12
  <2>15. Only(x, <<"called", x>>)'
    BY <1>5, <2>1, <2>2, <2>12
  <2>16. /\ cstate' \in [Clients -> {"ready", "waiting", "failed"}] /\ cstate'[c] = "waiting"
         /\ \A d \in Clients \ {c} : 
             /\ cstate'[d] = cstate[d] /\ session'[d] = session[d]
             /\ asked'[d] = asked[d]
         /\ cstate'[c] = "waiting" => asked'[c] > 0
    BY <1>2, <2>1
  <2>17. x = Id(c)'
    BY <1>1, <2>1 DEF Id
  <2>18. \A y \in ClientIds : Whole(y) \/ \E dst : Only(y, dst)'
    BY <2>14, <2>15
  <2>19. \A y \in ClientIds : y[1] # c => y # x
    BY <1>2
  <2>20. QED
    BY <2>1, <2>13, <2>14, <2>16, <2>17, <2>18, <2>19, ClientKeeps
<1>8. CASE ClientTakes(c)
  <2>1. /\ fromBroker[x] # <<>> /\ UNCHANGED <<session, connected, toBroker, asked>>
        /\ fromBroker' = [fromBroker EXCEPT ![x] = Tail(@)]
        /\ cstate' = [cstate EXCEPT ![c] = "ready"]
    BY <1>1, <1>8 DEF ClientTakes
  <2>2. Tail(fromBroker[x]) = <<>>
    BY <1>3, <2>1, SingleTail DEF ClientQueue
  <2>3. fromBroker'[x] = <<>> /\ \A y \in Ids : y # x => fromBroker'[y] = fromBroker[y]
    BY <1>3, <2>1, <2>2
  <2>4. At(<<"answered", x>>, x)
    BY <2>1 DEF At
  <2>5. \A y \in WorkerIds : toBroker'[y] = toBroker[y] /\ fromBroker'[y] = fromBroker[y]
    BY <1>3, <2>1, <2>3
  <2>6. \A y \in ClientIds : Whole(y)
    BY <1>3, <1>4, <2>1, <2>3, <2>5
  <2>7. Nowhere(x)'
    <3>1. \A p : At(p, x) => p = <<"answered", x>>
      BY <2>4 DEF RequestsInv, OnePlace
    <3>2. /\ toBroker[x] = <<>>
          /\ \A s \in Services : ~InList(srv_requests[s], x)
          /\ \A v \in Workers : ~Holds(v, x)
          /\ \A id \in WorkerIds : ~Carries(fromBroker[id], x) /\ ~Carries(toBroker[id], x)
      <4>1. toBroker[x] = <<>>
        BY <3>1 DEF At
      <4>2. \A s \in Services : ~InList(srv_requests[s], x)
        BY <3>1 DEF At
      <4>3. \A v \in Workers : ~Holds(v, x)
        BY <3>1 DEF At
      <4>4. \A id \in WorkerIds : ~Carries(fromBroker[id], x)
        BY <3>1 DEF At
      <4>5. \A id \in WorkerIds : ~Carries(toBroker[id], x)
        BY <3>1 DEF At
      <4>6. QED
        BY <4>1, <4>2, <4>3, <4>4, <4>5
    <3>3. \A v \in Workers : ~Holds(v, x)'
      BY <1>2, <3>2 DEF Holds
    <3> SUFFICES ASSUME NEW p PROVE ~At(p, x)'
      BY DEF Nowhere
    <3>4. QED
      BY <1>2, <2>1, <2>3, <2>5, <3>2, <3>3 DEF At
  <2>8. Made' = Made
    BY <2>1, SameMade
  <2>9. AllMade'
    <3>1. \A y \in ClientIds : /\ ClientQueue(toBroker'[y], y, Asked, Made)
                               /\ ClientQueue(fromBroker'[y], y, {"ANSWER"}, Made)
      <4>1. ClientQueue(<<>>, x, {"ANSWER"}, Made)
        BY NoneInQueue
      <4>2. \A y \in ClientIds : y # x => ClientQueue(fromBroker'[y], y, {"ANSWER"}, Made)
        BY <1>3, <2>3
      <4>3. QED
        BY <1>3, <2>1, <2>3, <4>1, <4>2
    <3>2. QED
      BY <1>2, <1>3, <2>5, <2>8, <3>1 DEF AllMade
  <2>10. /\ cstate' \in [Clients -> {"ready", "waiting", "failed"}] /\ cstate'[c] = "ready"
         /\ \A d \in Clients \ {c} : 
             /\ cstate'[d] = cstate[d] /\ session'[d] = session[d]
             /\ asked'[d] = asked[d]
         /\ cstate'[c] = "waiting" => asked'[c] > 0
    BY <1>2, <2>1
  <2>11. x = Id(c)'
    BY <1>1, <2>1 DEF Id
  <2>12. \A y \in ClientIds : y[1] # c => y # x /\ y \in Ids
    BY <1>2, <1>3
  <2>13. QED
    BY <2>1, <2>3, <2>6, <2>7, <2>9, <2>10, <2>11, <2>12, ClientKeeps
<1>9. CASE ClientTimesOut(c)
  <2>1. cstate[c] = "waiting" /\ UNCHANGED asked /\ asked[c] \in 1 .. asked[c]
    BY <1>2, <1>9 DEF ClientTimesOut, RequestsInv, ClientsInv
  <2>2. ASSUME NEW kept \in Received(c) PROVE Part(SubSeq(toBroker[x], 1, kept), toBroker[x])
    BY <1>1, <1>2, CutRequests
  <2>3. \A y \in ClientIds : y[1] # c => y # x /\ y \in Ids
    BY <1>2, <1>3
  \* It tries again.
  <2>4. CASE Reconnects(c, Call(c, asked[c])) /\ UNCHANGED cstate
    <3> DEFINE m == Call(c, asked[c])
    <3>1. PICK new \in ClientIds : new = <<c, session[c] + 1>>
      <4>1. session[c] < MaxSockets(c) /\ c \notin Workers
        BY <2>4, BrokerAssumption DEF Reconnects
      <4>2. session[c] + 1 \in 0 .. MaxClientSockets
        BY <1>2, <4>1, BrokerAssumption DEF MaxSockets
      <4>3. QED
        BY <4>2 DEF ClientIds
    <3>2. PICK kept \in Received(c) :
              toBroker' = [toBroker EXCEPT ![x] = SubSeq(@, 1, kept), ![new] = <<m>>]
      BY <1>1, <2>4, <3>1 DEF Reconnects
    <3>3. /\ fromBroker' = [fromBroker EXCEPT ![x] = <<>>]
          /\ connected' = (connected \ {x}) \union {new}
          /\ new # x /\ new[1] = c /\ new[2] = session[c] + 1
          /\ session'[c] = session[c] + 1
          /\ \A d \in Clients \ {c} : session'[d] = session[d]
      <4>1. /\ fromBroker' = [fromBroker EXCEPT ![x] = <<>>]
            /\ connected' = (connected \ {x}) \union {new}
            /\ session' = [session EXCEPT ![c] = session[c] + 1]
        BY <1>1, <2>4, <3>1 DEF Reconnects
      <4>2. new # x /\ new[1] = c /\ new[2] = session[c] + 1
        BY <1>2, <3>1
      <4>3. QED
        BY <1>2, <4>1, <4>2
    <3> DEFINE r == [client |-> new, n |-> asked[c]]
    <3>4. new = Id(c)'
      BY <3>1, <3>3 DEF Id
    <3>5. m.cmd \in Asked /\ m.n = asked[c]
      BY DEF Call, Asked
    <3>6. r.client = new /\ r.n = asked[c] /\ r \in [client : ClientIds, n : Nat]
      BY <1>2, <3>3
    <3> HIDE DEF m, r
    <3>7. r \in Made' /\ Made \subseteq Made'
      <4>1. r \in Made'
        BY <1>2, <2>1, <3>3, <3>6 DEF Made
      <4>2. ASSUME NEW s \in Made PROVE s \in Made'
        <5>1. s.client[1] \in Clients /\ s.client[2] \in Nat
          BY BrokerAssumption DEF Made, ClientIds
        <5>2. CASE s.client[1] = c
          BY <1>2, <2>1, <3>3, <5>1, <5>2 DEF Made
        <5>3. CASE s.client[1] # c
          BY <1>2, <2>1, <3>3, <5>1, <5>3 DEF Made
        <5>4. QED
          BY <5>2, <5>3
      <4>3. QED
        BY <4>1, <4>2
    <3>8. Nowhere(new)
      BY <1>2, <3>3, NewIsNowhere
    <3>9. /\ toBroker'[x] = SubSeq(toBroker[x], 1, kept) /\ toBroker'[new] = <<m>>
          /\ \A y \in Ids \ {x, new} : toBroker'[y] = toBroker[y]
          /\ fromBroker'[x] = <<>> /\ \A y \in Ids \ {x} : fromBroker'[y] = fromBroker[y]
      BY <1>3, <3>1, <3>2, <3>3
    <3>10. \A y \in WorkerIds : toBroker'[y] = toBroker[y] /\ fromBroker'[y] = fromBroker[y]
      BY <1>3, <3>3, <3>9
    <3>11. Part(toBroker'[x], toBroker[x])
      BY <2>2, <3>9
    <3>12. \A y \in ClientIds : /\ ClientQueue(toBroker'[y], y, Asked, Made')
                                /\ ClientQueue(fromBroker'[y], y, {"ANSWER"}, Made')
      <4>1. \A y \in ClientIds : /\ ClientQueue(toBroker[y], y, Asked, Made')
                                 /\ ClientQueue(fromBroker[y], y, {"ANSWER"}, Made')
        BY <1>3, <3>7, MoreMade
      <4>2. ClientQueue(toBroker'[x], x, Asked, Made')
        BY <3>11, <4>1, PartTransfers
      <4>3. ClientQueue(fromBroker'[x], x, {"ANSWER"}, Made')
        BY <3>9, NoneInQueue
      <4>4. ClientQueue(<<m>>, new, Asked, Made')
        BY <3>5, <3>6, <3>7, OneInQueue DEF r
      <4>5. \A y \in ClientIds : fromBroker'[y] = fromBroker[y] \/ y = x
        BY <1>3, <3>9
      <4>6. \A y \in ClientIds : toBroker'[y] = toBroker[y] \/ y = x \/ y = new
        BY <1>3, <3>9
      <4>7. QED
        BY <3>9, <4>1, <4>2, <4>3, <4>4, <4>5, <4>6
    <3>13. AllMade'
      BY <1>2, <1>3, <3>7, <3>10, <3>12, MadeAnew
    <3>14. \A y \in ClientIds : y # new => Whole(y)
      <4>1. \A y \in ClientIds : y # new =>
                /\ toBroker'[y] # <<>> => toBroker[y] # <<>>
                /\ fromBroker'[y] # <<>> => fromBroker[y] # <<>>
        BY <1>3, <3>9, <3>11 DEF Part
      <4>2. QED
        BY <1>4, <3>10, <4>1
    <3>15. Only(new, <<"called", new>>)'
      BY <1>3, <1>5, <3>3, <3>8, <3>9, <3>10
    <3>16. \A y \in ClientIds : Whole(y) \/ \E dst : Only(y, dst)'
      BY <3>14, <3>15
    <3>17. /\ cstate' \in [Clients -> {"ready", "waiting", "failed"}] /\ cstate'[c] = "waiting"
           /\ \A d \in Clients \ {c} :
                 /\ cstate'[d] = cstate[d] /\ session'[d] = session[d]
                 /\ asked'[d] = asked[d]
           /\ cstate'[c] = "waiting" => asked'[c] > 0
      BY <1>2, <2>1, <2>4, <3>3
    <3>18. \A y \in ClientIds : y[1] # c =>
               /\ Whole(y) /\ fromBroker'[y] = fromBroker[y]
               /\ y \in connected' => y \in connected
      <4>1. \A y \in ClientIds : y[1] # c => y # new
        BY <3>3
      <4>2. QED
        BY <2>3, <3>3, <3>9, <3>14, <4>1
    <3>19. QED
      BY <3>3, <3>4, <3>13, <3>16, <3>17, <3>18, ClientKeeps
  \* It gives up.
  <2>5. CASE Closes(c) /\ UNCHANGED session /\ cstate' = [cstate EXCEPT ![c] = "failed"]
    <3>1. PICK kept \in Received(c) :
              toBroker' = [toBroker EXCEPT ![x] = SubSeq(@, 1, kept)]
      BY <1>1, <2>5 DEF Closes
    <3>2. fromBroker' = [fromBroker EXCEPT ![x] = <<>>] /\ connected' = connected \ {x}
      BY <1>1, <2>5 DEF Closes
    <3>3. /\ toBroker'[x] = SubSeq(toBroker[x], 1, kept)
          /\ \A y \in Ids \ {x} : toBroker'[y] = toBroker[y]
          /\ fromBroker'[x] = <<>> /\ \A y \in Ids \ {x} : fromBroker'[y] = fromBroker[y]
      BY <1>3, <3>1, <3>2
    <3>4. Part(toBroker'[x], toBroker[x])
      BY <2>2, <3>3
    <3>5. \A y \in WorkerIds : toBroker'[y] = toBroker[y] /\ fromBroker'[y] = fromBroker[y]
      BY <1>3, <3>3
    <3>6. Made' = Made
      BY <2>1, <2>5, SameMade
    <3>7. \A y \in ClientIds : /\ Part(toBroker'[y], toBroker[y])
                               /\ Part(fromBroker'[y], fromBroker[y])
      <4>1. \A y \in ClientIds : y # x =>
                toBroker'[y] = toBroker[y] /\ fromBroker'[y] = fromBroker[y]
        BY <1>3, <3>3
      <4>2. QED
        BY <3>3, <3>4, <4>1, SamePart, EmptyPart
    <3>8. \A y \in ClientIds : /\ ClientQueue(toBroker'[y], y, Asked, Made)
                               /\ ClientQueue(fromBroker'[y], y, {"ANSWER"}, Made)
      BY <1>3, <3>7, PartTransfers
    <3>9. AllMade'
      BY <1>2, <1>3, <3>5, <3>6, <3>8 DEF AllMade
    <3>10. \A y \in ClientIds : Whole(y)
      BY <1>4, <3>5, <3>7 DEF Part
    <3>11. /\ cstate' \in [Clients -> {"ready", "waiting", "failed"}] /\ cstate'[c] = "failed"
           /\ \A d \in Clients \ {c} :
                 /\ cstate'[d] = cstate[d] /\ session'[d] = session[d]
                 /\ asked'[d] = asked[d]
      BY <1>2, <2>1, <2>5
    <3>12. x = Id(c)'
      BY <1>1, <2>5 DEF Id
    <3>13. QED
      BY <2>3, <3>2, <3>3, <3>9, <3>10, <3>11, <3>12, ClientKeeps
  <2>6. QED
    BY <1>9, <2>4, <2>5 DEF ClientTimesOut
<1>10. QED
  BY <1>7, <1>8, <1>9 DEF ClientStep

-----------------------------------------------------------------------------
(* The invariant.                                                          *)

LEMMA RequestsInitial == Init => RequestsInv
<1> SUFFICES ASSUME Init PROVE RequestsInv
  OBVIOUS
<1>1. /\ \A id \in WorkerIds : toBroker[id] = <<>> /\ fromBroker[id] = <<>>
      /\ \A x \in ClientIds : toBroker[x] = <<>> /\ fromBroker[x] = <<>>
      /\ \A s \in Services : srv_requests[s] = <<>>
      /\ \A w \in Workers : wstate[w] = "off" /\ request[w] = NoRequest
      /\ cstate = [c \in Clients |-> "ready"]
  BY DEF Init, EmptyTables, Ids
<1>2. AllMade
  <2>1. \A s \in Services : List(srv_requests[s], Made)
    BY <1>1 DEF List, OneEach
  <2>2. QED
    BY <1>1, <2>1, NoneInQueue DEF AllMade
<1>3. \A x \in ClientIds : Nowhere(x)
  <2>1. \A s \in Services : \A x : ~InList(srv_requests[s], x)
    BY <1>1 DEF InList
  <2>2. \A w \in Workers : \A x : ~Holds(w, x)
    BY <1>1 DEF Holds
  <2>3. QED
    BY <1>1, <2>1, <2>2, NowhereByPlace, NoneInQueue
<1>4. Sessions
  BY Initial DEF IInv, PeersInv
<1>5. ClientsInv
  BY <1>1, <1>3, <1>4, ClientIdTyped DEF ClientsInv, Nowhere
<1>6. QED
  BY <1>2, <1>3, <1>5 DEF RequestsInv, OnePlace, Nowhere

LEMMA RequestsInductive ==
    IInv /\ WorkersInv /\ RequestsInv /\ [Next]_vars => RequestsInv'
<1> SUFFICES ASSUME IInv, WorkersInv, RequestsInv, [Next]_vars PROVE RequestsInv'
  OBVIOUS
<1>1. CASE BrokerStep
  <2>1. UNCHANGED peerVars
    BY <1>1 DEF BrokerStep
  <2>2. m_waiting \subseteq WorkerIds
    BY DEF IInv, Lists, Tables, ListsAgree, WorkersInv, Unused, Ids
  <2>3. QED
    BY <1>1, <2>1, <2>2, TakesRequests, BeatsRequests, FailsRequests DEF BrokerStep
<1>2. CASE BrokerFails
  BY <1>2, FailsRequests DEF BrokerFails
<1>3. CASE \E w \in Workers : WorkerStep(w)
  BY <1>3, WorkerRequests
<1>4. CASE \E c \in Clients : ClientStep(c)
  BY <1>4, ClientRequests
<1>5. CASE UNCHANGED vars
  <2>1. UNCHANGED <<asked, cstate, session, wstate, request, connected, toBroker,
                    fromBroker, srv_requests>>
    BY <1>5 DEF vars, brokerVars, tables, queues, workerVars, clientVars
  <2>2. QED
    BY <2>1, SamePart, PartAdds, Quiet
<1>6. QED
  BY <1>1, <1>2, <1>3, <1>4, <1>5 DEF Next

-----------------------------------------------------------------------------
(* The properties.                                                         *)

LEMMA WhereaboutsByKind ==
    ASSUME NEW r, NEW a \in Whereabouts(r)
    PROVE  \/ \E i \in DOMAIN toBroker[r.client] : a = <<"called", i>>
           \/ \E s \in Services : \E i \in DOMAIN srv_requests[s] :
                  a = <<"listed", s, i>> /\ srv_requests[s][i] = r
           \/ \E id \in Ids : \E i \in DOMAIN fromBroker[id] :
                  a = <<"sent", id>> /\ fromBroker[id][i] = Request(r)
           \/ \E w \in Workers : a = <<"held", w>> /\ request[w] = r
           \/ \E id \in Ids : \E i \in DOMAIN toBroker[id] :
                  a = <<"replied", id>> /\ toBroker[id][i] = Reply(r)
           \/ \E i \in DOMAIN fromBroker[r.client] : a = <<"answered", i>>
<1> DEFINE inbox == toBroker[r.client]
           answers == fromBroker[r.client]
           called == {<<"called", i>> : i \in {i \in DOMAIN inbox :
                         inbox[i].cmd = "CALL" /\ inbox[i].n = r.n}}
           listed(s) == {<<"listed", s, i>> : i \in {i \in DOMAIN srv_requests[s] :
                             srv_requests[s][i] = r}}
           sent == {<<"sent", id>> : id \in {id \in Ids :
                       \E i \in DOMAIN fromBroker[id] : fromBroker[id][i] = Request(r)}}
           held == {<<"held", w>> : w \in {w \in Workers : request[w] = r}}
           replied == {<<"replied", id>> : id \in {id \in Ids :
                          \E i \in DOMAIN toBroker[id] : toBroker[id][i] = Reply(r)}}
           answered == {<<"answered", i>> : i \in {i \in DOMAIN answers :
                           answers[i].cmd = "ANSWER" /\ answers[i].n = r.n}}
           lists == {listed(s) : s \in Services}
<1>1. a \in called \union (UNION lists) \union sent \union held \union replied
             \union answered
  BY Zenon DEF Whereabouts
<1>2. \/ a \in called \/ (\E l \in lists : a \in l)
      \/ a \in sent \/ a \in held \/ a \in replied \/ a \in answered
  <2> HIDE DEF called, lists, sent, held, replied, answered
  <2>1. QED
    BY <1>1
<1>3. CASE a \in called
  BY <1>3
<1>4. CASE \E l \in lists : a \in l
  <2>1. PICK s \in Services : a \in listed(s)
    BY <1>4
  <2>2. QED
    BY <2>1
<1>5. CASE a \in sent
  BY <1>5
<1>6. CASE a \in held
  BY <1>6
<1>7. CASE a \in replied
  BY <1>7
<1>8. CASE a \in answered
  BY <1>8
<1>9. QED
  BY <1>2, <1>3, <1>4, <1>5, <1>6, <1>7, <1>8

\* The place of one of its whereabouts.
PlaceOf(a, x) ==
    IF a[1] \in {"called", "answered"} THEN <<a[1], x>> ELSE <<a[1], a[2]>>

LEMMA WhereaboutsPlaces ==
    ASSUME IInv, RequestsInv, NEW x \in ClientIds, NEW n \in Nat \ {0}, NEW r,
           r = [client |-> x, n |-> n], NEW a \in Whereabouts(r)
    PROVE  At(PlaceOf(a, x), x)
<1>1. r.client = x /\ r.n = n
  OBVIOUS
<1>2. /\ \A y \in WorkerIds : /\ WorkerQueue(toBroker[y], Said, Made)
                              /\ WorkerQueue(fromBroker[y], Told, Made)
      /\ \A y \in ClientIds : /\ ClientQueue(toBroker[y], y, Asked, Made)
                              /\ ClientQueue(fromBroker[y], y, {"ANSWER"}, Made)
      /\ \A w \in Workers : wstate[w] # "busy" => request[w] = NoRequest
  BY DEF RequestsInv, AllMade
<1>3. ASSUME NEW i \in DOMAIN toBroker[x], a = <<"called", i>> PROVE At(PlaceOf(a, x), x)
  <2>1. PlaceOf(a, x) = <<"called", x>> /\ toBroker[x] # <<>>
    BY <1>3 DEF PlaceOf
  <2>2. QED
    BY <2>1 DEF At
<1>4. ASSUME NEW s \in Services, NEW i \in DOMAIN srv_requests[s],
             a = <<"listed", s, i>>, srv_requests[s][i] = r
      PROVE  At(PlaceOf(a, x), x)
  <2>1. PlaceOf(a, x) = <<"listed", s>> /\ InList(srv_requests[s], x)
    BY <1>1, <1>4 DEF PlaceOf, InList
  <2>2. QED
    BY <2>1 DEF At
<1>5. ASSUME NEW id \in Ids, NEW i \in DOMAIN fromBroker[id],
             a = <<"sent", id>>, fromBroker[id][i] = Request(r)
      PROVE  At(PlaceOf(a, x), x)
  <2>1. fromBroker[id][i].cmd = "REQUEST" /\ fromBroker[id][i].client = x
    BY <1>1, <1>5 DEF Request
  <2>2. id \in WorkerIds
    BY <1>2, <1>5, <2>1 DEF Ids, ClientQueue
  <2>3. PlaceOf(a, x) = <<"sent", id>> /\ Carries(fromBroker[id], x)
    BY <1>5, <2>1 DEF PlaceOf, Carries
  <2>4. QED
    BY <2>2, <2>3 DEF At
<1>6. ASSUME NEW w \in Workers, a = <<"held", w>>, request[w] = r
      PROVE  At(PlaceOf(a, x), x)
  <2>1. NoRequest.n = 0
    BY DEF NoRequest
  <2>2. wstate[w] = "busy"
    BY <1>1, <1>2, <1>6, <2>1
  <2>3. PlaceOf(a, x) = <<"held", w>> /\ Holds(w, x)
    BY <1>1, <1>6, <2>2 DEF PlaceOf, Holds
  <2>4. QED
    BY <2>3 DEF At
<1>7. ASSUME NEW id \in Ids, NEW i \in DOMAIN toBroker[id],
             a = <<"replied", id>>, toBroker[id][i] = Reply(r)
      PROVE  At(PlaceOf(a, x), x)
  <2>1. toBroker[id][i].cmd = "REPLY" /\ toBroker[id][i].client = x
    BY <1>1, <1>7 DEF Reply
  <2>2. id \in WorkerIds
    BY <1>2, <1>7, <2>1 DEF Ids, ClientQueue, Asked
  <2>3. PlaceOf(a, x) = <<"replied", id>> /\ Carries(toBroker[id], x)
    BY <1>7, <2>1 DEF PlaceOf, Carries
  <2>4. QED
    BY <2>2, <2>3 DEF At
<1>8. ASSUME NEW i \in DOMAIN fromBroker[x], a = <<"answered", i>>
      PROVE  At(PlaceOf(a, x), x)
  <2>1. PlaceOf(a, x) = <<"answered", x>> /\ fromBroker[x] # <<>>
    BY <1>8 DEF PlaceOf
  <2>2. QED
    BY <2>1 DEF At
<1>9. QED
  BY <1>1, <1>3, <1>4, <1>5, <1>6, <1>7, <1>8, WhereaboutsByKind

LEMMA OneWhereabout ==
    ASSUME IInv, RequestsInv, NEW x \in ClientIds, NEW n \in Nat \ {0}, NEW r,
           r = [client |-> x, n |-> n],
           NEW a \in Whereabouts(r), NEW b \in Whereabouts(r)
    PROVE  a = b
<1>1. PlaceOf(a, x) = PlaceOf(b, x)
  <2>1. PICK p, q : p = PlaceOf(a, x) /\ q = PlaceOf(b, x)
    OBVIOUS
  <2>2. At(p, x) /\ At(q, x)
    BY <2>1, WhereaboutsPlaces
  <2>3. QED
    BY <2>1, <2>2 DEF RequestsInv, OnePlace
<1>2. Single(toBroker[x]) /\ Single(fromBroker[x])
  BY DEF RequestsInv, AllMade, ClientQueue
<1>3. \A s \in Services : OneEach(srv_requests[s])
  BY DEF RequestsInv, AllMade, List
<1>4. a[1] = b[1]
  BY <1>1 DEF PlaceOf
<1>5. \/ \E i \in DOMAIN toBroker[x] : a = <<"called", i>>
      \/ \E s \in Services : \E i \in DOMAIN srv_requests[s] :
             a = <<"listed", s, i>> /\ srv_requests[s][i].client = x
      \/ \E y : a = <<"sent", y>>
      \/ \E y : a = <<"held", y>>
      \/ \E y : a = <<"replied", y>>
      \/ \E i \in DOMAIN fromBroker[x] : a = <<"answered", i>>
  BY WhereaboutsByKind
<1>6. \/ \E i \in DOMAIN toBroker[x] : b = <<"called", i>>
      \/ \E s \in Services : \E i \in DOMAIN srv_requests[s] :
             b = <<"listed", s, i>> /\ srv_requests[s][i].client = x
      \/ \E y : b = <<"sent", y>>
      \/ \E y : b = <<"held", y>>
      \/ \E y : b = <<"replied", y>>
      \/ \E i \in DOMAIN fromBroker[x] : b = <<"answered", i>>
  BY WhereaboutsByKind
<1>7. CASE a[1] = "called"
  <2>1. PICK i \in DOMAIN toBroker[x] : a = <<"called", i>>
    BY <1>5, <1>7
  <2>2. b[1] = "called"
    BY <1>4, <1>7
  <2>3. PICK j \in DOMAIN toBroker[x] : b = <<"called", j>>
    BY <1>6, <2>2
  <2>4. QED
    BY <1>2, <2>1, <2>3 DEF Single
<1>8. CASE a[1] = "answered"
  <2>1. PICK i \in DOMAIN fromBroker[x] : a = <<"answered", i>>
    BY <1>5, <1>8
  <2>2. b[1] = "answered"
    BY <1>4, <1>8
  <2>3. PICK j \in DOMAIN fromBroker[x] : b = <<"answered", j>>
    BY <1>6, <2>2
  <2>4. QED
    BY <1>2, <2>1, <2>3 DEF Single
<1>9. CASE a[1] = "listed"
  <2>1. PICK s \in Services : \E i \in DOMAIN srv_requests[s] :
            a = <<"listed", s, i>> /\ srv_requests[s][i].client = x
    BY <1>5, <1>9
  <2>2. b[1] = "listed"
    BY <1>4, <1>9
  <2>3. PICK t \in Services : \E i \in DOMAIN srv_requests[t] :
            b = <<"listed", t, i>> /\ srv_requests[t][i].client = x
    BY <1>6, <2>2
  <2>4. s = t
    BY <1>1, <2>1, <2>3 DEF PlaceOf
  <2>5. QED
    BY <1>3, <2>1, <2>3, <2>4 DEF OneEach
<1>10. CASE a[1] \in {"sent", "held", "replied"}
  <2>1. a = <<a[1], a[2]>> /\ b = <<b[1], b[2]>>
    BY <1>4, <1>5, <1>6, <1>10
  <2>2. a[2] = b[2]
    BY <1>1, <1>4, <1>10 DEF PlaceOf
  <2>3. QED
    BY <1>4, <2>1, <2>2
<1>11. QED
  BY <1>5, <1>7, <1>8, <1>9, <1>10

LEMMA AtMostOne ==
    ASSUME NEW S, \A a, b \in S : a = b
    PROVE  Cardinality(S) <= 1
<1>1. CASE S = {}
  BY <1>1, FS_EmptySet
<1>2. CASE S # {}
  <2>1. PICK a : S = {a}
    BY <1>2
  <2>2. QED
    BY <2>1, FS_Singleton
<1>3. QED
  BY <1>1, <1>2

\* The broker and the workers never multiply a request, for any number of
\* them: a request a client has sent on one socket is in one place, whatever is
\* dispatched, purged, lost, killed or opened anew (client_process,
\* service_dispatch, worker_process, mdwrk::recv and mdcli::send).
THEOREM NobodyMultiplies == Spec => []NeverMultiplied
<1>1. IInv /\ RequestsInv => NeverMultiplied
  <2> SUFFICES ASSUME IInv, RequestsInv, NEW id \in ClientIds, NEW n \in 1 .. MaxCalls
               PROVE  Cardinality(Whereabouts([client |-> id, n |-> n])) <= 1
    BY DEF NeverMultiplied
  <2>1. n \in Nat \ {0}
    BY PeersAssumption
  <2>2. PICK r : r = [client |-> id, n |-> n]
    OBVIOUS
  <2>3. \A a, b \in Whereabouts(r) : a = b
    BY <2>1, <2>2, OneWhereabout
  <2>4. QED
    BY <2>2, <2>3, AtMostOne
<1>2. QED
  BY <1>1, Initial, Inductive, WorkersInitial, WorkersInductive,
     RequestsInitial, RequestsInductive, PTL DEF Spec

\* A client reads the answer to the call it waits for, or none: an answer to an
\* earlier call or an earlier try never reaches its socket, and no second one
\* is left for its next call (mdcli::send, which returns the first reply).
THEOREM AnswersBelong == Spec => []AnswerBelongs
<1>1. IInv /\ RequestsInv => AnswerBelongs
  <2> SUFFICES ASSUME IInv, RequestsInv, NEW c \in Clients
               PROVE  /\ Len(fromBroker[Id(c)]) <= 1
                      /\ \A i \in DOMAIN fromBroker[Id(c)] :
                            cstate[c] = "waiting" /\ fromBroker[Id(c)][i].n = asked[c]
    BY DEF AnswerBelongs
  <2>1. PICK x \in ClientIds : x = Id(c)
    BY ClientIdTyped DEF IInv, PeersInv
  <2>2. fromBroker[x] \in Seq(FromBroker) /\ ClientQueue(fromBroker[x], x, {"ANSWER"}, Made)
    BY DEF IInv, Queues, Ids, RequestsInv, AllMade
  <2>3. Len(fromBroker[x]) <= 1
    <3>1. Len(fromBroker[x]) \in Nat /\ DOMAIN fromBroker[x] = 1 .. Len(fromBroker[x])
      BY <2>2, LenProperties
    <3>2. ~(1 \in DOMAIN fromBroker[x] /\ 2 \in DOMAIN fromBroker[x])
      BY <2>2 DEF ClientQueue, Single
    <3>3. QED
      BY <3>1, <3>2
  <2>4. ASSUME NEW i \in DOMAIN fromBroker[x]
        PROVE  cstate[c] = "waiting" /\ fromBroker[x][i].n = asked[c]
    <3>1. [client |-> x, n |-> fromBroker[x][i].n] \in Made
      BY <2>2 DEF ClientQueue
    <3>2. x[1] = c /\ x[2] = session[c]
      BY <2>1 DEF Id
    <3>3. fromBroker[x][i].n = asked[c]
      BY <3>1, <3>2 DEF Made
    <3>4. At(<<"answered", x>>, x)
      BY DEF At
    <3>5. cstate[c] # "ready" /\ cstate[c] # "failed"
      BY <2>1, <3>4 DEF RequestsInv, ClientsInv
    <3>6. QED
      BY <3>3, <3>5 DEF RequestsInv, ClientsInv
  <2>5. QED
    BY <2>1, <2>3, <2>4
<1>2. QED
  BY <1>1, Initial, Inductive, WorkersInitial, WorkersInductive,
     RequestsInitial, RequestsInductive, PTL DEF Spec

-----------------------------------------------------------------------------
(* The service the programs implement when no name passes for internal and  *)
(* nobody asks mmi.service: every answer is that of a worker.               *)

Replied(q, done)     == \A i \in DOMAIN q :
                            q[i].cmd = "REPLY" => <<q[i].client[1], q[i].n>> \in done
Answered(q, c, done) == \A i \in DOMAIN q : <<c, q[i].n>> \in done
NoQuestion(q)        == \A i \in DOMAIN q : q[i].cmd # "MMI"

ExecutedInv ==
    /\ \A id \in WorkerIds : Replied(toBroker[id], executed)
    /\ \A x \in ClientIds : /\ Answered(fromBroker[x], x[1], executed)
                            /\ NoQuestion(toBroker[x])

LEMMA AddsOnly ==
    ASSUME NEW S, NEW q1 \in Seq(S), NEW q2, NEW cmds, Adds(q2, q1, cmds)
    PROVE  \A i \in DOMAIN q2 : q2[i].cmd \in cmds \/ \E j \in DOMAIN q1 : q2[i] = q1[j]
<1>1. CASE Part(q2, q1)
  BY <1>1 DEF Part
<1>2. ASSUME NEW m, m.cmd \in cmds, q2 = Append(q1, m) \/ q2 = <<m>>, NEW i \in DOMAIN q2
      PROVE  q2[i].cmd \in cmds \/ \E j \in DOMAIN q1 : q2[i] = q1[j]
  <2>1. CASE q2 = <<m>>
    BY <1>2, <2>1
  <2>2. CASE q2 = Append(q1, m)
    <3>1. /\ Len(q1) \in Nat /\ DOMAIN q1 = 1 .. Len(q1)
          /\ DOMAIN q2 = 1 .. Len(q1) + 1
          /\ q2[Len(q1) + 1] = m /\ \A j \in 1 .. Len(q1) : q2[j] = q1[j]
      BY <2>2, AppendProperties, LenProperties
    <3>2. i \in DOMAIN q1 \/ i = Len(q1) + 1
      BY <1>2, <3>1
    <3>3. QED
      BY <1>2, <3>1, <3>2
  <2>3. QED
    BY <1>2, <2>1, <2>2
<1>3. QED
  BY <1>1, <1>2 DEF Adds

\* Steps in which nobody replies and nobody is answered.
LEMMA QuietService ==
    ASSUME IInv, ExecutedInv, executed \subseteq executed',
           \A id \in WorkerIds : Adds(toBroker'[id], toBroker[id], {"READY", "HEARTBEAT"}),
           \A x \in ClientIds : /\ Adds(toBroker'[x], toBroker[x], {"CALL"})
                                /\ Part(fromBroker'[x], fromBroker[x])
    PROVE  ExecutedInv'
<1>1. ASSUME NEW id \in WorkerIds PROVE Replied(toBroker'[id], executed')
  <2>1. toBroker[id] \in Seq(ToBroker) /\ Replied(toBroker[id], executed)
    BY DEF IInv, Queues, Ids, ExecutedInv
  <2>2. \A i \in DOMAIN toBroker'[id] :
            \/ toBroker'[id][i].cmd \in {"READY", "HEARTBEAT"}
            \/ \E j \in DOMAIN toBroker[id] : toBroker'[id][i] = toBroker[id][j]
    BY <2>1, AddsOnly
  <2>3. QED
    BY <2>1, <2>2 DEF Replied
<1>2. ASSUME NEW x \in ClientIds
      PROVE  Answered(fromBroker'[x], x[1], executed') /\ NoQuestion(toBroker'[x])
  <2>1. /\ toBroker[x] \in Seq(ToBroker) /\ NoQuestion(toBroker[x])
        /\ Answered(fromBroker[x], x[1], executed)
    BY DEF IInv, Queues, Ids, ExecutedInv
  <2>2. \A i \in DOMAIN toBroker'[x] :
            \/ toBroker'[x][i].cmd \in {"CALL"}
            \/ \E j \in DOMAIN toBroker[x] : toBroker'[x][i] = toBroker[x][j]
    BY <2>1, AddsOnly
  <2>3. NoQuestion(toBroker'[x])
    BY <2>1, <2>2 DEF NoQuestion
  <2>4. Answered(fromBroker'[x], x[1], executed')
    BY <2>1 DEF Answered, Part
  <2>5. QED
    BY <2>3, <2>4
<1>3. QED
  BY <1>1, <1>2 DEF ExecutedInv

\* A dispatch sends nothing to a client.
LEMMA DispatchAnswersNone ==
    ASSUME IInv, WorkersInv, NEW s \in Services, NEW requests,
           NEW joining \in SUBSET WorkerIds, NEW counts, NEW qs,
           service_dispatch(s, requests, joining, counts, qs)
    PROVE  \A x \in ClientIds : fromBroker'[x] = qs[x]
<1> DEFINE gone == Expired \ joining
           idle == (srv_waiting[s] \union joining) \ gone
           k    == AtMost(Cardinality(idle), Len(requests))
<1>1. idle \subseteq WorkerIds
  <2>1. m_waiting \subseteq WorkerIds
    BY DEF IInv, Lists, Tables, ListsAgree, WorkersInv, Unused, Ids
  <2>2. srv_waiting[s] \subseteq m_waiting
    BY DEF IInv, Lists, ListsAgree
  <2>3. QED
    BY <2>1, <2>2
<1>2. \A x \in ClientIds : x \in Ids /\ x \notin WorkerIds
  BY BrokerAssumption DEF Ids, WorkerIds, ClientIds
<1> HIDE DEF idle, k
<1>3. PICK pick \in [1 .. k -> idle] :
          fromBroker' = [id \in Ids |->
              IF id \in {pick[i] : i \in 1 .. k} \intersect connected
              THEN Append(qs[id], Request(requests[CHOOSE i \in 1 .. k : pick[i] = id]))
              ELSE qs[id]]
  BY DEF service_dispatch, Picks, idle, k
<1>4. \A x \in ClientIds : x \notin {pick[i] : i \in 1 .. k}
  BY <1>1, <1>2
<1>5. QED
  BY <1>2, <1>3, <1>4

\* What the broker takes is a reply it passes on, or nobody is answered.
LEMMA TakesService ==
    ASSUME Internal = {}, IInv, WorkersInv, RequestsInv, ExecutedInv,
           NEW id \in Ids, BrokerTakes(id), UNCHANGED peerVars
    PROVE  ExecutedInv'
<1> DEFINE r == Head(toBroker[id])
<1>1. /\ toBroker[id] # <<>> /\ toBroker' = [toBroker EXCEPT ![id] = Tail(@)]
      /\ UNCHANGED executed
  BY DEF BrokerTakes, BrokerReady, BrokerReply, BrokerBeaten, BrokerCall,
         BrokerMmi, Takes, peerVars
<1>2. /\ \A y \in Ids : Part(toBroker'[y], toBroker[y])
      /\ id \in WorkerIds => r.cmd \in Said
      /\ r.cmd = "REPLY" => r.client \in ClientIds
      /\ id \in ClientIds => r.cmd \in Asked
  BY <1>1, Taken
<1>3. /\ r \in ToBroker /\ 1 \in DOMAIN toBroker[id] /\ r = toBroker[id][1]
  <2>1. toBroker[id] \in Seq(ToBroker)
    BY DEF IInv, Queues
  <2>2. /\ Len(toBroker[id]) \in Nat \ {0} /\ DOMAIN toBroker[id] = 1 .. Len(toBroker[id])
        /\ Head(toBroker[id]) = toBroker[id][1] /\ Head(toBroker[id]) \in ToBroker
    BY <1>1, <2>1, HeadTailProperties, LenProperties, EmptySeq
  <2>3. QED
    BY <2>2
<1> HIDE DEF r
<1>4. /\ \A x \in ClientIds : x \in Ids /\ x \notin WorkerIds
      /\ \A y \in WorkerIds : y \in Ids
      /\ id \in WorkerIds \/ id \in ClientIds
      /\ fromBroker \in [Ids -> Seq(FromBroker)]
      /\ \A y \in m_workers : m_service[y] \in Services
  BY BrokerAssumption DEF Ids, WorkerIds, ClientIds, IInv, Queues, Lists, Tables
<1>5. /\ id \in ClientIds => r.cmd = "CALL"
      /\ r.cmd = "REPLY" => <<r.client[1], r.n>> \in executed
  <2>1. id \in ClientIds => r.cmd # "MMI"
    BY <1>3 DEF ExecutedInv, NoQuestion
  <2>2. r.cmd = "REPLY" => id \in WorkerIds
    BY <1>2, <1>4 DEF Asked
  <2>3. r.cmd = "REPLY" => <<r.client[1], r.n>> \in executed
    BY <1>3, <2>2 DEF ExecutedInv, Replied
  <2>4. QED
    BY <1>2, <2>1, <2>3 DEF Asked
<1>6. ASSUME \A x \in ClientIds : fromBroker'[x] = fromBroker[x] PROVE ExecutedInv'
  <2>1. \A x \in ClientIds : Part(fromBroker'[x], fromBroker[x])
    BY <1>6, SamePart
  <2>2. QED
    BY <1>1, <1>2, <1>4, <2>1, PartAdds, QuietService
<1>7. ASSUME id \in WorkerIds, NEW m, fromBroker' = Sent(fromBroker, id, m) PROVE ExecutedInv'
  <2>1. \A x \in ClientIds : fromBroker'[x] = fromBroker[x]
    BY <1>4, <1>7 DEF Sent
  <2>2. QED
    BY <1>6, <2>1
<1>8. ASSUME r.cmd \in Said PROVE id \in WorkerIds
  BY <1>2, <1>4, <1>8 DEF Said, Asked
<1>9. CASE BrokerReady(id)
  <2>1. r.cmd = "READY" /\ r.service \in Services
    BY <1>3, <1>9, ToBrokerTypes DEF BrokerReady, Takes, r
  <2>2. id \in WorkerIds
    BY <1>8, <2>1 DEF Said
  <2>3. CASE id \in m_workers
    BY <1>7, <1>9, <2>2, <2>3 DEF BrokerReady, worker_delete
  <2>4. CASE id \notin m_workers
    <3> DEFINE s == r.service
    <3>1. PICK garbage \in Garbage :
             service_dispatch(s, srv_requests[s], {id},
                 [srv_workers EXCEPT ![s] = Count(s, garbage) + 1], fromBroker)
      BY <1>9, <2>4 DEF BrokerReady, r
    <3>2. s \in Services /\ {id} \in SUBSET WorkerIds
      BY <2>1, <2>2
    <3> HIDE DEF s
    <3>3. QED
      BY <1>6, <3>1, <3>2, DispatchAnswersNone
  <2>5. QED
    BY <2>3, <2>4
<1>10. CASE BrokerReply(id)
  <2>1. r.cmd = "REPLY"
    BY <1>10 DEF BrokerReply, Takes, r
  <2>2. id \in WorkerIds
    BY <1>8, <2>1 DEF Said
  <2>3. CASE id \notin m_workers
    BY <1>7, <1>10, <2>2, <2>3 DEF BrokerReply, TurnAway
  <2>4. CASE id \in m_workers
    <3> DEFINE m  == Answer("done", r.n)
               qs == Sent(fromBroker, r.client, m)
               s  == m_service[id]
    <3>1. service_dispatch(s, srv_requests[s], {id}, srv_workers, qs)
      BY <1>10, <2>4 DEF BrokerReply, r
    <3>2. s \in Services /\ {id} \in SUBSET WorkerIds
      BY <1>4, <2>2, <2>4
    <3>3. m.n = r.n
      BY DEF Answer
    <3> HIDE DEF s, m
    <3>4. \A x \in ClientIds :
              \/ fromBroker'[x] = fromBroker[x]
              \/ x = r.client /\ fromBroker'[x] = Append(fromBroker[x], m)
      <4>1. \A x \in ClientIds : fromBroker'[x] = qs[x]
        <5> HIDE DEF qs
        <5>1. QED
          BY <3>1, <3>2, DispatchAnswersNone
      <4>2. \A x \in ClientIds :
                qs[x] = fromBroker[x] \/ (x = r.client /\ qs[x] = Append(fromBroker[x], m))
        BY <1>4 DEF Sent
      <4>3. QED
        BY <4>1, <4>2
    <3>5. \A x \in ClientIds : Answered(fromBroker'[x], x[1], executed)
      <4> SUFFICES ASSUME NEW x \in ClientIds PROVE Answered(fromBroker'[x], x[1], executed)
        OBVIOUS
      <4>1. Answered(fromBroker[x], x[1], executed) /\ fromBroker[x] \in Seq(FromBroker)
        BY <1>4 DEF ExecutedInv
      <4>2. CASE x = r.client /\ fromBroker'[x] = Append(fromBroker[x], m)
        <5>1. Adds(fromBroker'[x], fromBroker[x], {m.cmd})
          BY <4>2 DEF Adds
        <5>2. <<x[1], m.n>> \in executed
          BY <1>5, <2>1, <3>3, <4>2
        <5>3. /\ Len(fromBroker[x]) \in Nat /\ DOMAIN fromBroker[x] = 1 .. Len(fromBroker[x])
              /\ DOMAIN fromBroker'[x] = 1 .. Len(fromBroker[x]) + 1
              /\ fromBroker'[x][Len(fromBroker[x]) + 1] = m
              /\ \A j \in 1 .. Len(fromBroker[x]) : fromBroker'[x][j] = fromBroker[x][j]
          BY <4>1, <4>2, AppendProperties, LenProperties
        <5>4. \A i \in DOMAIN fromBroker'[x] :
                  i \in DOMAIN fromBroker[x] \/ i = Len(fromBroker[x]) + 1
          BY <5>3
        <5>5. QED
          BY <4>1, <5>2, <5>3, <5>4 DEF Answered
      <4>3. QED
        BY <3>4, <4>1, <4>2
    <3>6. \A y \in WorkerIds : Replied(toBroker'[y], executed)
      <4>1. \A q2, q1, done : Part(q2, q1) /\ Replied(q1, done) => Replied(q2, done)
        BY DEF Part, Replied
      <4>2. \A y \in WorkerIds : Replied(toBroker[y], executed) /\ Part(toBroker'[y], toBroker[y])
        BY <1>2, <1>4 DEF ExecutedInv
      <4>3. QED
        BY <4>1, <4>2
    <3>7. \A x \in ClientIds : NoQuestion(toBroker'[x])
      BY <1>2, <1>4 DEF ExecutedInv, NoQuestion, Part
    <3>8. QED
      BY <1>1, <3>5, <3>6, <3>7 DEF ExecutedInv
  <2>5. QED
    BY <2>3, <2>4
<1>11. CASE BrokerBeaten(id)
  <2>1. id \in WorkerIds
    BY <1>8, <1>11 DEF BrokerBeaten, Takes, Said, r
  <2>2. UNCHANGED fromBroker \/ fromBroker' = Sent(fromBroker, id, Disconnect)
    BY <1>11 DEF BrokerBeaten, TurnAway
  <2>3. QED
    BY <1>6, <1>7, <2>1, <2>2
<1>12. CASE BrokerCall(id)
  <2>1. r.service \in Services
    BY <1>3, <1>12, ToBrokerTypes DEF BrokerCall, Takes, r
  <2> DEFINE s == r.service
  <2>2. PICK garbage \in Garbage :
           service_dispatch(s, Append(srv_requests[s], [client |-> id, n |-> r.n]), {},
               [srv_workers EXCEPT ![s] = Count(s, garbage)], fromBroker)
    BY <1>12 DEF BrokerCall, r
  <2>3. s \in Services /\ {} \in SUBSET WorkerIds
    BY <2>1
  <2> HIDE DEF s
  <2>4. QED
    BY <1>6, <2>2, <2>3, DispatchAnswersNone
<1>13. CASE BrokerMmi(id)
  <2>1. r.cmd = "MMI"
    BY <1>13 DEF BrokerMmi, r
  <2>2. QED
    BY <1>2, <1>4, <1>5, <2>1 DEF Said
<1>14. QED
  BY <1>9, <1>10, <1>11, <1>12, <1>13 DEF BrokerTakes

LEMMA ServiceInitial == Init => ExecutedInv
  BY DEF Init, ExecutedInv, Replied, Answered, NoQuestion, Ids

LEMMA BrokerBeatsService ==
    ASSUME IInv, WorkersInv, ExecutedInv, BrokerBeats, UNCHANGED peerVars
    PROVE  ExecutedInv'
<1>1. UNCHANGED <<executed, toBroker>>
  BY DEF BrokerBeats, peerVars
<1>2. m_waiting' \subseteq WorkerIds
  BY DEF BrokerBeats, IInv, Lists, Tables, ListsAgree, WorkersInv, Unused, Ids
<1>3. \A x \in ClientIds : fromBroker'[x] = fromBroker[x]
  BY <1>2, BrokerAssumption DEF BrokerBeats, ClientIds, WorkerIds, Ids
<1>4. QED
  BY <1>1, <1>3, SamePart, PartAdds, QuietService

LEMMA FailsService ==
    ASSUME IInv, ExecutedInv, Tick \/ BrokerDies \/ BrokerRestarts
                              \/ \E id \in Ids : BrokerLoses(id),
           UNCHANGED peerVars
    PROVE  ExecutedInv'
<1>1. UNCHANGED executed
  BY DEF peerVars
<1>2. \A id \in Ids : Part(toBroker'[id], toBroker[id]) /\ Part(fromBroker'[id], fromBroker[id])
  BY FailsParts
<1>3. QED
  BY <1>1, <1>2, PartAdds, QuietService DEF Ids

LEMMA WorkerService ==
    ASSUME IInv, ExecutedInv, NEW w \in Workers, WorkerStep(w)
    PROVE  ExecutedInv'
<1>1. PICK id \in WorkerIds : id = Id(w)
  BY WorkerIdTyped DEF IInv, PeersInv
<1>2. /\ \A x \in ClientIds : x \in Ids /\ x \notin WorkerIds
      /\ \A y \in WorkerIds : y \in Ids
      /\ toBroker \in [Ids -> Seq(ToBroker)] /\ fromBroker \in [Ids -> Seq(FromBroker)]
      /\ session \in [Peers -> Nat] /\ w \in Peers
  BY BrokerAssumption DEF Ids, WorkerIds, ClientIds, IInv, Queues, PeersInv, Sessions, Peers
\* The queues of clients are not touched.
<1>3. /\ \A x \in ClientIds : toBroker'[x] = toBroker[x] /\ fromBroker'[x] = fromBroker[x]
      /\ executed \subseteq executed'
  <2>1. executed \subseteq executed'
    BY DEF WorkerStep, WorkerStarts, WorkerTakes, WorkerReplies, WorkerTimesOut,
           WorkerBeats, WorkerDies
  <2>2. ASSUME WorkerConnects(w)
        PROVE  \A x \in ClientIds : toBroker'[x] = toBroker[x] /\ fromBroker'[x] = fromBroker[x]
    BY <2>2, ConnectsAdds
  <2>3. ASSUME ~WorkerConnects(w)
        PROVE  /\ toBroker' = toBroker \/ \E q : toBroker' = [toBroker EXCEPT ![id] = q]
               /\ fromBroker' = fromBroker \/ \E q : fromBroker' = [fromBroker EXCEPT ![id] = q]
    BY <1>1, <2>3 DEF WorkerStep, WorkerStarts, WorkerTakes, WorkerReplies, WorkerTimesOut,
                      WorkerBeats, WorkerDies, Sends, Closes, queues
  <2>4. QED
    BY <1>2, <2>1, <2>2, <2>3
<1>4. ASSUME \A y \in WorkerIds : Adds(toBroker'[y], toBroker[y], {"READY", "HEARTBEAT"})
      PROVE  ExecutedInv'
  BY <1>3, <1>4, SamePart, PartAdds, QuietService
<1>5. CASE WorkerConnects(w)
  BY <1>4, <1>5, ConnectsAdds
<1>6. CASE WorkerReplies(w)
  <2> DEFINE m == Reply(request[w])
  <2>1. /\ toBroker' = [toBroker EXCEPT ![id] = Append(@, m)]
        /\ executed' = executed \union {<<request[w].client[1], request[w].n>>}
    BY <1>1, <1>6 DEF WorkerReplies, Sends
  <2>2. <<m.client[1], m.n>> \in executed'
    BY <2>1 DEF Reply
  <2> HIDE DEF m
  <2>3. ASSUME NEW y \in WorkerIds PROVE Replied(toBroker'[y], executed')
    <3>1. Replied(toBroker[y], executed) /\ toBroker[y] \in Seq(ToBroker)
      BY <1>2 DEF ExecutedInv
    <3>2. CASE y # id
      BY <1>2, <1>3, <2>1, <3>1, <3>2 DEF Replied
    <3>3. CASE y = id
      <4>1. /\ Len(toBroker[y]) \in Nat /\ DOMAIN toBroker[y] = 1 .. Len(toBroker[y])
            /\ DOMAIN toBroker'[y] = 1 .. Len(toBroker[y]) + 1
            /\ toBroker'[y][Len(toBroker[y]) + 1] = m
            /\ \A j \in 1 .. Len(toBroker[y]) : toBroker'[y][j] = toBroker[y][j]
        BY <1>2, <2>1, <3>1, <3>3, AppendProperties, LenProperties
      <4>2. \A i \in DOMAIN toBroker'[y] : i \in DOMAIN toBroker[y] \/ i = Len(toBroker[y]) + 1
        BY <4>1
      <4>3. QED
        BY <1>3, <2>2, <3>1, <4>1, <4>2 DEF Replied
    <3>4. QED
      BY <3>2, <3>3
  <2>4. QED
    BY <1>3, <2>3 DEF ExecutedInv, Answered
<1>7. CASE ~WorkerConnects(w) /\ ~WorkerReplies(w)
  <2>1. \/ toBroker' = toBroker
        \/ toBroker' = [toBroker EXCEPT ![id] = Append(@, Heartbeat)]
        \/ \E kept \in Received(w) : toBroker' = [toBroker EXCEPT ![id] = SubSeq(@, 1, kept)]
    BY <1>1, <1>7 DEF WorkerStep, WorkerStarts, WorkerTakes, WorkerTimesOut, WorkerBeats,
                      WorkerDies, Sends, Closes, queues
  <2>2. Heartbeat.cmd \in {"READY", "HEARTBEAT"}
    BY DEF Heartbeat
  <2>3. \A kept \in Received(w) : Part(SubSeq(toBroker[id], 1, kept), toBroker[id])
    BY <1>1, <1>2, CutRequests
  <2>4. ASSUME NEW y \in WorkerIds
        PROVE  \/ toBroker'[y] = toBroker[y] \/ toBroker'[y] = Append(toBroker[y], Heartbeat)
               \/ Part(toBroker'[y], toBroker[y])
    BY <1>2, <2>1, <2>3
  <2>5. \A y \in WorkerIds : Adds(toBroker'[y], toBroker[y], {"READY", "HEARTBEAT"})
    BY <2>2, <2>4, SamePart DEF Adds
  <2>6. QED
    BY <1>4, <2>5
<1>8. QED
  BY <1>5, <1>6, <1>7

LEMMA ClientService ==
    ASSUME Askers = {}, IInv, ExecutedInv, NEW c \in Clients, ClientStep(c)
    PROVE  ExecutedInv'
<1>1. PICK x \in ClientIds : x = Id(c)
  BY ClientIdTyped DEF IInv, PeersInv
<1>2. /\ \A y \in ClientIds : y \in Ids /\ y \notin WorkerIds
      /\ \A y \in WorkerIds : y \in Ids
      /\ toBroker \in [Ids -> Seq(ToBroker)] /\ fromBroker \in [Ids -> Seq(FromBroker)]
      /\ c \in Peers /\ UNCHANGED executed
      /\ \A y \in WorkerIds : y[1] # c
  <2>1. UNCHANGED executed
    BY DEF ClientStep, ClientCalls, ClientTakes, ClientTimesOut
  <2>2. QED
    BY <2>1, BrokerAssumption DEF Ids, WorkerIds, ClientIds, IInv, Queues, Peers
<1>3. \A n : Call(c, n).cmd \in {"CALL"}
  BY DEF Call
<1>4. \A kept \in Received(c) : Part(SubSeq(toBroker[x], 1, kept), toBroker[x])
  BY <1>1, <1>2, CutRequests
<1>5. /\ \/ toBroker' = toBroker
         \/ \E n : toBroker' = [toBroker EXCEPT ![x] = Append(@, Call(c, n))]
         \/ \E kept \in Received(c) : toBroker' = [toBroker EXCEPT ![x] = SubSeq(@, 1, kept)]
         \/ \E n : \E kept \in Received(c) :
               toBroker' = [toBroker EXCEPT ![x] = SubSeq(@, 1, kept),
                                            ![<<c, session[c] + 1>>] = <<Call(c, n)>>]
      /\ \/ fromBroker' = fromBroker
         \/ fromBroker' = [fromBroker EXCEPT ![x] = <<>>]
         \/ fromBroker[x] # <<>> /\ fromBroker' = [fromBroker EXCEPT ![x] = Tail(@)]
  <2>1. CASE ClientCalls(c)
    BY <1>1, <2>1 DEF ClientCalls, Sends
  <2>2. CASE ClientTakes(c)
    BY <1>1, <2>2 DEF ClientTakes
  <2>3. CASE ClientTimesOut(c)
    BY <1>1, <2>3 DEF ClientTimesOut, Reconnects, Closes
  <2>4. QED
    BY <2>1, <2>2, <2>3 DEF ClientStep
<1>6. ASSUME NEW y \in ClientIds PROVE Part(fromBroker'[y], fromBroker[y])
  <2>1. \/ fromBroker'[y] = fromBroker[y] \/ fromBroker'[y] = <<>>
        \/ fromBroker[y] # <<>> /\ fromBroker'[y] = Tail(fromBroker[y])
    BY <1>2, <1>5
  <2>2. fromBroker[y] \in Seq(FromBroker)
    BY <1>2
  <2>3. QED
    BY <2>1, <2>2, SamePart, EmptyPart, TailPart
<1>7. \A y \in WorkerIds : toBroker'[y] = toBroker[y]
  <2>1. \A y \in WorkerIds : y # x /\ y # <<c, session[c] + 1>>
    BY <1>2
  <2>2. QED
    BY <1>2, <1>5, <2>1
<1>8. ASSUME NEW y \in ClientIds PROVE Adds(toBroker'[y], toBroker[y], {"CALL"})
  <2>1. \/ toBroker'[y] = toBroker[y] \/ Part(toBroker'[y], toBroker[y])
        \/ \E n : \/ toBroker'[y] = Append(toBroker[y], Call(c, n))
                  \/ toBroker'[y] = <<Call(c, n)>>
    <3>1. \/ toBroker'[y] = toBroker[y]
          \/ \E kept \in Received(c) : y = x /\ toBroker'[y] = SubSeq(toBroker[y], 1, kept)
          \/ \E n : \/ toBroker'[y] = Append(toBroker[y], Call(c, n))
                    \/ toBroker'[y] = <<Call(c, n)>>
      BY <1>2, <1>5
    <3>2. QED
      BY <1>4, <3>1
  <2>2. QED
    BY <1>3, <2>1, SamePart DEF Adds
<1>9. QED
  BY <1>2, <1>6, <1>7, <1>8, SamePart, PartAdds, QuietService

LEMMA ServiceInductive ==
    ASSUME Internal = {}, Askers = {}
    PROVE  IInv /\ WorkersInv /\ RequestsInv /\ ExecutedInv /\ [Next]_vars => ExecutedInv'
<1> SUFFICES ASSUME IInv, WorkersInv, RequestsInv, ExecutedInv, [Next]_vars PROVE ExecutedInv'
  OBVIOUS
<1>1. CASE BrokerStep
  <2>1. UNCHANGED peerVars
    BY <1>1 DEF BrokerStep
  <2>2. QED
    BY <1>1, <2>1, TakesService, BrokerBeatsService, FailsService DEF BrokerStep
<1>2. CASE BrokerFails
  BY <1>2, FailsService DEF BrokerFails
<1>3. CASE \E w \in Workers : WorkerStep(w)
  BY <1>3, WorkerService
<1>4. CASE \E c \in Clients : ClientStep(c)
  BY <1>4, ClientService
<1>5. CASE UNCHANGED vars
  <2>1. UNCHANGED <<executed, toBroker, fromBroker>>
    BY <1>5 DEF vars, brokerVars, queues
  <2>2. QED
    BY <2>1, SamePart, PartAdds, QuietService
<1>6. QED
  BY <1>1, <1>2, <1>3, <1>4, <1>5 DEF Next

\* Every step is one of the service, or changes nothing of it.
LEMMA Simulates ==
    IInv /\ RequestsInv /\ ExecutedInv /\ [Next]_vars => [Service!Next]_(Service!vars)
<1> SUFFICES ASSUME IInv, RequestsInv, ExecutedInv, [Next]_vars
             PROVE  [Service!Next]_(Service!vars)
  OBVIOUS
<1>1. ASSUME UNCHANGED <<asked, cstate, executed>> PROVE [Service!Next]_(Service!vars)
  BY <1>1 DEF Service!vars
<1>2. CASE BrokerStep \/ BrokerFails
  <2>1. UNCHANGED peerVars
    BY <1>2 DEF BrokerStep, BrokerFails
  <2>2. QED
    BY <1>1, <2>1 DEF peerVars, clientVars
<1>3. ASSUME NEW w \in Workers, WorkerStep(w) PROVE [Service!Next]_(Service!vars)
  <2>1. CASE WorkerReplies(w)
    <3>1. request[w] \in Made
      BY <2>1 DEF WorkerReplies, RequestsInv, AllMade
    <3>2. PICK c \in Clients : c = request[w].client[1]
      BY <3>1 DEF Made, ClientIds
    <3>3. request[w].n \in 1 .. asked[c]
      BY <3>1, <3>2 DEF Made
    <3>4. /\ executed' = executed \union {<<c, request[w].n>>}
          /\ UNCHANGED <<asked, cstate>>
      BY <2>1, <3>2 DEF WorkerReplies, clientVars
    <3>5. Service!Execute(c)
      BY <3>3, <3>4 DEF Service!Execute
    <3>6. QED
      BY <3>5 DEF Service!Next
  <2>2. CASE ~WorkerReplies(w)
    <3>1. UNCHANGED <<asked, cstate, executed>>
      BY <1>3, <2>2 DEF WorkerStep, WorkerStarts, WorkerTakes, WorkerTimesOut,
                        WorkerBeats, WorkerDies, clientVars
    <3>2. QED
      BY <1>1, <3>1
  <2>3. QED
    BY <2>1, <2>2
<1>4. ASSUME NEW c \in Clients, ClientStep(c) PROVE [Service!Next]_(Service!vars)
  <2>1. CASE ClientCalls(c)
    <3>1. Service!Ask(c)
      BY <2>1 DEF ClientCalls, Service!Ask
    <3>2. QED
      BY <3>1 DEF Service!Next
  <2>2. CASE ClientTakes(c)
    <3>1. PICK x \in ClientIds : x = Id(c)
      BY ClientIdTyped DEF IInv, PeersInv
    <3>2. x[1] = c /\ x[2] = session[c] /\ fromBroker[x] # <<>>
      BY <2>2, <3>1 DEF ClientTakes, Id
    <3>3. fromBroker[x] \in Seq(FromBroker)
      BY DEF IInv, Queues, Ids
    <3>4. 1 \in DOMAIN fromBroker[x]
      <4>1. Len(fromBroker[x]) \in Nat \ {0} /\ DOMAIN fromBroker[x] = 1 .. Len(fromBroker[x])
        BY <3>2, <3>3, LenProperties, EmptySeq
      <4>2. QED
        BY <4>1
    <3>5. [client |-> x, n |-> fromBroker[x][1].n] \in Made
      BY <3>4 DEF RequestsInv, AllMade, ClientQueue
    <3>6. fromBroker[x][1].n = asked[c]
      BY <3>2, <3>5 DEF Made
    <3>7. <<c, asked[c]>> \in executed
      BY <3>2, <3>4, <3>6 DEF ExecutedInv, Answered
    <3>8. Service!Answer(c)
      BY <2>2, <3>7 DEF ClientTakes, Service!Answer
    <3>9. QED
      BY <3>8 DEF Service!Next
  <2>3. CASE ClientTimesOut(c)
    <3>1. CASE UNCHANGED cstate
      BY <1>1, <2>3, <3>1 DEF ClientTimesOut
    <3>2. CASE ~UNCHANGED cstate
      <4>1. Service!Abandon(c)
        BY <2>3, <3>2 DEF ClientTimesOut, Service!Abandon
      <4>2. QED
        BY <4>1 DEF Service!Next
    <3>3. QED
      BY <3>1, <3>2
  <2>4. QED
    BY <1>4, <2>1, <2>2, <2>3 DEF ClientStep
<1>5. CASE UNCHANGED vars
  BY <1>1, <1>5 DEF vars, clientVars
<1>6. QED
  BY <1>2, <1>3, <1>4, <1>5 DEF Next

\* The broker, the workers and the clients together implement the service: a
\* client gets an answer only if some worker has executed that very call, and
\* a call ends with it or is given up, for any number of them, whatever is lost
\* or killed.  Nobody may ask mmi.service and no name may pass for internal:
\* those answers are the broker's own (service_internal).
THEOREM ServiceImplemented ==
    ASSUME Internal = {}, Askers = {}
    PROVE  Spec => ImplementsService
<1>1. Init => Service!Init
  BY DEF Init, Service!Init
<1>2. QED
  BY <1>1, Simulates, Initial, Inductive, WorkersInitial, WorkersInductive,
     RequestsInitial, RequestsInductive, ServiceInitial, ServiceInductive, PTL
     DEF Spec, ImplementsService, Service!Spec
=============================================================================
