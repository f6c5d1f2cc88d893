-------------------------- MODULE MajordomoBroker ---------------------------
(***************************************************************************)
(* The Majordomo broker, Common/zmq/example/mdbroker.cpp: one ROUTER       *)
(* socket, a table of services with queues of requests and waiting         *)
(* workers, heartbeats and expiry.                                         *)
(*                                                                         *)
(* Peers are addressed by identity.  Each socket a worker or client opens  *)
(* has an identity of its own (s_set_id), so an identity is a pair of a    *)
(* peer and the number of its socket; Majordomo.tla models the peers.      *)
(* ZeroMQ keeps one queue per identity and direction; what is sent to an   *)
(* identity without a socket is dropped.                                   *)
(*                                                                         *)
(* The std::list service::m_waiting is modelled as a set: its order only   *)
(* decides between workers of equal expiry, and OneRequestAtATime of       *)
(* Majordomo.tla shows that nothing is put into it twice.                  *)
(***************************************************************************)
EXTENDS Naturals, Sequences, FiniteSets

CONSTANTS
    Workers, Clients,
    Services,    \* service names
    Internal,    \* those that find_first_of("mmi.") == 0 takes for internal
    Expiry,      \* HEARTBEAT_LIVENESS: heartbeat intervals an idle worker lives
    Garbage,     \* values of service::m_workers before anything is counted
    MaxWorkerSockets, MaxClientSockets   \* bound: sockets each of them opens

ASSUME BrokerAssumption ==
    /\ Workers \intersect Clients = {}
    /\ IsFiniteSet(Workers) /\ IsFiniteSet(Clients)
    /\ Internal \subseteq Services
    /\ Expiry \in Nat \ {0}
    /\ MaxWorkerSockets \in Nat /\ MaxClientSockets \in Nat \ {0}
    /\ Garbage \subseteq Nat /\ Garbage # {}

\* <<p, 0>> stands for a peer without a socket and is never connected.
Peers     == Workers \union Clients
WorkerIds == Workers \X (0 .. MaxWorkerSockets)
ClientIds == Clients \X (0 .. MaxClientSockets)
Ids       == WorkerIds \union ClientIds

NoService == "no service"

\* What peers send; a call and its answer carry the number of the request.
ToBroker ==
    [cmd : {"READY"}, service : Services]
        \union [cmd : {"HEARTBEAT"}]
        \union [cmd : {"REPLY"}, client : Ids, n : Nat]
        \union [cmd : {"CALL", "MMI"}, service : Services, n : Nat]
FromBroker ==
    [cmd : {"HEARTBEAT", "DISCONNECT"}]
        \union [cmd : {"REQUEST"}, client : Ids, n : Nat]
        \union [cmd : {"ANSWER"}, code : {"done", "200", "404", "501"}, n : Nat]
Heartbeat  == [cmd |-> "HEARTBEAT"]
Disconnect == [cmd |-> "DISCONNECT"]
Request(r) == [cmd |-> "REQUEST", client |-> r.client, n |-> r.n]
Answer(code, n) == [cmd |-> "ANSWER", code |-> code, n |-> n]

VARIABLES
    broker,        \* "running", "down" (killed) or "aborted" (exception)
    services,      \* keys of m_services
    srv_requests,  \* service::m_requests
    srv_waiting,   \* service::m_waiting
    srv_workers,   \* service::m_workers, the count
    m_workers,     \* keys of broker::m_workers
    m_service,     \* worker::m_service
    m_expiry,      \* worker::m_expiry, as intervals that are left
    m_waiting,     \* broker::m_waiting
    connected,     \* identities whose socket is open
    toBroker, fromBroker   \* a queue for each identity

tables     == <<services, srv_requests, srv_waiting, srv_workers, m_workers,
                m_service, m_expiry, m_waiting>>
queues     == <<toBroker, fromBroker>>
brokerVars == <<broker, tables, connected, queues>>

BrokerTypeOK ==
    /\ broker \in {"running", "down", "aborted"}
    /\ services \subseteq Services
    /\ srv_requests \in [Services -> Seq([client : Ids, n : Nat])]
    /\ srv_waiting \in [Services -> SUBSET Ids]
    /\ srv_workers \in [Services -> Nat]
    /\ m_workers \subseteq Ids
    /\ m_service \in [Ids -> Services \union {NoService}]
    /\ m_expiry \in [Ids -> 0 .. Expiry]
    /\ m_waiting \subseteq Ids
    /\ connected \subseteq Ids
    /\ toBroker \in [Ids -> Seq(ToBroker)]
    /\ fromBroker \in [Ids -> Seq(FromBroker)]

EmptyTables ==
    /\ services = {}
    /\ srv_requests = [s \in Services |-> <<>>]
    /\ srv_waiting = [s \in Services |-> {}]
    /\ srv_workers = [s \in Services |-> 0]
    /\ m_workers = {} /\ m_waiting = {}
    /\ m_service = [id \in Ids |-> NoService]
    /\ m_expiry = [id \in Ids |-> 0]

-----------------------------------------------------------------------------
(* The member functions.                                                   *)

\* A message into the queue of id, or into nothing.
Sent(qs, id, m) ==
    IF id \in connected THEN [qs EXCEPT ![id] = Append(@, m)] ELSE qs

\* purge_workers: idle workers whose time is over.
Expired == {id \in m_waiting : m_expiry[id] = 0}

\* The count of service s after service_require(s): the constructor of a new
\* service leaves it unassigned.
Count(s, garbage) == IF s \in services THEN srv_workers[s] ELSE garbage

\* Mutant: a deleted worker is still counted.
Uncounted_not(counts, ids) == counts

\* worker_delete of several workers, in the counts of their services.
Uncounted(counts, ids) ==
    [s \in Services |->
        counts[s] - Cardinality({id \in ids : m_service[id] = s})]

\* The workers service_dispatch picks one after the other, k of them: each
\* is the one with the latest expiry of those left.
Picks(idle, k, expiry) ==
    {pick \in [1 .. k -> idle] :
        /\ \A i, j \in 1 .. k : i # j => pick[i] # pick[j]
        /\ \A i \in 1 .. k : \A id \in idle :
               expiry[id] > expiry[pick[i]] => \E j \in 1 .. i : pick[j] = id}

AtMost(m, n) == IF m <= n THEN m ELSE n

\* service_dispatch(s) on its queue of requests, after the workers in joining
\* (one or none) were put on the waiting lists with a fresh expiry.  First
\* purge_workers, then requests go to workers while there are both.  counts
\* and qs are the service counts and the outgoing queues before it.
service_dispatch(s, requests, joining, counts, qs) ==
    LET gone == Expired \ joining
        idle == (srv_waiting[s] \union joining) \ gone
        k    == AtMost(Cardinality(idle), Len(requests))
    IN /\ m_expiry' = [id \in Ids |-> IF id \in joining THEN Expiry
                                      ELSE m_expiry[id]]
       /\ m_service' = [id \in Ids |-> IF id \in joining THEN s
                                       ELSE IF id \in gone THEN NoService
                                       ELSE m_service[id]]
       /\ \E pick \in Picks(idle, k, m_expiry') :
           LET busy == {pick[i] : i \in 1 .. k}
           IN /\ srv_requests' = [srv_requests EXCEPT ![s] =
                     SubSeq(requests, k + 1, Len(requests))]
              /\ srv_waiting' = [t \in Services |->
                     IF t = s THEN idle \ busy ELSE srv_waiting[t] \ gone]
              /\ m_waiting' = ((m_waiting \union joining) \ gone) \ busy
              /\ fromBroker' = [id \in Ids |->
                     IF id \in busy \intersect connected
                     THEN Append(qs[id],
                            Request(requests[CHOOSE i \in 1 .. k : pick[i] = id]))
                     ELSE qs[id]]
       /\ m_workers' = (m_workers \union joining) \ gone
       /\ srv_workers' = Uncounted(counts, gone)

\* worker_delete(wrk, disconnect) of a worker the broker knows.
worker_delete(id) ==
    /\ fromBroker' = Sent(fromBroker, id, Disconnect)
    /\ srv_waiting' = [s \in Services |-> srv_waiting[s] \ {id}]
    /\ srv_workers' = Uncounted(srv_workers, {id})
    /\ m_waiting' = m_waiting \ {id}
    /\ m_workers' = m_workers \ {id}
    /\ m_service' = [m_service EXCEPT ![id] = NoService]
    /\ m_expiry' = [m_expiry EXCEPT ![id] = 0]
    /\ UNCHANGED <<services, srv_requests>>

\* Mutant: the wrong command.
TurnAway_with_heartbeat(id) ==
    /\ fromBroker' = Sent(fromBroker, id, Heartbeat)
    /\ UNCHANGED tables

\* A worker the broker does not know is created, told to disconnect and
\* deleted in one go.
TurnAway(id) ==
    /\ fromBroker' = Sent(fromBroker, id, Disconnect)
    /\ UNCHANGED tables

\* The message of id the broker takes from its socket.
Takes(id, cmd) ==
    /\ broker = "running"
    /\ toBroker[id] # <<>>
    /\ Head(toBroker[id]).cmd = cmd
    /\ toBroker' = [toBroker EXCEPT ![id] = Tail(@)]
    /\ UNCHANGED <<broker, connected>>

\* worker_process, READY: the first word of a session attaches the worker to
\* its service.  Said again it ends the session, but the workers here say it
\* once on each socket.
BrokerReady(id) ==
    /\ Takes(id, "READY")
    /\ LET s == Head(toBroker[id]).service
       IN IF id \in m_workers
          THEN worker_delete(id)
          ELSE /\ services' = services \union {s}
               /\ \E garbage \in Garbage :
                      service_dispatch(s, srv_requests[s], {id},
                          [srv_workers EXCEPT ![s] = Count(s, garbage) + 1],
                          fromBroker)

\* Mutant: the worker is not put back.
BrokerReply_not_waiting(id) ==
    /\ Takes(id, "REPLY")
    /\ LET r == Head(toBroker[id])
       IN IF id \in m_workers
          THEN /\ fromBroker' = Sent(fromBroker, r.client, Answer("done", r.n))
               /\ UNCHANGED tables
          ELSE TurnAway(id)

\* worker_process, REPLY: pass the answer on, the worker waits again.
BrokerReply(id) ==
    /\ Takes(id, "REPLY")
    /\ LET r == Head(toBroker[id])
       IN \/ /\ id \in m_workers
             /\ service_dispatch(m_service[id], srv_requests[m_service[id]],
                    {id}, srv_workers,
                    Sent(fromBroker, r.client, Answer("done", r.n)))
             /\ UNCHANGED services
          \/ /\ id \notin m_workers
             /\ TurnAway(id)

\* Mutant: a heartbeat makes the worker wait.
BrokerBeaten_waits(id) ==
    /\ Takes(id, "HEARTBEAT")
    /\ IF id \in m_workers
       THEN /\ service_dispatch(m_service[id], srv_requests[m_service[id]],
                   {id}, srv_workers, fromBroker)
            /\ UNCHANGED services
       ELSE TurnAway(id)

\* worker_process, HEARTBEAT.
BrokerBeaten(id) ==
    /\ Takes(id, "HEARTBEAT")
    /\ \/ /\ id \in m_workers
          /\ m_expiry' = [m_expiry EXCEPT ![id] = Expiry]
          /\ UNCHANGED <<services, srv_requests, srv_waiting, srv_workers,
                         m_workers, m_service, m_waiting, fromBroker>>
       \/ /\ id \notin m_workers
          /\ TurnAway(id)

\* Mutant: requests are dispatched only when a worker comes to wait.
BrokerCall_queues(id) ==
    /\ Takes(id, "CALL")
    /\ LET r == Head(toBroker[id])
       IN /\ services' = services \union {r.service}
          /\ srv_requests' = [srv_requests EXCEPT ![r.service] =
                                 Append(@, [client |-> id, n |-> r.n])]
    /\ UNCHANGED <<srv_workers, srv_waiting, m_workers, m_service, m_expiry,
                   m_waiting, fromBroker>>

\* Mutant: a service nobody waits for refuses the request.
BrokerCall_refuses(id) ==
    /\ Takes(id, "CALL")
    /\ LET r == Head(toBroker[id])
       IN IF srv_waiting[r.service] = {}
          THEN /\ fromBroker' = Sent(fromBroker, id, Answer("404", r.n))
               /\ UNCHANGED tables
          ELSE /\ service_dispatch(r.service,
                      Append(srv_requests[r.service],
                             [client |-> id, n |-> r.n]),
                      {}, srv_workers, fromBroker)
               /\ UNCHANGED services

\* client_process.  The request is queued under the address of its client;
\* for a name that passes for internal, service_internal answers 501.
BrokerCall(id) ==
    /\ Takes(id, "CALL")
    /\ LET r == Head(toBroker[id])
           s == r.service
       IN /\ services' = services \union {s}
          /\ \E garbage \in Garbage :
              LET counts == [srv_workers EXCEPT ![s] = Count(s, garbage)]
              IN IF s \in Internal
                 THEN /\ fromBroker' = Sent(fromBroker, id, Answer("501", r.n))
                      /\ srv_workers' = counts
                      /\ UNCHANGED <<srv_requests, srv_waiting, m_workers,
                                     m_service, m_expiry, m_waiting>>
                 ELSE service_dispatch(s,
                          Append(srv_requests[s], [client |-> id, n |-> r.n]),
                          {}, counts, fromBroker)

\* service_internal for mmi.service: does anybody work for that service?
\* m_services.at throws for a name the broker has never seen.
BrokerMmi(id) ==
    /\ broker = "running"
    /\ toBroker[id] # <<>>
    /\ Head(toBroker[id]).cmd = "MMI"
    /\ toBroker' = [toBroker EXCEPT ![id] = Tail(@)]
    /\ UNCHANGED connected
    /\ LET r == Head(toBroker[id])
       IN \/ /\ r.service \in services
             /\ fromBroker' = Sent(fromBroker, id,
                    Answer(IF srv_workers[r.service] # 0 THEN "200" ELSE "404",
                           r.n))
             /\ UNCHANGED <<broker, tables>>
          \/ /\ r.service \notin services
             /\ broker' = "aborted"
             /\ UNCHANGED <<tables, fromBroker>>

\* Mutants: no purge; a purge of the broker's list only.
BrokerBeats_keeps ==
    /\ broker = "running"
    /\ \A id \in m_waiting : fromBroker[id] = <<>>
    /\ fromBroker' = [id \in Ids |->
           IF id \in m_waiting \intersect connected
           THEN Append(fromBroker[id], Heartbeat)
           ELSE fromBroker[id]]
    /\ UNCHANGED <<broker, tables, connected, toBroker>>

BrokerBeats_half ==
    /\ broker = "running"
    /\ \A id \in m_waiting : fromBroker[id] = <<>>
    /\ m_waiting' = m_waiting \ Expired
    /\ m_workers' = m_workers \ Expired
    /\ UNCHANGED <<broker, services, srv_requests, srv_waiting, srv_workers,
                   m_service, m_expiry, connected, queues>>

\* The end of an iteration of start_brokering, when a heartbeat is due: purge,
\* then a heartbeat to every idle worker.  Bound: not before they have taken
\* the last one.
BrokerBeats ==
    /\ broker = "running"
    /\ \A id \in m_waiting : fromBroker[id] = <<>>
    /\ m_waiting' = m_waiting \ Expired
    /\ m_workers' = m_workers \ Expired
    /\ srv_waiting' = [s \in Services |-> srv_waiting[s] \ Expired]
    /\ srv_workers' = Uncounted(srv_workers, Expired)
    /\ m_service' = [id \in Ids |-> IF id \in Expired THEN NoService
                                    ELSE m_service[id]]
    /\ fromBroker' = [id \in Ids |->
           IF id \in m_waiting' \intersect connected
           THEN Append(fromBroker[id], Heartbeat)
           ELSE fromBroker[id]]
    /\ UNCHANGED <<broker, services, srv_requests, m_expiry, connected,
                   toBroker>>

\* A heartbeat interval passes.
Tick ==
    /\ broker = "running"
    /\ \E id \in m_workers : m_expiry[id] > 0
    /\ m_expiry' = [id \in Ids |-> IF m_expiry[id] > 0 THEN m_expiry[id] - 1
                                   ELSE 0]
    /\ UNCHANGED <<broker, services, srv_requests, srv_waiting, srv_workers,
                   m_workers, m_service, m_waiting, connected, queues>>

\* The broker is killed and started again.  What closed sockets had sent dies
\* with it.  While it is down every other queue may lose messages: of what was
\* sent to it the oldest, which it had received, of what it sent the latest,
\* which had not arrived.
BrokerDies ==
    /\ broker = "running"
    /\ broker' = "down"
    /\ services' = {}
    /\ srv_requests' = [s \in Services |-> <<>>]
    /\ srv_waiting' = [s \in Services |-> {}]
    /\ srv_workers' = [s \in Services |-> 0]
    /\ m_workers' = {} /\ m_waiting' = {}
    /\ m_service' = [id \in Ids |-> NoService]
    /\ m_expiry' = [id \in Ids |-> 0]
    /\ toBroker' = [id \in Ids |-> IF id \in connected THEN toBroker[id]
                                   ELSE <<>>]
    /\ UNCHANGED <<connected, fromBroker>>

BrokerLoses(id) ==
    /\ broker = "down"
    /\ \/ /\ toBroker[id] # <<>>
          /\ toBroker' = [toBroker EXCEPT ![id] = Tail(@)]
          /\ UNCHANGED fromBroker
       \/ /\ fromBroker[id] # <<>>
          /\ fromBroker' = [fromBroker EXCEPT ![id] =
                                SubSeq(@, 1, Len(@) - 1)]
          /\ UNCHANGED toBroker
    /\ UNCHANGED <<broker, tables, connected>>

BrokerRestarts ==
    /\ broker = "down"
    /\ broker' = "running"
    /\ UNCHANGED <<tables, connected, queues>>

BrokerTakes(id) ==
    \/ BrokerReady(id) \/ BrokerReply(id) \/ BrokerBeaten(id)
    \/ BrokerCall(id) \/ BrokerMmi(id)

-----------------------------------------------------------------------------

\* The two waiting lists of a worker, the broker's and its service's, agree,
\* and only workers the broker knows are on them (worker_waiting,
\* service_dispatch and worker_delete change them one after the other).
ListsAgree ==
    /\ m_waiting \subseteq m_workers
    /\ \A s \in Services :
           srv_waiting[s] = {id \in m_waiting : m_service[id] = s}

\* No service has a request and a worker waiting at the same time, although
\* the lists change in READY, REPLY, request and purge alike, and a purge
\* during the dispatch of one service changes the lists of the others.
NobodyWaitsForNothing ==
    \A s \in Services : srv_requests[s] = <<>> \/ srv_waiting[s] = {}

\* mdbroker.cpp:50 "How many workers we have": what mmi.service answers from.
WorkersCounted ==
    \A s \in Services :
        srv_workers[s] = Cardinality({id \in m_workers : m_service[id] = s})

\* A query does not end the broker (mdbroker.cpp:182 "Handle internal
\* service according to 8/MMI specification").
QueriesAreAnswered == broker # "aborted"
=============================================================================
