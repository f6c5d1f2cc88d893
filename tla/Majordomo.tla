------------------------------ MODULE Majordomo -----------------------------
(***************************************************************************)
(* The Majordomo broker with its workers (mdworker.cpp over mdwrkapi.hpp)  *)
(* and clients (mdclient.cpp over mdcliapi.hpp).                           *)
(*                                                                         *)
(* Workers and clients are processes with one socket at a time.  Opening a *)
(* new one starts a new session under a new identity; closing the old one  *)
(* throws away what it had not sent (ZMQ_LINGER 0) and had not read.       *)
(* Delays are arbitrary: a poll may time out whatever is on its way.       *)
(***************************************************************************)
EXTENDS MajordomoBroker

CONSTANTS
    Serves,      \* the service each worker is started for
    Wants,       \* the service each client calls, or asks about
    Askers,      \* clients that ask mmi.service instead of calling
    Liveness,    \* HEARTBEAT_LIVENESS of mdwrkapi.hpp
    Retries,     \* m_retries of mdcliapi.hpp
    MaxCalls,    \* bound: calls a client makes
    MaxCrashes   \* bound: processes that are killed

ASSUME PeersAssumption ==
    /\ Serves \in [Workers -> Services] /\ Wants \in [Clients -> Services]
    /\ Askers \subseteq Clients
    /\ Liveness \in Nat \ {0} /\ Retries \in Nat \ {0}
    /\ MaxCalls \in Nat /\ MaxCrashes \in Nat

VARIABLES
    session,       \* number of each peer's socket; 0 before the first
    wstate,        \* "off", "idle" (in recv) or "busy" (between two calls of it)
    m_liveness,    \* worker: time-outs left
    request,       \* worker: the request in hand
    cstate,        \* "ready" to call, "waiting" in send, or "failed"
    asked,         \* client: number of its latest call
    retries_left,
    executed,      \* history: calls some worker has executed
    crashes

workerVars == <<wstate, m_liveness, request>>
clientVars == <<cstate, asked, retries_left>>
vars == <<brokerVars, session, workerVars, clientVars, executed, crashes>>

Id(p) == <<p, session[p]>>
MaxSockets(p) == IF p \in Workers THEN MaxWorkerSockets ELSE MaxClientSockets

NoRequest == [client |-> <<"nobody", 0>>, n |-> 0]

TypeOK ==
    /\ BrokerTypeOK
    /\ session \in [Peers -> Nat] /\ \A p \in Peers : Id(p) \in Ids
    /\ wstate \in [Workers -> {"off", "idle", "busy"}]
    /\ m_liveness \in [Workers -> 1 .. Liveness]
    /\ request \in [Workers -> [client : Ids, n : Nat] \union {NoRequest}]
    /\ cstate \in [Clients -> {"ready", "waiting", "failed"}]
    /\ asked \in [Clients -> 0 .. MaxCalls]
    /\ retries_left \in [Clients -> 0 .. Retries]
    /\ executed \subseteq Clients \X Nat
    /\ crashes \in 0 .. MaxCrashes

\* The broker and the clients have opened their sockets, no worker has.
Init ==
    /\ broker = "running"
    /\ EmptyTables
    /\ session = [p \in Peers |-> IF p \in Clients THEN 1 ELSE 0]
    /\ connected = {<<c, 1>> : c \in Clients}
    /\ toBroker = [id \in Ids |-> <<>>]
    /\ fromBroker = [id \in Ids |-> <<>>]
    /\ wstate = [w \in Workers |-> "off"]
    /\ m_liveness = [w \in Workers |-> Liveness]
    /\ request = [w \in Workers |-> NoRequest]
    /\ cstate = [c \in Clients |-> "ready"]
    /\ asked = [c \in Clients |-> 0]
    /\ retries_left = [c \in Clients |-> Retries]
    /\ executed = {}
    /\ crashes = 0

\* How many of its messages on the way a running broker has already received
\* when peer p closes its socket.
Received(p) == 0 .. IF broker = "running" THEN Len(toBroker[Id(p)]) ELSE 0

\* Peer p closes its socket.
Closes(p) ==
    /\ \E kept \in Received(p) :
           toBroker' = [toBroker EXCEPT ![Id(p)] = SubSeq(@, 1, kept)]
    /\ fromBroker' = [fromBroker EXCEPT ![Id(p)] = <<>>]
    /\ connected' = connected \ {Id(p)}

\* connect_to_broker of either API: the old socket is deleted, a new one with
\* a new identity sends first.
Reconnects(p, first) ==
    /\ session[p] < MaxSockets(p)
    /\ session' = [session EXCEPT ![p] = @ + 1]
    /\ connected' = (connected \ {Id(p)}) \union {<<p, session[p] + 1>>}
    /\ \E kept \in Received(p) :
           toBroker' = [toBroker EXCEPT ![Id(p)] = SubSeq(@, 1, kept),
                                        ![<<p, session[p] + 1>>] = <<first>>]
    /\ fromBroker' = [fromBroker EXCEPT ![Id(p)] = <<>>]

Sends(p, m) ==
    /\ toBroker' = [toBroker EXCEPT ![Id(p)] = Append(@, m)]
    /\ UNCHANGED <<session, connected>>

-----------------------------------------------------------------------------
(* A worker.                                                               *)

Ready(w) == [cmd |-> "READY", service |-> Serves[w]]

WorkerConnects(w) ==
    /\ Reconnects(w, Ready(w))
    /\ m_liveness' = [m_liveness EXCEPT ![w] = Liveness]

\* mdworker is started, for the first time or again.
WorkerStarts(w) ==
    /\ wstate[w] = "off"
    /\ WorkerConnects(w)
    /\ wstate' = [wstate EXCEPT ![w] = "idle"]
    /\ UNCHANGED <<broker, tables, request, clientVars, executed, crashes>>

\* mdwrk::recv with a message.
WorkerTakes(w) ==
    /\ wstate[w] = "idle"
    /\ fromBroker[Id(w)] # <<>>
    /\ LET m == Head(fromBroker[Id(w)])
       IN \/ /\ m.cmd = "REQUEST"
             /\ request' = [request EXCEPT ![w] = [client |-> m.client, n |-> m.n]]
             /\ wstate' = [wstate EXCEPT ![w] = "busy"]
             /\ m_liveness' = [m_liveness EXCEPT ![w] = Liveness]
             /\ fromBroker' = [fromBroker EXCEPT ![Id(w)] = Tail(@)]
             /\ UNCHANGED <<session, connected, toBroker>>
          \/ /\ m.cmd = "HEARTBEAT"
             /\ m_liveness' = [m_liveness EXCEPT ![w] = Liveness]
             /\ fromBroker' = [fromBroker EXCEPT ![Id(w)] = Tail(@)]
             /\ UNCHANGED <<session, connected, toBroker, wstate, request>>
          \/ /\ m.cmd = "DISCONNECT"
             /\ WorkerConnects(w)
             /\ UNCHANGED <<wstate, request>>
    /\ UNCHANGED <<broker, tables, clientVars, executed, crashes>>

Reply(r) == [cmd |-> "REPLY", client |-> r.client, n |-> r.n]

\* The echo is made, and the next call of recv sends it.
WorkerReplies(w) ==
    /\ wstate[w] = "busy"
    /\ Sends(w, Reply(request[w]))
    /\ executed' = executed \union {<<request[w].client[1], request[w].n>>}
    /\ request' = [request EXCEPT ![w] = NoRequest]
    /\ wstate' = [wstate EXCEPT ![w] = "idle"]
    /\ UNCHANGED <<broker, tables, fromBroker, m_liveness, clientVars, crashes>>

\* The poll of recv times out; the last time-out gives the broker up.
WorkerTimesOut(w) ==
    /\ wstate[w] = "idle"
    /\ \/ /\ m_liveness[w] > 1
          /\ m_liveness' = [m_liveness EXCEPT ![w] = @ - 1]
          /\ UNCHANGED <<session, connected, queues>>
       \/ /\ m_liveness[w] = 1
          /\ WorkerConnects(w)
    /\ UNCHANGED <<broker, tables, wstate, request, clientVars, executed,
                   crashes>>

\* A heartbeat is due.  Bound: not while something it sent before waits,
\* or two messages wait for it.
WorkerBeats(w) ==
    /\ wstate[w] = "idle"
    /\ toBroker[Id(w)] = <<>> /\ Len(fromBroker[Id(w)]) < 2
    /\ Sends(w, Heartbeat)
    /\ UNCHANGED <<broker, tables, fromBroker, workerVars, clientVars,
                   executed, crashes>>

WorkerDies(w) ==
    /\ wstate[w] # "off" /\ crashes < MaxCrashes
    /\ crashes' = crashes + 1
    /\ wstate' = [wstate EXCEPT ![w] = "off"]
    /\ request' = [request EXCEPT ![w] = NoRequest]
    /\ Closes(w)
    /\ UNCHANGED <<broker, tables, session, m_liveness, clientVars, executed>>

-----------------------------------------------------------------------------
(* A client.                                                               *)

Call(c, n) ==
    [cmd |-> IF c \in Askers THEN "MMI" ELSE "CALL", service |-> Wants[c],
     n |-> n]

\* mdcli::send up to the first poll; mdclient calls it again and again, until
\* it returns nothing.
ClientCalls(c) ==
    /\ cstate[c] = "ready" /\ asked[c] < MaxCalls
    /\ asked' = [asked EXCEPT ![c] = @ + 1]
    /\ cstate' = [cstate EXCEPT ![c] = "waiting"]
    /\ retries_left' = [retries_left EXCEPT ![c] = Retries]
    /\ Sends(c, Call(c, asked[c] + 1))
    /\ UNCHANGED <<broker, tables, fromBroker, workerVars, executed, crashes>>

\* A reply arrives: it is returned as the answer, whatever it answers.
ClientTakes(c) ==
    /\ cstate[c] = "waiting"
    /\ fromBroker[Id(c)] # <<>>
    /\ fromBroker' = [fromBroker EXCEPT ![Id(c)] = Tail(@)]
    /\ cstate' = [cstate EXCEPT ![c] = "ready"]
    /\ UNCHANGED <<broker, tables, connected, toBroker, session, workerVars,
                   asked, retries_left, executed, crashes>>

\* Mutants: a retry on the same socket; a client that goes on after it gave up.
ClientTimesOut_same_socket(c) ==
    /\ cstate[c] = "waiting" /\ retries_left[c] > 1
    /\ retries_left' = [retries_left EXCEPT ![c] = @ - 1]
    /\ Sends(c, Call(c, asked[c]))
    /\ UNCHANGED <<broker, tables, fromBroker, cstate, workerVars, asked,
                   executed, crashes>>

ClientTimesOut_goes_on(c) ==
    /\ cstate[c] = "waiting"
    /\ retries_left' = [retries_left EXCEPT ![c] = @ - 1]
    /\ \/ /\ retries_left[c] > 1
          /\ Reconnects(c, Call(c, asked[c]))
          /\ UNCHANGED cstate
       \/ /\ retries_left[c] = 1
          /\ cstate' = [cstate EXCEPT ![c] = "ready"]
          /\ UNCHANGED <<session, connected, queues>>
    /\ UNCHANGED <<broker, tables, workerVars, asked, executed, crashes>>

\* A poll times out: the call is sent again on a new socket, or given up, and
\* mdclient ends.
ClientTimesOut(c) ==
    /\ cstate[c] = "waiting"
    /\ retries_left' = [retries_left EXCEPT ![c] = @ - 1]
    /\ \/ /\ retries_left[c] > 1
          /\ Reconnects(c, Call(c, asked[c]))
          /\ UNCHANGED cstate
       \/ /\ retries_left[c] = 1
          /\ cstate' = [cstate EXCEPT ![c] = "failed"]
          /\ Closes(c)
          /\ UNCHANGED session
    /\ UNCHANGED <<broker, tables, workerVars, asked, executed, crashes>>

-----------------------------------------------------------------------------

peerVars == <<session, workerVars, clientVars, executed>>

BrokerStep ==
    \/ \E id \in Ids : BrokerTakes(id) /\ UNCHANGED <<peerVars, crashes>>
    \/ BrokerBeats /\ UNCHANGED <<peerVars, crashes>>
    \/ Tick /\ UNCHANGED <<peerVars, crashes>>

BrokerFails ==
    \/ BrokerDies /\ crashes < MaxCrashes /\ crashes' = crashes + 1
                  /\ UNCHANGED peerVars
    \/ \E id \in Ids : BrokerLoses(id) /\ UNCHANGED <<peerVars, crashes>>
    \/ BrokerRestarts /\ UNCHANGED <<peerVars, crashes>>

WorkerStep(w) ==
    \/ WorkerStarts(w) \/ WorkerTakes(w) \/ WorkerReplies(w)
    \/ WorkerTimesOut(w) \/ WorkerBeats(w) \/ WorkerDies(w)

ClientStep(c) == ClientCalls(c) \/ ClientTakes(c) \/ ClientTimesOut(c)

Next ==
    \/ BrokerStep
    \/ BrokerFails
    \/ \E w \in Workers : WorkerStep(w)
    \/ \E c \in Clients : ClientStep(c)

Spec == Init /\ [][Next]_vars

\* Whatever is in a queue is taken, time passes, heartbeats are sent, and a
\* poll that hears nothing times out.  Nobody has to call, to start a worker
\* or a broker, or to die.
Fairness ==
    /\ \A id \in Ids :
           WF_vars(BrokerTakes(id) /\ UNCHANGED <<peerVars, crashes>>)
    /\ WF_vars(BrokerBeats /\ UNCHANGED <<peerVars, crashes>>)
    /\ WF_vars(Tick /\ UNCHANGED <<peerVars, crashes>>)
    /\ \A w \in Workers :
           /\ WF_vars(WorkerTakes(w))
           /\ WF_vars(WorkerReplies(w))
           /\ WF_vars(WorkerBeats(w))
           /\ WF_vars(fromBroker[Id(w)] = <<>> /\ WorkerTimesOut(w))
    /\ \A c \in Clients :
           /\ WF_vars(ClientTakes(c))
           /\ WF_vars(fromBroker[Id(c)] = <<>> /\ ClientTimesOut(c))

FairSpec == Spec /\ Fairness

-----------------------------------------------------------------------------
(* Properties.                                                             *)

HasCommand(q, cmd) == \E i \in DOMAIN q : q[i].cmd = cmd

\* A request is on its way to the worker, in its hand, or its reply is on its
\* way back.
Engaged(id) ==
    \/ HasCommand(fromBroker[id], "REQUEST")
    \/ id = Id(id[1]) /\ wstate[id[1]] = "busy"
    \/ HasCommand(toBroker[id], "REPLY")

\* While the broker lists a worker as waiting it is not engaged: it gets one
\* request at a time, and no worker is listed twice (worker_waiting and
\* service_dispatch against mdwrk::recv).
OneRequestAtATime == \A id \in m_waiting : ~Engaged(id)

\* A worker that is there and known but not listed as waiting is engaged.  It
\* is not forgotten: its reply will list it again (service_dispatch takes it
\* from the lists, worker_process puts it back).
NoWorkerForgotten ==
    \A id \in (m_workers \ m_waiting) \intersect connected : Engaged(id)

\* Where request r is: on its way to the broker, listed with a service, on its
\* way to a worker, in the hand of one, on its way back, or answered.
Whereabouts(r) ==
    LET inbox == toBroker[r.client]
        answers == fromBroker[r.client]
    IN {<<"called", i>> : i \in {i \in DOMAIN inbox :
               inbox[i].cmd = "CALL" /\ inbox[i].n = r.n}}
       \union (UNION {{<<"listed", s, i>> : i \in {i \in DOMAIN srv_requests[s] :
               srv_requests[s][i] = r}} : s \in Services})
       \union {<<"sent", id>> : id \in {id \in Ids :
               \E i \in DOMAIN fromBroker[id] : fromBroker[id][i] = Request(r)}}
       \union {<<"held", w>> : w \in {w \in Workers : request[w] = r}}
       \union {<<"replied", id>> : id \in {id \in Ids :
               \E i \in DOMAIN toBroker[id] : toBroker[id][i] = Reply(r)}}
       \union {<<"answered", i>> : i \in {i \in DOMAIN answers :
               answers[i].cmd = "ANSWER" /\ answers[i].n = r.n}}

\* The broker and the workers never multiply a request: what a client sends on
\* one socket is in one place, or lost, whatever dispatch, reply, purge and
\* reconnection do.  Only a retry makes a second copy, on its own socket.
NeverMultiplied ==
    \A id \in ClientIds, n \in 1 .. MaxCalls :
        Cardinality(Whereabouts([client |-> id, n |-> n])) <= 1

\* mdcli::send returns the first reply it reads.  It is the answer to the call
\* it was made for: an answer to an earlier call or an earlier try never
\* reaches the socket, and no second one is left for the next call.
AnswerBelongs ==
    \A c \in Clients :
        LET q == fromBroker[Id(c)]
        IN /\ Len(q) <= 1
           /\ \A i \in DOMAIN q : cstate[c] = "waiting" /\ q[i].n = asked[c]

\* The programs together implement the service RequestService describes.
Service == INSTANCE RequestService
ImplementsService == Service!Spec

\* A waiting worker that is gone is deleted, though it may have left messages
\* that make it look alive (purge_workers in start_brokering).
DeadWorkersExpire ==
    \A id \in WorkerIds :
        (id \in m_waiting /\ id \notin connected)
            ~> (id \notin m_waiting \/ broker = "aborted")

\* An idle worker the broker does not know, because its messages were lost, it
\* was purged or the broker was started again, is known again in the end: its
\* heartbeat is answered by DISCONNECT, and it connects anew.
RegisteredAgain ==
    \A w \in Workers :
        (wstate[w] = "idle" /\ Id(w) \notin m_workers)
            ~> \/ Id(w) \in m_workers
               \/ wstate[w] = "off" \/ session[w] = MaxWorkerSockets
               \/ broker # "running"
=============================================================================
