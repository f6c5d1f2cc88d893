----------------------------- MODULE LazyPirate ------------------------------
(***************************************************************************)
(* The Lazy Pirate client (Common/zmq/example/lpclient.cpp), the sockets   *)
(* between clients, a Pirate queue and its workers, and what is true of    *)
(* either queue.                                                           *)
(*                                                                         *)
(* A queue has two ROUTER sockets, one for clients and one for workers; on *)
(* each a peer is addressed by the identity of its socket.  Closing a      *)
(* socket throws away what it had not sent (ZMQ_LINGER 0) or not read; what *)
(* is sent to an identity without a socket is dropped.                     *)
(***************************************************************************)
EXTENDS Zmsg, FiniteSets

CONSTANTS
    Workers, Clients,
    Anonymous,   \* clients that set no identity, as lpclient does not
    Retries,     \* REQUEST_RETRIES
    MaxCalls,    \* bound: requests a client makes
    MaxWorkerSockets, MaxClientSockets,   \* bound: sockets each of them opens
    MaxCrashes   \* bound: processes that are killed

ASSUME PirateAssumption ==
    /\ Workers \intersect Clients = {}
    /\ IsFiniteSet(Workers) /\ IsFiniteSet(Clients)
    /\ Anonymous \subseteq Clients
    /\ Retries \in Nat \ {0} /\ MaxCalls \in Nat /\ MaxCrashes \in Nat
    /\ MaxWorkerSockets \in Nat /\ MaxClientSockets \in Nat \ {0}

Peers == Workers \union Clients

\* The identity of the k-th connection of p: set by s_set_id for a socket, or
\* made up by ZeroMQ 4, the version ppqueue asserts.
Identity(p, k) ==
    [kind |-> IF p \in Anonymous THEN "binary" ELSE "text", of |-> p, n |-> k]

WorkerIds == {Identity(w, k) : w \in Workers, k \in 0 .. MaxWorkerSockets}
ClientIds == {Identity(c, k) : c \in Clients,
                               k \in 0 .. MaxClientSockets + MaxCrashes}
Ids       == WorkerIds \union ClientIds

VARIABLES
    qstate,        \* the queue: "running", "down" (killed) or "aborted" (assert)
    session,       \* number of each peer's identity; 0 before the first
    connected,     \* identities whose socket is open
    toQueue, fromQueue,   \* frames under way, a sequence for each identity
    cstate,        \* client: "ready", "waiting" for a reply or "abandoned"
    sequence,      \* client: number of its latest request
    retries_left,
    wstate,        \* worker: "off" (not running), "polling", "working", "sleeping"
    request,       \* worker: the message in hand
    executed,      \* history: requests some worker has executed
    crashes

queues     == <<toQueue, fromQueue>>
sockets    == <<session, connected, toQueue, fromQueue>>
clientVars == <<cstate, sequence, retries_left>>
jobs       == <<wstate, request, executed>>
pirateVars == <<qstate, sockets, clientVars, jobs, crashes>>

Id(p) == Identity(p, session[p])
MaxSockets(p) == IF p \in Workers THEN MaxWorkerSockets ELSE MaxClientSockets

PirateTypeOK ==
    /\ qstate \in {"running", "down", "aborted"}
    /\ session \in [Peers -> Nat]
    /\ connected \subseteq {Id(p) : p \in Peers}
    /\ toQueue \in [Ids -> Seq(Seq(Part))]
    /\ fromQueue \in [Ids -> Seq(Seq(Part))]
    /\ cstate \in [Clients -> {"ready", "waiting", "abandoned"}]
    /\ sequence \in [Clients -> 0 .. MaxCalls]
    /\ retries_left \in [Clients -> 0 .. Retries]
    /\ wstate \in [Workers -> {"off", "polling", "working", "sleeping"}]
    /\ request \in [Workers -> Seq(Part)]
    /\ executed \subseteq Clients \X Nat
    /\ crashes \in 0 .. MaxCrashes

\* The queue and the clients have opened their sockets, no worker has.
PirateInit ==
    /\ qstate = "running"
    /\ session = [p \in Peers |-> IF p \in Clients THEN 1 ELSE 0]
    /\ connected = {Identity(c, 1) : c \in Clients}
    /\ toQueue = [id \in Ids |-> <<>>]
    /\ fromQueue = [id \in Ids |-> <<>>]
    /\ cstate = [c \in Clients |-> "ready"]
    /\ sequence = [c \in Clients |-> 0]
    /\ retries_left = [c \in Clients |-> Retries]
    /\ wstate = [w \in Workers |-> "off"]
    /\ request = [w \in Workers |-> <<>>]
    /\ executed = {}
    /\ crashes = 0

-----------------------------------------------------------------------------
(* Sockets.                                                                *)

\* zmsg::send on a ROUTER: the first frame says to whom the others go.
Routed(qs, msg) ==
    LET frames == send(msg)
    IN IF Head(frames) \in connected
       THEN [qs EXCEPT ![Head(frames)] = Append(@, Tail(frames))]
       ELSE qs

\* zmsg::recv on a ROUTER.
FromPeer(id) == recv(<<id>> \o Head(toQueue[id]))

\* How many of its messages on the way a running queue has already received
\* when peer p closes its socket.
Received(p) == 0 .. IF qstate = "running" THEN Len(toQueue[Id(p)]) ELSE 0

Closes(p) ==
    /\ \E kept \in Received(p) :
           toQueue' = [toQueue EXCEPT ![Id(p)] = SubSeq(@, 1, kept)]
    /\ fromQueue' = [fromQueue EXCEPT ![Id(p)] = <<>>]
    /\ connected' = connected \ {Id(p)}
    /\ UNCHANGED session

\* The old socket is deleted, a new one with a new identity sends first.
Reconnects(p, first) ==
    /\ session[p] < MaxSockets(p)
    /\ session' = [session EXCEPT ![p] = @ + 1]
    /\ connected' = (connected \ {Id(p)}) \union {Identity(p, session[p] + 1)}
    /\ \E kept \in Received(p) :
           toQueue' = [toQueue EXCEPT
                          ![Id(p)] = SubSeq(@, 1, kept),
                          ![Identity(p, session[p] + 1)] = <<first>>]
    /\ fromQueue' = [fromQueue EXCEPT ![Id(p)] = <<>>]

Sends(p, frames) ==
    /\ toQueue' = [toQueue EXCEPT ![Id(p)] = Append(@, frames)]
    /\ UNCHANGED <<session, connected>>

\* How many messages of each identity get through when the queue is killed.
Spared(qs) ==
    LET used == {id \in Ids : qs[id] # <<>>}
    IN {n \in [used -> UNION {0 .. Len(qs[id]) : id \in used}] :
           \A id \in used : n[id] <= Len(qs[id])}

\* The queue is killed: it takes along what it had received and not handled, or
\* not yet sent, and what closed sockets had sent.  Peers connect again, an
\* anonymous one as somebody new: ZeroMQ makes identities up for connections.
SocketsLoseQueue ==
    LET again(p) == session[p] + IF p \in Anonymous THEN 1 ELSE 0
        moved(qs) == [id \in Ids |->
            IF Id(id.of) \in connected /\ id.n = again(id.of)
            THEN qs[Id(id.of)] ELSE <<>>]
        last(q, n)  == SubSeq(q, Len(q) - n + 1, Len(q))
        first(q, n) == SubSeq(q, 1, n)
        cut(qs, n, part(_, _)) ==
            [id \in Ids |-> IF id \in DOMAIN n THEN part(qs[id], n[id]) ELSE <<>>]
    IN /\ qstate = "running" /\ crashes < MaxCrashes
       /\ qstate' = "down"
       /\ crashes' = crashes + 1
       /\ session' = [p \in Peers |-> again(p)]
       /\ connected' =
              {Identity(p, again(p)) : p \in {p \in Peers : Id(p) \in connected}}
       /\ \E n \in Spared(toQueue) : toQueue' = moved(cut(toQueue, n, last))
       /\ \E n \in Spared(fromQueue) :
              fromQueue' = moved(cut(fromQueue, n, first))

QueueRestarts ==
    /\ qstate = "down"
    /\ qstate' = "running"
    /\ UNCHANGED <<sockets, clientVars, jobs, crashes>>

-----------------------------------------------------------------------------
(* The client.  Its REQ socket puts an empty frame before a request and    *)
(* takes it off a reply.                                                   *)

Number(n)     == Text("sequence", n)
Request(n)    == <<Empty, Number(n)>>

\* Mutant: it does not wait for the reply.
ClientCalls_eagerly(c) ==
    /\ cstate[c] # "abandoned" /\ sequence[c] < MaxCalls
    /\ sequence' = [sequence EXCEPT ![c] = @ + 1]
    /\ cstate' = [cstate EXCEPT ![c] = "waiting"]
    /\ Sends(c, Request(sequence[c] + 1))
    /\ UNCHANGED <<qstate, fromQueue, retries_left, jobs, crashes>>

\* The next request of the main loop.
ClientCalls(c) ==
    /\ cstate[c] = "ready" /\ sequence[c] < MaxCalls
    /\ sequence' = [sequence EXCEPT ![c] = @ + 1]
    /\ cstate' = [cstate EXCEPT ![c] = "waiting"]
    /\ Sends(c, Request(sequence[c] + 1))
    /\ UNCHANGED <<qstate, fromQueue, retries_left, jobs, crashes>>

\* A reply: "must match sequence", or it is reported as malformed.
ClientTakes(c) ==
    /\ cstate[c] = "waiting" /\ fromQueue[Id(c)] # <<>>
    /\ IF Head(fromQueue[Id(c)]) = Request(sequence[c])
       THEN /\ cstate' = [cstate EXCEPT ![c] = "ready"]
            /\ retries_left' = [retries_left EXCEPT ![c] = Retries]
       ELSE UNCHANGED <<cstate, retries_left>>
    /\ fromQueue' = [fromQueue EXCEPT ![Id(c)] = Tail(@)]
    /\ UNCHANGED <<qstate, session, connected, toQueue, sequence, jobs,
                   crashes>>

\* Mutant: the retry goes out on the old socket.
ClientTimesOut_same_socket(c) ==
    /\ cstate[c] = "waiting" /\ retries_left[c] > 1
    /\ retries_left' = [retries_left EXCEPT ![c] = @ - 1]
    /\ Sends(c, Request(sequence[c]))
    /\ UNCHANGED <<qstate, fromQueue, cstate, sequence, jobs, crashes>>

\* A poll times out: the same request on a new socket, or the end.
ClientTimesOut(c) ==
    /\ cstate[c] = "waiting"
    /\ retries_left' = [retries_left EXCEPT ![c] = @ - 1]
    /\ \/ /\ retries_left[c] > 1
          /\ Reconnects(c, Request(sequence[c]))
          /\ UNCHANGED cstate
       \/ /\ retries_left[c] = 1
          /\ cstate' = [cstate EXCEPT ![c] = "abandoned"]
          /\ Closes(c)
    /\ UNCHANGED <<qstate, sequence, jobs, crashes>>

ClientStep(c) == ClientCalls(c) \/ ClientTakes(c) \/ ClientTimesOut(c)

-----------------------------------------------------------------------------
(* What either kind of worker does with a socket and a request.            *)

\* A worker is killed, or simulates a crash.
JobDies(w) ==
    /\ wstate[w] # "off" /\ crashes < MaxCrashes
    /\ crashes' = crashes + 1
    /\ wstate' = [wstate EXCEPT ![w] = "off"]
    /\ request' = [request EXCEPT ![w] = <<>>]
    /\ Closes(w)
    /\ UNCHANGED <<qstate, clientVars, executed>>

\* The reply `frames' to the request in hand, at once or after a time.
JobDone(w, frames) ==
    /\ wstate[w] = "working"
    /\ Sends(w, frames)
    /\ executed' = executed \union {<<request[w][1].of, request[w][3].n>>}
    /\ request' = [request EXCEPT ![w] = <<>>]
    /\ wstate' = [wstate EXCEPT ![w] = "polling"]
    /\ UNCHANGED <<qstate, fromQueue, clientVars, crashes>>

-----------------------------------------------------------------------------
(* Properties of either queue.                                             *)

\* Request n of the socket id of a client, between queue and worker.
Enveloped(id, n) == <<id>> \o Request(n)

\* A message is under way, as it is or as REQ sockets of workers have it.
Has(frames, msg) == \E i \in DOMAIN frames : frames[i] \in {msg, <<Empty>> \o msg}
Requests == {Enveloped(id, n) : id \in ClientIds, n \in 1 .. MaxCalls}

\* A request is on its way to the worker, in its hand, or its reply is on its
\* way back.
Engaged(id) ==
    \E r \in Requests :
        \/ Has(fromQueue[id], r) \/ Has(toQueue[id], r)
        \/ id = Id(id.of) /\ request[id.of] = r

\* Where request n of id is.
Whereabouts(id, n) ==
    {<<"called", i>> : i \in {i \in DOMAIN toQueue[id] :
           toQueue[id][i] = Request(n)}}
    \union {<<"sent", w>> : w \in {w \in WorkerIds :
           Has(fromQueue[w], Enveloped(id, n))}}
    \union {<<"held", w>> : w \in {w \in Workers :
           request[w] = Enveloped(id, n)}}
    \union {<<"replied", w>> : w \in {w \in WorkerIds :
           Has(toQueue[w], Enveloped(id, n))}}
    \union {<<"answered", i>> : i \in {i \in DOMAIN fromQueue[id] :
           fromQueue[id][i] = Request(n)}}

\* Queue and workers never multiply a request: what a client sends on one
\* socket is in one place, or lost with a dead worker, a socket given up or
\* the queue (dequeue, reply and purge against the crashes).
NeverMultiplied ==
    \A id \in ClientIds, n \in 1 .. MaxCalls :
        Cardinality(Whereabouts(id, n)) <= 1

\* A client never meets a reply that does not "match sequence", whatever its
\* earlier tries come to: the branch for malformed replies is not taken.
RepliesMatchSequence ==
    \A c \in Clients :
        LET q == fromQueue[Id(c)]
        IN /\ Len(q) <= 1
           /\ \A i \in DOMAIN q :
                  cstate[c] = "waiting" /\ q[i] = Request(sequence[c])

\* The queue hands a reply on to its client, if the client has not closed the
\* socket meanwhile (ppqueue.cpp:128 "Return reply to client if it's not a
\* control message", spqueue.cpp:46).
PassesOn(w, r) ==
    (/\ {qstate, qstate'} = {"running"} /\ connected' = connected
     /\ toQueue[w] # <<>> /\ Head(toQueue[w]) \in {r, <<Empty>> \o r}
     /\ toQueue'[w] = Tail(toQueue[w])
     /\ address(r) \in connected)
        => fromQueue'[address(r)] = Append(fromQueue[address(r)], Tail(r))
RepliesPassedOn ==
    [][\A w \in WorkerIds, r \in Requests : PassesOn(w, r)]_pirateVars

\* The programs together implement the service RequestService describes.
Service == INSTANCE RequestService WITH
    asked  <- sequence,
    cstate <- [c \in Clients |-> IF cstate[c] = "abandoned" THEN "failed"
                                 ELSE cstate[c]]
ImplementsService == Service!Spec
=============================================================================
