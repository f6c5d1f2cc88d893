--------------------------- MODULE ParanoidPirate ---------------------------
(***************************************************************************)
(* The Paranoid Pirate: the queue ppqueue.cpp with workers ppworker.cpp,   *)
(* heartbeats in both directions and expiry, under Lazy Pirate clients.    *)
(*                                                                         *)
(* Time is counted in heartbeat intervals: Tick lets one pass, and a poll  *)
(* of a worker or client may time out whatever is on its way.  For how long *)
(* a worker sleeps before it reconnects, and that it doubles, is left out.  *)
(***************************************************************************)
EXTENDS LazyPirate, SequencesExt

CONSTANTS
    Expiry,     \* HEARTBEAT_LIVENESS of the queue
    Liveness    \* HEARTBEAT_LIVENESS of the workers

ASSUME ParanoidAssumption ==
    /\ Expiry \in Nat \ {0} /\ Liveness \in Nat \ {0}

VARIABLES
    queue,      \* the vector of available workers, by identity
    expiry,     \* worker_t::expiry, as intervals that are left
    liveness

queueVars  == <<qstate, queue, expiry>>
workerVars == <<wstate, liveness, request>>
vars == <<queueVars, sockets, workerVars, clientVars, executed, crashes>>

Listed == {queue[i] : i \in DOMAIN queue}
Nobody == Empty      \* no message from that side in this iteration
Word(word) == <<Text(word, 0)>>

TypeOK ==
    /\ PirateTypeOK
    /\ queue \in Seq(WorkerIds)
    /\ expiry \in [WorkerIds -> 0 .. Expiry]
    /\ liveness \in [Workers -> 0 .. Liveness]

Init ==
    /\ PirateInit
    /\ queue = <<>>
    /\ expiry = [id \in WorkerIds |-> 0]
    /\ liveness = [w \in Workers |-> Liveness]

-----------------------------------------------------------------------------
(* The queue.  Its tables are passed through an iteration as a record q of *)
(* the vector, the expiries and the messages to the peers.                 *)

Now == [queue |-> queue, expiry |-> expiry, out |-> fromQueue]

In(q, id) == \E i \in DOMAIN q.queue : q.queue[i] = id
Fresh(q, id) == [q EXCEPT !.expiry[id] = Expiry]

\* Mutants: a refresh lists the worker, or deletes one that has expired.
s_worker_refresh_lists(q, id) ==
    IF In(q, id) THEN Fresh(q, id)
    ELSE Fresh([q EXCEPT !.queue = Append(@, id)], id)
s_worker_refresh_deletes(q, id) ==
    IF In(q, id) /\ q.expiry[id] > 0 THEN Fresh(q, id)
    ELSE [q EXCEPT !.queue = RemoveFirst(@, id)]

s_worker_append(q, id) ==
    IF In(q, id) THEN q
    ELSE Fresh([q EXCEPT !.queue = Append(@, id)], id)
s_worker_delete(q, id) ==
    [q EXCEPT !.queue = RemoveFirst(@, id)]
s_worker_refresh(q, id) == IF In(q, id) THEN Fresh(q, id) ELSE q

\* The entries of a sequence that are in S, in their order: the j-th of them is
\* the one with j of them up to it.
Kept(s, S) ==
    LET kept    == {i \in DOMAIN s : s[i] \in S}
        upto(i) == {k \in kept : k <= i}
    IN [j \in 1 .. Cardinality(kept) |->
           s[CHOOSE i \in kept : Cardinality(upto(i)) = j]]

\* Mutant: off by one, nobody ever expires.
s_queue_purge_never(q) ==
    [q EXCEPT !.queue = Kept(@, {id \in WorkerIds : q.expiry[id] >= 0})]

s_queue_purge(q) ==
    [q EXCEPT !.queue = Kept(@, {id \in WorkerIds : q.expiry[id] > 0})]

\* A message of worker id: READY, HEARTBEAT, or a reply to pass on.
Backend(q, id) ==
    LET msg == unwrap(FromPeer(id))
    IN CASE msg = Word("READY") -> s_worker_append(s_worker_delete(q, id), id)
         [] msg = Word("HEARTBEAT") -> s_worker_refresh(q, id)
         [] Len(msg) = 1 /\ msg \notin {Word("READY"), Word("HEARTBEAT")} -> q
         [] OTHER -> s_worker_append([q EXCEPT !.out = Routed(@, msg)], id)

\* A request of client id for the first worker in the vector.
Frontend(q, id) ==
    [q EXCEPT !.queue = Tail(@),
              !.out = Routed(@, push_front(FromPeer(id), Head(q.queue)))]

\* Heartbeats to the workers of the vector.  Bound: none to a worker that has
\* something to read yet.
Heartbeats(q) ==
    [q EXCEPT !.out = [id \in Ids |->
        IF In(q, id) /\ id \in connected /\ @[id] = <<>>
        THEN <<Word("HEARTBEAT")>> ELSE @[id]]]

\* One iteration of the main loop: a message of worker b, one of client f,
\* heartbeats if they are due, and the purge.  The frontend is polled only if
\* there are workers at the time of the poll; s_worker_dequeue asserts that
\* there still are.
Iterates(b, f, beat) ==
    /\ qstate = "running"
    /\ b # Nobody => toQueue[b] # <<>>
    /\ f # Nobody => toQueue[f] # <<>> /\ queue # <<>>
    /\ UNCHANGED <<session, connected, workerVars, clientVars, executed, crashes>>
    /\ \E q1 \in {IF b = Nobody THEN Now ELSE Backend(Now, b)} :
           IF f # Nobody /\ q1.queue = <<>>
           THEN /\ qstate' = "aborted"
                /\ UNCHANGED <<queue, expiry, toQueue, fromQueue>>
           ELSE /\ toQueue' = [id \in Ids |->
                       IF id \in {b, f} THEN Tail(toQueue[id]) ELSE toQueue[id]]
                /\ \E q2 \in {IF f = Nobody THEN q1 ELSE Frontend(q1, f)} :
                   \E q3 \in {s_queue_purge(IF beat THEN Heartbeats(q2) ELSE q2)} :
                       /\ queue' = q3.queue
                       /\ expiry' = q3.expiry
                       /\ fromQueue' = q3.out
                /\ UNCHANGED qstate

\* An iteration in which the poll times out.
QueueIdles == \E beat \in BOOLEAN : Iterates(Nobody, Nobody, beat)

QueueTakes(id) ==
    \E peer \in Ids \union {Nobody}, beat \in BOOLEAN :
        \/ id \in WorkerIds /\ peer \notin WorkerIds /\ Iterates(id, peer, beat)
        \/ id \in ClientIds /\ peer \notin ClientIds /\ Iterates(peer, id, beat)

\* A heartbeat interval passes.
Tick ==
    /\ qstate = "running"
    /\ \E id \in Listed : expiry[id] > 0
    /\ expiry' = [id \in WorkerIds |->
                     IF expiry[id] > 0 THEN expiry[id] - 1 ELSE 0]
    /\ UNCHANGED <<qstate, queue, sockets, workerVars, clientVars, executed,
                   crashes>>

QueueDies ==
    /\ SocketsLoseQueue
    /\ queue' = <<>>
    /\ expiry' = [id \in WorkerIds |-> 0]
    /\ UNCHANGED <<workerVars, clientVars, executed>>

-----------------------------------------------------------------------------
(* A worker.                                                               *)

\* ppworker is started, for the first time or again.
WorkerStarts(w) ==
    /\ wstate[w] = "off"
    /\ Reconnects(w, Word("READY"))
    /\ wstate' = [wstate EXCEPT ![w] = "polling"]
    /\ liveness' = [liveness EXCEPT ![w] = Liveness]
    /\ UNCHANGED <<queueVars, request, clientVars, executed, crashes>>

\* A message: a request is worked on, anything else shows the queue is there.
WorkerTakes(w) ==
    /\ wstate[w] = "polling" /\ fromQueue[Id(w)] # <<>>
    /\ LET msg == recv(Head(fromQueue[Id(w)]))
       IN \/ /\ Len(msg) = 3
             /\ request' = [request EXCEPT ![w] = msg]
             /\ wstate' = [wstate EXCEPT ![w] = "working"]
             /\ UNCHANGED liveness
          \/ /\ Len(msg) # 3
             /\ liveness' = IF msg = Word("HEARTBEAT")
                            THEN [liveness EXCEPT ![w] = Liveness]
                            ELSE liveness
             /\ UNCHANGED <<wstate, request>>
    /\ fromQueue' = [fromQueue EXCEPT ![Id(w)] = Tail(@)]
    /\ UNCHANGED <<queueVars, session, connected, toQueue, clientVars,
                   executed, crashes>>

\* The reply is the request with its envelope.
WorkerReplies(w) ==
    /\ JobDone(w, send(request[w]))
    /\ liveness' = [liveness EXCEPT ![w] = Liveness]
    /\ UNCHANGED <<queue, expiry>>

\* Mutant: the counter stops at zero and nothing comes of it.
WorkerTimesOut_never(w) ==
    /\ wstate[w] = "polling" /\ liveness[w] > 0
    /\ liveness' = [liveness EXCEPT ![w] = @ - 1]
    /\ UNCHANGED <<queueVars, sockets, wstate, request, clientVars,
                   executed, crashes>>

\* A poll times out; the last one gives the queue up and sleeps, the socket
\* still open.
WorkerTimesOut(w) ==
    /\ wstate[w] = "polling"
    /\ liveness' = [liveness EXCEPT ![w] = @ - 1]
    /\ wstate' = [wstate EXCEPT ![w] =
                     IF liveness[w] = 1 THEN "sleeping" ELSE "polling"]
    /\ UNCHANGED <<queueVars, sockets, request, clientVars,
                   executed, crashes>>

\* The sleep is over: a new socket.
WorkerReconnects(w) ==
    /\ wstate[w] = "sleeping"
    /\ Reconnects(w, Word("READY"))
    /\ liveness' = [liveness EXCEPT ![w] = Liveness]
    /\ wstate' = [wstate EXCEPT ![w] = "polling"]
    /\ UNCHANGED <<queueVars, request, clientVars, executed, crashes>>

\* A heartbeat is due.  Bound: not while something it sent before waits, or
\* two messages wait for it.
WorkerBeats(w) ==
    /\ wstate[w] = "polling"
    /\ toQueue[Id(w)] = <<>> /\ Len(fromQueue[Id(w)]) < 2
    /\ Sends(w, Word("HEARTBEAT"))
    /\ UNCHANGED <<queueVars, fromQueue, workerVars, clientVars, executed,
                   crashes>>

WorkerDies(w) == JobDies(w) /\ UNCHANGED <<queue, expiry, liveness>>

-----------------------------------------------------------------------------

workerAndQueue == <<queue, expiry, liveness>>

QueueStep ==
    \/ QueueIdles
    \/ \E b \in WorkerIds, beat \in BOOLEAN : Iterates(b, Nobody, beat)
    \/ \E f \in ClientIds, beat \in BOOLEAN : Iterates(Nobody, f, beat)
    \/ \E b \in WorkerIds, f \in ClientIds, beat \in BOOLEAN :
           Iterates(b, f, beat)
    \/ Tick

QueueFails ==
    \/ QueueDies
    \/ QueueRestarts /\ UNCHANGED workerAndQueue

WorkerStep(w) ==
    \/ WorkerStarts(w) \/ WorkerTakes(w) \/ WorkerReplies(w)
    \/ WorkerTimesOut(w) \/ WorkerReconnects(w) \/ WorkerBeats(w)
    \/ WorkerDies(w)

Next ==
    \/ QueueStep
    \/ QueueFails
    \/ \E w \in Workers : WorkerStep(w)
    \/ \E c \in Clients : ClientStep(c) /\ UNCHANGED workerAndQueue

Spec == Init /\ [][Next]_vars

\* Messages of workers are taken, whoever sent them, time passes, heartbeats
\* and purges happen, and a worker reads what has arrived, replies, and times
\* out when it hears nothing.  Clients need not do anything.
Fairness ==
    /\ WF_vars(\E id \in WorkerIds : QueueTakes(id))
    /\ WF_vars(Iterates(Nobody, Nobody, TRUE))
    /\ WF_vars(Tick)
    /\ \A w \in Workers :
           /\ WF_vars(WorkerTakes(w))
           /\ WF_vars(WorkerReplies(w))
           /\ WF_vars(WorkerReconnects(w))
           /\ WF_vars(fromQueue[Id(w)] = <<>> /\ WorkerTimesOut(w))

FairSpec == Spec /\ Fairness

-----------------------------------------------------------------------------
(* Properties.                                                             *)

\* A worker listed as available is not engaged, and listed once: whatever was
\* expired, lost or restarted, a reply comes from a worker the vector does not
\* hold (s_worker_append, "Worker must not already be in queue").
AvailableIsIdle ==
    /\ \A id \in Listed : ~Engaged(id)
    /\ Cardinality(Listed) = Len(queue)

\* The vector polled as not empty is not empty when a request is taken,
\* although a worker message changes it in between (the assertion of
\* s_worker_dequeue).
DequeueFindsWorker == qstate # "aborted"

\* Again and again the vector is free of workers that are gone, though messages
\* they left behind may refresh or list them once more (s_queue_purge; expiries
\* are in no order).
DeadWorkersPurged == []<>(Listed \subseteq connected)

\* A worker that waits while the queue does not list it, since it was purged
\* or the queue started again, is listed again in the end: heartbeats of
\* unknown workers are not answered, so the worker gives the queue up and
\* says READY on a new socket.
RegisteredAgain ==
    \A w \in Workers :
        (wstate[w] = "polling" /\ Id(w) \notin Listed)
            ~> \/ Id(w) \in Listed
               \/ wstate[w] = "off" \/ session[w] = MaxWorkerSockets
               \/ qstate # "running"
=============================================================================
