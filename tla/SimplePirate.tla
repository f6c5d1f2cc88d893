---------------------------- MODULE SimplePirate ----------------------------
(***************************************************************************)
(* The Simple Pirate: the queue spqueue.cpp with workers spworker.cpp, no  *)
(* heartbeats and no expiry, under Lazy Pirate clients.                    *)
(*                                                                         *)
(* The workers have REQ sockets: an empty frame goes before what they send *)
(* and comes off what they receive, and they send and receive in turn.     *)
(***************************************************************************)
EXTENDS LazyPirate

CONSTANT MAX_WORKERS

ASSUME SimpleAssumption == MAX_WORKERS \in Nat \ {0}

VARIABLES
    worker_queue,   \* identities of available workers, the first in first out
    lost,           \* history: tries a client gave up that were nowhere any more
    orphans         \* history: workers that waited when the queue died

vars == <<pirateVars, worker_queue, lost, orphans>>

Listed == {worker_queue[i] : i \in DOMAIN worker_queue}
Nobody == Empty      \* no message from that side in this iteration
READY  == Text("READY", 0)

TypeOK ==
    /\ PirateTypeOK
    /\ worker_queue \in Seq(WorkerIds)
    /\ lost \in [Clients -> Nat]
    /\ orphans \subseteq WorkerIds

Init ==
    /\ PirateInit
    /\ worker_queue = <<>>
    /\ lost = [c \in Clients |-> 0]
    /\ orphans = {}

-----------------------------------------------------------------------------
(* The queue.                                                              *)

Now == [queue |-> worker_queue, out |-> fromQueue]

\* Mutant: the worker goes into the queue only with a reply.
Backend_forgets(q, id) ==
    LET msg == unwrap(FromPeer(id))
    IN IF address(msg) = READY THEN q
       ELSE [q EXCEPT !.queue = Append(@, id), !.out = Routed(@, msg)]

\* READY of worker id, or a reply to pass on.
Backend(q, id) ==
    LET msg == unwrap(FromPeer(id))
    IN [q EXCEPT !.queue = Append(@, id),
                 !.out = IF address(msg) = READY THEN @ ELSE Routed(@, msg)]

\* Mutants: the worker stays at the head, or goes to the end.
Frontend_keeps(q, id) ==
    [q EXCEPT !.out = Routed(@, wrap(FromPeer(id), Head(q.queue)))]
Frontend_requeues(q, id) ==
    [q EXCEPT !.queue = Append(Tail(@), Head(@)),
              !.out = Routed(@, wrap(FromPeer(id), Head(q.queue)))]

\* A request of client id for the worker at the head.
Frontend(q, id) ==
    [q EXCEPT !.queue = Tail(@),
              !.out = Routed(@, wrap(FromPeer(id), Head(q.queue)))]

\* One iteration of the main loop: a message of worker b, one of client f or
\* of both.  The frontend is polled only if there were workers before.
Iterates(b, f) ==
    LET q1 == IF b = Nobody THEN Now ELSE Backend(Now, b)
        q2 == IF f = Nobody THEN q1 ELSE Frontend(q1, f)
    IN /\ qstate = "running"
       /\ b # Nobody => toQueue[b] # <<>>
       /\ f # Nobody => toQueue[f] # <<>> /\ worker_queue # <<>>
       /\ UNCHANGED <<session, connected, clientVars, jobs, crashes, lost,
                      orphans>>
       /\ IF b # Nobody /\ Len(worker_queue) >= MAX_WORKERS
          THEN /\ qstate' = "aborted"
               /\ UNCHANGED <<worker_queue, toQueue, fromQueue>>
          ELSE /\ toQueue' = [id \in Ids |->
                      IF id \in {b, f} THEN Tail(toQueue[id]) ELSE toQueue[id]]
               /\ worker_queue' = q2.queue
               /\ fromQueue' = q2.out
               /\ UNCHANGED qstate

QueueDies ==
    /\ SocketsLoseQueue
    /\ worker_queue' = <<>>
    /\ orphans' = orphans \union {Id(w) : w \in {w \in Workers : wstate[w] = "polling"}}
    /\ UNCHANGED <<clientVars, jobs, lost>>

-----------------------------------------------------------------------------
(* A worker.                                                               *)

\* spworker is started, for the first time or again, with a new identity.
WorkerStarts(w) ==
    /\ wstate[w] = "off"
    /\ Reconnects(w, <<Empty, READY>>)
    /\ wstate' = [wstate EXCEPT ![w] = "polling"]
    /\ UNCHANGED <<qstate, clientVars, request, executed, crashes>>

WorkerTakes(w) ==
    /\ wstate[w] = "polling" /\ fromQueue[Id(w)] # <<>>
    /\ request' = [request EXCEPT ![w] = recv(Tail(Head(fromQueue[Id(w)])))]
    /\ wstate' = [wstate EXCEPT ![w] = "working"]
    /\ fromQueue' = [fromQueue EXCEPT ![Id(w)] = Tail(@)]
    /\ UNCHANGED <<qstate, session, connected, toQueue, clientVars, executed,
                   crashes>>

WorkerReplies(w) == JobDone(w, <<Empty>> \o send(request[w]))

-----------------------------------------------------------------------------

\* A client that gives up a try of which nothing is left, counted in `lost'.
ClientGivesUp(c) ==
    /\ ClientTimesOut(c)
    /\ lost' = [lost EXCEPT ![c] =
                   IF Whereabouts(Id(c), sequence[c]) = {} THEN @ + 1 ELSE @]
    /\ UNCHANGED <<worker_queue, orphans>>

QueueStep ==
    \/ \E b \in WorkerIds : Iterates(b, Nobody)
    \/ \E f \in ClientIds : Iterates(Nobody, f)
    \/ \E b \in WorkerIds, f \in ClientIds : Iterates(b, f)
    \/ QueueDies

Others ==
    \/ QueueRestarts
    \/ \E w \in Workers :
           \/ WorkerStarts(w) \/ WorkerTakes(w) \/ WorkerReplies(w)
           \/ JobDies(w)
    \/ \E c \in Clients : ClientCalls(c) \/ ClientTakes(c)

Next ==
    \/ QueueStep
    \/ Others /\ UNCHANGED <<worker_queue, lost, orphans>>
    \/ \E c \in Clients : ClientGivesUp(c)

Spec == Init /\ [][Next]_vars

-----------------------------------------------------------------------------
(* Properties.                                                             *)

\* The queue holds a worker, once, exactly while that waits and nothing is under
\* way between them.  A busy worker, or its REQ socket, would take a second
\* request for a reply to nothing (spqueue.cpp:44); and a running queue forgets
\* nobody: only a worker that waited when the queue died says nothing more,
\* for want of heartbeats (spworker.cpp:25).
ListedIffWaiting ==
    /\ \A id \in Listed : ~Engaged(id)
    /\ \A id \in Listed \intersect connected : wstate[id.of] = "polling"
    /\ Cardinality(Listed) = Len(worker_queue)
    /\ \A w \in Workers :
           wstate[w] = "polling" /\ <<toQueue[Id(w)], fromQueue[Id(w)]>> = <<<<>>, <<>>>>
               => Id(w) \in Listed \union orphans

\* A dead worker costs one request at most: a client gives up a try of which
\* nothing is left only as often as a process has died (no heartbeats, yet
\* entries of dead workers are used once).
TriesLostToCrashes == \A c \in Clients : lost[c] <= crashes

\* The assertion on MAX_WORKERS (spqueue.cpp:43) fails only if there are more
\* workers than that, the dead whose entries nobody used included.
OverflowExplained ==
    qstate = "aborted" =>
        Cardinality({w \in Workers : wstate[w] # "off"}) + crashes > MAX_WORKERS
=============================================================================
