--------------------------- MODULE ThunderingHerd ---------------------------
(***************************************************************************)
(* The process group of LinuxSocket/sctp_socket/thundering_herd: a tester  *)
(* (loadAndTest, tester.cpp), the SCTP server it starts (main.cpp,         *)
(* master.cpp) and the workers that server forks (worker.cpp).             *)
(*                                                                         *)
(*   tester  --MASTER_TERMINATE-->  master  --WORKER_TERMINATE, fds-->     *)
(*   tester  <--MASTER_READY------  master  <--WORKER_READY------  worker  *)
(*   tester  ------ SCTP connections, accepted by the master and           *)
(*                  passed to every worker as SCM_RIGHTS descriptors       *)
(*                                                                         *)
(* The processes talk over AF_LOCAL stream sockets and each of them runs   *)
(* one IoMultiplex loop: poll, one pass over the poll list, and again.     *)
(* A callback is one atomic step: what it reads and writes are kernel      *)
(* buffers no other process takes from, and its writes go to sockets whose *)
(* readers run later in any case.  A callback that would block in a read   *)
(* or in accept is a step that is not enabled.                             *)
(***************************************************************************)
EXTENDS PollList, FiniteSets

CONSTANTS
    Tester, Master,  \* the two single processes
    Workers,         \* the processes main() forks, WORKER_NUM of them
    Conns,           \* SCTP connections the tester may open
    Garbage,         \* values an unassigned POLLIN bit may have
    MaxTests,        \* bound: times the user types '1' at the tester
    MaxKills         \* bound: processes killed from outside

Procs == Workers \union {Tester, Master}

(***************************************************************************)
(* Descriptors are named by what they are connected to: in the tester's    *)
(* list Master is the accepted connection of the server, in the master's   *)
(* list Tester is its client socket and a worker the accepted connection   *)
(* of that worker, in a worker's list Master is its client socket and a    *)
(* connection the SCTP descriptor it was passed.                           *)
(***************************************************************************)
Listener == "listen"   \* tester: TEST_MASTER_SOCKET; master: MASTER_WORKER_SOCKET
Stdin    == "stdin"
SctpPort == "sctp"     \* the listening socket of the SctpServerEndpoint
Fds      == Procs \union Conns \union {Listener, Stdin, SctpPort}

NoConn == "none"       \* worker::sctp_endpoint is a null unique_ptr

\* Processes, connections and the three sockets of their own are told apart.
ASSUME HerdAssumption ==
    /\ Tester # Master
    /\ {Tester, Master} \intersect Workers = {}
    /\ IsFiniteSet(Workers) /\ Workers # {}
    /\ Procs \intersect Conns = {}
    /\ {Listener, Stdin, SctpPort} \intersect (Procs \union Conns) = {}
    /\ NoConn \notin Conns
    /\ Garbage \subseteq BOOLEAN /\ Garbage # {}
    /\ MaxTests \in Nat /\ MaxKills \in Nat

\* What one send on a domain socket leaves in the stream: an internal_msg,
\* or the byte '$' that carries a descriptor.
Msg(id)  == [id |-> id, conn |-> NoConn]
FdMsg(c) == [id |-> "$", conn |-> c]
IsFd(m)  == m.id = "$"

MsgIds  == {"MASTER_READY", "WORKER_READY", "MASTER_TERMINATE",
            "WORKER_TERMINATE"}
Message == [id : MsgIds, conn : {NoConn}] \union [id : {"$"}, conn : Conns]

\* What the user can type that ReadUserCmd reacts to.
Keys == {"0", "1"}

VARIABLES
    pc,             \* where each process is; see States
    io,             \* each process's io_multi: poll_items and the loop index i
    running,        \* continue_poll, and ~isMasterTerminated in the master
    stdin, tests,   \* keys waiting at the tester, times '1' was typed
    sut_connected,  \* test_socket_server_connect is not null
    is_sut_ready,
    sctp_endpoints, \* connections the tester has opened, oldest first
    worker_count,
    workers_socket_connect, \* accepted workers, in descriptor order
    workers_pid,    \* forked workers wait() has not returned
    sctp_endpoint,  \* the master's SctpServerEndpoint exists
    endpoint,       \* each worker's sctp_endpoint
    sut_backlog,    \* the server waits in the tester's listen queue
    worker_backlog, \* workers waiting in the master's listen queue
    sctp_backlog,   \* connections waiting in the SCTP listen queue
    t2m, m2t,       \* streams between tester and master
    m2w, w2m,       \* streams between the master and each worker
    inbox,          \* unread SCTP messages of each connection, server side
    joined,         \* history: workers that have written WORKER_READY
    kills           \* processes killed so far

testerVars == <<stdin, tests, sut_connected, is_sut_ready, sctp_endpoints>>
masterVars == <<worker_count, workers_socket_connect, workers_pid,
                sctp_endpoint>>
backlogs   == <<sut_backlog, worker_backlog, sctp_backlog>>
streams    == <<t2m, m2t, m2w, w2m>>
vars == <<pc, io, running, testerVars, masterVars, endpoint, backlogs,
          streams, inbox, joined, kills>>

\* "boot": before the first connect or listen; "listen": the master has
\* connected to the tester; "hello": a worker has connected to the master;
\* "test": the tester is between connecting and sending in test_case;
\* "poll": blocked in poll(2); "pass": inside PollEventHandler; "terminate":
\* out of the loop of run(); "wait": in wait(2).  A process has ended as
\* "done" (main returned), "exit" (one of the code's exit calls), "sigpipe"
\* (wrote to a closed socket), "segv" (null dereference) or "killed".
Ended  == {"done", "exit", "sigpipe", "segv", "killed"}
States == {"boot", "listen", "hello", "poll", "pass", "test", "terminate",
           "wait"}
            \union Ended

Alive(p) == pc[p] \notin Ended
Ends(p, how) == pc' = [pc EXCEPT ![p] = how]
Goes(p, st)  == pc' = [pc EXCEPT ![p] = st]

TypeOK ==
    /\ pc \in [Procs -> States]
    /\ io \in [Procs -> [items : Seq(Entry(Fds)), i : Nat]]
    /\ running \in [Procs -> BOOLEAN]
    /\ stdin \in Seq(Keys) /\ tests \in 0 .. MaxTests
    /\ sut_connected \in BOOLEAN /\ is_sut_ready \in BOOLEAN
    /\ sctp_endpoints \in Seq(Conns)
    /\ worker_count \in Nat
    /\ workers_socket_connect \in Seq(Workers)
    /\ workers_pid \subseteq Workers
    /\ sctp_endpoint \in BOOLEAN
    /\ endpoint \in [Workers -> Conns \union {NoConn}]
    /\ sut_backlog \in BOOLEAN
    /\ worker_backlog \in Seq(Workers)
    /\ sctp_backlog \in Seq(Conns)
    /\ t2m \in Seq(Message) /\ m2t \in Seq(Message)
    /\ m2w \in [Workers -> Seq(Message)] /\ w2m \in [Workers -> Seq(Message)]
    /\ inbox \in [Conns -> Nat]
    /\ joined \subseteq Workers
    /\ kills \in 0 .. MaxKills

\* main() has forked the workers, each asleep, before it builds the master;
\* the tester is the parent that forked the server.
Init ==
    /\ pc = [p \in Procs |-> "boot"]
    /\ io = [p \in Procs |-> [items |-> <<>>, i |-> 0]]
    /\ running = [p \in Procs |-> TRUE]
    /\ stdin = <<>> /\ tests = 0
    /\ sut_connected = FALSE /\ is_sut_ready = FALSE
    /\ sctp_endpoints = <<>>
    /\ worker_count = 0
    /\ workers_socket_connect = <<>>
    /\ workers_pid = Workers
    /\ sctp_endpoint = FALSE
    /\ endpoint = [w \in Workers |-> NoConn]
    /\ sut_backlog = FALSE /\ worker_backlog = <<>> /\ sctp_backlog = <<>>
    /\ t2m = <<>> /\ m2t = <<>>
    /\ m2w = [w \in Workers |-> <<>>] /\ w2m = [w \in Workers |-> <<>>]
    /\ inbox = [c \in Conns |-> 0]
    /\ joined = {}
    /\ kills = 0

-----------------------------------------------------------------------------
(* The loop every process runs: IoMultiplex::Poll and PollEventHandler.    *)

\* What poll(2) reports POLLIN for: data, a connection to accept, or the end
\* of a stream whose other end is gone.
Readable(p) ==
    IF p = Tester
    THEN {f \in {Listener, Stdin, Master} :
            \/ f = Listener /\ sut_backlog
            \/ f = Stdin /\ stdin # <<>>
            \/ f = Master /\ (m2t # <<>> \/ ~Alive(Master))}
    ELSE IF p = Master
    THEN {f \in {Tester, Listener, SctpPort} \union Workers :
            \/ f = Tester /\ (t2m # <<>> \/ ~Alive(Tester))
            \/ f = Listener /\ worker_backlog # <<>>
            \/ f = SctpPort /\ sctp_backlog # <<>>
            \/ f \in Workers /\ (w2m[f] # <<>> \/ ~Alive(f))}
    ELSE {f \in {Master} \union Conns :
            \/ f = Master /\ (m2w[p] # <<>> \/ ~Alive(Master))
            \/ f \in Conns /\ (inbox[f] > 0 \/ ~Alive(Tester))}

\* The tester's SctpClientEndpoints are left out of its list: their callbacks
\* only read a notification and log it.
Poll(p) ==
    /\ pc[p] = "poll"
    /\ FdsOf(io[p].items) \intersect Readable(p) # {}
    /\ io' = [io EXCEPT ![p] = [items |-> Polled(@.items, Readable(p)),
                                i |-> 1]]
    /\ Goes(p, "pass")
    /\ UNCHANGED <<running, testerVars, masterVars, endpoint, backlogs,
                   streams, inbox, joined, kills>>

Cursor(p) == NextFired(io[p].items, io[p].i)

\* PollEventHandler of p is at the callback of descriptor f.
Fires(p, f) ==
    /\ pc[p] = "pass"
    /\ Cursor(p) # 0
    /\ io[p].items[Cursor(p)].fd = f

\* The callback leaves the poll list as items, and the loop goes on.
Proceed(p, items) ==
    io' = [io EXCEPT ![p] = [items |-> items, i |-> Cursor(p) + 1]]

\* The pass is over; the loop around Poll tests its flag only here.  A worker
\* returns from process() and exits, the others go on in run().
EndPass(p) ==
    /\ pc[p] = "pass"
    /\ Cursor(p) = 0
    /\ io' = [io EXCEPT ![p].i = 0]
    /\ Goes(p, IF running[p] THEN "poll"
               ELSE IF p \in Workers THEN "done" ELSE "terminate")
    /\ UNCHANGED <<running, testerVars, masterVars, endpoint, backlogs,
                   streams, inbox, joined, kills>>

-----------------------------------------------------------------------------
(* The tester.                                                             *)

\* tester::tester.  Entries registered outside a pass get their revents from
\* the next poll, so their garbage is immaterial.
TesterBoot ==
    /\ pc[Tester] = "boot"
    /\ Goes(Tester, "poll")
    /\ io' = [io EXCEPT ![Tester].items =
                 register_fd(register_fd(@, Listener, FALSE), Stdin, FALSE)]
    /\ UNCHANGED <<running, testerVars, masterVars, endpoint, backlogs,
                   streams, inbox, joined, kills>>

TesterListens == pc[Tester] # "boot" /\ Alive(Tester)

\* sut_connect_handler
TesterAccept ==
    /\ Fires(Tester, Listener)
    /\ sut_backlog
    /\ sut_backlog' = FALSE
    /\ sut_connected' = TRUE
    /\ \E g \in Garbage :
           Proceed(Tester, register_fd(io[Tester].items, Master, g))
    /\ UNCHANGED <<pc, running, stdin, tests, is_sut_ready, sctp_endpoints,
                   masterVars, endpoint, worker_backlog, sctp_backlog,
                   streams, inbox, joined, kills>>

\* The first half of test_case: a new SctpClientEndpoint connects.  The
\* kernel completes the association when the port is listened to, whether or
\* not the master has accepted; the server side then has the COMM_UP
\* notification to read.  A refused connect exits.
StartTest ==
    IF sctp_endpoint /\ Alive(Master)
    THEN \E c \in Conns \ ToSet(sctp_endpoints) :
            /\ sctp_endpoints' = Append(sctp_endpoints, c)
            /\ sctp_backlog' = Append(sctp_backlog, c)
            /\ inbox' = [inbox EXCEPT ![c] = 1]
            /\ Goes(Tester, "test")
    ELSE /\ Ends(Tester, "exit")
         /\ UNCHANGED <<sctp_endpoints, sctp_backlog, inbox>>

\* Some process of the server still has the connection open or on its way.
ServerHolds(c) ==
    \/ Alive(Master) /\ c \in ToSet(sctp_backlog)
    \/ \E w \in Workers :
           /\ Alive(w)
           /\ endpoint[w] = c \/ FdMsg(c) \in ToSet(m2w[w])

\* The second half: the message goes to sctp_endpoints.at(0), the first
\* endpoint ever opened.  If the server has closed it, the send fails
\* silently while the association is shutting down and raises SIGPIPE after.
TestSend ==
    /\ pc[Tester] = "test"
    /\ LET first == sctp_endpoints[1]
       IN \/ /\ ServerHolds(first)
             /\ inbox' = [inbox EXCEPT ![first] = @ + 1]
             /\ Goes(Tester, "pass")
          \/ /\ ~ServerHolds(first)
             /\ Goes(Tester, "pass") \/ Ends(Tester, "sigpipe")
             /\ UNCHANGED inbox
    /\ UNCHANGED <<io, running, testerVars, masterVars, endpoint, backlogs,
                   streams, joined, kills>>

\* ReadUserCmd, one byte of standard input.  '1' while the server is not
\* ready only prints and sleeps.
TesterKey ==
    /\ Fires(Tester, Stdin)
    /\ stdin # <<>>
    /\ stdin' = Tail(stdin)
    /\ Proceed(Tester, io[Tester].items)
    /\ \/ /\ Head(stdin) = "0"
          /\ running' = [running EXCEPT ![Tester] = FALSE]
          /\ UNCHANGED <<pc, sctp_endpoints, sctp_backlog, inbox>>
       \/ /\ Head(stdin) = "1" /\ ~is_sut_ready
          /\ UNCHANGED <<pc, running, sctp_endpoints, sctp_backlog, inbox>>
       \/ /\ Head(stdin) = "1" /\ is_sut_ready
          /\ StartTest
          /\ UNCHANGED running
    /\ UNCHANGED <<tests, sut_connected, is_sut_ready, masterVars, endpoint,
                   sut_backlog, worker_backlog, streams, joined, kills>>

\* The callback of the connected socket: domain_recv_msg and, for
\* MASTER_READY, test_msg_handler.
TesterReady ==
    /\ Fires(Tester, Master)
    /\ m2t # <<>>
    /\ m2t' = <<>>
    /\ Proceed(Tester, io[Tester].items)
    /\ IF Head(m2t) = Msg("MASTER_READY")
       THEN is_sut_ready' = TRUE /\ StartTest
       ELSE UNCHANGED <<pc, is_sut_ready, sctp_endpoints, sctp_backlog, inbox>>
    /\ UNCHANGED <<running, stdin, tests, sut_connected, masterVars, endpoint,
                   sut_backlog, worker_backlog, t2m, m2w, w2m, joined, kills>>

\* The same callback at the end of the stream.
TesterLostSut ==
    /\ Fires(Tester, Master)
    /\ m2t = <<>> /\ ~Alive(Master)
    /\ Proceed(Tester, deregister_fd(io[Tester].items, Master))
    /\ UNCHANGED <<pc, running, testerVars, masterVars, endpoint, backlogs,
                   streams, inbox, joined, kills>>

\* terminate() up to wait(): indicate_sut_to_quit writes through
\* test_socket_server_connect, which is null until a server was accepted.
TesterTerminate ==
    /\ pc[Tester] = "terminate"
    /\ \/ /\ ~sut_connected
          /\ Ends(Tester, "segv")
          /\ UNCHANGED t2m
       \/ /\ sut_connected /\ ~Alive(Master)
          /\ Ends(Tester, "sigpipe")
          /\ UNCHANGED t2m
       \/ /\ sut_connected /\ Alive(Master)
          /\ t2m' = Append(t2m, Msg("MASTER_TERMINATE"))
          /\ Goes(Tester, "wait")
    /\ UNCHANGED <<io, running, testerVars, masterVars, endpoint, backlogs,
                   m2t, m2w, w2m, inbox, joined, kills>>

\* wait(&status): the only child is the server.
TesterWait ==
    /\ pc[Tester] = "wait"
    /\ ~Alive(Master)
    /\ Ends(Tester, "done")
    /\ UNCHANGED <<io, running, testerVars, masterVars, endpoint, backlogs,
                   streams, inbox, joined, kills>>

-----------------------------------------------------------------------------
(* The master.                                                             *)

\* The first half of master::master: a client socket to the tester.  A
\* connect that finds nobody listening exits.
MasterConnect ==
    /\ pc[Master] = "boot"
    /\ IF TesterListens
       THEN /\ sut_backlog' = TRUE
            /\ io' = [io EXCEPT ![Master].items =
                         register_fd(@, Tester, FALSE)]
            /\ Goes(Master, "listen")
       ELSE /\ Ends(Master, "exit")
            /\ UNCHANGED <<sut_backlog, io>>
    /\ UNCHANGED <<running, testerVars, masterVars, endpoint, worker_backlog,
                   sctp_backlog, streams, inbox, joined, kills>>

\* The second half: the socket the workers connect to.
MasterListen ==
    /\ pc[Master] = "listen"
    /\ io' = [io EXCEPT ![Master].items = register_fd(@, Listener, FALSE)]
    /\ Goes(Master, "poll")
    /\ UNCHANGED <<running, testerVars, masterVars, endpoint, backlogs,
                   streams, inbox, joined, kills>>

MasterListens == pc[Master] \notin {"boot", "listen"} /\ Alive(Master)

\* The callback of the tester's socket: domain_read takes all the stream
\* holds, msg_handler looks at its first message.  The end of the stream
\* exits at once, without a word to the workers.
MasterTesterMsg ==
    /\ Fires(Master, Tester)
    /\ \/ /\ t2m # <<>>
          /\ t2m' = <<>>
          /\ running' = [running EXCEPT ![Master] =
                            @ /\ Head(t2m) # Msg("MASTER_TERMINATE")]
          /\ Proceed(Master, io[Master].items)
          /\ UNCHANGED pc
       \/ /\ t2m = <<>> /\ ~Alive(Tester)
          /\ Ends(Master, "exit")
          /\ UNCHANGED <<t2m, running, io>>
    /\ UNCHANGED <<testerVars, masterVars, endpoint, backlogs, m2t, m2w, w2m,
                   inbox, joined, kills>>

\* woker_connect_handler.  Descriptor numbers only grow while workers are
\* being accepted, so appending keeps the order of the std::map.
MasterAccept ==
    /\ Fires(Master, Listener)
    /\ worker_backlog # <<>>
    /\ LET w == Head(worker_backlog)
       IN /\ worker_backlog' = Tail(worker_backlog)
          /\ workers_socket_connect' = Append(workers_socket_connect, w)
          /\ \E g \in Garbage :
                 Proceed(Master, register_fd(io[Master].items, w, g))
    /\ UNCHANGED <<pc, running, testerVars, worker_count, workers_pid,
                   sctp_endpoint, endpoint, sut_backlog, sctp_backlog,
                   streams, inbox, joined, kills>>

\* master_ready_forwork: listen for SCTP, then tell the tester.  A second
\* call binds the port while the first endpoint still has it, and exits.
ReadyForWork ==
    /\ sctp_endpoint' = TRUE
    /\ \E g \in Garbage :
           Proceed(Master, register_fd(io[Master].items, SctpPort, g))
    /\ IF sctp_endpoint
       THEN Ends(Master, "exit") /\ UNCHANGED m2t
       ELSE IF Alive(Tester)
       THEN m2t' = Append(m2t, Msg("MASTER_READY")) /\ UNCHANGED pc
       ELSE Ends(Master, "sigpipe") /\ UNCHANGED m2t

\* worker_count == workers_pid.size(), and two ways to get it wrong.
SomeReady(n)  == n >= 1
NeverReady(n) == n > Cardinality(workers_pid)
AllReady(n)   == n = Cardinality(workers_pid)

\* worker_msg_handler with a message.
MasterWorkerMsg(w) ==
    /\ Fires(Master, w)
    /\ w2m[w] # <<>>
    /\ w2m' = [w2m EXCEPT ![w] = <<>>]
    /\ worker_count' = worker_count +
           (IF Head(w2m[w]) = Msg("WORKER_READY") THEN 1 ELSE 0)
    /\ IF AllReady(worker_count')
       THEN ReadyForWork
       ELSE /\ Proceed(Master, io[Master].items)
            /\ UNCHANGED <<pc, sctp_endpoint, m2t>>
    /\ UNCHANGED <<running, testerVars, workers_socket_connect, workers_pid,
                   endpoint, backlogs, t2m, m2w, inbox, joined, kills>>

\* worker_msg_handler at the end of the stream: the worker stays in
\* workers_socket_connect.  A worker that ended with unread messages resets
\* the connection instead, and domain_read exits on the error.  The first
\* form lacks the return of the null branch.
MasterLostWorker_falls_through(w) ==
    /\ Fires(Master, w)
    /\ w2m[w] = <<>> /\ ~Alive(w)
    /\ IF AllReady(worker_count)
       THEN ReadyForWork
       ELSE /\ Proceed(Master, deregister_fd(io[Master].items, w))
            /\ UNCHANGED <<pc, sctp_endpoint, m2t>>
    /\ UNCHANGED <<running, testerVars, worker_count, workers_socket_connect,
                   workers_pid, endpoint, backlogs, t2m, m2w, w2m, inbox,
                   joined, kills>>

MasterLostWorker(w) ==
    /\ Fires(Master, w)
    /\ w2m[w] = <<>> /\ ~Alive(w)
    /\ \/ /\ m2w[w] = <<>>
          /\ Proceed(Master, deregister_fd(io[Master].items, w))
          /\ UNCHANGED pc
       \/ /\ m2w[w] # <<>>
          /\ Ends(Master, "exit")
          /\ UNCHANGED io
    /\ UNCHANGED <<running, testerVars, masterVars, endpoint, backlogs,
                   streams, inbox, joined, kills>>

\* The new-connection handler given to the SctpServerEndpoint: accept, send
\* the descriptor to each worker in turn, close it.  Writing to a worker
\* that is gone raises SIGPIPE, the workers before it have been served.
MasterSctpAccept ==
    /\ Fires(Master, SctpPort)
    /\ sctp_backlog # <<>>
    /\ sctp_backlog' = Tail(sctp_backlog)
    /\ Proceed(Master, io[Master].items)
    /\ LET ws     == workers_socket_connect
           served == {ws[k] : k \in {n \in DOMAIN ws :
                                        \A j \in 1 .. n : Alive(ws[j])}}
       IN /\ m2w' = [w \in Workers |->
                        IF w \in served
                        THEN Append(m2w[w], FdMsg(Head(sctp_backlog)))
                        ELSE m2w[w]]
          /\ IF served = ToSet(ws) THEN UNCHANGED pc
                                   ELSE Ends(Master, "sigpipe")
    /\ UNCHANGED <<running, testerVars, masterVars, endpoint, sut_backlog,
                   worker_backlog, t2m, m2t, w2m, inbox, joined, kills>>

\* send_terminate_to_worker.  One unique_ptr is moved into the first
\* domain_write; the second one dereferences null.
MasterTerminate ==
    /\ pc[Master] = "terminate"
    /\ LET ws == workers_socket_connect
       IN \/ /\ ws = <<>>
             /\ Goes(Master, "wait")
             /\ UNCHANGED m2w
          \/ /\ ws # <<>> /\ ~Alive(ws[1])
             /\ Ends(Master, "sigpipe")
             /\ UNCHANGED m2w
          \/ /\ ws # <<>> /\ Alive(ws[1])
             /\ m2w' = [m2w EXCEPT ![ws[1]] =
                           Append(@, Msg("WORKER_TERMINATE"))]
             /\ IF Len(ws) = 1 THEN Goes(Master, "wait")
                               ELSE Ends(Master, "segv")
    /\ UNCHANGED <<io, running, testerVars, masterVars, endpoint, backlogs,
                   t2m, m2t, w2m, inbox, joined, kills>>

\* while(workers_pid.size()), and the loop that stops one worker too early.
OneMayRemain(pids) == Cardinality(pids) <= 1
AllReaped(pids)    == pids = {}

\* wait_until_workers_closed, one iteration per child that wait() returns;
\* main returns when the last is gone.
MasterWait(w) ==
    /\ pc[Master] = "wait"
    /\ w \in workers_pid /\ ~Alive(w)
    /\ workers_pid' = workers_pid \ {w}
    /\ Goes(Master, IF AllReaped(workers_pid') THEN "done" ELSE "wait")
    /\ UNCHANGED <<io, running, testerVars, worker_count,
                   workers_socket_connect, sctp_endpoint, endpoint, backlogs,
                   streams, inbox, joined, kills>>

-----------------------------------------------------------------------------
(* A worker.                                                               *)

\* process() up to the registration: sleep, connect or exit.
WorkerConnect(w) ==
    /\ pc[w] = "boot"
    /\ IF MasterListens
       THEN /\ worker_backlog' = Append(worker_backlog, w)
            /\ io' = [io EXCEPT ![w].items = register_fd(@, Master, FALSE)]
            /\ Goes(w, "hello")
       ELSE /\ Ends(w, "exit")
            /\ UNCHANGED <<worker_backlog, io>>
    /\ UNCHANGED <<running, testerVars, masterVars, endpoint, sut_backlog,
                   sctp_backlog, streams, inbox, joined, kills>>

\* send_worker_is_ready
WorkerHello(w) ==
    /\ pc[w] = "hello"
    /\ IF Alive(Master)
       THEN /\ w2m' = [w2m EXCEPT ![w] = Append(@, Msg("WORKER_READY"))]
            /\ joined' = joined \union {w}
            /\ Goes(w, "poll")
       ELSE /\ Ends(w, "sigpipe")
            /\ UNCHANGED <<w2m, joined>>
    /\ UNCHANGED <<io, running, testerVars, masterVars, endpoint, backlogs,
                   t2m, m2t, m2w, inbox, kills>>

\* recvmsg with a 256-byte buffer: it goes on over plain messages and stops
\* after the first one that carries a descriptor.
\* (ReceivesAll: a stream that would not stop there.)
FirstFd(s) ==
    LET fds == {k \in DOMAIN s : IsFd(s[k])}
    IN IF fds = {} THEN 0 ELSE Min(fds)
ReceivesAll(s) == Len(s)
Received(s)    == IF FirstFd(s) = 0 THEN Len(s) ELSE FirstFd(s)

\* sctp_endpoint = make_unique<SctpClientEndpoint>(...): the new endpoint
\* registers, then the destructor of the old one deregisters and closes.
\* The first form forgets the destructor's deregister_fd.
NewEndpoint_keeps_old(w, c) ==
    /\ endpoint' = [endpoint EXCEPT ![w] = c]
    /\ \E g \in Garbage : Proceed(w, register_fd(io[w].items, c, g))

NewEndpoint(w, c) ==
    /\ endpoint' = [endpoint EXCEPT ![w] = c]
    /\ \E g \in Garbage :
           LET grown == register_fd(io[w].items, c, g)
           IN Proceed(w, IF endpoint[w] = NoConn THEN grown
                         ELSE deregister_fd(grown, endpoint[w]))

\* worker::msg_handler when the stream holds something.  A descriptor hides
\* the plain messages received with it; of several plain messages only the
\* first is looked at.
WorkerMsg(w) ==
    /\ Fires(w, Master)
    /\ m2w[w] # <<>>
    /\ m2w' = [m2w EXCEPT ![w] = SubSeq(@, Received(@) + 1, Len(@))]
    /\ IF FirstFd(m2w[w]) # 0
       THEN /\ NewEndpoint(w, m2w[w][FirstFd(m2w[w])].conn)
            /\ UNCHANGED running
       ELSE /\ running' = [running EXCEPT ![w] =
                  @ /\ Head(m2w[w]) # Msg("WORKER_TERMINATE")]
            /\ Proceed(w, io[w].items)
            /\ UNCHANGED endpoint
    /\ UNCHANGED <<pc, testerVars, masterVars, backlogs, t2m, m2t, w2m, inbox,
                   joined, kills>>

\* worker::msg_handler at the end of the stream.  The first form does what
\* the TODO at worker.cpp:41 asks for, and nothing more.
WorkerLostMaster_deregisters(w) ==
    /\ Fires(w, Master)
    /\ m2w[w] = <<>> /\ ~Alive(Master)
    /\ Proceed(w, deregister_fd(io[w].items, Master))
    /\ UNCHANGED <<pc, running, testerVars, masterVars, endpoint, backlogs,
                   streams, inbox, joined, kills>>

WorkerLostMaster(w) ==
    /\ Fires(w, Master)
    /\ m2w[w] = <<>> /\ ~Alive(Master)
    /\ Ends(w, "exit")
    /\ UNCHANGED <<io, running, testerVars, masterVars, endpoint, backlogs,
                   streams, inbox, joined, kills>>

\* SctpClientEndpoint::SctpMsgHandler: one message is read and logged.  Every
\* worker has the same connection open, and one of them gets the message.
\* The first form reads without having to wait for the message.
WorkerSctpMsg_unguarded(w) ==
    /\ Fires(w, endpoint[w])
    /\ inbox' = [inbox EXCEPT ![endpoint[w]] = @ - 1]
    /\ Proceed(w, io[w].items)
    /\ UNCHANGED <<pc, running, testerVars, masterVars, endpoint, backlogs,
                   streams, joined, kills>>

WorkerSctpMsg(w) ==
    /\ Fires(w, endpoint[w])
    /\ inbox[endpoint[w]] > 0
    /\ inbox' = [inbox EXCEPT ![endpoint[w]] = @ - 1]
    /\ Proceed(w, io[w].items)
    /\ UNCHANGED <<pc, running, testerVars, masterVars, endpoint, backlogs,
                   streams, joined, kills>>

\* The same after the tester is gone: the read fails and is logged, or
\* returns the end of the stream without an address, on which the
\* constructor of SctpMessageEnvelope exits.
WorkerSctpLost(w) ==
    /\ Fires(w, endpoint[w])
    /\ inbox[endpoint[w]] = 0 /\ ~Alive(Tester)
    /\ \/ /\ Proceed(w, io[w].items)
          /\ UNCHANGED pc
       \/ /\ Ends(w, "exit")
          /\ UNCHANGED io
    /\ UNCHANGED <<running, testerVars, masterVars, endpoint, backlogs,
                   streams, inbox, joined, kills>>

-----------------------------------------------------------------------------
(* The environment.                                                        *)

\* The user types: '1' at most MaxTests times, '0' once.
Type(key) ==
    /\ Alive(Tester) /\ running[Tester]
    /\ \/ key = "1" /\ tests < MaxTests /\ tests' = tests + 1
       \/ key = "0" /\ "0" \notin ToSet(stdin) /\ tests' = tests
    /\ stdin' = Append(stdin, key)
    /\ UNCHANGED <<pc, io, running, sut_connected, is_sut_ready,
                   sctp_endpoints, masterVars, endpoint, backlogs, streams,
                   inbox, joined, kills>>

\* A process is killed from outside.
Kill(p) ==
    /\ kills < MaxKills
    /\ Alive(p)
    /\ kills' = kills + 1
    /\ Ends(p, "killed")
    /\ UNCHANGED <<io, running, testerVars, masterVars, endpoint, backlogs,
                   streams, inbox, joined>>

-----------------------------------------------------------------------------

TesterNext ==
    \/ TesterBoot \/ Poll(Tester) \/ EndPass(Tester)
    \/ TesterAccept \/ TesterKey \/ TesterReady \/ TesterLostSut
    \/ TestSend \/ TesterTerminate \/ TesterWait

MasterNext ==
    \/ MasterConnect \/ MasterListen \/ Poll(Master) \/ EndPass(Master)
    \/ MasterTesterMsg \/ MasterAccept \/ MasterSctpAccept
    \/ \E w \in Workers :
           MasterWorkerMsg(w) \/ MasterLostWorker(w) \/ MasterWait(w)
    \/ MasterTerminate

WorkerNext(w) ==
    \/ WorkerConnect(w) \/ WorkerHello(w) \/ Poll(w) \/ EndPass(w)
    \/ WorkerMsg(w) \/ WorkerLostMaster(w)
    \/ WorkerSctpMsg(w) \/ WorkerSctpLost(w)

Environment ==
    \/ \E key \in Keys : Type(key)
    \/ \E p \in Procs : Kill(p)

Next ==
    \/ TesterNext
    \/ MasterNext
    \/ \E w \in Workers : WorkerNext(w)
    \/ Environment

Spec == Init /\ [][Next]_vars

\* The operating system runs every process that can run; nothing obliges the
\* user to type or anybody to kill.
Fairness ==
    /\ WF_vars(TesterNext)
    /\ WF_vars(MasterNext)
    /\ \A w \in Workers : WF_vars(WorkerNext(w))

FairSpec == Spec /\ Fairness

-----------------------------------------------------------------------------
(* Properties.                                                             *)

\* The barrier of worker_msg_handler: the SCTP port is opened, and the tester
\* told or convinced, only after every worker has connected and has announced
\* itself, so that no connection can arrive before all workers can be given
\* it (worker_count == workers_pid.size()).
ReadyMeansAllJoined ==
    sctp_endpoint \/ is_sut_ready \/ m2t # <<>> =>
        /\ joined = Workers
        /\ ToSet(workers_socket_connect) = Workers

\* The master never runs master_ready_forwork twice, which would end it on
\* the port it already has: it exits only because the tester was not there
\* yet, or has gone, or because a worker ended with messages unread.  A worker
\* whose socket becomes readable by its death does not pass the barrier again.
MasterExitExplained ==
    pc[Master] = "exit" =>
        \/ io[Master].items = <<>>
        \/ ~Alive(Tester)
        \/ \E w \in Workers : ~Alive(w) /\ m2w[w] # <<>>

\* A worker polls the master's socket and its present endpoint and nothing
\* else: replacing the endpoint inside a callback leaves no entry for the
\* descriptor it closed (worker::msg_handler with ~SctpClientEndpoint).
PollsWhatItHolds ==
    \A w \in Workers : pc[w] \in {"hello", "poll", "pass"} =>
        [k \in DOMAIN io[w].items |-> io[w].items[k].fd] =
            IF endpoint[w] = NoConn THEN <<Master>>
                                    ELSE <<Master, endpoint[w]>>

\* Every worker ends up with the connection accepted last: descriptors are
\* passed to all workers, in the order of the accepts, and none is lost when
\* several are waiting in the stream.
Accepted == SubSeq(sctp_endpoints, 1,
                   Len(sctp_endpoints) - Len(sctp_backlog))

HoldsLatestConnection ==
    \A w \in Workers :
        /\ Alive(w) /\ Alive(Master)
        /\ Accepted # <<>>
        /\ FirstFd(m2w[w]) = 0
        => endpoint[w] = Last(Accepted)

\* A worker that takes WORKER_TERMINATE out of its stream obeys it: the
\* message is never received together with a descriptor that would hide it,
\* because the master sends nothing after it (run, worker::msg_handler).
TerminateNotSwallowed ==
    [][\A w \in Workers :
          /\ Msg("WORKER_TERMINATE") \in ToSet(m2w[w])
          /\ Msg("WORKER_TERMINATE") \notin ToSet(m2w'[w])
          => ~running'[w]]_vars

\* run() returns only when no worker is left (wait_until_workers_closed).
MasterOutlivesWorkers ==
    pc[Master] = "done" => \A w \in Workers : ~Alive(w)

\* Why the two hold, in four parts.  The master knows a worker before it
\* polls it; a worker announces itself once, with one message; worker_count
\* counts the workers whose announcement the master has taken; and a pid leaves
\* workers_pid only after the process, in the wait of the closing master.
Counted == {w \in joined : w2m[w] = <<>>}

WorkersKnown ==
    /\ Workers \intersect FdsOf(io[Master].items)
           \subseteq ToSet(workers_socket_connect)
    /\ Counted \subseteq ToSet(workers_socket_connect)

OneAnnouncement ==
    \A w \in Workers :
        /\ w2m[w] \in {<<>>, <<Msg("WORKER_READY")>>}
        /\ w2m[w] # <<>> => w \in joined
        /\ pc[w] \in {"boot", "hello"} => w \notin joined

CountIsExact ==
    /\ worker_count = Cardinality(Counted)
    /\ sctp_endpoint => Counted = Workers
    /\ is_sut_ready \/ m2t # <<>> => sctp_endpoint

Serving == {"boot", "listen", "poll", "pass", "terminate"}

ReapedHaveEnded ==
    /\ pc[Master] \in Serving => workers_pid = Workers
    /\ \A w \in Workers \ workers_pid : ~Alive(w)
    /\ pc[Master] = "done" => workers_pid = {}

\* The barrier's bookkeeping (worker_msg_handler, woker_connect_handler and
\* wait_until_workers_closed): with it the count can equal the number of
\* forked workers only when each of them has spoken.
BarrierInv ==
    WorkersKnown /\ OneAnnouncement /\ CountIsExact /\ ReapedHaveEnded

\* The group as its user sees it.
Lifecycle == INSTANCE GroupLifecycle WITH
    up     <- {w \in Workers : Alive(w)},
    ready  <- joined,
    open   <- sctp_endpoint,
    closed <- pc[Master] = "done"

\* Every step of the processes is a step of that specification or changes
\* nothing in it.
ImplementsLifecycle == Lifecycle!Spec

AllEnded == \A p \in Procs : ~Alive(p)

\* With the one worker of WORKER_NUM: once the tester that saw the server
\* ready has asked it to stop, all three processes end, whatever connections
\* are still on their way.
QuitEndsReadyServer == (pc[Tester] = "wait" /\ is_sut_ready) ~> AllEnded

\* Workers do not outlive the rest of the group: without tester and master
\* every worker ends by itself, also one that is blocked in a read of a
\* connection another worker has drained.
OrphansEnd == (~Alive(Tester) /\ ~Alive(Master)) ~> AllEnded

\* A start-up that nobody disturbs settles: the tester sees the server ready,
\* or one of the two races of the start-up (master before tester, worker
\* before master) has made a process exit.
StartUpSettles ==
    <>(is_sut_ready \/ ~running[Tester] \/ \E p \in Procs : ~Alive(p))

\* What the source says and the code does not keep.

\* tester.cpp:100 "Wait sut to quit": the wait ends.
TesterWaitEnds == pc[Tester] = "wait" ~> pc[Tester] = "done"

\* tester.cpp:80 "Enter 1 to to test!": testing a running server again does
\* not end the tester.
TestCanBeRepeated == Alive(Master) => pc[Tester] # "sigpipe"
=============================================================================
