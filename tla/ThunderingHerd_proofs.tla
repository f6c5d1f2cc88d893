------------------------ MODULE ThunderingHerd_proofs ------------------------
(***************************************************************************)
(* Proofs about ThunderingHerd, for any number of workers, connections,    *)
(* test requests and killed processes: the types first, then the barrier,  *)
(* the order of ending and the refinement of GroupLifecycle, and last what *)
(* the workers poll, hold and are told.                                    *)
(***************************************************************************)
EXTENDS ThunderingHerd, PollList_proofs

USE DEF testerVars, masterVars, backlogs, streams, Procs

PollLoop == [items : Seq(Entry(Fds)), i : Nat]

-----------------------------------------------------------------------------
(* The poll loop.                                                          *)

LEMMA FdsKnown ==
    /\ Tester \in Fds /\ Master \in Fds
    /\ Listener \in Fds /\ Stdin \in Fds /\ SctpPort \in Fds
    /\ Workers \subseteq Fds /\ Conns \subseteq Fds
BY DEF Fds

LEMMA CursorType ==
    ASSUME TypeOK, NEW p \in Procs
    PROVE  /\ Cursor(p) \in Nat
           /\ \A f : Fires(p, f) => f \in FdsOf(io[p].items)
<1>1. io[p].items \in Seq(Entry(Fds)) /\ io[p].i \in Nat
  BY DEF TypeOK
<1>2. /\ Cursor(p) \in Nat
      /\ Cursor(p) # 0 => Cursor(p) \in DOMAIN io[p].items
  <2>1. DOMAIN io[p].items = 1 .. Len(io[p].items)
    BY <1>1, LenProperties
  <2>2. QED
    BY <1>1, <2>1, NextFiredProperties DEF Cursor
<1>3. QED
  BY <1>2 DEF Fires, FdsOf

\* A callback replaces the poll list of its own process and nothing else.
LEMMA ProceedEffect ==
    ASSUME TypeOK, NEW p \in Procs, NEW items \in Seq(Entry(Fds)),
           Proceed(p, items)
    PROVE  /\ io' \in [Procs -> PollLoop]
           /\ io'[p].items = items
           /\ \A q \in Procs : q # p => io'[q] = io[q]
<1>1. Cursor(p) + 1 \in Nat
  BY CursorType
<1>2. io \in [Procs -> PollLoop]
  BY DEF TypeOK, PollLoop
<1>3. QED
  BY <1>1, <1>2 DEF Proceed, PollLoop

\* Registering leaves a poll list, with one descriptor more.
LEMMA Registered ==
    ASSUME TypeOK, NEW p \in Procs, NEW f \in Fds, NEW g \in BOOLEAN
    PROVE  /\ register_fd(io[p].items, f, g) \in Seq(Entry(Fds))
           /\ FdsOf(register_fd(io[p].items, f, g)) = FdsOf(io[p].items) \union {f}
<1>1. io[p].items \in Seq(Entry(Fds))
  BY DEF TypeOK
<1>2. QED
  BY <1>1, RegisterProperties

LEMMA GarbageIsBoolean == \A g \in Garbage : g \in BOOLEAN
BY HerdAssumption

\* Poll and EndPass keep every poll list's descriptors.
LEMMA PollEffect ==
    ASSUME TypeOK, NEW p \in Procs, Poll(p) \/ EndPass(p)
    PROVE  /\ io' \in [Procs -> PollLoop]
           /\ \A q \in Procs : FdsOf(io'[q].items) = FdsOf(io[q].items)
<1>1. io \in [Procs -> PollLoop] /\ io[p].items \in Seq(Entry(Fds))
  BY DEF TypeOK, PollLoop
<1>2. /\ Polled(io[p].items, Readable(p)) \in Seq(Entry(Fds))
      /\ FdsOf(Polled(io[p].items, Readable(p))) = FdsOf(io[p].items)
  BY <1>1, PolledProperties
<1>3. CASE Poll(p)
  BY <1>1, <1>2, <1>3 DEF Poll, PollLoop
<1>4. CASE EndPass(p)
  BY <1>1, <1>4 DEF EndPass, PollLoop
<1>5. QED
  BY <1>3, <1>4

-----------------------------------------------------------------------------
(* Streams.                                                                *)

LEMMA MessageTypes ==
    /\ \A id \in MsgIds : Msg(id) \in Message /\ ~IsFd(Msg(id))
    /\ \A c \in Conns : FdMsg(c) \in Message /\ IsFd(FdMsg(c))
    /\ \A m \in Message : IsFd(m) => m.conn \in Conns
BY DEF Msg, FdMsg, IsFd, Message, MsgIds

\* recvmsg takes a prefix off the stream; FirstFd is the place of a descriptor.
LEMMA ReceivedType ==
    ASSUME NEW s \in Seq(Message)
    PROVE  /\ SubSeq(s, Received(s) + 1, Len(s)) \in Seq(Message)
           /\ FirstFd(s) # 0 => s[FirstFd(s)].conn \in Conns
<1> DEFINE fds == {k \in DOMAIN s : IsFd(s[k])}
<1>0. DOMAIN s = 1 .. Len(s) /\ Len(s) \in Nat
  BY LenProperties
<1>1. fds # {} => Min(fds) \in fds
  <2>1. fds \in SUBSET Nat
    BY <1>0
  <2> HIDE DEF fds
  <2>2. QED
    BY <2>1, MinInSet
<1>2. FirstFd(s) = IF fds = {} THEN 0 ELSE Min(fds)
  BY DEF FirstFd
<1>3. FirstFd(s) \in Nat
  BY <1>0, <1>1, <1>2
<1>4. Received(s) \in Nat
  BY <1>0, <1>3 DEF Received
<1>5. SubSeq(s, Received(s) + 1, Len(s)) \in Seq(Message)
  <2>1. \A k \in Received(s) + 1 .. Len(s) : s[k] \in Message
    <3> SUFFICES ASSUME NEW k \in Received(s) + 1 .. Len(s)
                 PROVE  s[k] \in Message
      OBVIOUS
    <3>1. k \in 1 .. Len(s)
      BY <1>0, <1>4
    <3>2. QED
      BY <3>1, ElementOfSeq
  <2>2. Received(s) + 1 \in Int /\ Len(s) \in Int
    BY <1>0, <1>4
  <2>3. QED
    BY <2>1, <2>2, SubSeqProperties
<1>6. FirstFd(s) # 0 => s[FirstFd(s)].conn \in Conns
  <2>1. SUFFICES ASSUME FirstFd(s) # 0 PROVE s[FirstFd(s)].conn \in Conns
    OBVIOUS
  <2>2. FirstFd(s) \in DOMAIN s /\ IsFd(s[FirstFd(s)])
    BY <1>1, <1>2, <2>1
  <2>3. s[FirstFd(s)] \in Message
    BY <1>0, <2>2, ElementOfSeq
  <2>4. QED
    BY <2>2, <2>3, MessageTypes
<1>7. QED
  BY <1>5, <1>6

-----------------------------------------------------------------------------
(* Type correctness.                                                       *)

\* The conjuncts of TypeOK about one process's steps: what is left to show
\* once the poll lists are known to be poll lists.
LEMMA TypeInit == Init => TypeOK
<1> SUFFICES ASSUME Init PROVE TypeOK
  OBVIOUS
<1> USE DEF Init
<1>1. io \in [Procs -> [items : Seq(Entry(Fds)), i : Nat]]
  OBVIOUS
<1>2. pc \in [Procs -> States]
  BY DEF States
<1>3. tests \in 0 .. MaxTests /\ kills \in 0 .. MaxKills
  BY HerdAssumption
<1>4. /\ stdin \in Seq(Keys) /\ sctp_endpoints \in Seq(Conns)
      /\ workers_socket_connect \in Seq(Workers)
      /\ worker_backlog \in Seq(Workers) /\ sctp_backlog \in Seq(Conns)
      /\ t2m \in Seq(Message) /\ m2t \in Seq(Message)
      /\ m2w \in [Workers -> Seq(Message)] /\ w2m \in [Workers -> Seq(Message)]
  OBVIOUS
<1>5. /\ running \in [Procs -> BOOLEAN]
      /\ endpoint \in [Workers -> Conns \union {NoConn}]
      /\ inbox \in [Conns -> Nat]
  OBVIOUS
<1>6. /\ sut_connected \in BOOLEAN /\ is_sut_ready \in BOOLEAN
      /\ sctp_endpoint \in BOOLEAN /\ sut_backlog \in BOOLEAN
      /\ worker_count \in Nat
      /\ workers_pid \subseteq Workers /\ joined \subseteq Workers
  OBVIOUS
<1>7. QED
  BY <1>1, <1>2, <1>3, <1>4, <1>5, <1>6 DEF TypeOK

LEMMA TesterType ==
    ASSUME TypeOK, TesterNext
    PROVE  TypeOK'
<1> USE DEF States, Ended, Ends, Goes
<1>0. /\ Tester \in Procs
      /\ Tester \in Fds /\ Master \in Fds /\ Listener \in Fds /\ Stdin \in Fds
      /\ io[Tester].items \in Seq(Entry(Fds))
  BY FdsKnown DEF TypeOK
<1>a. StartTest => /\ sctp_endpoints' \in Seq(Conns)
                   /\ sctp_backlog' \in Seq(Conns)
                   /\ inbox' \in [Conns -> Nat]
                   /\ pc' \in [Procs -> States]
  <2> SUFFICES ASSUME StartTest
               PROVE  /\ sctp_endpoints' \in Seq(Conns)
                      /\ sctp_backlog' \in Seq(Conns)
                      /\ inbox' \in [Conns -> Nat]
                      /\ pc' \in [Procs -> States]
    OBVIOUS
  <2>1. /\ sctp_endpoints \in Seq(Conns) /\ sctp_backlog \in Seq(Conns)
        /\ inbox \in [Conns -> Nat] /\ pc \in [Procs -> States]
    BY DEF TypeOK
  <2>2. CASE sctp_endpoint /\ Alive(Master)
    <3>1. PICK c \in Conns :
              /\ sctp_endpoints' = Append(sctp_endpoints, c)
              /\ sctp_backlog' = Append(sctp_backlog, c)
              /\ inbox' = [inbox EXCEPT ![c] = 1]
              /\ pc' = [pc EXCEPT ![Tester] = "test"]
      BY <2>2 DEF StartTest
    <3>2. /\ sctp_endpoints' \in Seq(Conns)
          /\ sctp_backlog' \in Seq(Conns)
      BY <2>1, <3>1
    <3>3. inbox' \in [Conns -> Nat]
      BY <2>1, <3>1
    <3>4. pc' \in [Procs -> States]
      BY <2>1, <3>1
    <3>5. QED
      BY <3>2, <3>3, <3>4
  <2>3. CASE ~(sctp_endpoint /\ Alive(Master))
    BY <1>0, <2>1, <2>3 DEF StartTest
  <2>4. QED
    BY <2>2, <2>3
<1>1. CASE TesterBoot
  <2>1. register_fd(register_fd(io[Tester].items, Listener, FALSE), Stdin, FALSE)
            \in Seq(Entry(Fds))
    BY <1>0, RegisterProperties
  <2>2. QED
    BY <1>0, <1>1, <2>1 DEF TypeOK, TesterBoot
<1>2. CASE Poll(Tester) \/ EndPass(Tester)
  BY <1>0, <1>2, PollEffect DEF TypeOK, Poll, EndPass, PollLoop
<1>3. CASE TesterAccept
  <2>1. PICK g \in Garbage : Proceed(Tester, register_fd(io[Tester].items, Master, g))
    BY <1>3 DEF TesterAccept
  <2>2. io' \in [Procs -> PollLoop]
    BY <1>0, <2>1, GarbageIsBoolean, Registered, ProceedEffect
  <2>3. QED
    BY <1>3, <2>2 DEF TypeOK, TesterAccept, PollLoop
<1>4. CASE TesterKey
  <2>1. io' \in [Procs -> PollLoop]
    BY <1>0, <1>4, ProceedEffect DEF TesterKey
  <2>2. stdin' \in Seq(Keys)
    BY <1>4 DEF TypeOK, TesterKey
  <2>3. /\ sctp_endpoints' \in Seq(Conns)
        /\ sctp_backlog' \in Seq(Conns)
        /\ inbox' \in [Conns -> Nat]
        /\ pc' \in [Procs -> States]
        /\ running' \in [Procs -> BOOLEAN]
    BY <1>0, <1>4, <1>a DEF TypeOK, TesterKey
  <2>4. QED
    BY <1>4, <2>1, <2>2, <2>3 DEF TypeOK, TesterKey, PollLoop
<1>5. CASE TesterReady
  <2>1. io' \in [Procs -> PollLoop]
    BY <1>0, <1>5, ProceedEffect DEF TesterReady
  <2>2. /\ sctp_endpoints' \in Seq(Conns)
        /\ sctp_backlog' \in Seq(Conns)
        /\ inbox' \in [Conns -> Nat]
        /\ pc' \in [Procs -> States]
    BY <1>5, <1>a DEF TypeOK, TesterReady
  <2>3. is_sut_ready' \in BOOLEAN
    BY <1>5 DEF TypeOK, TesterReady
  <2>4. m2t' \in Seq(Message)
    BY <1>5 DEF TesterReady
  <2>5. QED
    BY <1>5, <2>1, <2>2, <2>3, <2>4 DEF TypeOK, TesterReady, PollLoop
<1>6. CASE TesterLostSut
  <2>1. deregister_fd(io[Tester].items, Master) \in Seq(Entry(Fds))
    BY <1>0, DeregisterProperties
  <2>2. io' \in [Procs -> PollLoop]
    BY <1>0, <1>6, <2>1, ProceedEffect DEF TesterLostSut
  <2>3. QED
    BY <1>6, <2>2 DEF TypeOK, TesterLostSut, PollLoop
<1>7. CASE TestSend
  <2>1. inbox' \in [Conns -> Nat] /\ pc' \in [Procs -> States]
    BY <1>0, <1>7 DEF TypeOK, TestSend
  <2>2. QED
    BY <1>7, <2>1 DEF TypeOK, TestSend
<1>8. CASE TesterTerminate
  <2>0. /\ t2m \in Seq(Message) /\ pc \in [Procs -> States]
        /\ Msg("MASTER_TERMINATE") \in Message
    BY MessageTypes DEF TypeOK, MsgIds
  <2>a. pc' \in [Procs -> States]
    BY <1>8, <2>0 DEF TesterTerminate
  <2>b. t2m' = t2m \/ t2m' = Append(t2m, Msg("MASTER_TERMINATE"))
    BY <1>8 DEF TesterTerminate
  <2>1. t2m' \in Seq(Message) /\ pc' \in [Procs -> States]
    BY <2>0, <2>a, <2>b
  <2>2. QED
    BY <1>8, <2>1 DEF TypeOK, TesterTerminate
<1>9. CASE TesterWait
  BY <1>0, <1>9 DEF TypeOK, TesterWait
<1>10. QED
  BY <1>1, <1>2, <1>3, <1>4, <1>5, <1>6, <1>7, <1>8, <1>9 DEF TesterNext

LEMMA MasterType ==
    ASSUME TypeOK, MasterNext
    PROVE  TypeOK'
<1> USE DEF States, Ended, Ends, Goes
<1>0. /\ Master \in Procs
      /\ Tester \in Fds /\ Listener \in Fds /\ SctpPort \in Fds
      /\ Workers \subseteq Fds
      /\ io[Master].items \in Seq(Entry(Fds))
      /\ pc \in [Procs -> States]
  BY FdsKnown DEF TypeOK
<1>1. CASE MasterConnect
  <2>1. register_fd(io[Master].items, Tester, FALSE) \in Seq(Entry(Fds))
    BY <1>0, Registered
  <2>2. io' \in [Procs -> PollLoop]
    <3>1. io \in [Procs -> PollLoop]
      BY DEF TypeOK, PollLoop
    <3>2. \/ io' = io
          \/ io' = [io EXCEPT ![Master].items = register_fd(@, Tester, FALSE)]
      BY <1>1 DEF MasterConnect
    <3>3. QED
      BY <1>0, <2>1, <3>1, <3>2 DEF PollLoop
  <2>3. pc' \in [Procs -> States]
    BY <1>0, <1>1 DEF MasterConnect
  <2>4. QED
    BY <1>1, <2>2, <2>3 DEF TypeOK, MasterConnect, PollLoop
<1>2. CASE MasterListen
  <2>1. register_fd(io[Master].items, Listener, FALSE) \in Seq(Entry(Fds))
    BY <1>0, Registered
  <2>2. QED
    BY <1>0, <1>2, <2>1 DEF TypeOK, MasterListen
<1>3. CASE Poll(Master) \/ EndPass(Master)
  BY <1>0, <1>3, PollEffect DEF TypeOK, Poll, EndPass, PollLoop
<1>4. CASE MasterTesterMsg
  <2>1. io' \in [Procs -> PollLoop]
    BY <1>0, <1>4, ProceedEffect DEF MasterTesterMsg, TypeOK, PollLoop
  <2>2. pc' \in [Procs -> States]
    BY <1>0, <1>4 DEF MasterTesterMsg
  <2>3. running' \in [Procs -> BOOLEAN]
    BY <1>4 DEF MasterTesterMsg, TypeOK
  <2>4. t2m' \in Seq(Message)
    <3>1. t2m \in Seq(Message)
      BY DEF TypeOK
    <3>2. t2m' = t2m \/ t2m' = <<>>
      BY <1>4 DEF MasterTesterMsg
    <3>3. <<>> \in Seq(Message)
      OBVIOUS
    <3>4. QED
      BY <3>1, <3>2, <3>3
  <2>5. QED
    BY <1>4, <2>1, <2>2, <2>3, <2>4 DEF TypeOK, MasterTesterMsg, PollLoop
<1>5. CASE MasterAccept
  <2> DEFINE w == Head(worker_backlog)
  <2>1. /\ w \in Workers /\ Tail(worker_backlog) \in Seq(Workers)
        /\ Append(workers_socket_connect, w) \in Seq(Workers)
    BY <1>5 DEF MasterAccept, TypeOK
  <2>2. PICK g \in Garbage : Proceed(Master, register_fd(io[Master].items, w, g))
    BY <1>5 DEF MasterAccept
  <2>3. io' \in [Procs -> PollLoop]
    BY <1>0, <2>1, <2>2, GarbageIsBoolean, Registered, ProceedEffect
  <2>4. QED
    BY <1>5, <2>1, <2>3 DEF TypeOK, MasterAccept, PollLoop
<1>6. ASSUME ReadyForWork
      PROVE  /\ io' \in [Procs -> PollLoop]
             /\ pc' \in [Procs -> States]
             /\ m2t' \in Seq(Message)
             /\ sctp_endpoint' \in BOOLEAN
  <2>1. PICK g \in Garbage :
            Proceed(Master, register_fd(io[Master].items, SctpPort, g))
    BY <1>6 DEF ReadyForWork
  <2>2. io' \in [Procs -> PollLoop]
    BY <1>0, <2>1, GarbageIsBoolean, Registered, ProceedEffect
  <2>3. pc' \in [Procs -> States]
    BY <1>0, <1>6 DEF ReadyForWork
  <2>4. m2t' = m2t \/ m2t' = Append(m2t, Msg("MASTER_READY"))
    BY <1>6 DEF ReadyForWork
  <2>5. m2t \in Seq(Message) /\ Msg("MASTER_READY") \in Message
    BY MessageTypes DEF TypeOK, MsgIds
  <2>6. sctp_endpoint' \in BOOLEAN
    BY <1>6 DEF ReadyForWork
  <2>7. m2t' \in Seq(Message)
    BY <2>4, <2>5
  <2>8. QED
    BY <2>2, <2>3, <2>6, <2>7
<1>7. ASSUME NEW w \in Workers, MasterWorkerMsg(w)
      PROVE  TypeOK'
  <2>1. /\ io' \in [Procs -> PollLoop]
        /\ pc' \in [Procs -> States]
        /\ m2t' \in Seq(Message)
        /\ sctp_endpoint' \in BOOLEAN
    <3>1. CASE AllReady(worker_count')
      BY <1>6, <1>7, <3>1 DEF MasterWorkerMsg
    <3>2. CASE ~AllReady(worker_count')
      <4>1. /\ Proceed(Master, io[Master].items)
            /\ UNCHANGED <<pc, sctp_endpoint, m2t>>
        BY <1>7, <3>2 DEF MasterWorkerMsg
      <4>2. QED
        BY <1>0, <4>1, ProceedEffect DEF TypeOK
    <3>3. QED
      BY <3>1, <3>2
  <2>2. w2m' \in [Workers -> Seq(Message)] /\ worker_count' \in Nat
    BY <1>7 DEF MasterWorkerMsg, TypeOK
  <2>3. QED
    BY <1>7, <2>1, <2>2 DEF TypeOK, MasterWorkerMsg, PollLoop
<1>8. ASSUME NEW w \in Workers, MasterLostWorker(w)
      PROVE  TypeOK'
  <2>1. deregister_fd(io[Master].items, w) \in Seq(Entry(Fds))
    BY <1>0, DeregisterProperties
  <2>2. io' \in [Procs -> PollLoop]
    BY <1>0, <1>8, <2>1, ProceedEffect DEF MasterLostWorker, TypeOK, PollLoop
  <2>3. pc' \in [Procs -> States]
    BY <1>0, <1>8 DEF MasterLostWorker
  <2>4. QED
    BY <1>8, <2>2, <2>3 DEF TypeOK, MasterLostWorker, PollLoop
<1>9. CASE MasterSctpAccept
  <2>1. /\ Head(sctp_backlog) \in Conns /\ Tail(sctp_backlog) \in Seq(Conns)
    BY <1>9 DEF MasterSctpAccept, TypeOK
  <2>2. io' \in [Procs -> PollLoop]
    BY <1>0, <1>9, ProceedEffect DEF MasterSctpAccept
  <2>3. FdMsg(Head(sctp_backlog)) \in Message
    BY <2>1, MessageTypes
  <2>4. m2w' \in [Workers -> Seq(Message)]
    <3>1. PICK served : m2w' = [w \in Workers |->
                        IF w \in served
                        THEN Append(m2w[w], FdMsg(Head(sctp_backlog)))
                        ELSE m2w[w]]
      BY <1>9 DEF MasterSctpAccept
    <3>2. QED
      BY <2>3, <3>1 DEF TypeOK
  <2>5. pc' \in [Procs -> States]
    BY <1>0, <1>9 DEF MasterSctpAccept
  <2>6. QED
    BY <1>9, <2>1, <2>2, <2>4, <2>5 DEF TypeOK, MasterSctpAccept, PollLoop
<1>10. CASE MasterTerminate
  <2>1. pc' \in [Procs -> States]
    BY <1>0, <1>10 DEF MasterTerminate
  <2>2. m2w \in [Workers -> Seq(Message)] /\ Msg("WORKER_TERMINATE") \in Message
    BY MessageTypes DEF TypeOK, MsgIds
  <2>3. \/ m2w' = m2w
        \/ m2w' = [m2w EXCEPT ![workers_socket_connect[1]] =
                       Append(@, Msg("WORKER_TERMINATE"))]
    BY <1>10 DEF MasterTerminate
  <2>4. m2w' \in [Workers -> Seq(Message)]
    <3>1. \A q \in Seq(Message) : Append(q, Msg("WORKER_TERMINATE")) \in Seq(Message)
      BY <2>2
    <3>2. QED
      BY <2>2, <2>3, <3>1
  <2>5. QED
    BY <1>10, <2>1, <2>4 DEF TypeOK, MasterTerminate
<1>11. ASSUME NEW w \in Workers, MasterWait(w)
       PROVE  TypeOK'
  <2>1. pc' \in [Procs -> States] /\ workers_pid' \subseteq Workers
    BY <1>0, <1>11 DEF MasterWait, TypeOK
  <2>2. QED
    BY <1>11, <2>1 DEF TypeOK, MasterWait
<1>12. QED
  BY <1>1, <1>2, <1>3, <1>4, <1>5, <1>7, <1>8, <1>9, <1>10, <1>11
  DEF MasterNext

LEMMA WorkerType ==
    ASSUME TypeOK, NEW w \in Workers, WorkerNext(w)
    PROVE  TypeOK'
<1> USE DEF States, Ended, Ends, Goes
<1>0. /\ w \in Procs
      /\ w \in Fds /\ Master \in Fds /\ Conns \subseteq Fds
      /\ io[w].items \in Seq(Entry(Fds))
      /\ pc \in [Procs -> States]
      /\ io \in [Procs -> PollLoop]
  BY FdsKnown DEF TypeOK, PollLoop
<1>1. CASE WorkerConnect(w)
  <2>1. register_fd(io[w].items, Master, FALSE) \in Seq(Entry(Fds))
    BY <1>0, Registered
  <2>2. \/ io' = io
        \/ io' = [io EXCEPT ![w].items = register_fd(@, Master, FALSE)]
    BY <1>1 DEF WorkerConnect
  <2>3. io' \in [Procs -> PollLoop]
    BY <1>0, <2>1, <2>2 DEF PollLoop
  <2>4. pc' \in [Procs -> States]
    BY <1>0, <1>1 DEF WorkerConnect
  <2>5. worker_backlog' \in Seq(Workers)
    <3>1. \/ worker_backlog' = worker_backlog
          \/ worker_backlog' = Append(worker_backlog, w)
      BY <1>1 DEF WorkerConnect
    <3>2. worker_backlog \in Seq(Workers)
      BY DEF TypeOK
    <3>3. QED
      BY <3>1, <3>2
  <2>6. QED
    BY <1>1, <2>3, <2>4, <2>5 DEF TypeOK, WorkerConnect, PollLoop
<1>2. CASE WorkerHello(w)
  <2>a. pc' \in [Procs -> States]
    BY <1>0, <1>2 DEF WorkerHello
  <2>1. pc' \in [Procs -> States] /\ joined' \subseteq Workers
    BY <1>2, <2>a DEF WorkerHello, TypeOK
  <2>2. w2m' \in [Workers -> Seq(Message)]
    <3>1. w2m \in [Workers -> Seq(Message)] /\ Msg("WORKER_READY") \in Message
      BY MessageTypes DEF TypeOK, MsgIds
    <3>2. \A q \in Seq(Message) : Append(q, Msg("WORKER_READY")) \in Seq(Message)
      BY <3>1
    <3>3. \/ w2m' = w2m
          \/ w2m' = [w2m EXCEPT ![w] = Append(@, Msg("WORKER_READY"))]
      BY <1>2 DEF WorkerHello
    <3>4. QED
      BY <3>1, <3>2, <3>3
  <2>3. QED
    BY <1>2, <2>1, <2>2 DEF TypeOK, WorkerHello
<1>3. CASE Poll(w) \/ EndPass(w)
  BY <1>0, <1>3, PollEffect DEF TypeOK, Poll, EndPass, PollLoop
<1>4. CASE WorkerMsg(w)
  <2>1. m2w \in [Workers -> Seq(Message)]
    BY DEF TypeOK
  <2>2. m2w' \in [Workers -> Seq(Message)]
    <3>1. \A q \in Seq(Message) :
              SubSeq(q, Received(q) + 1, Len(q)) \in Seq(Message)
      BY ReceivedType
    <3>2. m2w' = [m2w EXCEPT ![w] = SubSeq(@, Received(@) + 1, Len(@))]
      BY <1>4 DEF WorkerMsg
    <3>3. QED
      BY <2>1, <3>1, <3>2
  <2>3. CASE FirstFd(m2w[w]) # 0
    <3> DEFINE c == m2w[w][FirstFd(m2w[w])].conn
    <3>1. c \in Conns
      BY <2>1, <2>3, ReceivedType
    <3>2. NewEndpoint(w, c) /\ UNCHANGED running
      BY <1>4, <2>3 DEF WorkerMsg
    <3> HIDE DEF c
    <3>3. PICK g \in Garbage :
              Proceed(w, IF endpoint[w] = NoConn
                         THEN register_fd(io[w].items, c, g)
                         ELSE deregister_fd(register_fd(io[w].items, c, g),
                                            endpoint[w]))
      BY <3>2 DEF NewEndpoint
    <3>4. register_fd(io[w].items, c, g) \in Seq(Entry(Fds))
      BY <1>0, <3>1, GarbageIsBoolean, Registered
    <3>5. deregister_fd(register_fd(io[w].items, c, g), endpoint[w])
              \in Seq(Entry(Fds))
      BY <3>4, DeregisterProperties
    <3>6. io' \in [Procs -> PollLoop]
      BY <1>0, <3>3, <3>4, <3>5, ProceedEffect
    <3>7. endpoint' \in [Workers -> Conns \union {NoConn}]
      BY <3>1, <3>2 DEF NewEndpoint, TypeOK
    <3>8. QED
      BY <1>4, <2>2, <3>2, <3>6, <3>7 DEF TypeOK, WorkerMsg, PollLoop
  <2>4. CASE FirstFd(m2w[w]) = 0
    <3>1. /\ running' = [running EXCEPT ![w] =
                  @ /\ Head(m2w[w]) # Msg("WORKER_TERMINATE")]
          /\ Proceed(w, io[w].items)
          /\ UNCHANGED endpoint
      BY <1>4, <2>4 DEF WorkerMsg
    <3>2. io' \in [Procs -> PollLoop]
      BY <1>0, <3>1, ProceedEffect
    <3>3. running' \in [Procs -> BOOLEAN]
      BY <3>1 DEF TypeOK
    <3>4. QED
      BY <1>4, <2>2, <3>1, <3>2, <3>3 DEF TypeOK, WorkerMsg, PollLoop
  <2>5. QED
    BY <2>3, <2>4
<1>5. CASE WorkerLostMaster(w)
  BY <1>0, <1>5 DEF TypeOK, WorkerLostMaster
<1>6. CASE WorkerSctpMsg(w)
  <2>1. io' \in [Procs -> PollLoop]
    BY <1>0, <1>6, ProceedEffect DEF WorkerSctpMsg
  <2>2. inbox' \in [Conns -> Nat]
    <3>1. PICK c : /\ inbox[c] > 0
                   /\ inbox' = [inbox EXCEPT ![c] = @ - 1]
      BY <1>6 DEF WorkerSctpMsg
    <3>2. inbox \in [Conns -> Nat]
      BY DEF TypeOK
    <3>3. c \in Conns => inbox[c] \in Nat /\ inbox[c] - 1 \in Nat
      BY <3>1, <3>2
    <3>4. inbox' = [d \in Conns |-> IF d = c THEN inbox[c] - 1 ELSE inbox[d]]
      BY <3>1, <3>2
    <3>5. QED
      BY <3>2, <3>3, <3>4
  <2>3. QED
    BY <1>6, <2>1, <2>2 DEF TypeOK, WorkerSctpMsg, PollLoop
<1>7. CASE WorkerSctpLost(w)
  <2>1. io' \in [Procs -> PollLoop]
    BY <1>0, <1>7, ProceedEffect DEF WorkerSctpLost
  <2>2. pc' \in [Procs -> States]
    BY <1>0, <1>7 DEF WorkerSctpLost
  <2>3. QED
    BY <1>7, <2>1, <2>2 DEF TypeOK, WorkerSctpLost, PollLoop
<1>8. QED
  BY <1>1, <1>2, <1>3, <1>4, <1>5, <1>6, <1>7 DEF WorkerNext

LEMMA EnvironmentType ==
    ASSUME TypeOK, Environment
    PROVE  TypeOK'
<1>1. ASSUME NEW key \in Keys, Type(key) PROVE TypeOK'
  <2>1. stdin' \in Seq(Keys)
    BY <1>1 DEF Type, TypeOK
  <2>2. tests' \in 0 .. MaxTests
    BY <1>1, HerdAssumption DEF Type, TypeOK
  <2>3. QED
    BY <1>1, <2>1, <2>2 DEF TypeOK, Type
<1>2. ASSUME NEW p \in Procs, Kill(p) PROVE TypeOK'
  <2>1. kills' \in 0 .. MaxKills
    BY <1>2, HerdAssumption DEF Kill, TypeOK
  <2>2. pc' \in [Procs -> States]
    BY <1>2 DEF Kill, Ends, TypeOK, States, Ended
  <2>3. QED
    BY <1>2, <2>1, <2>2 DEF TypeOK, Kill
<1>3. QED
  BY <1>1, <1>2 DEF Environment

LEMMA TypeStep ==
    ASSUME TypeOK, [Next]_vars
    PROVE  TypeOK'
<1>1. CASE Next
  BY <1>1, TesterType, MasterType, WorkerType, EnvironmentType DEF Next
<1>2. CASE UNCHANGED vars
  BY <1>2 DEF TypeOK, vars
<1>3. QED
  BY <1>1, <1>2

\* Every reachable state is well typed: in particular every poll list holds
\* descriptors of its process and no connection has fewer than no messages,
\* for any number of workers (the reads of worker::msg_handler and
\* SctpClientEndpoint::SctpMsgHandler take what is there).
THEOREM TypeCorrect == Spec => []TypeOK
BY TypeInit, TypeStep, PTL DEF Spec

-----------------------------------------------------------------------------
(* The barrier.  The master opens its service only when all workers have   *)
(* joined and returns only when none is left, and the group implements     *)
(* GroupLifecycle.                                                         *)

Inv == TypeOK /\ BarrierInv

LEMMA ProcsDiffer ==
    /\ Tester # Master
    /\ Tester \notin Workers /\ Master \notin Workers
    /\ \A w \in Workers : w # Tester /\ w # Master
    /\ Listener \notin Workers /\ SctpPort \notin Workers
BY HerdAssumption

-----------------------------------------------------------------------------
(* How steps change the control state.                                     *)

\* A step changes the state of one process at most, and only of one that has
\* not ended.
OneMoves ==
    \E p \in Procs :
        /\ \A q \in Procs : q # p => pc'[q] = pc[q]
        /\ Alive(p) \/ pc'[p] = pc[p]

LEMMA TesterMoves ==
    ASSUME TypeOK, TesterNext
    PROVE  /\ OneMoves
           /\ \A q \in Procs : q # Tester => pc'[q] = pc[q]
<1> USE DEF Goes, Ends, Ended
<1>1. Alive(Tester)
  BY DEF TesterNext, TesterBoot, Poll, EndPass, TesterAccept, TesterKey,
         TesterReady, TesterLostSut, TestSend, TesterTerminate, TesterWait,
         Fires, Alive
<1>2. PICK st : pc' = pc \/ pc' = [pc EXCEPT ![Tester] = st]
  BY DEF TesterNext, TesterBoot, Poll, EndPass, TesterAccept, TesterKey,
         TesterReady, TesterLostSut, TestSend, TesterTerminate, TesterWait,
         StartTest
<1>3. \A q \in Procs : q # Tester => pc'[q] = pc[q]
  BY <1>2 DEF TypeOK
<1>4. OneMoves
  BY <1>1, <1>3 DEF OneMoves
<1>5. QED
  BY <1>3, <1>4

LEMMA MasterMoves ==
    ASSUME TypeOK, MasterNext
    PROVE  /\ OneMoves
           /\ \A q \in Procs : q # Master => pc'[q] = pc[q]
<1> USE DEF Goes, Ends, Ended
<1>1. Alive(Master)
  BY DEF MasterNext, MasterConnect, MasterListen, Poll, EndPass,
         MasterTesterMsg, MasterAccept, MasterSctpAccept, MasterWorkerMsg,
         MasterLostWorker, MasterWait, MasterTerminate, Fires, Alive
<1>2. PICK st : pc' = pc \/ pc' = [pc EXCEPT ![Master] = st]
  BY DEF MasterNext, MasterConnect, MasterListen, Poll, EndPass,
         MasterTesterMsg, MasterAccept, MasterSctpAccept, MasterWorkerMsg,
         MasterLostWorker, MasterWait, MasterTerminate, ReadyForWork
<1>3. \A q \in Procs : q # Master => pc'[q] = pc[q]
  BY <1>2 DEF TypeOK
<1>4. OneMoves
  BY <1>1, <1>3 DEF OneMoves
<1>5. QED
  BY <1>3, <1>4

LEMMA WorkerMoves ==
    ASSUME TypeOK, NEW w \in Workers, WorkerNext(w)
    PROVE  /\ OneMoves
           /\ \A q \in Procs : q # w => pc'[q] = pc[q]
           /\ Alive(w)
           /\ pc'[w] \in {"boot", "hello"} => pc[w] \in {"boot", "hello"}
<1> USE DEF Goes, Ends, Ended
<1>1. Alive(w)
  BY DEF WorkerNext, WorkerConnect, WorkerHello, Poll, EndPass, WorkerMsg,
         WorkerLostMaster, WorkerSctpMsg, WorkerSctpLost, Fires, Alive
<1>2. PICK st :
              /\ pc' = pc \/ pc' = [pc EXCEPT ![w] = st]
              /\ st \in {"boot", "hello"} => pc[w] \in {"boot", "hello"}
  BY DEF WorkerNext, WorkerConnect, WorkerHello, Poll, EndPass, WorkerMsg,
         WorkerLostMaster, WorkerSctpMsg, WorkerSctpLost, NewEndpoint
<1>3. pc'[w] = pc[w] \/ pc'[w] = st
  BY <1>2 DEF TypeOK
<1>4. \A q \in Procs : q # w => pc'[q] = pc[q]
  BY <1>2 DEF TypeOK
<1>5. OneMoves
  BY <1>1, <1>4 DEF OneMoves
<1>6. QED
  BY <1>1, <1>2, <1>3, <1>4, <1>5

-----------------------------------------------------------------------------
(* BarrierInv is inductive.                                                *)

LEMMA BarrierInit == Init => BarrierInv
<1> SUFFICES ASSUME Init PROVE BarrierInv
  OBVIOUS
<1>1. Counted = {}
  BY DEF Init, Counted
<1>2. FdsOf(io[Master].items) = {}
  BY DEF Init, FdsOf
<1>3. WorkersKnown
  BY <1>1, <1>2 DEF WorkersKnown
<1>4. OneAnnouncement
  BY DEF Init, OneAnnouncement
<1>5. CountIsExact
  BY <1>1, FS_EmptySet DEF Init, CountIsExact
<1>6. ReapedHaveEnded
  BY DEF Init, ReapedHaveEnded
<1>7. QED
  BY <1>3, <1>4, <1>5, <1>6 DEF BarrierInv

\* Most steps leave everything BarrierInv speaks of alone, or only move a
\* process forward.
Quiet ==
    /\ UNCHANGED <<workers_socket_connect, w2m, joined, worker_count,
                   workers_pid, sctp_endpoint>>
    /\ Workers \intersect FdsOf(io'[Master].items) \subseteq FdsOf(io[Master].items)
    /\ \A w \in Workers :
           /\ pc'[w] \in {"boot", "hello"} => pc[w] \in {"boot", "hello"}
           /\ Alive(w)' => Alive(w)
    /\ pc'[Master] \in Serving => pc[Master] \in Serving
    /\ pc'[Master] = "done" => pc[Master] = "done"
    /\ is_sut_ready' \/ m2t' # <<>> => is_sut_ready \/ m2t # <<>>

LEMMA QuietStep == BarrierInv /\ Quiet => BarrierInv'
<1> SUFFICES ASSUME BarrierInv, Quiet PROVE BarrierInv'
  OBVIOUS
<1> USE DEF BarrierInv, Quiet
<1>1. Counted' = Counted
  BY DEF Counted
<1>2. WorkersKnown'
  BY <1>1 DEF WorkersKnown
<1>3. OneAnnouncement'
  BY DEF OneAnnouncement
<1>4. CountIsExact'
  BY <1>1 DEF CountIsExact
<1>5. ReapedHaveEnded'
  BY DEF ReapedHaveEnded
<1>6. QED
  BY <1>2, <1>3, <1>4, <1>5

LEMMA TesterQuiet == Inv /\ TesterNext => Quiet
<1> SUFFICES ASSUME Inv, TesterNext PROVE Quiet
  OBVIOUS
<1>0. TypeOK
  BY DEF Inv
<1>1. \A q \in Procs : q # Tester => pc'[q] = pc[q]
  BY <1>0, TesterMoves
<1>2. /\ pc'[Master] = pc[Master]
      /\ \A w \in Workers : pc'[w] = pc[w]
  BY <1>1, ProcsDiffer
<1>3. io'[Master].items = io[Master].items
  <2>1. \A items : Proceed(Tester, items) => io'[Master] = io[Master]
    BY <1>0, ProcsDiffer DEF Proceed, TypeOK
  <2>2. QED
    BY <1>0, <2>1, ProcsDiffer
    DEF TesterNext, TesterBoot, Poll, EndPass, TesterAccept, TesterKey,
        TesterReady, TesterLostSut, TestSend, TesterTerminate, TesterWait,
        TypeOK
<1>4. UNCHANGED <<workers_socket_connect, w2m, joined, worker_count,
                  workers_pid, sctp_endpoint>>
  BY DEF TesterNext, TesterBoot, Poll, EndPass, TesterAccept, TesterKey,
         TesterReady, TesterLostSut, TestSend, TesterTerminate, TesterWait
<1>5. is_sut_ready' \/ m2t' # <<>> => is_sut_ready \/ m2t # <<>>
  BY DEF TesterNext, TesterBoot, Poll, EndPass, TesterAccept, TesterKey,
         TesterReady, TesterLostSut, TestSend, TesterTerminate, TesterWait
<1>6. QED
  BY <1>2, <1>3, <1>4, <1>5 DEF Quiet, Alive

LEMMA EnvironmentQuiet == Inv /\ Environment => Quiet
<1> SUFFICES ASSUME Inv, Environment PROVE Quiet
  OBVIOUS
<1>1. /\ UNCHANGED <<io, workers_socket_connect, w2m, m2t, joined,
                     worker_count, workers_pid, sctp_endpoint, is_sut_ready>>
  BY DEF Environment, Type, Kill
<1>2. \A p \in Procs : pc'[p] = pc[p] \/ (Alive(p) /\ pc'[p] = "killed")
  BY DEF Environment, Type, Kill, Ends, Inv, TypeOK
<1>3. QED
  BY <1>1, <1>2 DEF Quiet, Alive, Ended, Serving

\* A worker moves only itself; its announcement waits in its stream and is
\* not counted yet.
LEMMA WorkerKeeps ==
    ASSUME Inv, NEW w \in Workers, WorkerNext(w)
    PROVE  BarrierInv'
<1>0. TypeOK /\ BarrierInv
  BY DEF Inv
<1>1. /\ \A q \in Procs : q # w => pc'[q] = pc[q]
      /\ Alive(w)
      /\ pc'[w] \in {"boot", "hello"} => pc[w] \in {"boot", "hello"}
  BY <1>0, WorkerMoves
<1>2. io'[Master].items = io[Master].items
  <2>1. \A items : Proceed(w, items) => io'[Master] = io[Master]
    BY <1>0, ProcsDiffer DEF Proceed, TypeOK
  <2>2. QED
    BY <1>0, <2>1, ProcsDiffer
    DEF WorkerNext, WorkerConnect, WorkerHello, Poll, EndPass, WorkerMsg,
        WorkerLostMaster, WorkerSctpMsg, WorkerSctpLost, NewEndpoint, TypeOK
<1>3. UNCHANGED <<workers_socket_connect, worker_count, workers_pid,
                  sctp_endpoint, is_sut_ready, m2t>>
  BY DEF WorkerNext, WorkerConnect, WorkerHello, Poll, EndPass, WorkerMsg,
         WorkerLostMaster, WorkerSctpMsg, WorkerSctpLost
<1>4. CASE UNCHANGED <<w2m, joined>>
  <2>1. Quiet
    BY <1>1, <1>2, <1>3, <1>4, ProcsDiffer DEF Quiet, Alive
  <2>2. QED
    BY <1>0, <2>1, QuietStep
<1>5. CASE ~UNCHANGED <<w2m, joined>>
  <2>1. /\ pc[w] = "hello" /\ pc'[w] = "poll"
        /\ w2m' = [w2m EXCEPT ![w] = Append(@, Msg("WORKER_READY"))]
        /\ joined' = joined \union {w}
    BY <1>0, <1>5
    DEF WorkerNext, WorkerConnect, WorkerHello, Poll, EndPass, WorkerMsg,
        WorkerLostMaster, WorkerSctpMsg, WorkerSctpLost, Goes, TypeOK
  <2>2. w \notin joined /\ w2m[w] = <<>>
    BY <1>0, <2>1 DEF BarrierInv, OneAnnouncement
  <2>3. /\ w2m'[w] = <<Msg("WORKER_READY")>>
        /\ \A v \in Workers : v # w => w2m'[v] = w2m[v]
    BY <1>0, <2>1, <2>2 DEF TypeOK
  <2>4. Counted' = Counted
    <3>1. joined \subseteq Workers
      BY <1>0 DEF TypeOK
    <3>2. w2m'[w] # <<>>
      BY <2>3
    <3>3. QED
      BY <2>1, <2>2, <2>3, <3>1, <3>2 DEF Counted
  <2>5. WorkersKnown'
    BY <1>0, <1>2, <1>3, <2>4 DEF BarrierInv, WorkersKnown
  <2>6. OneAnnouncement'
    <3>1. ASSUME NEW v \in Workers
          PROVE  /\ w2m'[v] \in {<<>>, <<Msg("WORKER_READY")>>}
                 /\ w2m'[v] # <<>> => v \in joined'
                 /\ pc'[v] \in {"boot", "hello"} => v \notin joined'
      <4>1. CASE v = w
        BY <2>1, <2>3, <4>1
      <4>2. CASE v # w
        BY <1>0, <1>1, <2>1, <2>3, <4>2 DEF BarrierInv, OneAnnouncement
      <4>3. QED
        BY <4>1, <4>2
    <3>2. QED
      BY <3>1 DEF OneAnnouncement
  <2>7. CountIsExact'
    BY <1>0, <1>3, <2>4 DEF BarrierInv, CountIsExact
  <2>8. ReapedHaveEnded'
    BY <1>0, <1>1, <1>3, ProcsDiffer DEF BarrierInv, ReapedHaveEnded, Alive
  <2>9. QED
    BY <2>5, <2>6, <2>7, <2>8 DEF BarrierInv
<1>6. QED
  BY <1>4, <1>5

-----------------------------------------------------------------------------

\* The steps of the master that are none of the barrier's business.
LEMMA MasterQuiet ==
    ASSUME Inv,
           \/ MasterConnect \/ MasterListen \/ Poll(Master) \/ EndPass(Master)
           \/ MasterTesterMsg \/ MasterSctpAccept \/ MasterTerminate
           \/ \E w \in Workers : MasterLostWorker(w)
    PROVE  Quiet
<1>0. TypeOK /\ MasterNext
  BY DEF Inv, MasterNext
<1>1. /\ \A w \in Workers : pc'[w] = pc[w]
  BY <1>0, MasterMoves, ProcsDiffer
<1>2. UNCHANGED <<workers_socket_connect, w2m, joined, worker_count,
                  workers_pid, sctp_endpoint, is_sut_ready, m2t>>
  BY DEF MasterConnect, MasterListen, Poll, EndPass, MasterTesterMsg,
         MasterSctpAccept, MasterTerminate, MasterLostWorker
<1>3. /\ pc'[Master] \in Serving => pc[Master] \in Serving
      /\ pc'[Master] = "done" => pc[Master] = "done"
  BY <1>0, ProcsDiffer
  DEF MasterConnect, MasterListen, Poll, EndPass, MasterTesterMsg,
      MasterSctpAccept, MasterTerminate, MasterLostWorker, Goes, Ends,
      Fires, Serving, TypeOK
<1>4. Workers \intersect FdsOf(io'[Master].items) \subseteq FdsOf(io[Master].items)
  <2>0. Master \in Procs /\ io[Master].items \in Seq(Entry(Fds))
    BY <1>0 DEF TypeOK
  <2>1. CASE MasterConnect
    <3>1. \/ io' = io
          \/ io' = [io EXCEPT ![Master].items = register_fd(@, Tester, FALSE)]
      BY <2>1 DEF MasterConnect
    <3>2. \/ io' = io
          \/ io'[Master].items = register_fd(io[Master].items, Tester, FALSE)
      <4>1. io \in [Procs -> PollLoop]
        BY <1>0 DEF TypeOK, PollLoop
      <4>2. QED
        BY <2>0, <3>1, <4>1 DEF PollLoop
    <3>3. FdsOf(register_fd(io[Master].items, Tester, FALSE))
              = FdsOf(io[Master].items) \union {Tester}
      BY <1>0, <2>0, Registered, FdsKnown
    <3>4. QED
      BY <3>2, <3>3, ProcsDiffer
  <2>2. CASE MasterListen
    <3>1. io'[Master].items = register_fd(io[Master].items, Listener, FALSE)
      BY <1>0, <2>0, <2>2 DEF MasterListen, TypeOK
    <3>2. FdsOf(register_fd(io[Master].items, Listener, FALSE))
              = FdsOf(io[Master].items) \union {Listener}
      BY <1>0, <2>0, Registered, FdsKnown
    <3>3. QED
      BY <3>1, <3>2, ProcsDiffer
  <2>3. CASE Poll(Master) \/ EndPass(Master)
    BY <1>0, <2>0, <2>3, PollEffect
  <2>4. CASE MasterTesterMsg \/ MasterSctpAccept
    <3>1. io' = io \/ Proceed(Master, io[Master].items)
      BY <2>4 DEF MasterTesterMsg, MasterSctpAccept
    <3>2. QED
      BY <1>0, <2>0, <3>1, ProceedEffect
  <2>5. CASE MasterTerminate
    BY <2>5 DEF MasterTerminate
  <2>6. ASSUME NEW w \in Workers, MasterLostWorker(w)
        PROVE  FdsOf(io'[Master].items) \subseteq FdsOf(io[Master].items)
    <3>1. io' = io \/ Proceed(Master, deregister_fd(io[Master].items, w))
      BY <2>6 DEF MasterLostWorker
    <3>2. /\ deregister_fd(io[Master].items, w) \in Seq(Entry(Fds))
          /\ FdsOf(deregister_fd(io[Master].items, w))
                 \subseteq FdsOf(io[Master].items)
      BY <2>0, DeregisterProperties
    <3>3. QED
      BY <1>0, <2>0, <3>1, <3>2, ProceedEffect
  <2>7. QED
    BY <2>1, <2>2, <2>3, <2>4, <2>5, <2>6
<1>5. QED
  BY <1>1, <1>2, <1>3, <1>4 DEF Quiet, Alive

\* woker_connect_handler enters the worker in the map and in the poll list in
\* one callback.
LEMMA AcceptKeeps ==
    ASSUME Inv, MasterAccept
    PROVE  BarrierInv'
<1>0. TypeOK /\ BarrierInv /\ Master \in Procs
  BY DEF Inv
<1> DEFINE w == Head(worker_backlog)
<1>1. /\ w \in Workers
      /\ workers_socket_connect' = Append(workers_socket_connect, w)
      /\ workers_socket_connect \in Seq(Workers)
  BY <1>0 DEF MasterAccept, TypeOK
<1>2. PICK g \in Garbage : Proceed(Master, register_fd(io[Master].items, w, g))
  BY DEF MasterAccept
<1> HIDE DEF w
<1>3. ToSet(workers_socket_connect') = ToSet(workers_socket_connect) \union {w}
  BY <1>1 DEF ToSet
<1>4. FdsOf(io'[Master].items) = FdsOf(io[Master].items) \union {w}
  <2>1. /\ register_fd(io[Master].items, w, g) \in Seq(Entry(Fds))
        /\ FdsOf(register_fd(io[Master].items, w, g))
               = FdsOf(io[Master].items) \union {w}
    BY <1>0, <1>1, FdsKnown, GarbageIsBoolean, Registered
  <2>2. QED
    BY <1>0, <1>2, <2>1, ProceedEffect
<1>5. UNCHANGED <<pc, worker_count, workers_pid, sctp_endpoint, is_sut_ready,
                  w2m, m2t, joined>>
  BY DEF MasterAccept
<1>6. Counted' = Counted
  BY <1>5 DEF Counted
<1>7. WorkersKnown'
  BY <1>0, <1>3, <1>4, <1>6 DEF BarrierInv, WorkersKnown
<1>8. OneAnnouncement'
  BY <1>0, <1>5 DEF BarrierInv, OneAnnouncement
<1>9. CountIsExact'
  BY <1>0, <1>5, <1>6 DEF BarrierInv, CountIsExact
<1>10. ReapedHaveEnded'
  BY <1>0, <1>5 DEF BarrierInv, ReapedHaveEnded, Alive
<1>11. QED
  BY <1>7, <1>8, <1>9, <1>10 DEF BarrierInv

\* worker_msg_handler: the message it takes is the worker's one announcement,
\* so the count grows by one exactly when Counted grows by that worker, and
\* the count of all pids means that all workers are counted.
LEMMA CountKeeps ==
    ASSUME Inv, NEW w \in Workers, MasterWorkerMsg(w)
    PROVE  BarrierInv'
<1>0. TypeOK /\ BarrierInv /\ Master \in Procs
  BY DEF Inv
<1>1. /\ pc[Master] = "pass"
      /\ w \in FdsOf(io[Master].items)
  BY <1>0, CursorType DEF MasterWorkerMsg, Fires
<1>2. /\ w2m[w] = <<Msg("WORKER_READY")>>
      /\ w \in joined /\ w \notin Counted
  BY <1>0 DEF MasterWorkerMsg, BarrierInv, OneAnnouncement, Counted
<1>3. /\ w2m' = [w2m EXCEPT ![w] = <<>>]
      /\ worker_count' = worker_count + 1
      /\ UNCHANGED <<joined, workers_socket_connect, workers_pid, is_sut_ready>>
  BY <1>2 DEF MasterWorkerMsg
<1>4. joined \subseteq Workers /\ w2m \in [Workers -> Seq(Message)]
  BY <1>0 DEF TypeOK
<1>5. Counted' = Counted \union {w}
  BY <1>2, <1>3, <1>4 DEF Counted
<1>6. /\ IsFiniteSet(Counted)
      /\ Counted' \subseteq Workers
  <2>1. Counted' \subseteq Workers
    BY <1>3, <1>4 DEF Counted
  <2>2. Counted \subseteq Workers
    BY <1>4 DEF Counted
  <2>3. QED
    BY <2>1, <2>2, FS_Subset, HerdAssumption
<1>7. worker_count' = Cardinality(Counted')
  <2>1. Cardinality(Counted \union {w}) = Cardinality(Counted) + 1
    BY <1>2, <1>6, FS_AddElement
  <2>2. QED
    BY <1>0, <1>3, <1>5, <2>1 DEF BarrierInv, CountIsExact
<1>8. AllReady(worker_count') => Counted' = Workers
  <2>1. workers_pid = Workers
    BY <1>0, <1>1 DEF BarrierInv, ReapedHaveEnded, Serving
  <2>2. SUFFICES ASSUME Cardinality(Counted') = Cardinality(Workers)
                 PROVE  Counted' = Workers
    BY <1>7, <2>1 DEF AllReady
  <2>3. QED
    BY <1>6, <2>2, FS_Subset, HerdAssumption
<1>9. \/ /\ AllReady(worker_count')
         /\ sctp_endpoint'
         /\ \E g \in Garbage :
                Proceed(Master, register_fd(io[Master].items, SctpPort, g))
      \/ /\ sctp_endpoint' = sctp_endpoint /\ m2t' = m2t
         /\ Proceed(Master, io[Master].items)
  BY DEF MasterWorkerMsg, ReadyForWork
<1>10. WorkersKnown'
  <2>1. Workers \intersect FdsOf(io'[Master].items)
            \subseteq FdsOf(io[Master].items)
    <3>1. CASE Proceed(Master, io[Master].items)
      BY <1>0, <3>1, ProceedEffect DEF TypeOK
    <3>2. ASSUME NEW g \in Garbage,
                 Proceed(Master, register_fd(io[Master].items, SctpPort, g))
          PROVE  Workers \intersect FdsOf(io'[Master].items)
                     \subseteq FdsOf(io[Master].items)
      <4>1. /\ register_fd(io[Master].items, SctpPort, g) \in Seq(Entry(Fds))
            /\ FdsOf(register_fd(io[Master].items, SctpPort, g))
                   = FdsOf(io[Master].items) \union {SctpPort}
        BY <1>0, FdsKnown, GarbageIsBoolean, Registered
      <4>2. QED
        BY <1>0, <3>2, <4>1, ProcsDiffer, ProceedEffect
    <3>3. QED
      BY <1>9, <3>1, <3>2
  <2>2. w \in ToSet(workers_socket_connect)
    BY <1>0, <1>1 DEF BarrierInv, WorkersKnown
  <2>3. QED
    BY <1>0, <1>3, <1>5, <2>1, <2>2 DEF BarrierInv, WorkersKnown
<1>11. /\ \A v \in Workers : pc'[v] = pc[v]
       /\ pc'[Master] \in {"pass", "exit", "sigpipe"}
  <2>1. \A v \in Workers : pc'[v] = pc[v]
    BY <1>0, MasterMoves, ProcsDiffer DEF MasterNext
  <2>2. pc' = pc \/ pc' = [pc EXCEPT ![Master] = "exit"]
                 \/ pc' = [pc EXCEPT ![Master] = "sigpipe"]
    BY DEF MasterWorkerMsg, ReadyForWork, Ends
  <2>3. pc'[Master] \in {"pass", "exit", "sigpipe"}
    BY <1>0, <1>1, <2>2 DEF TypeOK
  <2>4. QED
    BY <2>1, <2>3
<1>12. OneAnnouncement'
  BY <1>0, <1>3, <1>4, <1>11 DEF BarrierInv, OneAnnouncement
<1>13. CountIsExact'
  <2>1. sctp_endpoint' => Counted' = Workers
    BY <1>0, <1>5, <1>6, <1>8, <1>9 DEF BarrierInv, CountIsExact
  <2>2. is_sut_ready' \/ m2t' # <<>> => sctp_endpoint'
    BY <1>0, <1>3, <1>9 DEF BarrierInv, CountIsExact
  <2>3. QED
    BY <1>7, <2>1, <2>2 DEF CountIsExact
<1>14. ReapedHaveEnded'
  BY <1>0, <1>1, <1>3, <1>11 DEF BarrierInv, ReapedHaveEnded, Serving, Alive
<1>15. QED
  BY <1>10, <1>12, <1>13, <1>14 DEF BarrierInv

\* wait_until_workers_closed takes the pid of a process that has ended.
LEMMA WaitKeeps ==
    ASSUME Inv, NEW w \in Workers, MasterWait(w)
    PROVE  BarrierInv'
<1>0. TypeOK /\ BarrierInv /\ Master \in Procs
  BY DEF Inv
<1>1. UNCHANGED <<io, worker_count, workers_socket_connect, sctp_endpoint,
                  is_sut_ready, w2m, m2t, joined>>
  BY DEF MasterWait
<1>2. Counted' = Counted
  BY <1>1 DEF Counted
<1>3. /\ ~Alive(w)
      /\ workers_pid' = workers_pid \ {w}
      /\ pc' = [pc EXCEPT ![Master] = IF workers_pid' = {} THEN "done" ELSE "wait"]
  BY DEF MasterWait, AllReaped, Goes
<1>4. /\ \A v \in Workers : pc'[v] = pc[v]
      /\ pc'[Master] = IF workers_pid' = {} THEN "done" ELSE "wait"
  BY <1>0, <1>3, ProcsDiffer DEF TypeOK
<1>5. WorkersKnown'
  BY <1>0, <1>1, <1>2 DEF BarrierInv, WorkersKnown
<1>6. OneAnnouncement'
  BY <1>0, <1>1, <1>4 DEF BarrierInv, OneAnnouncement
<1>7. CountIsExact'
  BY <1>0, <1>1, <1>2 DEF BarrierInv, CountIsExact
<1>8. ReapedHaveEnded'
  BY <1>0, <1>3, <1>4 DEF BarrierInv, ReapedHaveEnded, Serving, Alive
<1>9. QED
  BY <1>5, <1>6, <1>7, <1>8 DEF BarrierInv

LEMMA BarrierStep ==
    ASSUME Inv, [Next]_vars
    PROVE  Inv'
<1>0. TypeOK /\ BarrierInv /\ TypeOK'
  BY TypeStep DEF Inv
<1>1. CASE TesterNext
  BY <1>0, <1>1, TesterQuiet, QuietStep DEF Inv
<1>2. CASE MasterNext
  <2>1. CASE \E w \in Workers : MasterWorkerMsg(w)
    BY <1>0, <2>1, CountKeeps DEF Inv
  <2>2. CASE \E w \in Workers : MasterWait(w)
    BY <1>0, <2>2, WaitKeeps DEF Inv
  <2>3. CASE MasterAccept
    BY <1>0, <2>3, AcceptKeeps DEF Inv
  <2>4. CASE \/ MasterConnect \/ MasterListen \/ Poll(Master) \/ EndPass(Master)
             \/ MasterTesterMsg \/ MasterSctpAccept \/ MasterTerminate
             \/ \E w \in Workers : MasterLostWorker(w)
    BY <1>0, <2>4, MasterQuiet, QuietStep DEF Inv
  <2>5. QED
    BY <1>2, <2>1, <2>2, <2>3, <2>4 DEF MasterNext
<1>3. ASSUME NEW w \in Workers, WorkerNext(w) PROVE Inv'
  BY <1>0, <1>3, WorkerKeeps DEF Inv
<1>4. CASE Environment
  BY <1>0, <1>4, EnvironmentQuiet, QuietStep DEF Inv
<1>5. CASE UNCHANGED vars
  <2>1. Quiet
    BY <1>5 DEF vars, Quiet, Alive
  <2>2. QED
    BY <1>0, <2>1, QuietStep DEF Inv
<1>6. QED
  BY <1>1, <1>2, <1>3, <1>4, <1>5 DEF Next

THEOREM InvHolds == Spec => []Inv
<1>1. Init => Inv
  BY TypeInit, BarrierInit DEF Inv
<1>2. Inv /\ [Next]_vars => Inv'
  BY BarrierStep
<1>3. QED
  BY <1>1, <1>2, PTL DEF Spec

-----------------------------------------------------------------------------
(* What the invariant gives.                                               *)

\* The bookkeeping of the barrier is right in every reachable state
\* (worker_msg_handler, woker_connect_handler, wait_until_workers_closed).
THEOREM BarrierBookkeeping == Spec => []BarrierInv
<1>1. Inv => BarrierInv
  BY DEF Inv
<1>2. QED
  BY <1>1, InvHolds, PTL

\* The SCTP port is open, or the tester told so, only when every worker has
\* connected and announced itself (master_ready_forwork behind
\* worker_count == workers_pid.size()), however many workers are forked and
\* whichever processes are killed.
THEOREM ReadyOnlyWithAll == Spec => []ReadyMeansAllJoined
<1>1. Inv => ReadyMeansAllJoined
  <2> SUFFICES ASSUME Inv, sctp_endpoint \/ is_sut_ready \/ m2t # <<>>
               PROVE  joined = Workers /\ ToSet(workers_socket_connect) = Workers
    BY DEF ReadyMeansAllJoined
  <2>1. Counted = Workers
    BY DEF Inv, BarrierInv, CountIsExact
  <2>2. joined = Workers
    BY <2>1 DEF Counted, Inv, TypeOK
  <2>3. Workers \subseteq ToSet(workers_socket_connect)
    BY <2>1 DEF Inv, BarrierInv, WorkersKnown
  <2>4. ToSet(workers_socket_connect) \subseteq Workers
    BY DEF Inv, TypeOK, ToSet
  <2>5. QED
    BY <2>2, <2>3, <2>4
<1>2. QED
  BY <1>1, InvHolds, PTL

\* run() returns only when every forked worker has ended
\* (wait_until_workers_closed).
THEOREM MasterReturnsLast == Spec => []MasterOutlivesWorkers
<1>1. Inv => MasterOutlivesWorkers
  BY DEF Inv, BarrierInv, ReapedHaveEnded, MasterOutlivesWorkers
<1>2. QED
  BY <1>1, InvHolds, PTL

-----------------------------------------------------------------------------
(* ThunderingHerd implements GroupLifecycle.                               *)

Up == {w \in Workers : Alive(w)}

LEMMA StepMoves ==
    ASSUME TypeOK, [Next]_vars
    PROVE  OneMoves
<1>1. CASE Environment
  <2>1. ASSUME NEW p \in Procs, Kill(p) PROVE OneMoves
    BY <2>1 DEF Kill, Ends, OneMoves, TypeOK
  <2>2. ASSUME UNCHANGED pc PROVE OneMoves
    BY <2>2 DEF OneMoves
  <2>3. QED
    BY <1>1, <2>1, <2>2 DEF Environment, Type
<1>2. CASE UNCHANGED vars
  BY <1>2 DEF vars, OneMoves
<1>3. QED
  BY <1>1, <1>2, TesterMoves, MasterMoves, WorkerMoves DEF Next

\* A step that opens nothing, closes nothing and announces nothing ends at
\* most one worker.
LEMMA LeaveOrStay ==
    ASSUME OneMoves, UNCHANGED <<joined, sctp_endpoint>>,
           pc'[Master] = "done" <=> pc[Master] = "done"
    PROVE  [Lifecycle!Next]_(Lifecycle!vars)
<1>1. PICK p \in Procs : /\ \A q \in Procs : q # p => pc'[q] = pc[q]
                         /\ Alive(p) \/ pc'[p] = pc[p]
  BY DEF OneMoves
<1>2. \A q \in Procs : q # p => (Alive(q)' <=> Alive(q))
  BY <1>1 DEF Alive
<1>3. CASE p \in Workers /\ Alive(p) /\ ~Alive(p)'
  <2>1. Up' = Up \ {p}
    BY <1>2, <1>3 DEF Up
  <2>2. Lifecycle!Leave(p)
    BY <1>3, <2>1 DEF Lifecycle!Leave, Up
  <2>3. QED
    BY <1>3, <2>2 DEF Lifecycle!Next
<1>4. CASE ~(p \in Workers /\ Alive(p) /\ ~Alive(p)')
  <2>1. Up' = Up
    BY <1>1, <1>2, <1>4 DEF Up, Alive
  <2>2. UNCHANGED Lifecycle!vars
    BY <2>1 DEF Lifecycle!vars, Up
  <2>3. QED
    BY <2>2
<1>5. QED
  BY <1>3, <1>4

LEMMA LifecycleInit == Init => Lifecycle!Init
<1> SUFFICES ASSUME Init PROVE Lifecycle!Init
  OBVIOUS
<1>1. \A w \in Workers : Alive(w)
  BY DEF Init, Alive, Ended
<1>2. pc[Master] # "done" /\ joined = {} /\ sctp_endpoint = FALSE
  BY DEF Init
<1>3. QED
  BY <1>1, <1>2 DEF Lifecycle!Init

\* An ended master stays as it ended, and Quiet steps do not end it in order.
LEMMA QuietImplements ==
    ASSUME OneMoves, Quiet
    PROVE  [Lifecycle!Next]_(Lifecycle!vars)
<1>1. pc[Master] = "done" => pc'[Master] = "done"
  BY ProcsDiffer DEF OneMoves, Alive, Ended
<1>2. QED
  BY <1>1, LeaveOrStay DEF Quiet

\* WORKER_READY is written by a worker that runs and has not written it yet.
LEMMA WorkerImplements ==
    ASSUME Inv, NEW w \in Workers, WorkerNext(w)
    PROVE  [Lifecycle!Next]_(Lifecycle!vars)
<1>0. TypeOK /\ BarrierInv
  BY DEF Inv
<1>1. /\ OneMoves
      /\ \A q \in Procs : q # w => pc'[q] = pc[q]
      /\ Alive(w)
  BY <1>0, WorkerMoves
<1>2. UNCHANGED sctp_endpoint /\ pc'[Master] = pc[Master]
  BY <1>1, ProcsDiffer
  DEF WorkerNext, WorkerConnect, WorkerHello, Poll, EndPass, WorkerMsg,
      WorkerLostMaster, WorkerSctpMsg, WorkerSctpLost
<1>3. CASE UNCHANGED joined
  BY <1>1, <1>2, <1>3, LeaveOrStay
<1>4. CASE ~UNCHANGED joined
  <2>1. /\ pc[w] = "hello" /\ pc'[w] = "poll"
        /\ joined' = joined \union {w}
    BY <1>0, <1>4
    DEF WorkerNext, WorkerConnect, WorkerHello, Poll, EndPass, WorkerMsg,
        WorkerLostMaster, WorkerSctpMsg, WorkerSctpLost, Goes, TypeOK
  <2>2. w \notin joined
    BY <1>0, <2>1 DEF BarrierInv, OneAnnouncement
  <2>3. \A q \in Procs : Alive(q)' <=> Alive(q)
    BY <1>1, <2>1 DEF Alive, Ended
  <2>4. Up' = Up /\ w \in Up
    BY <1>1, <2>3 DEF Up
  <2>5. Lifecycle!Announce(w)
    BY <1>2, <2>1, <2>2, <2>4 DEF Lifecycle!Announce, Up
  <2>6. QED
    BY <2>5 DEF Lifecycle!Next
<1>5. QED
  BY <1>3, <1>4

\* The service opens in worker_msg_handler, the first time the count is full.
LEMMA CountImplements ==
    ASSUME Inv, Inv', NEW w \in Workers, MasterWorkerMsg(w)
    PROVE  [Lifecycle!Next]_(Lifecycle!vars)
<1>0. TypeOK /\ BarrierInv /\ BarrierInv' /\ Master \in Procs
  BY DEF Inv
<1>1. pc[Master] = "pass"
  BY DEF MasterWorkerMsg, Fires
<1>2. /\ OneMoves
      /\ \A v \in Workers : pc'[v] = pc[v]
  BY <1>0, MasterMoves, ProcsDiffer DEF MasterNext
<1>3. pc'[Master] # "done" /\ pc[Master] # "done"
  <2>1. pc' = pc \/ pc' = [pc EXCEPT ![Master] = "exit"]
                 \/ pc' = [pc EXCEPT ![Master] = "sigpipe"]
    BY DEF MasterWorkerMsg, ReadyForWork, Ends
  <2>2. QED
    BY <1>0, <1>1, <2>1 DEF TypeOK
<1>4. UNCHANGED joined
  BY DEF MasterWorkerMsg
<1>5. CASE sctp_endpoint' = sctp_endpoint
  BY <1>2, <1>3, <1>4, <1>5, LeaveOrStay
<1>6. CASE sctp_endpoint' # sctp_endpoint
  <2>1. sctp_endpoint = FALSE /\ sctp_endpoint' = TRUE
    BY <1>0, <1>6 DEF MasterWorkerMsg, ReadyForWork, TypeOK
  <2>2. Counted' = Workers
    BY <1>0, <2>1 DEF BarrierInv, CountIsExact
  <2>3. joined = Workers
    BY <1>0, <1>4, <2>2 DEF Counted, TypeOK
  <2>4. Up' = Up
    BY <1>2 DEF Up, Alive
  <2>5. Lifecycle!Open
    BY <1>3, <1>4, <2>1, <2>3, <2>4 DEF Lifecycle!Open, Up
  <2>6. QED
    BY <2>5 DEF Lifecycle!Next
<1>7. QED
  BY <1>5, <1>6

\* main returns when wait() has returned the last pid.
LEMMA WaitImplements ==
    ASSUME Inv, Inv', NEW w \in Workers, MasterWait(w)
    PROVE  [Lifecycle!Next]_(Lifecycle!vars)
<1>0. TypeOK /\ BarrierInv' /\ Master \in Procs
  BY DEF Inv
<1>1. pc[Master] = "wait" /\ UNCHANGED <<joined, sctp_endpoint>>
  BY DEF MasterWait
<1>2. /\ OneMoves
      /\ \A v \in Workers : pc'[v] = pc[v]
  BY <1>0, MasterMoves, ProcsDiffer DEF MasterNext
<1>3. Up' = Up
  BY <1>2 DEF Up, Alive
<1>4. CASE pc'[Master] = "done"
  <2>1. Up = {}
    BY <1>0, <1>3, <1>4 DEF BarrierInv, ReapedHaveEnded, Up
  <2>2. Lifecycle!Close
    BY <1>1, <1>3, <1>4, <2>1 DEF Lifecycle!Close, Up
  <2>3. QED
    BY <2>2 DEF Lifecycle!Next
<1>5. CASE pc'[Master] # "done"
  BY <1>1, <1>2, <1>5, LeaveOrStay
<1>6. QED
  BY <1>4, <1>5

LEMMA StepImplements ==
    ASSUME Inv, Inv', [Next]_vars
    PROVE  [Lifecycle!Next]_(Lifecycle!vars)
<1>0. TypeOK /\ OneMoves
  BY StepMoves DEF Inv
<1>1. CASE TesterNext \/ Environment
  BY <1>0, <1>1, TesterQuiet, EnvironmentQuiet, QuietImplements
<1>2. CASE MasterNext
  <2>1. CASE \E w \in Workers : MasterWorkerMsg(w)
    BY <2>1, CountImplements
  <2>2. CASE \E w \in Workers : MasterWait(w)
    BY <2>2, WaitImplements
  <2>3. CASE MasterAccept
    BY <1>0, <2>3, LeaveOrStay DEF MasterAccept
  <2>4. CASE \/ MasterConnect \/ MasterListen \/ Poll(Master) \/ EndPass(Master)
             \/ MasterTesterMsg \/ MasterSctpAccept \/ MasterTerminate
             \/ \E w \in Workers : MasterLostWorker(w)
    BY <1>0, <2>4, MasterQuiet, QuietImplements
  <2>5. QED
    BY <1>2, <2>1, <2>2, <2>3, <2>4 DEF MasterNext
<1>3. CASE \E w \in Workers : WorkerNext(w)
  BY <1>3, WorkerImplements
<1>4. CASE UNCHANGED vars
  BY <1>0, <1>4, LeaveOrStay DEF vars
<1>5. QED
  BY <1>1, <1>2, <1>3, <1>4 DEF Next

\* Seen from outside, the three kinds of processes behave as GroupLifecycle
\* says: the service opens once, for all workers, and closes in order only
\* after the last of them (main, master::run, worker::process).
THEOREM HerdImplementsLifecycle == Spec => ImplementsLifecycle
<1>1. Inv /\ Inv' /\ [Next]_vars => [Lifecycle!Next]_(Lifecycle!vars)
  BY StepImplements
<1>2. QED
  BY <1>1, LifecycleInit, InvHolds, PTL
  DEF Spec, ImplementsLifecycle, Lifecycle!Spec

-----------------------------------------------------------------------------
(* What the steps of one process leave to a worker.                        *)

\* Nothing of worker v is touched but what the master writes to it.
Untouched(v) ==
    /\ io'[v] = io[v] /\ endpoint'[v] = endpoint[v]
    /\ running'[v] = running[v]

LEMMA TesterFrame ==
    ASSUME TypeOK, TesterNext
    PROVE  /\ \A v \in Workers : Untouched(v) /\ pc'[v] = pc[v]
           /\ m2w' = m2w /\ pc'[Master] = pc[Master] /\ io'[Master] = io[Master]
<1>1. \A items, v : Proceed(Tester, items) /\ v \in Workers \union {Master}
                        => io'[v] = io[v]
  BY ProcsDiffer DEF Proceed, TypeOK
<1>2. \A v \in Workers \union {Master} : io'[v] = io[v]
  BY <1>1, ProcsDiffer
  DEF TesterNext, TesterBoot, Poll, EndPass, TesterAccept, TesterKey,
      TesterReady, TesterLostSut, TestSend, TesterTerminate, TesterWait, TypeOK
<1>3. UNCHANGED <<endpoint, m2w>>
  BY DEF TesterNext, TesterBoot, Poll, EndPass, TesterAccept, TesterKey,
         TesterReady, TesterLostSut, TestSend, TesterTerminate, TesterWait
<1>4. \/ running' = running
      \/ running' = [running EXCEPT ![Tester] = FALSE]
  BY DEF TesterNext, TesterBoot, Poll, EndPass, TesterAccept, TesterKey,
         TesterReady, TesterLostSut, TestSend, TesterTerminate, TesterWait
<1>5. \A v \in Workers : running'[v] = running[v]
  BY <1>4, ProcsDiffer DEF TypeOK
<1>6. QED
  BY <1>2, <1>3, <1>5, TesterMoves, ProcsDiffer DEF Untouched

LEMMA MasterFrame ==
    ASSUME TypeOK, MasterNext
    PROVE  /\ \A v \in Workers : Untouched(v) /\ pc'[v] = pc[v]
           /\ sctp_endpoints' = sctp_endpoints
<1>1. \A items, v : Proceed(Master, items) /\ v \in Workers => io'[v] = io[v]
  BY ProcsDiffer DEF Proceed, TypeOK
<1>2. \A v \in Workers : io'[v] = io[v]
  BY <1>1, ProcsDiffer
  DEF MasterNext, MasterConnect, MasterListen, Poll, EndPass,
      MasterTesterMsg, MasterAccept, MasterSctpAccept, MasterWorkerMsg,
      MasterLostWorker, MasterWait, MasterTerminate, ReadyForWork, TypeOK
<1>3. UNCHANGED <<endpoint, sctp_endpoints>>
  BY DEF MasterNext, MasterConnect, MasterListen, Poll, EndPass,
         MasterTesterMsg, MasterAccept, MasterSctpAccept, MasterWorkerMsg,
         MasterLostWorker, MasterWait, MasterTerminate
<1>4. PICK b : running' = running \/ running' = [running EXCEPT ![Master] = b]
  BY DEF MasterNext, MasterConnect, MasterListen, Poll, EndPass,
         MasterTesterMsg, MasterAccept, MasterSctpAccept, MasterWorkerMsg,
         MasterLostWorker, MasterWait, MasterTerminate
<1>5. \A v \in Workers : running'[v] = running[v]
  BY <1>4, ProcsDiffer DEF TypeOK
<1>6. QED
  BY <1>2, <1>3, <1>5, MasterMoves, ProcsDiffer DEF Untouched

LEMMA WorkerFrame ==
    ASSUME TypeOK, NEW w \in Workers, WorkerNext(w)
    PROVE  /\ \A v \in Workers : v # w => Untouched(v) /\ m2w'[v] = m2w[v]
           /\ \A q \in Procs : q # w => pc'[q] = pc[q]
           /\ io'[Master] = io[Master]
           /\ UNCHANGED <<sctp_endpoints, sctp_backlog, sctp_endpoint>>
<1>1. \A items, v : Proceed(w, items) /\ v \in Procs /\ v # w => io'[v] = io[v]
  BY DEF Proceed, TypeOK
<1>2. \A v \in Procs : v # w => io'[v] = io[v]
  BY <1>1
  DEF WorkerNext, WorkerConnect, WorkerHello, Poll, EndPass, WorkerMsg,
      WorkerLostMaster, WorkerSctpMsg, WorkerSctpLost, NewEndpoint, TypeOK
<1>3. UNCHANGED <<sctp_endpoints, sctp_backlog, sctp_endpoint>>
  BY DEF WorkerNext, WorkerConnect, WorkerHello, Poll, EndPass, WorkerMsg,
         WorkerLostMaster, WorkerSctpMsg, WorkerSctpLost
<1>4. PICK b : running' = running \/ running' = [running EXCEPT ![w] = b]
  BY DEF WorkerNext, WorkerConnect, WorkerHello, Poll, EndPass, WorkerMsg,
         WorkerLostMaster, WorkerSctpMsg, WorkerSctpLost
<1>5. PICK s : m2w' = m2w \/ m2w' = [m2w EXCEPT ![w] = s]
  BY DEF WorkerNext, WorkerConnect, WorkerHello, Poll, EndPass, WorkerMsg,
         WorkerLostMaster, WorkerSctpMsg, WorkerSctpLost
<1>6. PICK c : endpoint' = endpoint \/ endpoint' = [endpoint EXCEPT ![w] = c]
  BY DEF WorkerNext, WorkerConnect, WorkerHello, Poll, EndPass, WorkerMsg,
         WorkerLostMaster, WorkerSctpMsg, WorkerSctpLost, NewEndpoint
<1>7. \A v \in Workers : v # w => Untouched(v) /\ m2w'[v] = m2w[v]
  BY <1>2, <1>4, <1>5, <1>6 DEF TypeOK, Untouched
<1>8. QED
  BY <1>2, <1>3, <1>7, WorkerMoves, ProcsDiffer

LEMMA EnvironmentFrame ==
    ASSUME TypeOK, Environment
    PROVE  /\ UNCHANGED <<io, endpoint, running, m2w, sctp_endpoints,
                          sctp_backlog, sctp_endpoint>>
           /\ \A p \in Procs : pc'[p] = pc[p] \/ pc'[p] = "killed"
BY DEF Environment, Type, Kill, Ends, TypeOK

-----------------------------------------------------------------------------
(* A worker polls the master's socket and its endpoint.                    *)

\* What a worker that holds endpoint c has on its list.
Holding(items, c) ==
    IF c = NoConn
    THEN Len(items) = 1 /\ items[1].fd = Master
    ELSE Len(items) = 2 /\ items[1].fd = Master /\ items[2].fd = c

\* Before it has connected it has nothing.
ListInv ==
    \A w \in Workers :
        /\ pc[w] = "boot" => io[w].items = <<>> /\ endpoint[w] = NoConn
        /\ pc[w] \in {"hello", "poll", "pass"} => Holding(io[w].items, endpoint[w])

\* The new endpoint is registered, then the old one deregistered.
LEMMA Replaced ==
    ASSUME NEW items \in Seq(Entry(Fds)), NEW c \in Conns, NEW g \in BOOLEAN,
           NEW old \in Conns \union {NoConn}, Holding(items, old)
    PROVE  LET grown == register_fd(items, c, g)
           IN Holding(IF old = NoConn THEN grown ELSE deregister_fd(grown, old), c)
<1> PICK grown : grown = register_fd(items, c, g)
  OBVIOUS
<1> SUFFICES Holding(IF old = NoConn THEN grown ELSE deregister_fd(grown, old), c)
  OBVIOUS
<1>0. NoConn \notin Conns /\ Master \notin Conns
  BY HerdAssumption
<1>1. /\ grown \in Seq(Entry(Fds)) /\ Len(grown) = Len(items) + 1
      /\ \A k \in 1 .. Len(items) : grown[k] = items[k]
      /\ grown[Len(items) + 1].fd = c
  <2>1. c \in Fds
    BY FdsKnown
  <2>2. /\ register_fd(items, c, g) \in Seq(Entry(Fds))
        /\ Len(register_fd(items, c, g)) = Len(items) + 1
        /\ \A k \in 1 .. Len(items) : register_fd(items, c, g)[k] = items[k]
        /\ register_fd(items, c, g)[Len(items) + 1].fd = c
    BY <2>1, RegisterProperties
  <2>3. QED
    BY <2>2
<1>2. CASE old = NoConn
  <2>1. Len(items) = 1 /\ items[1].fd = Master
    BY <1>2 DEF Holding
  <2>2. 1 \in 1 .. Len(items)
    BY <2>1
  <2>3. grown[1] = items[1]
    BY <1>1, <2>2
  <2>4. grown[2].fd = c /\ Len(grown) = 2
    BY <1>1, <2>1
  <2>5. QED
    BY <1>0, <1>2, <2>1, <2>3, <2>4 DEF Holding
<1>3. CASE old # NoConn
  <2>1. /\ Len(grown) = 3
        /\ grown[1].fd = Master /\ grown[2].fd = old /\ grown[3].fd = c
    <3>1. Len(items) = 2 /\ items[1].fd = Master /\ items[2].fd = old
      BY <1>3 DEF Holding
    <3>2. 1 \in 1 .. Len(items) /\ 2 \in 1 .. Len(items)
      BY <3>1
    <3>3. grown[1] = items[1] /\ grown[2] = items[2]
      BY <1>1, <3>2
    <3>4. QED
      BY <1>1, <3>1, <3>3
  <2>2. DOMAIN grown = 1 .. 3
    BY <1>1, <2>1, LenProperties
  <2>3. 2 \in EntriesOf(grown, old) /\ 1 \notin EntriesOf(grown, old)
    BY <1>0, <1>3, <2>1, <2>2 DEF EntriesOf
  <2>4. Min(EntriesOf(grown, old)) = 2
    <3>1. EntriesOf(grown, old) \in SUBSET (1 .. 3)
      BY <2>2 DEF EntriesOf
    <3>2. PICK m : m = Min(EntriesOf(grown, old))
      OBVIOUS
    <3>3. m \in EntriesOf(grown, old) /\ \A y \in EntriesOf(grown, old) : m <= y
      BY <2>3, <3>1, <3>2, MinInSet
    <3>4. m \in 1 .. 3 /\ m # 1 /\ m <= 2
      BY <2>3, <3>1, <3>3
    <3>5. QED
      BY <3>2, <3>4
  <2>5. deregister_fd(grown, old) = RemoveAt(grown, 2)
    BY <2>3, <2>4 DEF deregister_fd
  <2>6. /\ Len(RemoveAt(grown, 2)) = 2
        /\ RemoveAt(grown, 2)[1] = grown[1] /\ RemoveAt(grown, 2)[2] = grown[3]
    <3>1. 2 \in 1 .. Len(grown) /\ 1 \in 1 .. Len(grown) - 1 /\ 2 \in 1 .. Len(grown) - 1
      BY <2>1
    <3>2. /\ Len(RemoveAt(grown, 2)) = Len(grown) - 1
          /\ \A j \in 1 .. Len(grown) - 1 :
                 RemoveAt(grown, 2)[j] = IF j < 2 THEN grown[j] ELSE grown[j + 1]
      BY <1>1, <3>1, RemoveAtProperties
    <3>3. QED
      BY <2>1, <3>1, <3>2
  <2>7. QED
    BY <1>0, <1>3, <2>1, <2>5, <2>6 DEF Holding
<1>4. QED
  BY <1>2, <1>3

LEMMA ListInit == Init => ListInv
BY DEF Init, ListInv

\* One worker's own steps.
LEMMA ListWorker ==
    ASSUME TypeOK, ListInv, NEW w \in Workers, WorkerNext(w)
    PROVE  /\ pc'[w] # "boot"
           /\ pc'[w] \in {"hello", "poll", "pass"}
                  => Holding(io'[w].items, endpoint'[w])
<1> USE DEF Goes, Ends
<1>0. /\ w \in Procs /\ io \in [Procs -> PollLoop] /\ pc \in [Procs -> States]
      /\ io[w].items \in Seq(Entry(Fds)) /\ endpoint[w] \in Conns \union {NoConn}
      /\ endpoint \in [Workers -> Conns \union {NoConn}]
  BY DEF TypeOK, PollLoop
<1>1. CASE WorkerConnect(w)
  <2>1. io[w].items = <<>> /\ endpoint[w] = NoConn
    BY <1>1 DEF WorkerConnect, ListInv
  <2>2. PICK items : items = register_fd(io[w].items, Master, FALSE)
    OBVIOUS
  <2>3. Holding(items, NoConn)
    <3>1. Len(io[w].items) = 0
      BY <2>1
    <3>2. Len(items) = Len(io[w].items) + 1 /\ items[Len(io[w].items) + 1].fd = Master
      <4>1. Master \in Fds /\ FALSE \in BOOLEAN
        BY FdsKnown
      <4>2. /\ Len(register_fd(io[w].items, Master, FALSE)) = Len(io[w].items) + 1
            /\ register_fd(io[w].items, Master, FALSE)[Len(io[w].items) + 1].fd = Master
        BY <1>0, <4>1 DEF register_fd, Entry
      <4>3. QED
        BY <2>2, <4>2
    <3>3. QED
      BY <3>1, <3>2 DEF Holding
  <2>4. \/ pc'[w] = "exit"
        \/ pc'[w] = "hello" /\ io'[w].items = items
    <3>1. \/ pc' = [pc EXCEPT ![w] = "exit"]
          \/ /\ pc' = [pc EXCEPT ![w] = "hello"]
             /\ io' = [io EXCEPT ![w].items = items]
      BY <1>1, <2>2 DEF WorkerConnect
    <3>2. QED
      BY <1>0, <3>1 DEF PollLoop
  <2>5. endpoint' = endpoint
    BY <1>1 DEF WorkerConnect
  <2>6. QED
    BY <2>1, <2>3, <2>4, <2>5
<1>2. CASE WorkerHello(w)
  <2>1. pc[w] = "hello" /\ UNCHANGED <<io, endpoint>> /\ pc'[w] \in {"poll", "sigpipe"}
    BY <1>0, <1>2 DEF WorkerHello
  <2>2. QED
    BY <2>1 DEF ListInv
<1>3. CASE Poll(w)
  <2>1. /\ pc[w] = "poll" /\ pc'[w] = "pass" /\ endpoint' = endpoint
        /\ io'[w].items = Polled(io[w].items, Readable(w))
    BY <1>0, <1>3 DEF Poll, PollLoop
  <2>2. Holding(io[w].items, endpoint[w])
    BY <2>1 DEF ListInv
  <2>3. /\ Len(io'[w].items) = Len(io[w].items)
        /\ \A k \in 1 .. Len(io[w].items) : io'[w].items[k].fd = io[w].items[k].fd
    BY <1>0, <2>1, PolledProperties
  <2>4. QED
    BY <2>1, <2>2, <2>3 DEF Holding
<1>4. CASE EndPass(w)
  <2>1. /\ pc[w] = "pass" /\ pc'[w] # "boot" /\ endpoint' = endpoint
        /\ io'[w].items = io[w].items
    BY <1>0, <1>4 DEF EndPass, PollLoop
  <2>2. QED
    BY <2>1 DEF ListInv
<1>5. CASE WorkerMsg(w)
  <2>1. pc[w] = "pass" /\ pc' = pc /\ m2w[w] \in Seq(Message)
    BY <1>5 DEF WorkerMsg, Fires, TypeOK
  <2>2. Holding(io[w].items, endpoint[w])
    BY <2>1 DEF ListInv
  <2>3. CASE FirstFd(m2w[w]) # 0
    <3>1. PICK c : c = m2w[w][FirstFd(m2w[w])].conn
      OBVIOUS
    <3>2. c \in Conns /\ NewEndpoint(w, c)
      BY <1>5, <2>1, <2>3, <3>1, ReceivedType DEF WorkerMsg
    <3>3. PICK g \in Garbage :
              Proceed(w, IF endpoint[w] = NoConn
                         THEN register_fd(io[w].items, c, g)
                         ELSE deregister_fd(register_fd(io[w].items, c, g), endpoint[w]))
      BY <3>2 DEF NewEndpoint
    <3>4. PICK items : items = IF endpoint[w] = NoConn
                         THEN register_fd(io[w].items, c, g)
                         ELSE deregister_fd(register_fd(io[w].items, c, g), endpoint[w])
      OBVIOUS
    <3>5. io'[w].items = items
      BY <1>0, <3>3, <3>4 DEF Proceed, PollLoop
    <3>6. Holding(items, c)
      BY <1>0, <2>2, <3>2, <3>4, Replaced, GarbageIsBoolean
    <3>7. endpoint'[w] = c
      BY <1>0, <3>2 DEF NewEndpoint
    <3>8. QED
      BY <2>1, <3>5, <3>6, <3>7
  <2>4. CASE FirstFd(m2w[w]) = 0
    <3>1. endpoint' = endpoint /\ io'[w].items = io[w].items
      BY <1>0, <1>5, <2>4 DEF WorkerMsg, Proceed, PollLoop
    <3>2. QED
      BY <2>1, <2>2, <3>1
  <2>5. QED
    BY <2>3, <2>4
<1>6. CASE WorkerLostMaster(w)
  BY <1>0, <1>6 DEF WorkerLostMaster
<1>7. CASE WorkerSctpMsg(w) \/ WorkerSctpLost(w)
  <2>1. /\ pc[w] = "pass" /\ pc'[w] \in {"pass", "exit"} /\ endpoint' = endpoint
        /\ io'[w].items = io[w].items
    BY <1>0, <1>7 DEF WorkerSctpMsg, WorkerSctpLost, Fires, Proceed, PollLoop
  <2>2. QED
    BY <2>1 DEF ListInv
<1>8. QED
  BY <1>1, <1>2, <1>3, <1>4, <1>5, <1>6, <1>7 DEF WorkerNext

LEMMA ListStep ==
    ASSUME TypeOK, ListInv, [Next]_vars
    PROVE  ListInv'
<1>1. CASE \A v \in Workers : io'[v] = io[v] /\ endpoint'[v] = endpoint[v]
                              /\ (pc'[v] = pc[v] \/ pc'[v] = "killed")
  BY <1>1 DEF ListInv
<1>2. CASE TesterNext
  BY <1>1, <1>2, TesterFrame DEF Untouched
<1>3. CASE MasterNext
  BY <1>1, <1>3, MasterFrame DEF Untouched
<1>4. ASSUME NEW w \in Workers, WorkerNext(w) PROVE ListInv'
  <2>1. \A v \in Workers : v # w => io'[v] = io[v] /\ endpoint'[v] = endpoint[v]
                                    /\ pc'[v] = pc[v]
    BY <1>4, WorkerFrame DEF Untouched
  <2>2. /\ pc'[w] # "boot"
        /\ pc'[w] \in {"hello", "poll", "pass"}
               => Holding(io'[w].items, endpoint'[w])
    BY <1>4, ListWorker
  <2>3. QED
    BY <2>1, <2>2 DEF ListInv
<1>5. CASE Environment
  BY <1>1, <1>5, EnvironmentFrame
<1>6. CASE UNCHANGED vars
  BY <1>1, <1>6 DEF vars
<1>7. QED
  BY <1>2, <1>3, <1>4, <1>5, <1>6 DEF Next

\* Replacing the endpoint inside a callback leaves no entry for the
\* descriptor it closed (worker::msg_handler, ~SctpClientEndpoint).
THEOREM PollsItsOwn == Spec => []PollsWhatItHolds
<1>1. TypeOK /\ ListInv => PollsWhatItHolds
  <2> SUFFICES ASSUME TypeOK, ListInv, NEW w \in Workers,
                      pc[w] \in {"hello", "poll", "pass"}
               PROVE  [k \in DOMAIN io[w].items |-> io[w].items[k].fd] =
                          IF endpoint[w] = NoConn THEN <<Master>>
                                                  ELSE <<Master, endpoint[w]>>
    BY DEF PollsWhatItHolds
  <2>1. Holding(io[w].items, endpoint[w])
    BY DEF ListInv
  <2>2. DOMAIN io[w].items = 1 .. Len(io[w].items)
    BY LenProperties DEF TypeOK
  <2>3. QED
    BY <2>1, <2>2 DEF Holding
<1>2. QED
  BY <1>1, TypeInit, TypeStep, ListInit, ListStep, PTL DEF Spec

-----------------------------------------------------------------------------
(* Why the master exits.                                                   *)

ExitInv ==
    /\ MasterExitExplained
    /\ pc[Master] = "boot" => io[Master].items = <<>>

\* The steps after which the master has exited, and how it starts.
LEMMA MasterExits ==
    ASSUME Inv, ExitInv, MasterNext
    PROVE  /\ Alive(Master) /\ pc'[Master] # "boot"
           /\ MasterExitExplained'
<1> USE DEF Goes, Ends
<1>0. /\ TypeOK /\ BarrierInv /\ Master \in Procs
      /\ pc \in [Procs -> States] /\ io \in [Procs -> PollLoop]
  BY DEF Inv, TypeOK, PollLoop
<1>1. Alive(Master)
  BY DEF MasterNext, MasterConnect, MasterListen, Poll, EndPass,
         MasterTesterMsg, MasterAccept, MasterSctpAccept, MasterWorkerMsg,
         MasterLostWorker, MasterWait, MasterTerminate, Fires, Alive, Ended
<1>2. pc'[Tester] = pc[Tester] /\ \A w \in Workers : pc'[w] = pc[w]
  BY <1>0, MasterMoves, ProcsDiffer
<1>3. CASE MasterConnect
  <2>1. /\ pc[Master] = "boot"
        /\ \/ pc'[Master] = "listen"
           \/ pc'[Master] = "exit" /\ io' = io
    BY <1>0, <1>3 DEF MasterConnect
  <2>2. QED
    BY <1>1, <2>1 DEF ExitInv, MasterExitExplained
<1>4. CASE MasterTesterMsg
  <2>1. /\ pc[Master] = "pass"
        /\ pc'[Master] = "pass" \/ (pc'[Master] = "exit" /\ ~Alive(Tester))
    BY <1>0, <1>4 DEF MasterTesterMsg, Fires
  <2>2. QED
    BY <1>1, <1>2, <2>1 DEF MasterExitExplained, Alive
<1>5. ASSUME NEW w \in Workers, MasterLostWorker(w)
      PROVE  pc'[Master] # "boot" /\ MasterExitExplained'
  <2>1. /\ pc[Master] = "pass" /\ m2w' = m2w
        /\ \/ pc'[Master] = "pass"
           \/ pc'[Master] = "exit" /\ ~Alive(w) /\ m2w[w] # <<>>
    BY <1>0, <1>5 DEF MasterLostWorker, Fires
  <2>2. QED
    BY <1>2, <2>1 DEF MasterExitExplained, Alive
<1>6. ASSUME NEW w \in Workers, MasterWorkerMsg(w)
      PROVE  pc'[Master] # "boot" /\ MasterExitExplained'
  <2>1. w2m[w] # <<>> /\ pc[Master] = "pass"
    BY <1>6 DEF MasterWorkerMsg, Fires
  <2>2. ~sctp_endpoint
    BY <1>0, <2>1 DEF BarrierInv, CountIsExact, Counted
  <2>3. pc' = pc \/ pc' = [pc EXCEPT ![Master] = "sigpipe"]
    BY <1>6, <2>2 DEF MasterWorkerMsg, ReadyForWork
  <2>4. pc'[Master] \in {"pass", "sigpipe"}
    BY <1>0, <2>1, <2>3
  <2>5. QED
    BY <2>4 DEF MasterExitExplained
<1>7. CASE \/ MasterListen \/ Poll(Master) \/ EndPass(Master) \/ MasterAccept
           \/ MasterSctpAccept \/ MasterTerminate \/ \E w \in Workers : MasterWait(w)
  <2>1. pc'[Master] \notin {"boot", "exit"}
    BY <1>0, <1>7, ProcsDiffer
    DEF MasterListen, Poll, EndPass, MasterAccept, MasterSctpAccept,
        MasterTerminate, MasterWait, Fires
  <2>2. QED
    BY <1>1, <2>1 DEF MasterExitExplained
<1>8. QED
  BY <1>1, <1>3, <1>4, <1>5, <1>6, <1>7 DEF MasterNext

LEMMA ExitStep ==
    ASSUME Inv, ExitInv, [Next]_vars
    PROVE  ExitInv'
<1>0. TypeOK /\ Tester \in Procs /\ Master \in Procs /\ Workers \subseteq Procs
  BY DEF Inv
<1>1. \A q \in Procs : ~Alive(q) => pc'[q] = pc[q]
  BY <1>0, StepMoves DEF OneMoves
<1>2. ASSUME io'[Master] = io[Master],
             pc'[Master] = pc[Master] \/ pc'[Master] = "killed",
             \A w \in Workers : ~Alive(w) => m2w'[w] = m2w[w]
      PROVE  ExitInv'
  BY <1>0, <1>1, <1>2 DEF ExitInv, MasterExitExplained, Alive
<1>3. CASE TesterNext
  BY <1>0, <1>2, <1>3, TesterFrame
<1>4. CASE MasterNext
  BY <1>4, MasterExits DEF ExitInv
<1>5. ASSUME NEW w \in Workers, WorkerNext(w) PROVE ExitInv'
  BY <1>0, <1>2, <1>5, WorkerFrame, WorkerMoves, ProcsDiffer
<1>6. CASE Environment
  BY <1>0, <1>2, <1>6, EnvironmentFrame
<1>7. CASE UNCHANGED vars
  BY <1>2, <1>7 DEF vars
<1>8. QED
  BY <1>3, <1>4, <1>5, <1>6, <1>7 DEF Next

\* The master exits for want of a tester or on a reset connection, never by
\* running master_ready_forwork twice: a worker is counted once, and when the
\* port is open there is nobody left to count (worker_msg_handler).
THEOREM ExitsExplained == Spec => []MasterExitExplained
<1>1. Init => ExitInv
  BY DEF Init, ExitInv, MasterExitExplained
<1>2. Inv /\ ExitInv /\ [Next]_vars => ExitInv'
  BY ExitStep
<1>3. ExitInv => MasterExitExplained
  BY DEF ExitInv
<1>4. QED
  BY <1>1, <1>2, <1>3, InvHolds, PTL DEF Spec

-----------------------------------------------------------------------------
(* What a read takes out of the master's stream.                           *)

\* recvmsg takes everything if there is no descriptor, and else all up to the
\* first one.
LEMMA ReadTakes ==
    ASSUME NEW s \in Seq(Message)
    PROVE  LET f == FirstFd(s)
               rest == SubSeq(s, Received(s) + 1, Len(s))
           IN /\ f = 0 => rest = <<>> /\ \A k \in 1 .. Len(s) : ~IsFd(s[k])
              /\ f # 0 => /\ f \in 1 .. Len(s) /\ IsFd(s[f])
                          /\ \A k \in 1 .. Len(s) : IsFd(s[k]) => f <= k
                          /\ Len(rest) = Len(s) - f
                          /\ \A k \in 1 .. Len(s) - f : rest[k] = s[f + k]
<1> DEFINE fds == {k \in DOMAIN s : IsFd(s[k])}
<1>0. DOMAIN s = 1 .. Len(s) /\ Len(s) \in Nat
  BY LenProperties
<1>1. fds # {} => Min(fds) \in fds /\ \A k \in fds : Min(fds) <= k
  <2>1. fds \in SUBSET Nat
    BY <1>0
  <2> HIDE DEF fds
  <2>2. QED
    BY <2>1, MinInSet
<1>2. FirstFd(s) = IF fds = {} THEN 0 ELSE Min(fds)
  BY DEF FirstFd
<1>3. PICK f : f = FirstFd(s)
  OBVIOUS
<1>4. PICK rest : rest = SubSeq(s, Received(s) + 1, Len(s))
  OBVIOUS
<1>5. CASE fds = {}
  <2>1. f = 0 /\ \A k \in 1 .. Len(s) : ~IsFd(s[k])
    BY <1>0, <1>2, <1>3, <1>5
  <2>2. rest = SubSeq(s, Len(s) + 1, Len(s))
    BY <1>3, <1>4, <2>1 DEF Received
  <2>3. rest = <<>>
    BY <1>0, <2>2
  <2>4. QED
    BY <1>3, <1>4, <2>1, <2>3
<1>6. CASE fds # {}
  <2>1. f = Min(fds)
    BY <1>2, <1>3, <1>6
  <2>2. f \in fds /\ \A k \in fds : f <= k
    BY <1>1, <1>6, <2>1
  <2>3. /\ f \in 1 .. Len(s) /\ IsFd(s[f])
        /\ \A k \in 1 .. Len(s) : IsFd(s[k]) => f <= k
    BY <1>0, <2>2
  <2>4. rest = SubSeq(s, f + 1, Len(s))
    BY <1>0, <1>3, <1>4, <2>3 DEF Received
  <2>5. /\ Len(rest) = Len(s) - f
        /\ \A k \in 1 .. Len(s) - f : rest[k] = s[f + k]
    <3>1. \A k \in f + 1 .. Len(s) : s[k] \in Message
      <4>1. \A k \in f + 1 .. Len(s) : k \in 1 .. Len(s)
        BY <1>0, <2>3
      <4>2. QED
        BY <4>1, ElementOfSeq
    <3>2. f + 1 \in Int /\ Len(s) \in Int /\ f \in Nat
      BY <1>0, <2>3
    <3>3. /\ Len(rest) = IF f + 1 <= Len(s) THEN Len(s) - (f + 1) + 1 ELSE 0
          /\ \A k \in 1 .. Len(s) - (f + 1) + 1 : rest[k] = s[(f + 1) + k - 1]
      BY <2>4, <3>1, <3>2, SubSeqProperties
    <3>4. f <= Len(s)
      BY <2>3, <3>2
    <3>5. Len(rest) = Len(s) - f
      BY <3>2, <3>3, <3>4
    <3>6. ASSUME NEW k \in 1 .. Len(s) - f
          PROVE  rest[k] = s[f + k]
      <4>1. k \in 1 .. Len(s) - (f + 1) + 1 /\ (f + 1) + k - 1 = f + k
        BY <3>2
      <4>2. rest[k] = s[(f + 1) + k - 1]
        BY <3>3, <4>1
      <4>3. QED
        BY <4>1, <4>2
    <3>7. QED
      BY <3>5, <3>6
  <2>6. f # 0
    BY <2>3
  <2>7. QED
    BY <1>3, <1>4, <2>3, <2>5, <2>6
<1>7. QED
  BY <1>5, <1>6

-----------------------------------------------------------------------------
(* The termination is not swallowed.                                       *)

Goodbye == Msg("WORKER_TERMINATE")

\* The master sends descriptors while it serves, and the termination after.
Finished == {"wait"} \union Ended

Stream(s, finished) ==
    \A k \in 1 .. Len(s) :
        \/ IsFd(s[k])
        \/ s[k] = Goodbye /\ k = Len(s) /\ finished

ByeInv == \A w \in Workers : Stream(m2w[w], pc[Master] \in Finished)

LEMMA GoodbyePlain == ~IsFd(Goodbye) /\ Goodbye \in Message
BY MessageTypes DEF Goodbye, MsgIds

\* A read leaves such a stream, and takes the termination only if that is
\* what it looks at.
LEMMA ReadStream ==
    ASSUME NEW s \in Seq(Message), NEW finished \in BOOLEAN, Stream(s, finished), s # <<>>
    PROVE  LET rest == SubSeq(s, Received(s) + 1, Len(s))
           IN /\ Stream(rest, finished)
              /\ FirstFd(s) # 0 /\ Goodbye \in ToSet(s) => Goodbye \in ToSet(rest)
              /\ FirstFd(s) = 0 => Head(s) = Goodbye
<1>0. DOMAIN s = 1 .. Len(s) /\ Len(s) \in Nat \ {0}
  BY LenProperties, EmptySeq
<1>1. PICK rest : rest = SubSeq(s, Received(s) + 1, Len(s))
  OBVIOUS
<1>2. PICK f : f = FirstFd(s)
  OBVIOUS
<1>3. rest \in Seq(Message)
  BY <1>1, ReceivedType
<1>4. DOMAIN rest = 1 .. Len(rest) /\ Len(rest) \in Nat
  BY <1>3, LenProperties
<1>5. CASE f = 0
  <2>1. rest = <<>> /\ \A k \in 1 .. Len(s) : ~IsFd(s[k])
    BY <1>1, <1>2, <1>5, ReadTakes
  <2>2. Stream(rest, finished)
    BY <2>1 DEF Stream
  <2>3. s[1] = Goodbye
    <3>1. 1 \in 1 .. Len(s)
      BY <1>0
    <3>2. QED
      BY <2>1, <3>1 DEF Stream
  <2>4. Head(s) = s[1]
    BY HeadTailProperties
  <2>5. QED
    BY <1>1, <1>2, <1>5, <2>2, <2>3, <2>4
<1>6. CASE f # 0
  <2>1. /\ f \in 1 .. Len(s) /\ IsFd(s[f])
        /\ Len(rest) = Len(s) - f
        /\ \A k \in 1 .. Len(s) - f : rest[k] = s[f + k]
    BY <1>1, <1>2, <1>6, ReadTakes
  <2>0. f \in 1 .. Len(s) /\ Len(rest) = Len(s) - f /\ Len(s) \in Nat
    BY <1>0, <2>1
  <2>2. ASSUME NEW k \in 1 .. Len(rest)
        PROVE  IsFd(rest[k]) \/ (rest[k] = Goodbye /\ k = Len(rest) /\ finished)
    <3>1. f + k \in 1 .. Len(s) /\ k \in 1 .. Len(s) - f
      BY <2>0
    <3>2. rest[k] = s[f + k]
      BY <2>1, <3>1
    <3>3. IsFd(s[f + k]) \/ (s[f + k] = Goodbye /\ f + k = Len(s) /\ finished)
      BY <3>1 DEF Stream
    <3>4. f + k = Len(s) => k = Len(rest)
      BY <2>0
    <3>5. QED
      BY <3>2, <3>3, <3>4
  <2>3. ASSUME Goodbye \in ToSet(s) PROVE Goodbye \in ToSet(rest)
    <3>1. PICK k \in 1 .. Len(s) : s[k] = Goodbye
      BY <1>0, <2>3 DEF ToSet
    <3>2. k = Len(s) /\ k # f
      BY <2>1, <3>1, GoodbyePlain DEF Stream
    <3>3. Len(s) - f \in 1 .. Len(s) - f /\ f + (Len(s) - f) = Len(s)
      <4>1. f # Len(s)
        BY <3>2
      <4>2. QED
        BY <2>0, <4>1
    <3>4. rest[Len(s) - f] = Goodbye
      BY <2>1, <3>1, <3>2, <3>3
    <3>5. QED
      BY <1>4, <2>1, <3>3, <3>4 DEF ToSet
  <2>4. QED
    BY <1>1, <1>2, <1>6, <2>2, <2>3 DEF Stream
<1>7. QED
  BY <1>5, <1>6

\* What is appended to a stream keeps it one.
LEMMA AppendStream ==
    ASSUME NEW s \in Seq(Message), NEW m \in Message, Stream(s, FALSE),
           NEW finished \in BOOLEAN, IsFd(m) \/ (m = Goodbye /\ finished)
    PROVE  Stream(Append(s, m), finished) /\ ToSet(s) \subseteq ToSet(Append(s, m))
<1>1. PICK t : t = Append(s, m)
  OBVIOUS
<1>2. /\ t \in Seq(Message) /\ Len(t) = Len(s) + 1 /\ t[Len(s) + 1] = m
      /\ \A k \in 1 .. Len(s) : t[k] = s[k]
  BY <1>1
<1>3. /\ DOMAIN t = 1 .. Len(t) /\ DOMAIN s = 1 .. Len(s) /\ Len(s) \in Nat
  BY <1>2, LenProperties
<1>4. Stream(t, finished)
  BY <1>2, <1>3 DEF Stream
<1>5. ToSet(s) \subseteq ToSet(t)
  BY <1>2, <1>3 DEF ToSet
<1>6. QED
  BY <1>1, <1>4, <1>5

\* The master's streams only grow by its own steps, and it says goodbye as
\* it leaves the loop.
LEMMA MasterBye ==
    ASSUME TypeOK, ByeInv, MasterNext
    PROVE  ByeInv' /\ \A w \in Workers : ToSet(m2w[w]) \subseteq ToSet(m2w'[w])
<1> USE DEF Goes, Ends, Finished, Ended
<1>0. /\ Master \in Procs /\ pc \in [Procs -> States]
      /\ m2w \in [Workers -> Seq(Message)]
  BY DEF TypeOK
<1>1. CASE m2w' = m2w /\ (pc[Master] \in Finished => pc'[Master] \in Finished)
  <2>1. \A w \in Workers : Stream(m2w[w], pc'[Master] \in Finished)
    BY <1>1 DEF ByeInv, Stream
  <2>2. QED
    BY <1>1, <2>1 DEF ByeInv
<1>2. CASE \/ MasterConnect \/ MasterListen \/ Poll(Master) \/ EndPass(Master)
           \/ MasterTesterMsg \/ MasterAccept
           \/ \E w \in Workers :
                  MasterWorkerMsg(w) \/ MasterLostWorker(w) \/ MasterWait(w)
  <2>1. m2w' = m2w
    BY <1>2 DEF MasterConnect, MasterListen, Poll, EndPass, MasterTesterMsg,
                MasterAccept, MasterWorkerMsg, MasterLostWorker, MasterWait
  <2>2. pc[Master] \in Finished => \E w \in Workers : MasterWait(w)
    BY <1>2 DEF MasterConnect, MasterListen, Poll, EndPass, MasterTesterMsg,
                MasterAccept, MasterWorkerMsg, MasterLostWorker, Fires
  <2>3. pc[Master] \in Finished => pc'[Master] \in Finished
    BY <1>0, <2>2 DEF MasterWait
  <2>4. QED
    BY <1>1, <2>1, <2>3
<1>3. CASE MasterSctpAccept
  <2>1. PICK m \in Message :
           /\ IsFd(m)
           /\ \A w \in Workers : m2w'[w] = m2w[w] \/ m2w'[w] = Append(m2w[w], m)
    <3>1. sctp_backlog \in Seq(Conns) /\ sctp_backlog # <<>>
      BY <1>3 DEF MasterSctpAccept, TypeOK
    <3>2. Head(sctp_backlog) \in Conns
      BY <3>1, HeadTailProperties
    <3>3. PICK m : m = FdMsg(Head(sctp_backlog))
      OBVIOUS
    <3>4. m \in Message /\ IsFd(m)
      BY <3>2, <3>3, MessageTypes
    <3>5. \A w \in Workers : m2w'[w] = m2w[w] \/ m2w'[w] = Append(m2w[w], m)
      BY <1>3, <3>3 DEF MasterSctpAccept
    <3>6. QED
      BY <3>4, <3>5
  <2>2. pc[Master] \notin Finished
    BY <1>3 DEF MasterSctpAccept, Fires
  <2>3. ASSUME NEW w \in Workers
        PROVE  /\ Stream(m2w'[w], pc'[Master] \in Finished)
               /\ ToSet(m2w[w]) \subseteq ToSet(m2w'[w])
    <3>1. Stream(m2w[w], FALSE)
      BY <2>2 DEF ByeInv, Stream
    <3>2. PICK finished \in BOOLEAN : finished <=> pc'[Master] \in Finished
      OBVIOUS
    <3>3. CASE m2w'[w] = m2w[w]
      BY <3>1, <3>3 DEF Stream
    <3>4. CASE m2w'[w] = Append(m2w[w], m)
      <4>1. /\ Stream(Append(m2w[w], m), finished)
            /\ ToSet(m2w[w]) \subseteq ToSet(Append(m2w[w], m))
        BY <1>0, <2>1, <3>1, AppendStream
      <4>2. Stream(m2w'[w], finished)
        BY <3>4, <4>1
      <4>3. QED
        BY <3>2, <3>4, <4>1, <4>2 DEF Stream
    <3>5. QED
      BY <2>1, <3>3, <3>4
  <2>4. QED
    BY <2>3 DEF ByeInv
<1>4. CASE MasterTerminate
  <2>1. /\ pc[Master] \notin Finished /\ pc'[Master] \in Finished
        /\ \/ m2w' = m2w
           \/ m2w' = [m2w EXCEPT ![workers_socket_connect[1]] =
                         Append(@, Msg("WORKER_TERMINATE"))]
    BY <1>0, <1>4 DEF MasterTerminate
  <2>2. \A w \in Workers : m2w'[w] = m2w[w] \/ m2w'[w] = Append(m2w[w], Goodbye)
    BY <1>0, <2>1 DEF Goodbye
  <2>3. ASSUME NEW w \in Workers
        PROVE  /\ Stream(m2w'[w], TRUE)
               /\ ToSet(m2w[w]) \subseteq ToSet(m2w'[w])
    <3>1. Stream(m2w[w], FALSE)
      BY <2>1 DEF ByeInv, Stream
    <3>2. CASE m2w'[w] = m2w[w]
      BY <3>1, <3>2 DEF Stream
    <3>3. CASE m2w'[w] = Append(m2w[w], Goodbye)
      BY <1>0, <3>1, <3>3, AppendStream, GoodbyePlain
    <3>4. QED
      BY <2>2, <3>2, <3>3
  <2>4. QED
    BY <2>1, <2>3 DEF ByeInv, Stream
<1>5. QED
  BY <1>2, <1>3, <1>4 DEF MasterNext

LEMMA WorkerReads ==
    ASSUME TypeOK, NEW w \in Workers, WorkerNext(w), m2w'[w] # m2w[w]
    PROVE  WorkerMsg(w) /\ m2w[w] \in Seq(Message) /\ m2w[w] # <<>>
           /\ m2w'[w] = SubSeq(m2w[w], Received(m2w[w]) + 1, Len(m2w[w]))
<1>1. WorkerMsg(w)
  BY DEF WorkerNext, WorkerConnect, WorkerHello, Poll, EndPass,
         WorkerLostMaster, WorkerSctpMsg, WorkerSctpLost
<1>2. QED
  BY <1>1 DEF WorkerMsg, TypeOK

LEMMA ByeStep ==
    ASSUME TypeOK, ByeInv, [Next]_vars
    PROVE  /\ ByeInv'
           /\ \A w \in Workers :
                  Goodbye \in ToSet(m2w[w]) /\ Goodbye \notin ToSet(m2w'[w])
                      => ~running'[w]
<1>0. Master \in Procs
  OBVIOUS
<1>1. CASE m2w' = m2w /\ (pc'[Master] = pc[Master] \/ pc'[Master] = "killed")
  BY <1>1 DEF ByeInv, Stream, Finished, Ended
<1>2. CASE TesterNext
  BY <1>1, <1>2, TesterFrame
<1>3. CASE MasterNext
  BY <1>3, MasterBye
<1>4. ASSUME NEW w \in Workers, WorkerNext(w)
      PROVE  /\ ByeInv'
             /\ \A v \in Workers :
                    Goodbye \in ToSet(m2w[v]) /\ Goodbye \notin ToSet(m2w'[v])
                        => ~running'[v]
  <2>1. /\ \A v \in Workers : v # w => m2w'[v] = m2w[v]
        /\ pc'[Master] = pc[Master]
    BY <1>4, WorkerFrame, ProcsDiffer
  <2>2. CASE m2w'[w] = m2w[w]
    <3>1. \A v \in Workers : m2w'[v] = m2w[v]
      BY <2>1, <2>2
    <3>2. QED
      BY <2>1, <3>1 DEF ByeInv
  <2>3. CASE m2w'[w] # m2w[w]
    <3>1. /\ WorkerMsg(w) /\ m2w[w] \in Seq(Message) /\ m2w[w] # <<>>
          /\ m2w'[w] = SubSeq(m2w[w], Received(m2w[w]) + 1, Len(m2w[w]))
      BY <1>4, <2>3, WorkerReads
    <3>2. PICK finished \in BOOLEAN : finished <=> pc[Master] \in Finished
      OBVIOUS
    <3>3. Stream(m2w[w], finished)
      BY <3>2 DEF ByeInv, Stream
    <3>4. /\ Stream(m2w'[w], finished)
          /\ FirstFd(m2w[w]) # 0 /\ Goodbye \in ToSet(m2w[w])
                 => Goodbye \in ToSet(m2w'[w])
          /\ FirstFd(m2w[w]) = 0 => Head(m2w[w]) = Goodbye
      BY <3>1, <3>3, ReadStream
    <3>5. ByeInv'
      BY <2>1, <3>2, <3>4 DEF ByeInv, Stream
    <3>6. ASSUME Goodbye \in ToSet(m2w[w]), Goodbye \notin ToSet(m2w'[w])
          PROVE  ~running'[w]
      <4>1. FirstFd(m2w[w]) = 0 /\ Head(m2w[w]) = Goodbye
        BY <3>4, <3>6
      <4>2. running' = [running EXCEPT ![w] =
                            @ /\ Head(m2w[w]) # Msg("WORKER_TERMINATE")]
        BY <3>1, <4>1 DEF WorkerMsg
      <4>3. running' = [running EXCEPT ![w] = FALSE]
        BY <4>1, <4>2 DEF Goodbye
      <4>4. QED
        BY <4>3 DEF TypeOK
    <3>7. QED
      BY <2>1, <3>5, <3>6
  <2>4. QED
    BY <2>2, <2>3
<1>5. CASE Environment
  BY <1>0, <1>1, <1>5, EnvironmentFrame
<1>6. CASE UNCHANGED vars
  BY <1>1, <1>6 DEF vars
<1>7. QED
  BY <1>2, <1>3, <1>4, <1>5, <1>6 DEF Next

\* A worker that takes WORKER_TERMINATE out of its stream leaves its loop: the
\* message is the last the master sends, so no descriptor hides it
\* (worker::msg_handler).
THEOREM TerminationObeyed == Spec => TerminateNotSwallowed
<1>1. Init => ByeInv
  BY DEF Init, ByeInv, Stream
<1>2. TypeOK /\ ByeInv /\ [Next]_vars => ByeInv'
  BY ByeStep
<1>3. TypeOK /\ ByeInv /\ [Next]_vars =>
          [\A w \in Workers :
              /\ Msg("WORKER_TERMINATE") \in ToSet(m2w[w])
              /\ Msg("WORKER_TERMINATE") \notin ToSet(m2w'[w])
              => ~running'[w]]_vars
  BY ByeStep DEF Goodbye
<1>4. QED
  BY <1>1, <1>2, <1>3, TypeInit, TypeStep, PTL DEF Spec, TerminateNotSwallowed

-----------------------------------------------------------------------------
(* Every worker comes to the connection accepted last.                     *)

\* c is what a worker with endpoint e has when it has read stream s.
Newest(s, e, c) ==
    \/ e = c /\ \A k \in 1 .. Len(s) : ~IsFd(s[k])
    \/ \E k \in 1 .. Len(s) :
           s[k] = FdMsg(c) /\ \A j \in 1 .. Len(s) : IsFd(s[j]) => j <= k

\* Connections the master has accepted; the others wait, in order.
Taken == Len(sctp_endpoints) - Len(sctp_backlog)

BacklogInv ==
    /\ Len(sctp_backlog) <= Len(sctp_endpoints)
    /\ \A k \in 1 .. Len(sctp_backlog) : sctp_backlog[k] = sctp_endpoints[Taken + k]
    /\ sctp_backlog # <<>> => sctp_endpoint

NewestInv ==
    Alive(Master) /\ Taken > 0 =>
        \A w \in Workers :
            Alive(w) => Newest(m2w[w], endpoint[w], sctp_endpoints[Taken])

LEMMA NewestRead ==
    ASSUME NEW s \in Seq(Message), NEW e, NEW c \in Conns, Newest(s, e, c)
    PROVE  LET f == FirstFd(s)
               rest == SubSeq(s, Received(s) + 1, Len(s))
           IN Newest(rest, IF f = 0 THEN e ELSE s[f].conn, c)
<1>0. DOMAIN s = 1 .. Len(s) /\ Len(s) \in Nat
  BY LenProperties
<1>1. PICK rest : rest = SubSeq(s, Received(s) + 1, Len(s))
  OBVIOUS
<1>2. PICK f : f = FirstFd(s)
  OBVIOUS
<1>3. IsFd(FdMsg(c)) /\ FdMsg(c).conn = c
  BY DEF IsFd, FdMsg
<1>4. CASE f = 0
  <2>1. rest = <<>> /\ \A k \in 1 .. Len(s) : ~IsFd(s[k])
    BY <1>1, <1>2, <1>4, ReadTakes
  <2>2. e = c
    BY <1>3, <2>1 DEF Newest
  <2>3. Newest(rest, e, c)
    BY <2>1, <2>2 DEF Newest
  <2>4. QED
    BY <1>1, <1>2, <1>4, <2>3
<1>5. CASE f # 0
  <2>1. /\ f \in 1 .. Len(s) /\ IsFd(s[f])
        /\ \A k \in 1 .. Len(s) : IsFd(s[k]) => f <= k
        /\ Len(rest) = Len(s) - f
        /\ \A k \in 1 .. Len(s) - f : rest[k] = s[f + k]
    BY <1>1, <1>2, <1>5, ReadTakes
  <2>2. PICK k \in 1 .. Len(s) :
             s[k] = FdMsg(c) /\ \A j \in 1 .. Len(s) : IsFd(s[j]) => j <= k
    BY <2>1 DEF Newest
  <2>3. f <= k
    BY <1>3, <2>1, <2>2
  <2>4. ASSUME NEW j \in 1 .. Len(rest), IsFd(rest[j])
        PROVE  f + j <= k
    <3>1. j \in 1 .. Len(s) - f /\ f + j \in 1 .. Len(s)
      BY <1>0, <2>1
    <3>2. IsFd(s[f + j])
      BY <2>1, <2>4, <3>1
    <3>3. QED
      BY <2>2, <3>1, <3>2
  <2>5. CASE k = f
    <3>1. \A j \in 1 .. Len(rest) : ~IsFd(rest[j])
      <4>1. \A j \in 1 .. Len(rest) : ~(f + j <= f)
        BY <1>0, <2>1
      <4>2. QED
        BY <2>4, <2>5, <4>1
    <3>2. s[f].conn = c
      BY <1>3, <2>2, <2>5
    <3>3. QED
      BY <1>1, <1>2, <1>5, <3>1, <3>2 DEF Newest
  <2>6. CASE k # f
    <3>1. k - f \in 1 .. Len(s) - f /\ f + (k - f) = k
      BY <1>0, <2>1, <2>3, <2>6
    <3>2. rest[k - f] = FdMsg(c) /\ k - f \in 1 .. Len(rest)
      BY <2>1, <2>2, <3>1
    <3>3. \A j \in 1 .. Len(rest) : IsFd(rest[j]) => j <= k - f
      <4>1. \A j \in 1 .. Len(rest) : f + j <= k => j <= k - f
        BY <1>0, <2>1
      <4>2. QED
        BY <2>4, <4>1
    <3>4. Newest(rest, s[f].conn, c)
      BY <3>2, <3>3 DEF Newest
    <3>5. QED
      BY <1>1, <1>2, <1>5, <3>4
  <2>7. QED
    BY <2>5, <2>6
<1>6. QED
  BY <1>4, <1>5

LEMMA NewestAppend ==
    ASSUME NEW s \in Seq(Message), NEW m \in Message, NEW e, NEW c \in Conns
    PROVE  /\ ~IsFd(m) /\ Newest(s, e, c) => Newest(Append(s, m), e, c)
           /\ Newest(Append(s, FdMsg(c)), e, c)
<1>0. DOMAIN s = 1 .. Len(s) /\ Len(s) \in Nat /\ FdMsg(c) \in Message
  BY LenProperties, MessageTypes
<1>1. ASSUME ~IsFd(m), Newest(s, e, c) PROVE Newest(Append(s, m), e, c)
  <2>1. PICK t : t = Append(s, m)
    OBVIOUS
  <2>2. /\ Len(t) = Len(s) + 1 /\ t[Len(s) + 1] = m
        /\ \A k \in 1 .. Len(s) : t[k] = s[k]
    BY <2>1
  <2>3. /\ \A k \in 1 .. Len(s) : k \in 1 .. Len(t)
        /\ \A k \in 1 .. Len(t) : k \in 1 .. Len(s) \/ k = Len(s) + 1
    BY <1>0, <2>2
  <2>4. \A k \in 1 .. Len(t) : IsFd(t[k]) => k \in 1 .. Len(s) /\ IsFd(s[k])
    BY <1>1, <2>2, <2>3
  <2>5. Newest(t, e, c)
    BY <1>1, <2>2, <2>3, <2>4 DEF Newest
  <2>6. QED
    BY <2>1, <2>5
<1>2. Newest(Append(s, FdMsg(c)), e, c)
  <2>1. PICK t : t = Append(s, FdMsg(c))
    OBVIOUS
  <2>2. Len(t) = Len(s) + 1 /\ t[Len(s) + 1] = FdMsg(c)
    BY <1>0, <2>1
  <2>3. Len(s) + 1 \in 1 .. Len(t) /\ \A j \in 1 .. Len(t) : j <= Len(s) + 1
    BY <1>0, <2>2
  <2>4. Newest(t, e, c)
    BY <2>2, <2>3 DEF Newest
  <2>5. QED
    BY <2>1, <2>4
<1>3. QED
  BY <1>1, <1>2

\* What there is to know of the two lists of connections.
LEMMA TakenType ==
    ASSUME TypeOK, BacklogInv
    PROVE  /\ Len(sctp_endpoints) \in Nat /\ Len(sctp_backlog) \in Nat
           /\ Taken \in Nat /\ Taken <= Len(sctp_endpoints)
           /\ Taken > 0 => sctp_endpoints[Taken] \in Conns
<1>1. /\ sctp_endpoints \in Seq(Conns) /\ sctp_backlog \in Seq(Conns)
      /\ Len(sctp_endpoints) \in Nat /\ Len(sctp_backlog) \in Nat
  BY LenProperties DEF TypeOK
<1>2. Len(sctp_backlog) <= Len(sctp_endpoints)
  BY DEF BacklogInv
<1>3. Taken \in Nat /\ Taken <= Len(sctp_endpoints)
  BY <1>1, <1>2 DEF Taken
<1>4. Taken > 0 => Taken \in 1 .. Len(sctp_endpoints)
  BY <1>1, <1>3
<1>5. QED
  BY <1>1, <1>3, <1>4, ElementOfSeq

\* A step that only opens connections, or none, leaves the accepted ones.
LEMMA Opened ==
    ASSUME TypeOK, BacklogInv, sctp_endpoint' = sctp_endpoint,
           \/ UNCHANGED <<sctp_endpoints, sctp_backlog>>
           \/ \E c \in Conns :
                  /\ sctp_endpoints' = Append(sctp_endpoints, c)
                  /\ sctp_backlog' = Append(sctp_backlog, c)
                  /\ sctp_endpoint
    PROVE  /\ BacklogInv' /\ Taken' = Taken
           /\ Taken > 0 => sctp_endpoints'[Taken] = sctp_endpoints[Taken]
<1>1. CASE UNCHANGED <<sctp_endpoints, sctp_backlog>>
  BY <1>1 DEF BacklogInv, Taken
<1>2. ASSUME NEW c \in Conns, sctp_endpoints' = Append(sctp_endpoints, c),
             sctp_backlog' = Append(sctp_backlog, c), sctp_endpoint
      PROVE  /\ BacklogInv' /\ Taken' = Taken
             /\ Taken > 0 => sctp_endpoints'[Taken] = sctp_endpoints[Taken]
  <2>1. sctp_endpoints \in Seq(Conns) /\ sctp_backlog \in Seq(Conns)
    BY DEF TypeOK
  <2>2. PICK ne, nb \in Nat : ne = Len(sctp_endpoints) /\ nb = Len(sctp_backlog)
    BY <2>1, LenProperties
  <2>3. /\ Len(sctp_endpoints') = ne + 1 /\ sctp_endpoints'[ne + 1] = c
        /\ \A k \in 1 .. ne : sctp_endpoints'[k] = sctp_endpoints[k]
        /\ Len(sctp_backlog') = nb + 1 /\ sctp_backlog'[nb + 1] = c
        /\ \A k \in 1 .. nb : sctp_backlog'[k] = sctp_backlog[k]
    BY <1>2, <2>1, <2>2
  <2>4. nb <= ne /\ Taken = ne - nb /\ Taken' = ne - nb
    BY <2>2, <2>3 DEF BacklogInv, Taken
  <2>5. ASSUME NEW k \in 1 .. nb + 1
        PROVE  sctp_backlog'[k] = sctp_endpoints'[(ne - nb) + k]
    <3>1. CASE k = nb + 1
      <4>1. (ne - nb) + (nb + 1) = ne + 1
        BY <2>2
      <4>2. QED
        BY <2>3, <3>1, <4>1
    <3>2. CASE k # nb + 1
      <4>1. k \in 1 .. nb /\ (ne - nb) + k \in 1 .. ne
        BY <2>2, <2>4, <3>2
      <4>2. sctp_backlog[k] = sctp_endpoints[(ne - nb) + k]
        BY <2>2, <2>4, <4>1 DEF BacklogInv
      <4>3. QED
        BY <2>3, <4>1, <4>2
    <3>3. QED
      BY <3>1, <3>2
  <2>6. nb + 1 <= ne + 1
    BY <2>2, <2>4
  <2>7. BacklogInv'
    BY <1>2, <2>3, <2>4, <2>5, <2>6 DEF BacklogInv
  <2>8. Taken > 0 => sctp_endpoints'[Taken] = sctp_endpoints[Taken]
    <3>1. ne - nb > 0 => ne - nb \in 1 .. ne
      BY <2>2, <2>4
    <3>2. QED
      BY <2>3, <2>4, <3>1
  <2>9. QED
    BY <2>4, <2>7, <2>8
<1>3. QED
  BY <1>1, <1>2

\* Such a step keeps the invariant if what it does to streams and endpoints
\* of workers keeps their newest connection.
LEMMA NewestKept ==
    ASSUME TypeOK, BacklogInv, NewestInv,
           BacklogInv', Taken' = Taken,
           Taken > 0 => sctp_endpoints'[Taken] = sctp_endpoints[Taken],
           Alive(Master)' => Alive(Master),
           \A w \in Workers : Alive(w)' => Alive(w),
           \A w \in Workers : \A c \in Conns :
               Newest(m2w[w], endpoint[w], c) => Newest(m2w'[w], endpoint'[w], c)
    PROVE  NewestInv'
<1>1. Taken > 0 => sctp_endpoints[Taken] \in Conns
  BY TakenType
<1>2. QED
  BY <1>1 DEF NewestInv

LEMMA TesterOpens ==
    ASSUME TypeOK, TesterNext
    PROVE  /\ sctp_endpoint' = sctp_endpoint
           /\ \/ UNCHANGED <<sctp_endpoints, sctp_backlog>>
              \/ \E c \in Conns :
                     /\ sctp_endpoints' = Append(sctp_endpoints, c)
                     /\ sctp_backlog' = Append(sctp_backlog, c)
                     /\ sctp_endpoint
<1>1. CASE StartTest
  BY <1>1 DEF StartTest, TesterNext, TesterBoot, Poll, EndPass, TesterAccept,
              TesterKey, TesterReady, TesterLostSut, TestSend,
              TesterTerminate, TesterWait
<1>2. CASE ~StartTest
  BY <1>2 DEF TesterNext, TesterBoot, Poll, EndPass, TesterAccept, TesterKey,
              TesterReady, TesterLostSut, TestSend, TesterTerminate, TesterWait
<1>3. QED
  BY <1>1, <1>2

\* The new-connection handler sends the connection to every worker or ends
\* the master; the port is only open when it knows them all.
LEMMA AcceptSends ==
    ASSUME Inv, BacklogInv, MasterSctpAccept
    PROVE  BacklogInv' /\ NewestInv'
<1> USE DEF Ends
<1>0. /\ TypeOK /\ BarrierInv /\ Master \in Procs
      /\ sctp_endpoints \in Seq(Conns) /\ sctp_backlog \in Seq(Conns)
      /\ m2w \in [Workers -> Seq(Message)] /\ pc \in [Procs -> States]
  BY DEF Inv, TypeOK
<1>1. /\ sctp_backlog # <<>> /\ sctp_backlog' = Tail(sctp_backlog)
      /\ UNCHANGED <<sctp_endpoints, sctp_endpoint, endpoint>>
  BY DEF MasterSctpAccept
<1>2. PICK ne, nb \in Nat : ne = Len(sctp_endpoints) /\ nb = Len(sctp_backlog)
  BY <1>0, LenProperties
<1>3. /\ nb > 0 /\ Len(sctp_backlog') = nb - 1
      /\ \A k \in 1 .. nb - 1 : sctp_backlog'[k] = sctp_backlog[k + 1]
      /\ Head(sctp_backlog) = sctp_backlog[1]
  BY <1>0, <1>1, <1>2, HeadTailProperties, EmptySeq
<1>4. nb <= ne /\ Taken = ne - nb /\ Taken' = (ne - nb) + 1
  <2>1. nb <= ne /\ Taken = ne - nb /\ Taken' = ne - (nb - 1)
    BY <1>1, <1>2, <1>3 DEF BacklogInv, Taken
  <2>2. QED
    BY <1>2, <2>1
<1>5. \A k \in 1 .. nb : sctp_backlog[k] = sctp_endpoints[(ne - nb) + k]
  BY <1>2, <1>4 DEF BacklogInv
<1>6. BacklogInv'
  <2>1. nb - 1 <= ne
    BY <1>2, <1>4
  <2>2. ASSUME NEW k \in 1 .. nb - 1
        PROVE  sctp_backlog'[k] = sctp_endpoints[((ne - nb) + 1) + k]
    <3>1. k + 1 \in 1 .. nb /\ (ne - nb) + (k + 1) = ((ne - nb) + 1) + k
      BY <1>2, <1>4
    <3>2. QED
      BY <1>3, <1>5, <3>1
  <2>3. sctp_endpoint
    BY <1>1 DEF BacklogInv
  <2>4. QED
    BY <1>1, <1>2, <1>3, <1>4, <2>1, <2>2, <2>3 DEF BacklogInv
<1>7. PICK c \in Conns : c = Head(sctp_backlog) /\ c = sctp_endpoints[(ne - nb) + 1]
  <2>1. 1 \in 1 .. nb
    BY <1>2, <1>3
  <2>2. Head(sctp_backlog) \in Conns
    BY <1>0, <1>1, HeadTailProperties
  <2>3. QED
    BY <1>3, <1>5, <2>1, <2>2
<1>8. ASSUME Alive(Master)'
      PROVE  \A w \in Workers : m2w'[w] = Append(m2w[w], FdMsg(c))
  <2>1. PICK ws : ws = workers_socket_connect
    OBVIOUS
  <2>2. PICK served :
           /\ served = {ws[k] : k \in {n \in DOMAIN ws :
                                          \A j \in 1 .. n : Alive(ws[j])}}
           /\ m2w' = [w \in Workers |->
                        IF w \in served
                        THEN Append(m2w[w], FdMsg(Head(sctp_backlog)))
                        ELSE m2w[w]]
           /\ IF served = ToSet(ws) THEN UNCHANGED pc
                                    ELSE Ends(Master, "sigpipe")
    BY <2>1 DEF MasterSctpAccept
  <2>3. served = ToSet(ws)
    BY <1>0, <1>8, <2>2 DEF Alive, Ended
  <2>4. Workers \subseteq ToSet(ws)
    <3>1. sctp_endpoint
      BY <1>1 DEF BacklogInv
    <3>2. QED
      BY <1>0, <2>1, <3>1 DEF BarrierInv, WorkersKnown, CountIsExact
  <2>5. QED
    BY <1>7, <2>2, <2>3, <2>4
<1>9. NewestInv'
  <2>1. \A w \in Workers : Newest(Append(m2w[w], FdMsg(c)), endpoint[w], c)
    BY <1>0, <1>7, NewestAppend, MessageTypes
  <2>2. QED
    BY <1>1, <1>4, <1>7, <1>8, <2>1 DEF NewestInv
<1>10. QED
  BY <1>6, <1>9

\* The other steps of the master send at most a termination.
LEMMA MasterSendsPlain ==
    ASSUME TypeOK, BacklogInv, MasterNext, ~MasterSctpAccept
    PROVE  /\ sctp_backlog' = sctp_backlog /\ (sctp_endpoint => sctp_endpoint')
           /\ \A w \in Workers :
                  m2w'[w] = m2w[w] \/ m2w'[w] = Append(m2w[w], Goodbye)
<1>1. CASE MasterTerminate
  <2>1. \/ m2w' = m2w
        \/ m2w' = [m2w EXCEPT ![workers_socket_connect[1]] =
                      Append(@, Msg("WORKER_TERMINATE"))]
    BY <1>1 DEF MasterTerminate
  <2>2. UNCHANGED <<sctp_backlog, sctp_endpoint>>
    BY <1>1 DEF MasterTerminate
  <2>3. QED
    BY <2>1, <2>2 DEF Goodbye, TypeOK
<1>2. CASE ~MasterTerminate
  <2>1. m2w' = m2w /\ sctp_backlog' = sctp_backlog
    BY <1>2 DEF MasterNext, MasterConnect, MasterListen, Poll, EndPass,
         MasterTesterMsg, MasterAccept, MasterWorkerMsg, MasterLostWorker,
         MasterWait
  <2>2. sctp_endpoint => sctp_endpoint'
    BY <1>2 DEF MasterNext, MasterConnect, MasterListen, Poll, EndPass,
         MasterTesterMsg, MasterAccept, MasterWorkerMsg, MasterLostWorker,
         MasterWait, ReadyForWork
  <2>3. QED
    BY <2>1, <2>2
<1>3. QED
  BY <1>1, <1>2

\* msg_handler puts the connection it takes out of the stream in the place of
\* the one it had.
LEMMA WorkerTakes ==
    ASSUME TypeOK, NEW w \in Workers, WorkerNext(w), NEW c \in Conns,
           Newest(m2w[w], endpoint[w], c)
    PROVE  Newest(m2w'[w], endpoint'[w], c)
<1>1. CASE WorkerMsg(w)
  <2>1. m2w[w] \in Seq(Message)
    BY DEF TypeOK
  <2>2. m2w'[w] = SubSeq(m2w[w], Received(m2w[w]) + 1, Len(m2w[w]))
    BY <1>1 DEF WorkerMsg, TypeOK
  <2>3. endpoint'[w] = IF FirstFd(m2w[w]) = 0 THEN endpoint[w]
                       ELSE m2w[w][FirstFd(m2w[w])].conn
    BY <1>1 DEF WorkerMsg, NewEndpoint, TypeOK
  <2>4. QED
    BY <2>1, <2>2, <2>3, NewestRead
<1>2. CASE ~WorkerMsg(w)
  <2>1. UNCHANGED <<m2w, endpoint>>
    BY <1>2 DEF WorkerNext, WorkerConnect, WorkerHello, Poll, EndPass,
                WorkerLostMaster, WorkerSctpMsg, WorkerSctpLost
  <2>2. QED
    BY <2>1
<1>3. QED
  BY <1>1, <1>2

LEMMA NewestStep ==
    ASSUME Inv, BacklogInv, NewestInv, [Next]_vars
    PROVE  BacklogInv' /\ NewestInv'
<1>0. /\ TypeOK /\ Master \in Procs /\ Workers \subseteq Procs
      /\ m2w \in [Workers -> Seq(Message)]
  BY DEF Inv, TypeOK
<1>1. \A q \in Procs : Alive(q)' => Alive(q)
  BY <1>0, StepMoves DEF OneMoves, Alive
<1>2. ASSUME UNCHANGED <<m2w, endpoint>>, sctp_endpoint' = sctp_endpoint,
             \/ UNCHANGED <<sctp_endpoints, sctp_backlog>>
             \/ \E c \in Conns :
                    /\ sctp_endpoints' = Append(sctp_endpoints, c)
                    /\ sctp_backlog' = Append(sctp_backlog, c)
                    /\ sctp_endpoint
      PROVE  BacklogInv' /\ NewestInv'
  <2>1. /\ BacklogInv' /\ Taken' = Taken
        /\ Taken > 0 => sctp_endpoints'[Taken] = sctp_endpoints[Taken]
    BY <1>0, <1>2, Opened
  <2>2. QED
    BY <1>0, <1>1, <1>2, <2>1, NewestKept
<1>3. CASE TesterNext
  <2>1. UNCHANGED <<m2w, endpoint>>
    BY <1>3 DEF TesterNext, TesterBoot, Poll, EndPass, TesterAccept, TesterKey,
                TesterReady, TesterLostSut, TestSend, TesterTerminate, TesterWait
  <2>2. QED
    BY <1>0, <1>2, <1>3, <2>1, TesterOpens
<1>4. CASE MasterSctpAccept
  BY <1>4, AcceptSends
<1>5. CASE MasterNext /\ ~MasterSctpAccept
  <2>1. /\ sctp_backlog' = sctp_backlog /\ sctp_endpoints' = sctp_endpoints
        /\ sctp_endpoint => sctp_endpoint'
        /\ \A w \in Workers : endpoint'[w] = endpoint[w]
        /\ \A w \in Workers :
               m2w'[w] = m2w[w] \/ m2w'[w] = Append(m2w[w], Goodbye)
    BY <1>0, <1>5, MasterFrame, MasterSendsPlain DEF Untouched
  <2>2. BacklogInv' /\ Taken' = Taken
    BY <2>1 DEF BacklogInv, Taken
  <2>3. ASSUME NEW w \in Workers, NEW c \in Conns,
               Newest(m2w[w], endpoint[w], c)
        PROVE  Newest(m2w'[w], endpoint'[w], c)
    <3>1. Newest(Append(m2w[w], Goodbye), endpoint[w], c)
      BY <1>0, <2>3, NewestAppend, GoodbyePlain
    <3>2. QED
      BY <2>1, <2>3, <3>1
  <2>4. QED
    BY <1>0, <1>1, <2>1, <2>2, <2>3, NewestKept
<1>6. ASSUME NEW w \in Workers, WorkerNext(w) PROVE BacklogInv' /\ NewestInv'
  <2>1. /\ UNCHANGED <<sctp_endpoints, sctp_backlog, sctp_endpoint>>
        /\ \A v \in Workers : v # w => endpoint'[v] = endpoint[v] /\ m2w'[v] = m2w[v]
    BY <1>0, <1>6, WorkerFrame DEF Untouched
  <2>2. BacklogInv' /\ Taken' = Taken
    BY <2>1 DEF BacklogInv, Taken
  <2>3. ASSUME NEW v \in Workers, NEW c \in Conns,
               Newest(m2w[v], endpoint[v], c)
        PROVE  Newest(m2w'[v], endpoint'[v], c)
    <3>1. CASE v = w
      BY <1>0, <1>6, <2>3, <3>1, WorkerTakes
    <3>2. CASE v # w
      BY <2>1, <2>3, <3>2
    <3>3. QED
      BY <3>1, <3>2
  <2>4. QED
    BY <1>0, <1>1, <2>1, <2>2, <2>3, NewestKept
<1>7. CASE Environment \/ UNCHANGED vars
  <2>1. UNCHANGED <<m2w, endpoint, sctp_endpoint, sctp_endpoints, sctp_backlog>>
    BY <1>0, <1>7, EnvironmentFrame DEF vars
  <2>2. QED
    BY <1>2, <2>1
<1>8. QED
  BY <1>3, <1>4, <1>5, <1>6, <1>7 DEF Next

\* Every worker comes to the connection accepted last, in whatever order it
\* reads (run, worker::msg_handler).
THEOREM LatestReached == Spec => []HoldsLatestConnection
<1>1. Init => BacklogInv /\ NewestInv
  BY DEF Init, BacklogInv, NewestInv, Taken
<1>2. Inv /\ BacklogInv /\ NewestInv => HoldsLatestConnection
  <2> SUFFICES ASSUME Inv, BacklogInv, NewestInv, NEW w \in Workers,
                      Alive(w), Alive(Master), Accepted # <<>>,
                      FirstFd(m2w[w]) = 0
               PROVE  endpoint[w] = Last(Accepted)
    BY DEF HoldsLatestConnection
  <2>1. TypeOK /\ sctp_endpoints \in Seq(Conns) /\ m2w[w] \in Seq(Message)
    BY DEF Inv, TypeOK
  <2>2. PICK n \in Nat : n = Taken /\ n <= Len(sctp_endpoints)
    BY <2>1, TakenType
  <2>3. Accepted = SubSeq(sctp_endpoints, 1, n)
    BY <2>2 DEF Accepted, Taken
  <2>4. n > 0
    <3>1. n = 0 => SubSeq(sctp_endpoints, 1, n) = <<>>
      BY <2>1
    <3>2. QED
      BY <2>2, <2>3, <3>1
  <2>5. Last(Accepted) = sctp_endpoints[n]
    <3>1. Len(sctp_endpoints) \in Nat
      BY <2>1, LenProperties
    <3>2. \A k \in 1 .. n : sctp_endpoints[k] \in Conns
      BY <2>1, <2>2, <3>1, ElementOfSeq
    <3>3. /\ Len(Accepted) = n
          /\ \A k \in 1 .. n - 1 + 1 : Accepted[k] = sctp_endpoints[1 + k - 1]
      BY <2>3, <2>4, <3>2, SubSeqProperties
    <3>4. n \in 1 .. n - 1 + 1 /\ 1 + n - 1 = n
      BY <2>4
    <3>5. Accepted[n] = sctp_endpoints[n]
      BY <3>3, <3>4
    <3>6. QED
      BY <3>3, <3>5 DEF Last
  <2>6. Newest(m2w[w], endpoint[w], sctp_endpoints[n])
    BY <2>2, <2>4 DEF NewestInv
  <2>7. \A k \in 1 .. Len(m2w[w]) : ~IsFd(m2w[w][k])
    BY <2>1, ReadTakes
  <2>8. endpoint[w] = sctp_endpoints[n]
    BY <2>6, <2>7 DEF Newest, IsFd, FdMsg
  <2>9. QED
    BY <2>5, <2>8
<1>3. QED
  BY <1>1, <1>2, NewestStep, InvHolds, PTL DEF Spec
=============================================================================
