------------------------- MODULE SimplePirate_proofs ------------------------
(***************************************************************************)
(* The Simple Pirate, for any number of workers, clients and crashes: its  *)
(* queue knows which workers wait, replies match requests, and only a      *)
(* death of a process costs a try.                                         *)
(***************************************************************************)
EXTENDS SimplePirate, LazyPirate_proofs

-----------------------------------------------------------------------------
(* The inductive invariant.  The frames under way and the queue are        *)
(* parameters, so that an iteration can be followed message by message.    *)

\* A request between queue and worker, as the worker's REQ socket has it.
Wrapped(x, n) == <<Empty>> \o Enveloped(x, n)
Greeting      == <<Empty, READY>>

\* What the clients have asked for: on a socket it has now only the latest call.
Made ==
    {r \in ClientIds \X (1 .. MaxCalls) :
        LET c == r[1].of
        IN /\ r[1].n \in 1 .. session[c]
           /\ r[2] <= sequence[c]
           /\ r[1].n = session[c] => r[2] = sequence[c]}
Done == {r \in Made : <<r[1].of, r[2]>> \in executed}

Working(id) == id = Id(id.of) /\ wstate[id.of] = "working"

Types ==
    /\ qstate \in {"running", "down", "aborted"}
    /\ session \in [Peers -> Nat]
    /\ \A w \in Workers : session[w] <= MaxWorkerSockets
    /\ \A c \in Clients : session[c] \in 1 .. MaxClientSockets + crashes
    /\ connected \subseteq {Id(p) : p \in Peers}
    /\ cstate \in [Clients -> {"ready", "waiting", "abandoned"}]
    /\ sequence \in [Clients -> 0 .. MaxCalls]
    /\ retries_left \in [Clients -> 0 .. Retries]
    /\ wstate \in [Workers -> {"off", "polling", "working"}]
    /\ executed \subseteq Clients \X Nat
    /\ crashes \in 0 .. MaxCrashes
    /\ lost \in [Clients -> Nat]
    /\ orphans \subseteq WorkerIds

\* No queue of frames holds more than one message.  It is a READY or a reply of
\* a worker, a request for one, a request of socket x of a client or its reply.
Offer(q, done) == \/ q \in {<<>>, <<Greeting>>}
                  \/ \E r \in done : q = <<Wrapped(r[1], r[2])>>
Task(q, made) == q = <<>> \/ \E r \in made : q = <<Wrapped(r[1], r[2])>>
Call(x, q, made) ==
    q = <<>> \/ \E r \in made : x = r[1] /\ q = <<Request(r[2])>>
Answer(x, q, done) ==
    q = <<>> \/ \E r \in done : x = r[1] /\ q = <<Request(r[2])>>

Forms(to, from) ==
    /\ DOMAIN to = Ids /\ DOMAIN from = Ids
    /\ to = [id \in Ids |-> to[id]] /\ from = [id \in Ids |-> from[id]]
    /\ \A id \in WorkerIds : Offer(to[id], Done) /\ Task(from[id], Made)
    /\ \A x \in ClientIds : Call(x, to[x], Made) /\ Answer(x, from[x], Done)
    /\ \A id \in Ids : from[id] # <<>> => id \in connected

\* The requests in the hands of the workers.
Hands ==
    /\ DOMAIN request = Workers /\ request = [w \in Workers |-> request[w]]
    /\ \A w \in Workers :
        IF wstate[w] = "working"
        THEN \E r \in Made : request[w] = Enveloped(r[1], r[2])
        ELSE request[w] = <<>>

\* In a session a worker is in one place at most: its READY or its reply is on
\* its way, the queue lists it, a request is on its way, or it is busy.
WorkersInv(to, from, listed) ==
    /\ listed \in Seq(WorkerIds)
    /\ \A i, j \in DOMAIN listed : listed[i] = listed[j] => i = j
    /\ \A id \in WorkerIds :
           /\ id \in Members(listed) =>
                  to[id] = <<>> /\ from[id] = <<>> /\ ~Working(id)
           /\ to[id] # <<>> => from[id] = <<>> /\ ~Working(id)
           /\ from[id] # <<>> => ~Working(id)
           /\ id.n > session[id.of] => id \notin Members(listed) /\ to[id] = <<>>
    /\ \A w \in Workers :
           /\ wstate[w] = "off" <=> Id(w) \notin connected
           /\ wstate[w] = "polling" /\ to[Id(w)] = <<>> /\ from[Id(w)] = <<>>
                  => Id(w) \in Members(listed) \union orphans

\* The queue q of a worker has a request of socket x, or worker w has it in hand.
Carries(q, x) == \E n \in 1 .. MaxCalls : q = <<Wrapped(x, n)>>
Holds(w, x)   == \E n \in 1 .. MaxCalls : request[w] = Enveloped(x, n)

\* There is a request of socket x at place p.
At(to, from, p, x) ==
    \/ p = <<"called", x>> /\ to[x] # <<>>
    \/ \E id \in WorkerIds : p = <<"sent", id>> /\ Carries(from[id], x)
    \/ \E w \in Workers : p = <<"held", w>> /\ Holds(w, x)
    \/ \E id \in WorkerIds : p = <<"replied", id>> /\ Carries(to[id], x)
    \/ p = <<"answered", x>> /\ from[x] # <<>>
Nowhere(to, from, x) == \A p : ~At(to, from, p, x)

ClientsInv(to, from) ==
    /\ \A x \in ClientIds : \A p, q :
           At(to, from, p, x) /\ At(to, from, q, x) => p = q
    /\ \A c \in Clients :
           /\ cstate[c] = "abandoned" <=> Id(c) \notin connected
           /\ cstate[c] = "ready" => Nowhere(to, from, Id(c))
           /\ cstate[c] = "waiting" => sequence[c] > 0
           /\ cstate[c] # "abandoned" => retries_left[c] > 0

\* Workers that are gone and whose entry the queue has, or will have.
Gone(to, listed) ==
    {id \in WorkerIds \ connected : id \in Members(listed) \/ to[id] # <<>>}

\* Each crash is paid for by a worker of that kind, a try that is lost, or one
\* that has been given up as lost.
Missing(to, from, c) ==
    IF cstate[c] = "waiting" /\ Nowhere(to, from, Id(c)) THEN 1 ELSE 0
CrashesInv(to, from, listed) ==
    /\ Cardinality(Gone(to, listed)) <= crashes
    /\ \A c \in Clients :
           lost[c] + Missing(to, from, c) + Cardinality(Gone(to, listed)) <= crashes

FlowInv(to, from, listed) ==
    /\ Forms(to, from)
    /\ WorkersInv(to, from, listed)
    /\ ClientsInv(to, from)
    /\ CrashesInv(to, from, listed)

IInv ==
    /\ Types /\ Hands
    /\ FlowInv(toQueue, fromQueue, worker_queue)
    /\ OverflowExplained

-----------------------------------------------------------------------------
(* Messages.                                                               *)

\* The messages of the protocol, frame by frame.
LEMMA Shapes ==
    ASSUME NEW x, NEW n
    PROVE  /\ Request(n) = <<Empty, Number(n)>>
           /\ Enveloped(x, n) = <<x, Empty, Number(n)>>
           /\ Wrapped(x, n) = <<Empty, x, Empty, Number(n)>>
           /\ Tail(Enveloped(x, n)) = Request(n)
<1>1. Request(n) = <<Empty, Number(n)>>
  BY DEF Request
<1>2. Enveloped(x, n) = <<x, Empty, Number(n)>>
  BY <1>1, Frames3 DEF Enveloped
<1>3. Wrapped(x, n) = <<Empty, x, Empty, Number(n)>>
  BY <1>2, Frames4 DEF Wrapped
<1>4. Tail(Enveloped(x, n)) = Request(n)
  BY <1>1, <1>2, Frames3
<1>5. QED
  BY <1>1, <1>2, <1>3, <1>4

\* The other frames of a message are texts.
LEMMA PlainParts ==
    /\ Plain(Empty) /\ Plain(READY) /\ \A n : Plain(Number(n))
    /\ StartsWithNul(Empty) /\ CStr(Empty) = Empty
  BY DEF Plain, Empty, Number, READY, Text, encode_uuid, decode_uuid,
         StartsWithNul, CStr

\* A message tells its client, its call and whether it is the READY of a worker.
LEMMA Distinct ==
    ASSUME NEW x, NEW n, NEW y, NEW m
    PROVE  /\ Request(n) = Request(m) => n = m
           /\ Enveloped(x, n) = Enveloped(y, m) => x = y /\ n = m
           /\ Wrapped(x, n) = Wrapped(y, m) => x = y /\ n = m
           /\ Wrapped(x, n) # Greeting
           /\ Enveloped(x, n) # <<>>
<1>1. Number(n) = Number(m) => n = m
  BY DEF Number, Text
<1>2. /\ Request(n) = <<Empty, Number(n)>> /\ Request(m) = <<Empty, Number(m)>>
      /\ Enveloped(x, n) = <<x, Empty, Number(n)>>
      /\ Enveloped(y, m) = <<y, Empty, Number(m)>>
      /\ Wrapped(x, n) = <<Empty, x, Empty, Number(n)>>
      /\ Wrapped(y, m) = <<Empty, y, Empty, Number(m)>>
  BY Shapes
<1>3. QED
  BY <1>1, <1>2 DEF Greeting

\* What spqueue makes of a request: wrapped for the worker at the head.
LEMMA FrontendSends ==
    ASSUME NEW i \in WorkerIds, NEW x \in ClientIds, NEW n,
           toQueue[x] = <<Request(n)>>
    PROVE  /\ Head(send(wrap(FromPeer(x), i))) = i
           /\ Tail(send(wrap(FromPeer(x), i))) = Wrapped(x, n)
<1>1. Plain(i) /\ Plain(x) /\ CStr(i) = i
  BY Identities DEF Ids
<1>2. FromPeer(x) = <<x, Empty, Number(n)>>
  <2>1. Head(toQueue[x]) = <<Empty, Number(n)>>
    BY Shapes, Frames1
  <2>2. <<x>> \o <<Empty, Number(n)>> = <<x, Empty, Number(n)>>
    BY Frames3
  <2>3. recv(<<x, Empty, Number(n)>>) = <<x, Empty, Number(n)>>
    BY <1>1, PlainParts, Plain3
  <2>4. QED
    BY <2>1, <2>2, <2>3 DEF FromPeer
<1>3. wrap(FromPeer(x), i) = <<i, Empty, x, Empty, Number(n)>>
  <2>1. push_front(<<x, Empty, Number(n)>>, Empty) = <<Empty, x, Empty, Number(n)>>
    BY PlainParts, Frames4 DEF push_front
  <2>2. push_front(<<Empty, x, Empty, Number(n)>>, i) = <<i, Empty, x, Empty, Number(n)>>
    BY <1>1, Frames5 DEF push_front
  <2>3. QED
    BY <1>2, <2>1, <2>2 DEF wrap
<1>4. send(wrap(FromPeer(x), i)) = <<i, Empty, x, Empty, Number(n)>>
  BY <1>1, <1>3, PlainParts, Plain5
<1>5. /\ Head(<<i, Empty, x, Empty, Number(n)>>) = i
      /\ Tail(<<i, Empty, x, Empty, Number(n)>>) = Wrapped(x, n)
  BY Shapes, Frames5
<1>6. QED
  BY <1>4, <1>5

\* What spqueue makes of a READY and of a reply.
LEMMA BackendReads ==
    ASSUME NEW b \in WorkerIds
    PROVE  /\ toQueue[b] = <<Greeting>> => unwrap(FromPeer(b)) = <<READY>>
           /\ \A x \in ClientIds : \A n : toQueue[b] = <<Wrapped(x, n)>> =>
                  unwrap(FromPeer(b)) = Enveloped(x, n)
<1>1. Plain(b)
  BY Identities DEF Ids
<1>2. ASSUME toQueue[b] = <<Greeting>> PROVE unwrap(FromPeer(b)) = <<READY>>
  <2>1. Head(toQueue[b]) = <<Empty, READY>>
    BY <1>2, Frames1 DEF Greeting
  <2>2. <<b>> \o <<Empty, READY>> = <<b, Empty, READY>>
    BY Frames3
  <2>3. FromPeer(b) = <<b, Empty, READY>>
    <3>1. recv(<<b, Empty, READY>>) = <<b, Empty, READY>>
      BY <1>1, PlainParts, Plain3
    <3>2. QED
      BY <2>1, <2>2, <3>1 DEF FromPeer
  <2>4. /\ Tail(FromPeer(b)) = <<Empty, READY>> /\ <<Empty, READY>> # <<>>
        /\ Head(<<Empty, READY>>) = Empty /\ Tail(<<Empty, READY>>) = <<READY>>
    BY <2>3, Frames3, Frames2
  <2>5. QED
    BY <2>4, PlainParts, Shapes DEF unwrap, address
<1>3. ASSUME NEW x \in ClientIds, NEW n, toQueue[b] = <<Wrapped(x, n)>>
      PROVE  unwrap(FromPeer(b)) = Enveloped(x, n)
  <2>1. Head(toQueue[b]) = <<Empty, x, Empty, Number(n)>> /\ Plain(x)
    BY <1>3, Frames1, Shapes, Identities DEF Ids
  <2>2. <<b>> \o <<Empty, x, Empty, Number(n)>> = <<b, Empty, x, Empty, Number(n)>>
    BY Frames5
  <2>3. FromPeer(b) = <<b, Empty, x, Empty, Number(n)>>
    <3>1. recv(<<b, Empty, x, Empty, Number(n)>>) = <<b, Empty, x, Empty, Number(n)>>
      BY <1>1, <2>1, PlainParts, Plain5
    <3>2. QED
      BY <2>1, <2>2, <3>1 DEF FromPeer
  <2>4. /\ Tail(FromPeer(b)) = <<Empty, x, Empty, Number(n)>>
        /\ <<Empty, x, Empty, Number(n)>> # <<>>
        /\ Head(<<Empty, x, Empty, Number(n)>>) = Empty
        /\ Tail(<<Empty, x, Empty, Number(n)>>) = <<x, Empty, Number(n)>>
    BY <2>3, Frames5, Frames4
  <2>5. QED
    BY <2>4, PlainParts, Shapes DEF unwrap, address
<1>4. QED
  BY <1>2, <1>3

\* What the queue reads of a reply, and to whom its send passes it.
LEMMA ReplySends ==
    ASSUME NEW x \in ClientIds, x.n # 0, NEW n
    PROVE  /\ address(<<READY>>) = READY
           /\ address(Enveloped(x, n)) = x /\ x # READY
           /\ Head(send(Enveloped(x, n))) = x
           /\ Tail(send(Enveloped(x, n))) = Request(n)
<1> Enveloped(x, n) = <<x, Empty, Number(n)>> /\ Tail(Enveloped(x, n)) = Request(n)
  BY Shapes
<1>1. send(Enveloped(x, n)) = Enveloped(x, n)
  <2>1. Plain(x) /\ Plain(Empty) /\ Plain(Number(n))
    BY PlainParts, Identities DEF Ids
  <2>2. QED
    BY <2>1, Plain3, Zenon
<1>2. Head(Enveloped(x, n)) = x
  <2>1. Head(<<x, Empty, Number(n)>>) = x
    BY Frames3
  <2>2. QED
    BY <2>1
<1>3. x # READY
  BY DEF READY, Text
<1>4. QED
  BY <1>1, <1>2, <1>3, Frames1 DEF address

\* What a worker takes for a request, and how it replies.
LEMMA WorkerHandles ==
    ASSUME NEW x \in ClientIds, NEW n
    PROVE  /\ recv(Tail(Wrapped(x, n))) = Enveloped(x, n)
           /\ <<Empty>> \o send(Enveloped(x, n)) = Wrapped(x, n)
           /\ Enveloped(x, n)[1] = x /\ Enveloped(x, n)[3].n = n
<1> /\ Enveloped(x, n) = <<x, Empty, Number(n)>>
    /\ Wrapped(x, n) = <<Empty, x, Empty, Number(n)>>
  BY Shapes
<1>1. Tail(Wrapped(x, n)) = Enveloped(x, n)
  <2>1. Tail(<<Empty, x, Empty, Number(n)>>) = <<x, Empty, Number(n)>>
    BY Frames4
  <2>2. QED
    BY <2>1
<1>2. /\ recv(Enveloped(x, n)) = Enveloped(x, n)
      /\ send(Enveloped(x, n)) = Enveloped(x, n)
  <2>1. Plain(x) /\ Plain(Empty) /\ Plain(Number(n))
    BY PlainParts, Identities DEF Ids
  <2>2. QED
    BY <2>1, Plain3, Zenon
<1>3. Enveloped(x, n)[1] = x /\ Enveloped(x, n)[3].n = n
  BY DEF Number, Text
<1>4. QED
  BY <1>1, <1>2, <1>3 DEF Wrapped

-----------------------------------------------------------------------------
(* Queues.                                                                 *)

\* A queue of one message.
LEMMA OneMessage ==
    ASSUME NEW m
    PROVE  /\ <<m>> # <<>> /\ Len(<<m>>) = 1 /\ Len(<<>>) = 0
           /\ Head(<<m>>) = m /\ Tail(<<m>>) = <<>>
           /\ Append(<<>>, m) = <<m>>
           /\ \A k : <<m>> = <<k>> => m = k
  OBVIOUS

\* What is left of a queue of one message when a process is killed.
LEMMA CutMessage ==
    ASSUME NEW m, NEW k \in {0, 1}
    PROVE  SubSeq(<<m>>, 1, k) = IF k = 1 THEN <<m>> ELSE <<>>
<1>1. <<m>> \in Seq({m}) /\ Len(<<m>>) = 1
  OBVIOUS
<1>2. SubSeq(<<m>>, 1, 1) = <<m>>
  BY <1>1, SubSeqFull
<1>3. SubSeq(<<m>>, 1, 0) = <<>>
  BY SubSeqEmpty
<1>4. QED
  BY <1>2, <1>3

\* Of an empty queue nothing is left.
LEMMA CutNothing == SubSeq(<<>>, 1, 0) = <<>>
  BY SubSeqEmpty

\* A message carries the request of one socket, a READY that of none.
LEMMA CarriesOne ==
    /\ \A x : ~Carries(<<>>, x) /\ ~Carries(<<Greeting>>, x)
    /\ \A x, y, n : Carries(<<Wrapped(y, n)>>, x) => x = y
    /\ \A x : \A n \in 1 .. MaxCalls : Carries(<<Wrapped(x, n)>>, x)
<1>1. ASSUME NEW x PROVE ~Carries(<<>>, x)
  BY OneMessage DEF Carries
<1>2. ASSUME NEW x PROVE ~Carries(<<Greeting>>, x)
  <2>1. SUFFICES ASSUME NEW n, <<Greeting>> = <<Wrapped(x, n)>> PROVE FALSE
    BY DEF Carries
  <2>2. QED
    BY <2>1, OneMessage, Distinct
<1>3. ASSUME NEW x, NEW y, NEW n, Carries(<<Wrapped(y, n)>>, x) PROVE x = y
  <2>1. PICK m : <<Wrapped(y, n)>> = <<Wrapped(x, m)>>
    BY <1>3 DEF Carries
  <2>2. Wrapped(y, n) = Wrapped(x, m)
    BY <2>1, OneMessage
  <2>3. QED
    BY <2>2, Distinct
<1>4. ASSUME NEW x, NEW n \in 1 .. MaxCalls PROVE Carries(<<Wrapped(x, n)>>, x)
  BY DEF Carries
<1>5. QED
  BY <1>1, <1>2, <1>3, <1>4

-----------------------------------------------------------------------------
(* Counting workers that are gone.                                         *)

\* Workers open finitely many sockets, so a count of them is a number.
LEMMA WorkerIdsFinite == IsFiniteSet(WorkerIds)
<1>1. IsFiniteSet(Workers) /\ IsFiniteSet(0 .. MaxWorkerSockets)
  BY PirateAssumption, FS_Interval
<1>2. IsFiniteSet(Workers \X (0 .. MaxWorkerSockets))
  BY <1>1, FS_Product
<1>3. PICK f : f = [id \in WorkerIds |-> <<id.of, id.n>>]
  OBVIOUS
<1>4. f \in [WorkerIds -> Workers \X (0 .. MaxWorkerSockets)]
  BY <1>3, Identities
<1>5. \A i, j \in WorkerIds : f[i] = f[j] => i = j
  <2>1. SUFFICES ASSUME NEW i \in WorkerIds, NEW j \in WorkerIds, f[i] = f[j]
                 PROVE  i = j
    OBVIOUS
  <2>2. i.of = j.of /\ i.n = j.n
    BY <1>3, <2>1
  <2>3. i = Identity(i.of, i.n) /\ j = Identity(j.of, j.n)
    BY Identities DEF Ids
  <2>4. QED
    BY <2>2, <2>3
<1>6. f \in Injection(WorkerIds, Workers \X (0 .. MaxWorkerSockets))
  BY <1>4, <1>5 DEF Injection, IsInjective
<1>7. QED
  BY <1>2, <1>6, FS_Injection

\* Cardinalities of sets of worker sockets.
LEMMA Counting ==
    ASSUME NEW A \in SUBSET WorkerIds, NEW B \in SUBSET WorkerIds
    PROVE  /\ Cardinality(A) \in Nat /\ Cardinality(B) \in Nat
           /\ A \subseteq B => Cardinality(A) <= Cardinality(B)
           /\ \A e : e \in B /\ A \subseteq B \ {e}
                         => Cardinality(A) + 1 <= Cardinality(B)
           /\ \A e : A \subseteq B \union {e}
                         => Cardinality(A) <= Cardinality(B) + 1
<1>1. IsFiniteSet(A) /\ IsFiniteSet(B)
  BY WorkerIdsFinite, FS_Subset
<1>2. Cardinality(A) \in Nat /\ Cardinality(B) \in Nat
  BY <1>1, FS_CardinalityType
<1>3. A \subseteq B => Cardinality(A) <= Cardinality(B)
  BY <1>1, FS_Subset
<1>4. ASSUME NEW e, e \in B, A \subseteq B \ {e}
      PROVE  Cardinality(A) + 1 <= Cardinality(B)
  <2>1. IsFiniteSet(B \ {e}) /\ Cardinality(B \ {e}) = Cardinality(B) - 1
    BY <1>1, <1>4, FS_RemoveElement
  <2>2. Cardinality(A) <= Cardinality(B \ {e})
    BY <1>4, <2>1, FS_Subset
  <2>3. QED
    BY <1>2, <2>1, <2>2
<1>5. ASSUME NEW e, A \subseteq B \union {e}
      PROVE  Cardinality(A) <= Cardinality(B) + 1
  <2>1. /\ IsFiniteSet(B \union {e})
        /\ Cardinality(B \union {e}) \in {Cardinality(B), Cardinality(B) + 1}
    BY <1>1, FS_AddElement
  <2>2. Cardinality(A) <= Cardinality(B \union {e})
    BY <1>5, <2>1, FS_Subset
  <2>3. QED
    BY <1>2, <2>1, <2>2
<1>6. QED
  BY <1>2, <1>3, <1>4, <1>5

-----------------------------------------------------------------------------
(* What the invariant says of single queues and peers.                     *)

\* The socket a peer has is one of the identities.
LEMMA OwnIdentity ==
    ASSUME Types
    PROVE  /\ \A w \in Workers : Id(w) \in WorkerIds /\ Id(w) \in Ids
           /\ \A c \in Clients : Id(c) \in ClientIds /\ Id(c) \in Ids
           /\ \A p \in Peers : Id(p).of = p /\ Id(p).n = session[p]
<1>1. \A w \in Workers : session[w] \in 0 .. MaxWorkerSockets
  BY PirateAssumption DEF Types, Peers
<1>2. \A c \in Clients : session[c] \in 0 .. MaxClientSockets + MaxCrashes
  BY PirateAssumption DEF Types
<1>3. QED
  BY <1>1, <1>2, Identities DEF Id, Ids, Peers

\* Requests are made on sockets of clients.
LEMMA MadeType ==
    ASSUME NEW r \in Made
    PROVE  /\ r[1] \in ClientIds /\ r[2] \in 1 .. MaxCalls /\ r[1] \in Ids
           /\ r = <<r[1], r[2]>> /\ r[1] \notin WorkerIds
  BY Identities DEF Made, Ids

-----------------------------------------------------------------------------
(* An iteration of the queue.                                              *)

\* The message of id is taken.
Taken(id, to, to2) ==
    /\ DOMAIN to2 = Ids /\ to2 = [x \in Ids |-> to2[x]]
    /\ to2[id] = <<>>
    /\ \A x \in Ids : x # id => to2[x] = to[x]

\* What becomes of the frames to the peers with a message of worker b: a reply
\* is added for a client that is there.
Passed(b, to, from, from2) ==
    /\ DOMAIN from2 = Ids /\ from2 = [id \in Ids |-> from2[id]]
    /\ \A id \in WorkerIds : from2[id] = from[id]
    /\ \A x \in ClientIds :
           \/ from2[x] = from[x]
           \/ /\ from2[x] # <<>> /\ Answer(x, from2[x], Done)
              /\ x \in connected /\ Carries(to[b], x)
    /\ \A x \in ClientIds :
           Carries(to[b], x) /\ x \in connected => from2[x] # <<>>

\* A READY or a reply of worker b.
LEMMA BackendKeeps ==
    ASSUME Types, NEW to, NEW from, NEW listed, FlowInv(to, from, listed),
           NEW b \in WorkerIds, to[b] # <<>>,
           NEW to2, Taken(b, to, to2), NEW from2, Passed(b, to, from, from2)
    PROVE  FlowInv(to2, from2, Append(listed, b))
<1>1. Forms(to, from) /\ WorkersInv(to, from, listed) /\ ClientsInv(to, from)
      /\ CrashesInv(to, from, listed)
  BY DEF FlowInv
<1>2. /\ b \in Ids /\ b \notin ClientIds /\ to2[b] = <<>>
      /\ DOMAIN to2 = Ids /\ to2 = [id \in Ids |-> to2[id]]
      /\ \A id \in WorkerIds : id # b => to2[id] = to[id]
      /\ \A x \in ClientIds : to2[x] = to[x]
  BY Identities DEF Taken, Ids
<1>3. /\ DOMAIN from2 = Ids /\ from2 = [id \in Ids |-> from2[id]]
      /\ \A id \in WorkerIds : from2[id] = from[id]
      /\ \A x \in ClientIds :
             \/ from2[x] = from[x]
             \/ /\ from2[x] # <<>> /\ Answer(x, from2[x], Done)
                /\ x \in connected /\ Carries(to[b], x)
      /\ \A x \in ClientIds :
             Carries(to[b], x) /\ x \in connected => from2[x] # <<>>
  BY DEF Passed
<1>0. PICK listed2 : listed2 = Append(listed, b)
  OBVIOUS
<1>4. Forms(to2, from2)
  <2>1. \A id \in WorkerIds : Offer(to2[id], Done) /\ Task(from2[id], Made)
    <3>1. \A id \in WorkerIds : Offer(to[id], Done) /\ Task(from[id], Made)
      BY <1>1 DEF Forms
    <3>2. \A id \in WorkerIds : to2[id] = to[id] \/ to2[id] = <<>>
      BY <1>2
    <3>3. QED
      BY <1>3, <3>1, <3>2 DEF Offer
  <2>2. \A x \in ClientIds : Call(x, to2[x], Made) /\ Answer(x, from2[x], Done)
    BY <1>1, <1>2, <1>3 DEF Forms
  <2>3. \A id \in Ids : from2[id] # <<>> => id \in connected
    BY <1>1, <1>3 DEF Forms, Ids
  <2>4. QED
    BY <1>2, <1>3, <2>1, <2>2, <2>3 DEF Forms
<1>5. WorkersInv(to2, from2, listed2)
  <2>1. b \notin Members(listed)
    BY <1>1 DEF WorkersInv
  <2>2. /\ listed2 \in Seq(WorkerIds)
        /\ Members(listed2) = Members(listed) \union {b}
        /\ \A i, j \in DOMAIN listed2 : listed2[i] = listed2[j] => i = j
    BY <1>0, <1>1, <2>1, AppendMembers DEF WorkersInv
  <2>3. ASSUME NEW id \in WorkerIds
        PROVE  /\ id \in Members(listed2) =>
                      to2[id] = <<>> /\ from2[id] = <<>> /\ ~Working(id)
               /\ to2[id] # <<>> => from2[id] = <<>> /\ ~Working(id)
               /\ from2[id] # <<>> => ~Working(id)
               /\ id.n > session[id.of] => id \notin Members(listed2) /\ to2[id] = <<>>
    BY <1>1, <1>2, <1>3, <2>2 DEF WorkersInv, Ids
  <2>4. ASSUME NEW w \in Workers
        PROVE  wstate[w] = "polling" /\ to2[Id(w)] = <<>> /\ from2[Id(w)] = <<>>
                  => Id(w) \in Members(listed2) \union orphans
    <3>1. Id(w) \in WorkerIds
      BY OwnIdentity
    <3>2. QED
      BY <1>1, <1>2, <1>3, <2>2, <3>1 DEF WorkersInv, Ids
  <2>5. QED
    BY <1>1, <2>2, <2>3, <2>4 DEF WorkersInv
<1>6. ASSUME NEW x \in ClientIds, NEW p, At(to2, from2, p, x)
      PROVE  \/ At(to, from, p, x) /\ p # <<"replied", b>>
             \/ At(to, from, <<"replied", b>>, x) /\ p = <<"answered", x>>
  <2>1. CASE p = <<"called", x>> /\ to2[x] # <<>>
    BY <1>2, <2>1 DEF At, Ids
  <2>2. CASE \E id \in WorkerIds : p = <<"sent", id>> /\ Carries(from2[id], x)
    BY <1>3, <2>2 DEF At
  <2>3. CASE \E w \in Workers : p = <<"held", w>> /\ Holds(w, x)
    BY <2>3 DEF At
  <2>4. CASE \E id \in WorkerIds : p = <<"replied", id>> /\ Carries(to2[id], x)
    BY <1>2, <2>4, CarriesOne DEF At, Ids
  <2>5. CASE p = <<"answered", x>> /\ from2[x] # <<>>
    <3>1. CASE from2[x] = from[x]
      BY <2>5, <3>1 DEF At
    <3>2. CASE Carries(to[b], x)
      BY <2>5, <3>2 DEF At
    <3>3. QED
      BY <1>3, <3>1, <3>2
  <2>6. QED
    BY <1>6, <2>1, <2>2, <2>3, <2>4, <2>5 DEF At
<1>7. ASSUME NEW x \in ClientIds
      PROVE  /\ \A p, q : At(to2, from2, p, x) /\ At(to2, from2, q, x) => p = q
             /\ Nowhere(to, from, x) => Nowhere(to2, from2, x)
  <2>1. \A p, q : At(to, from, p, x) /\ At(to, from, q, x) => p = q
    BY <1>1 DEF ClientsInv
  <2>2. \A p : At(to2, from2, p, x) =>
            \/ At(to, from, p, x) /\ p # <<"replied", b>>
            \/ At(to, from, <<"replied", b>>, x) /\ p = <<"answered", x>>
    BY <1>6
  <2>3. PICK src, dst : src = <<"replied", b>> /\ dst = <<"answered", x>>
    OBVIOUS
  <2>4. \A p : At(to2, from2, p, x) =>
            \/ At(to, from, p, x) /\ p # src
            \/ At(to, from, src, x) /\ p = dst
    BY <2>2, <2>3
  <2>5. QED
    BY <2>1, <2>4 DEF Nowhere
<1>8. \A c \in Clients : Id(c) \in ClientIds
  BY OwnIdentity
<1>9. ClientsInv(to2, from2)
  BY <1>1, <1>7, <1>8 DEF ClientsInv
<1>10. ASSUME NEW c \in Clients, cstate[c] = "waiting", Nowhere(to2, from2, Id(c))
       PROVE  Nowhere(to, from, Id(c))
  <2>1. SUFFICES ASSUME NEW p, At(to, from, p, Id(c)) PROVE FALSE
    BY DEF Nowhere
  <2>2. ~At(to2, from2, p, Id(c)) /\ ~At(to2, from2, <<"answered", Id(c)>>, Id(c))
    BY <1>10 DEF Nowhere
  <2>3. Id(c) \in connected /\ Id(c) \in ClientIds
    BY <1>1, <1>8, <1>10 DEF ClientsInv
  <2>4. from2[Id(c)] = <<>> /\ from[Id(c)] = <<>>
    <3>1. from2[Id(c)] = <<>>
      BY <2>2 DEF At
    <3>2. QED
      BY <1>3, <2>3, <3>1
  <2>5. ~Carries(to[b], Id(c))
    BY <1>3, <2>3, <2>4
  <2>6. QED
    BY <1>2, <1>3, <2>1, <2>2, <2>3, <2>4, <2>5 DEF At, Ids
<1>11. CrashesInv(to2, from2, listed2)
  <2>1. Gone(to2, listed2) \subseteq Gone(to, listed)
    <3>1. Members(listed2) = Members(listed) \union {b}
      BY <1>0, <1>1, AppendMembers DEF WorkersInv
    <3>2. QED
      BY <1>2, <3>1 DEF Gone, Ids
  <2>2. /\ Cardinality(Gone(to2, listed2)) <= Cardinality(Gone(to, listed))
        /\ Cardinality(Gone(to2, listed2)) \in Nat
        /\ Cardinality(Gone(to, listed)) \in Nat
    BY <2>1, Counting DEF Gone
  <2>3. ASSUME NEW c \in Clients
        PROVE  /\ Missing(to2, from2, c) <= Missing(to, from, c)
               /\ Missing(to2, from2, c) \in Nat /\ Missing(to, from, c) \in Nat
    <3>1. /\ Missing(to2, from2, c) \in {0, 1} /\ Missing(to, from, c) \in {0, 1}
          /\ Missing(to2, from2, c) = 1 => Missing(to, from, c) = 1
      BY <1>10 DEF Missing
    <3>2. QED
      BY <3>1
  <2>4. /\ Cardinality(Gone(to, listed)) <= crashes
        /\ \A c \in Clients :
             lost[c] + Missing(to, from, c) + Cardinality(Gone(to, listed)) <= crashes
    BY <1>1 DEF CrashesInv
  <2>5. crashes \in Nat /\ \A c \in Clients : lost[c] \in Nat
    BY PirateAssumption DEF Types
  <2>6. ASSUME NEW c \in Clients
        PROVE  lost[c] + Missing(to2, from2, c) + Cardinality(Gone(to2, listed2)) <= crashes
    <3>1. /\ lost[c] + Missing(to, from, c) + Cardinality(Gone(to, listed)) <= crashes
          /\ Missing(to2, from2, c) <= Missing(to, from, c)
          /\ Missing(to2, from2, c) \in Nat /\ Missing(to, from, c) \in Nat
          /\ lost[c] \in Nat
      BY <2>3, <2>4, <2>5
    <3>2. QED
      BY <2>2, <2>5, <3>1
  <2>7. Cardinality(Gone(to2, listed2)) <= crashes
    BY <2>2, <2>4, <2>5
  <2>8. QED
    BY <2>6, <2>7 DEF CrashesInv
<1>12. QED
  BY <1>0, <1>4, <1>5, <1>9, <1>11 DEF FlowInv

\* The request taken from f goes to worker i, if that is there.
Handed(f, i, from, from2) ==
    /\ DOMAIN from2 = Ids /\ from2 = [id \in Ids |-> from2[id]]
    /\ \A id \in Ids : id # i \/ i \notin connected => from2[id] = from[id]
    /\ i \in connected =>
           /\ from2[i] # <<>> /\ Task(from2[i], Made) /\ Carries(from2[i], f)
           /\ \A x : Carries(from2[i], x) => x = f

\* A request of client f, for the worker at the head.
LEMMA FrontendKeeps ==
    ASSUME Types, NEW to, NEW from, NEW listed, FlowInv(to, from, listed),
           NEW f \in ClientIds, to[f] # <<>>, listed # <<>>,
           NEW to2, Taken(f, to, to2),
           NEW from2, Handed(f, Head(listed), from, from2)
    PROVE  FlowInv(to2, from2, Tail(listed))
<1>1. Forms(to, from) /\ WorkersInv(to, from, listed) /\ ClientsInv(to, from)
      /\ CrashesInv(to, from, listed)
  BY DEF FlowInv
<1>2. /\ f \in Ids /\ f \notin WorkerIds /\ to2[f] = <<>>
      /\ DOMAIN to2 = Ids /\ to2 = [id \in Ids |-> to2[id]]
      /\ \A id \in WorkerIds : to2[id] = to[id]
      /\ \A x \in ClientIds : x # f => to2[x] = to[x]
  BY Identities DEF Taken, Ids
<1>3. PICK i, listed2 : i = Head(listed) /\ listed2 = Tail(listed)
  OBVIOUS
<1>4. /\ listed2 \in Seq(WorkerIds) /\ i \in WorkerIds /\ i \in Members(listed)
      /\ Members(listed2) = Members(listed) \ {i}
      /\ \A j, k \in DOMAIN listed2 : listed2[j] = listed2[k] => j = k
  BY <1>1, <1>3, TailMembers DEF WorkersInv
<1>5. /\ i \in Ids /\ i \notin ClientIds
      /\ to[i] = <<>> /\ from[i] = <<>> /\ ~Working(i)
  BY <1>1, <1>4, Identities DEF WorkersInv, Ids
<1>6. /\ DOMAIN from2 = Ids /\ from2 = [id \in Ids |-> from2[id]]
      /\ \A id \in Ids : id # i \/ i \notin connected => from2[id] = from[id]
      /\ i \in connected =>
             /\ from2[i] # <<>> /\ Task(from2[i], Made) /\ Carries(from2[i], f)
             /\ \A x : Carries(from2[i], x) => x = f
  BY <1>3 DEF Handed
<1>7. /\ \A x \in ClientIds : from2[x] = from[x]
      /\ \A id \in WorkerIds : id # i \/ i \notin connected => from2[id] = from[id]
  BY <1>5, <1>6 DEF Ids
<1>8. Forms(to2, from2)
  <2>1. ASSUME NEW id \in WorkerIds PROVE Offer(to2[id], Done) /\ Task(from2[id], Made)
    <3>1. Offer(to[id], Done) /\ Task(from[id], Made) /\ to2[id] = to[id]
      BY <1>1, <1>2 DEF Forms
    <3>2. from2[id] = from[id] \/ (id = i /\ Task(from2[i], Made))
      BY <1>6, <1>7
    <3>3. QED
      BY <3>1, <3>2
  <2>2. ASSUME NEW x \in ClientIds PROVE Call(x, to2[x], Made) /\ Answer(x, from2[x], Done)
    <3>1. Call(x, to[x], Made) /\ Answer(x, from[x], Done) /\ from2[x] = from[x]
      BY <1>1, <1>7 DEF Forms
    <3>2. to2[x] = to[x] \/ to2[x] = <<>>
      BY <1>2
    <3>3. QED
      BY <3>1, <3>2 DEF Call
  <2>3. \A id \in Ids : from2[id] # <<>> => id \in connected
    BY <1>1, <1>6 DEF Forms
  <2>4. QED
    BY <1>2, <1>6, <2>1, <2>2, <2>3 DEF Forms
<1>9. WorkersInv(to2, from2, listed2)
  <2>1. ASSUME NEW id \in WorkerIds
        PROVE  /\ id \in Members(listed2) =>
                      to2[id] = <<>> /\ from2[id] = <<>> /\ ~Working(id)
               /\ to2[id] # <<>> => from2[id] = <<>> /\ ~Working(id)
               /\ from2[id] # <<>> => ~Working(id)
               /\ id.n > session[id.of] => id \notin Members(listed2) /\ to2[id] = <<>>
    BY <1>1, <1>2, <1>4, <1>5, <1>7 DEF WorkersInv
  <2>2. ASSUME NEW w \in Workers, wstate[w] = "polling",
               to2[Id(w)] = <<>>, from2[Id(w)] = <<>>
        PROVE  Id(w) \in Members(listed2) \union orphans
    <3>1. Id(w) \in WorkerIds /\ Id(w) \in connected
      BY <1>1, <2>2, OwnIdentity DEF WorkersInv
    <3>2. Id(w) # i
      BY <1>6, <2>2, <3>1
    <3>3. to[Id(w)] = <<>> /\ from[Id(w)] = <<>>
      BY <1>2, <1>7, <2>2, <3>1, <3>2
    <3>4. Id(w) \in Members(listed) \union orphans
      BY <1>1, <2>2, <3>3 DEF WorkersInv
    <3>5. QED
      BY <1>4, <3>2, <3>4
  <2>3. QED
    BY <1>1, <1>4, <2>1, <2>2 DEF WorkersInv
<1>10. PICK src, dst : src = <<"called", f>> /\ dst = <<"sent", i>>
  OBVIOUS
<1>11. ASSUME NEW x \in ClientIds, NEW p, At(to2, from2, p, x)
       PROVE  \/ At(to, from, p, x) /\ p # src
              \/ At(to, from, src, x) /\ p = dst
  <2>1. CASE p = <<"called", x>> /\ to2[x] # <<>>
    BY <1>2, <1>10, <2>1 DEF At
  <2>2. ASSUME NEW id \in WorkerIds, p = <<"sent", id>>, Carries(from2[id], x)
        PROVE  \/ At(to, from, p, x) /\ p # src
               \/ At(to, from, src, x) /\ p = dst
    <3>1. CASE from2[id] = from[id]
      BY <1>10, <2>2, <3>1 DEF At
    <3>2. CASE id = i /\ i \in connected
      <4>1. x = f
        BY <1>6, <2>2, <3>2
      <4>2. QED
        BY <1>10, <2>2, <3>2, <4>1 DEF At
    <3>3. QED
      BY <1>7, <3>1, <3>2
  <2>3. CASE \E w \in Workers : p = <<"held", w>> /\ Holds(w, x)
    <3>1. p # src
      BY <1>10, <2>3
    <3>2. At(to, from, p, x)
      BY <2>3 DEF At
    <3>3. QED
      BY <3>1, <3>2
  <2>4. CASE \E id \in WorkerIds : p = <<"replied", id>> /\ Carries(to2[id], x)
    <3>1. p # src
      BY <1>10, <2>4
    <3>2. At(to, from, p, x)
      BY <1>2, <2>4 DEF At
    <3>3. QED
      BY <3>1, <3>2
  <2>5. CASE p = <<"answered", x>> /\ from2[x] # <<>>
    BY <1>7, <1>10, <2>5 DEF At
  <2>6. QED
    BY <1>11, <2>1, <2>2, <2>3, <2>4, <2>5 DEF At
<1>12. ASSUME NEW x \in ClientIds
       PROVE  /\ \A p, q : At(to2, from2, p, x) /\ At(to2, from2, q, x) => p = q
              /\ Nowhere(to, from, x) => Nowhere(to2, from2, x)
  <2>1. \A p, q : At(to, from, p, x) /\ At(to, from, q, x) => p = q
    BY <1>1 DEF ClientsInv
  <2>2. QED
    BY <1>11, <2>1 DEF Nowhere
<1>13. ClientsInv(to2, from2)
  BY <1>1, <1>12, OwnIdentity DEF ClientsInv
<1>14. ASSUME NEW c \in Clients, i \in connected, Nowhere(to2, from2, Id(c))
       PROVE  Nowhere(to, from, Id(c))
  <2>1. SUFFICES ASSUME NEW p, At(to, from, p, Id(c)) PROVE FALSE
    BY DEF Nowhere
  <2>2. Id(c) \in ClientIds
    BY OwnIdentity
  <2>3. ~At(to2, from2, p, Id(c)) /\ ~At(to2, from2, <<"sent", i>>, Id(c))
    BY <1>14 DEF Nowhere
  <2>4. Id(c) # f
    BY <1>4, <1>6, <1>14, <2>3 DEF At
  <2>5. ~Carries(from[i], Id(c))
    BY <1>5, CarriesOne
  <2>6. QED
    BY <1>2, <1>7, <2>1, <2>2, <2>3, <2>4, <2>5 DEF At
<1>15. CrashesInv(to2, from2, listed2)
  <2>1. Gone(to2, listed2) \subseteq Gone(to, listed) \ {i}
    BY <1>2, <1>4, <1>5 DEF Gone
  <2>2. i \notin connected => i \in Gone(to, listed)
    BY <1>4 DEF Gone
  <2>3. Gone(to, listed) \in SUBSET WorkerIds /\ Gone(to2, listed2) \in SUBSET WorkerIds
    BY DEF Gone
  <2>4. /\ Cardinality(Gone(to2, listed2)) <= Cardinality(Gone(to, listed))
        /\ i \notin connected =>
               Cardinality(Gone(to2, listed2)) + 1 <= Cardinality(Gone(to, listed))
        /\ Cardinality(Gone(to2, listed2)) \in Nat
        /\ Cardinality(Gone(to, listed)) \in Nat
    <3>1. /\ Cardinality(Gone(to2, listed2)) \in Nat
          /\ Cardinality(Gone(to, listed)) \in Nat
      BY <2>3, Counting
    <3>2. Cardinality(Gone(to2, listed2)) <= Cardinality(Gone(to, listed))
      BY <2>1, <2>3, Counting
    <3>3. i \notin connected =>
               Cardinality(Gone(to2, listed2)) + 1 <= Cardinality(Gone(to, listed))
      BY <2>1, <2>2, <2>3, Counting
    <3>4. QED
      BY <3>1, <3>2, <3>3
  <2>5. ASSUME NEW c \in Clients
        PROVE  /\ Missing(to2, from2, c) \in {0, 1} /\ Missing(to, from, c) \in {0, 1}
               /\ i \in connected => Missing(to2, from2, c) <= Missing(to, from, c)
    BY <1>14 DEF Missing
  <2>6. /\ Cardinality(Gone(to, listed)) <= crashes
        /\ \A c \in Clients :
             lost[c] + Missing(to, from, c) + Cardinality(Gone(to, listed)) <= crashes
    BY <1>1 DEF CrashesInv
  <2>7. crashes \in Nat /\ \A c \in Clients : lost[c] \in Nat
    BY PirateAssumption DEF Types
  <2>8. ASSUME NEW c \in Clients
        PROVE  lost[c] + Missing(to2, from2, c) + Cardinality(Gone(to2, listed2)) <= crashes
    <3>1. /\ lost[c] + Missing(to, from, c) + Cardinality(Gone(to, listed)) <= crashes
          /\ Missing(to2, from2, c) \in {0, 1} /\ Missing(to, from, c) \in {0, 1}
          /\ i \in connected => Missing(to2, from2, c) <= Missing(to, from, c)
          /\ lost[c] \in Nat
      BY <2>5, <2>6, <2>7
    <3>2. QED
      BY <2>4, <2>7, <3>1
  <2>9. Cardinality(Gone(to2, listed2)) <= crashes
    BY <2>4, <2>6, <2>7
  <2>10. QED
    BY <2>8, <2>9 DEF CrashesInv
<1>16. QED
  BY <1>3, <1>8, <1>9, <1>13, <1>15 DEF FlowInv

\* What Backend makes of the first message of worker b.
LEMMA BackendPasses ==
    ASSUME Types, FlowInv(toQueue, fromQueue, worker_queue),
           NEW b \in WorkerIds, toQueue[b] # <<>>
    PROVE  /\ Backend(Now, b).queue = Append(worker_queue, b)
           /\ Passed(b, toQueue, fromQueue, Backend(Now, b).out)
           /\ \A x \in ClientIds, n \in 1 .. MaxCalls :
                  toQueue[b] = <<Wrapped(x, n)>> /\ x \in connected =>
                      Backend(Now, b).out[x] = Append(fromQueue[x], Request(n))
<1>1. Forms(toQueue, fromQueue) /\ ClientsInv(toQueue, fromQueue)
  BY DEF FlowInv
<1>2. DOMAIN fromQueue = Ids /\ fromQueue = [id \in Ids |-> fromQueue[id]]
  BY <1>1 DEF Forms
<1>3. Backend(Now, b).queue = Append(worker_queue, b)
  BY DEF Backend, Now
<1>4. PICK out : out = Backend(Now, b).out
  OBVIOUS
<1>5. out = IF address(unwrap(FromPeer(b))) = READY THEN fromQueue
            ELSE Routed(fromQueue, unwrap(FromPeer(b)))
  BY <1>4 DEF Backend, Now
<1>6. CASE toQueue[b] = <<Greeting>>
  <2>1. out = fromQueue
    <3>1. unwrap(FromPeer(b)) = <<READY>>
      BY <1>6, BackendReads
    <3>2. address(<<READY>>) = READY
      BY DEF address
    <3>3. QED
      BY <1>5, <3>1, <3>2
  <2>2. \A x, n : ~Carries(toQueue[b], x) /\ toQueue[b] # <<Wrapped(x, n)>>
    <3>1. \A x, n : <<Greeting>> # <<Wrapped(x, n)>>
      BY OneMessage, Distinct
    <3>2. QED
      BY <1>6, <3>1, CarriesOne
  <2>3. QED
    BY <1>2, <1>3, <1>4, <2>1, <2>2 DEF Passed
<1>7. ASSUME NEW r \in Done, toQueue[b] = <<Wrapped(r[1], r[2])>>
      PROVE  /\ Passed(b, toQueue, fromQueue, out)
             /\ \A x \in ClientIds, n \in 1 .. MaxCalls :
                  toQueue[b] = <<Wrapped(x, n)>> /\ x \in connected =>
                      out[x] = Append(fromQueue[x], Request(n))
  <2>1. /\ r \in Made /\ r[1] \in ClientIds /\ r[2] \in 1 .. MaxCalls
        /\ r[1] \in Ids /\ r[1] \notin WorkerIds
    BY MadeType DEF Done
  <2>2. r[1].n # 0
    BY <2>1 DEF Made
  <2>3. PICK x, n : x = r[1] /\ n = r[2]
    OBVIOUS
  <2>4. unwrap(FromPeer(b)) = Enveloped(x, n)
    BY <1>7, <2>1, <2>3, BackendReads
  <2>5. out = IF x \in connected
              THEN [fromQueue EXCEPT ![x] = Append(@, Request(n))] ELSE fromQueue
    <3>1. x \in ClientIds /\ x.n # 0
      BY <2>1, <2>2, <2>3
    <3>2. /\ address(Enveloped(x, n)) = x /\ x # READY
          /\ Head(send(Enveloped(x, n))) = x
          /\ Tail(send(Enveloped(x, n))) = Request(n)
      BY <3>1, ReplySends
    <3>3. QED
      BY <1>5, <2>4, <3>2 DEF Routed
  <2>6. \A y : Carries(toQueue[b], y) <=> y = x
    BY <1>7, <2>1, <2>3, CarriesOne
  <2>7. fromQueue[x] = <<>>
    <3>1. PICK p, q : p = <<"replied", b>> /\ q = <<"answered", x>>
      OBVIOUS
    <3>2. At(toQueue, fromQueue, p, x) /\ p # q
      BY <2>6, <3>1 DEF At
    <3>3. fromQueue[x] # <<>> => At(toQueue, fromQueue, q, x)
      BY <3>1 DEF At
    <3>4. QED
      BY <1>1, <2>1, <2>3, <3>2, <3>3 DEF ClientsInv
  <2>8. \A y, m : toQueue[b] = <<Wrapped(y, m)>> => y = x /\ m = n
    BY <1>7, <2>3, OneMessage, Distinct
  <2>9. CASE x \in connected
    <3>1. /\ DOMAIN out = Ids /\ out = [id \in Ids |-> out[id]]
          /\ out[x] = Append(fromQueue[x], Request(n))
          /\ \A id \in Ids : id # x => out[id] = fromQueue[id]
      <4>1. out = [fromQueue EXCEPT ![x] = Append(fromQueue[x], Request(n))]
        BY <2>5, <2>9
      <4>2. x \in Ids
        BY <2>1, <2>3
      <4>3. /\ out[x] = Append(fromQueue[x], Request(n))
            /\ DOMAIN out = Ids
            /\ \A id \in Ids : id # x => out[id] = fromQueue[id]
        BY <1>2, <4>1, <4>2
      <4>4. out = [id \in Ids |-> out[id]]
        BY <1>2, <4>1
      <4>5. QED
        BY <4>3, <4>4
    <3>2. out[x] = <<Request(n)>> /\ out[x] # <<>>
      <4>1. PICK m : m = Request(n)
        OBVIOUS
      <4>2. out[x] = Append(<<>>, m)
        BY <2>7, <3>1, <4>1
      <4>3. QED
        BY <4>1, <4>2, OneMessage
    <3>3. Answer(x, out[x], Done)
      BY <1>7, <2>3, <3>2 DEF Answer
    <3>4. Passed(b, toQueue, fromQueue, out)
      <4>1. \A id \in WorkerIds : out[id] = fromQueue[id]
        BY <2>1, <2>3, <3>1 DEF Ids
      <4>2. ASSUME NEW y \in ClientIds
            PROVE  \/ out[y] = fromQueue[y]
                   \/ /\ out[y] # <<>> /\ Answer(y, out[y], Done)
                      /\ y \in connected /\ Carries(toQueue[b], y)
        <5>1. CASE y = x
          BY <2>6, <2>9, <3>2, <3>3, <5>1
        <5>2. CASE y # x
          BY <3>1, <5>2 DEF Ids
        <5>3. QED
          BY <5>1, <5>2
      <4>3. \A y \in ClientIds :
                Carries(toQueue[b], y) /\ y \in connected => out[y] # <<>>
        BY <2>6, <3>2
      <4>4. QED
        BY <3>1, <4>1, <4>2, <4>3 DEF Passed
    <3>5. QED
      BY <2>8, <3>1, <3>4
  <2>10. CASE x \notin connected
    <3>1. out = fromQueue
      BY <2>5, <2>10
    <3>2. QED
      BY <1>2, <2>6, <2>8, <2>10, <3>1 DEF Passed
  <2>11. QED
    BY <2>9, <2>10
<1>8. toQueue[b] = <<Greeting>> \/ \E r \in Done : toQueue[b] = <<Wrapped(r[1], r[2])>>
  BY <1>1 DEF Forms, Offer
<1>9. QED
  BY <1>3, <1>4, <1>6, <1>7, <1>8

\* What Frontend makes of the first message of client f.
LEMMA FrontendHands ==
    ASSUME NEW to, NEW qs, NEW listed, FlowInv(to, qs, listed),
           NEW f \in ClientIds, to[f] # <<>>, toQueue[f] = to[f], listed # <<>>,
           NEW q, q = [queue |-> listed, out |-> qs]
    PROVE  /\ Frontend(q, f).queue = Tail(listed)
           /\ Handed(f, Head(listed), qs, Frontend(q, f).out)
<1>1. Forms(to, qs) /\ WorkersInv(to, qs, listed)
  BY DEF FlowInv
<1>2. PICK i : i = Head(listed)
  OBVIOUS
<1>3. /\ i \in WorkerIds /\ i \in Members(listed)
  BY <1>1, <1>2, TailMembers DEF WorkersInv
<1>4. i \in Ids /\ qs[i] = <<>> /\ DOMAIN qs = Ids /\ qs = [id \in Ids |-> qs[id]]
  BY <1>1, <1>2, <1>3 DEF WorkersInv, Forms, Ids
<1>5. PICK r \in Made : f = r[1] /\ toQueue[f] = <<Request(r[2])>>
  BY <1>1 DEF Forms, Call
<1>6. r[2] \in 1 .. MaxCalls
  BY MadeType
<1>7. Routed(qs, wrap(FromPeer(f), i)) =
          IF i \in connected
          THEN [qs EXCEPT ![i] = Append(@, Wrapped(f, r[2]))] ELSE qs
  <2>1. f \in ClientIds /\ i \in WorkerIds /\ toQueue[f] = <<Request(r[2])>>
    BY <1>3, <1>5
  <2>2. /\ Head(send(wrap(FromPeer(f), i))) = i
        /\ Tail(send(wrap(FromPeer(f), i))) = Wrapped(f, r[2])
    BY <2>1, FrontendSends
  <2>3. QED
    BY <2>2 DEF Routed
<1>8. /\ Frontend(q, f).queue = Tail(listed)
      /\ Frontend(q, f).out = Routed(qs, wrap(FromPeer(f), i))
  BY <1>2 DEF Frontend
<1>9. PICK out : out = Frontend(q, f).out
  OBVIOUS
<1>10. CASE i \in connected
  <2>1. /\ DOMAIN out = Ids /\ out = [id \in Ids |-> out[id]]
        /\ out[i] = Append(qs[i], Wrapped(f, r[2]))
        /\ \A id \in Ids : id # i => out[id] = qs[id]
    BY <1>4, <1>7, <1>8, <1>9, <1>10
  <2>2. out[i] = <<Wrapped(f, r[2])>> /\ out[i] # <<>>
    BY <1>4, <2>1, OneMessage
  <2>3. Task(out[i], Made) /\ \A x : Carries(out[i], x) <=> x = f
    BY <1>5, <1>6, <2>2, CarriesOne DEF Task
  <2>4. QED
    BY <1>2, <1>8, <1>9, <1>10, <2>1, <2>2, <2>3 DEF Handed
<1>11. CASE i \notin connected
  BY <1>2, <1>4, <1>7, <1>8, <1>11 DEF Handed
<1>12. QED
  BY <1>10, <1>11

\* The queue may iterate with no message of one of the sides.
LEMMA NobodyIsNobody ==
    Nobody \notin Ids /\ Nobody \notin WorkerIds /\ Nobody \notin ClientIds
<1>1. \A p, k : Identity(p, k) # Nobody
  BY DEF Identity, Nobody, Empty
<1>2. QED
  BY <1>1 DEF WorkerIds, ClientIds, Ids

\* The first message of id is the only one.
LEMMA TakesAll ==
    ASSUME NEW to, NEW from, Forms(to, from), NEW id \in Ids, to[id] # <<>>
    PROVE  /\ Tail(to[id]) = <<>> /\ to[id] = <<Head(to[id])>>
           /\ Taken(id, to, [to EXCEPT ![id] = <<>>])
<1>1. \E m : to[id] = <<m>>
  BY DEF Forms, Ids, Offer, Call
<1>2. PICK m : to[id] = <<m>>
  BY <1>1
<1>3. Tail(to[id]) = <<>> /\ to[id] = <<Head(to[id])>>
  BY <1>2, OneMessage
<1>4. DOMAIN to = Ids /\ to = [x \in Ids |-> to[x]]
  BY DEF Forms
<1>5. Taken(id, to, [to EXCEPT ![id] = <<>>])
  BY <1>4 DEF Taken
<1>6. QED
  BY <1>3, <1>5

\* One iteration of the main loop.
LEMMA IteratesKeeps ==
    ASSUME Types, FlowInv(toQueue, fromQueue, worker_queue),
           NEW b \in WorkerIds \union {Nobody}, NEW f \in ClientIds \union {Nobody},
           Iterates(b, f)
    PROVE  /\ FlowInv(toQueue', fromQueue', worker_queue')
           /\ \/ qstate' = "running"
              \/ /\ qstate' = "aborted" /\ b \in WorkerIds /\ toQueue[b] # <<>>
                 /\ Len(worker_queue) >= MAX_WORKERS
                 /\ UNCHANGED <<worker_queue, toQueue, fromQueue>>
           /\ \A x \in ClientIds, n \in 1 .. MaxCalls :
                  b \in WorkerIds /\ qstate' = "running"
                  /\ toQueue[b] = <<Wrapped(x, n)>> /\ x \in connected
                      => fromQueue'[x] = Append(fromQueue[x], Request(n))
<1>1. Forms(toQueue, fromQueue)
  BY DEF FlowInv
<1>2. Nobody \notin WorkerIds /\ Nobody \notin ClientIds
  BY NobodyIsNobody
<1>3. CASE b # Nobody /\ Len(worker_queue) >= MAX_WORKERS
  <2>1. /\ qstate' = "aborted" /\ UNCHANGED <<worker_queue, toQueue, fromQueue>>
        /\ toQueue[b] # <<>> /\ b \in WorkerIds
    BY <1>3 DEF Iterates
  <2>2. FlowInv(toQueue', fromQueue', worker_queue')
    BY <2>1
  <2>3. QED
    BY <1>3, <2>1, <2>2
<1>4. CASE ~(b # Nobody /\ Len(worker_queue) >= MAX_WORKERS)
  <2>1. PICK q1 : q1 = IF b = Nobody THEN Now ELSE Backend(Now, b)
    OBVIOUS
  <2>2. PICK to1 : to1 = IF b = Nobody THEN toQueue ELSE [toQueue EXCEPT ![b] = <<>>]
    OBVIOUS
  <2>3. /\ qstate = "running" /\ qstate' = "running"
        /\ b # Nobody => toQueue[b] # <<>>
        /\ f # Nobody => toQueue[f] # <<>> /\ worker_queue # <<>>
        /\ toQueue' = [id \in Ids |->
                      IF id \in {b, f} THEN Tail(toQueue[id]) ELSE toQueue[id]]
        /\ f = Nobody => worker_queue' = q1.queue /\ fromQueue' = q1.out
        /\ f # Nobody => /\ worker_queue' = Frontend(q1, f).queue
                         /\ fromQueue' = Frontend(q1, f).out
    BY <1>4, <2>1 DEF Iterates
  <2>4. q1 = [queue |-> q1.queue, out |-> q1.out]
    BY <2>1 DEF Now, Backend
  <2>5. /\ FlowInv(to1, q1.out, q1.queue)
        /\ \A id \in Ids : id # b => to1[id] = toQueue[id]
        /\ b \in WorkerIds => to1[b] = <<>>
        /\ DOMAIN to1 = Ids /\ to1 = [id \in Ids |-> to1[id]]
        /\ f # Nobody => q1.queue # <<>>
        /\ \A x \in ClientIds, n \in 1 .. MaxCalls :
                  b \in WorkerIds /\ toQueue[b] = <<Wrapped(x, n)>> /\ x \in connected
                      => q1.out[x] = Append(fromQueue[x], Request(n))
    <3>1. CASE b = Nobody
      <4>1. q1.queue = worker_queue /\ q1.out = fromQueue /\ to1 = toQueue
        BY <2>1, <2>2, <3>1 DEF Now
      <4>2. QED
        BY <1>1, <1>2, <2>3, <3>1, <4>1 DEF Forms
    <3>2. CASE b \in WorkerIds
      <4>1. q1 = Backend(Now, b) /\ to1 = [toQueue EXCEPT ![b] = <<>>]
        BY <1>2, <2>1, <2>2, <3>2
      <4>2. b \in Ids /\ toQueue[b] # <<>>
        BY <1>2, <2>3, <3>2 DEF Ids
      <4>3. Taken(b, toQueue, to1)
        BY <1>1, <4>1, <4>2, TakesAll
      <4>4. /\ q1.queue = Append(worker_queue, b)
            /\ Passed(b, toQueue, fromQueue, q1.out)
            /\ \A x \in ClientIds, n \in 1 .. MaxCalls :
                  toQueue[b] = <<Wrapped(x, n)>> /\ x \in connected =>
                      q1.out[x] = Append(fromQueue[x], Request(n))
        BY <3>2, <4>1, <4>2, BackendPasses
      <4>5. FlowInv(to1, q1.out, q1.queue)
        BY <3>2, <4>2, <4>3, <4>4, BackendKeeps
      <4>6. q1.queue # <<>>
        <5>1. worker_queue \in Seq(WorkerIds)
          BY DEF FlowInv, WorkersInv
        <5>2. QED
          BY <3>2, <4>4, <5>1, AppendProperties
      <4>7. QED
        BY <4>3, <4>4, <4>5, <4>6 DEF Taken
    <3>3. QED
      BY <3>1, <3>2
  <2>6. CASE f = Nobody
    <3>1. toQueue' = to1
      <4>1. \A id \in Ids : toQueue'[id] = to1[id]
        <5>1. ASSUME NEW id \in Ids PROVE toQueue'[id] = to1[id]
          <6>1. CASE id = b
            <7>1. b \in WorkerIds
              BY <1>2, <6>1, NobodyIsNobody
            <7>2. Tail(toQueue[b]) = <<>>
              BY <1>1, <1>2, <2>3, <6>1, <7>1, TakesAll
            <7>3. QED
              BY <2>3, <2>5, <6>1, <7>1, <7>2
          <6>2. CASE id # b
            BY <2>3, <2>5, <2>6, <6>2, NobodyIsNobody
          <6>3. QED
            BY <6>1, <6>2
        <5>2. QED
          BY <5>1
      <4>2. toQueue' = [id \in Ids |-> toQueue'[id]] /\ to1 = [id \in Ids |-> to1[id]]
        BY <2>3, <2>5
      <4>3. QED
        BY <4>1, <4>2
    <3>2. worker_queue' = q1.queue /\ fromQueue' = q1.out /\ qstate' = "running"
      BY <2>3, <2>6
    <3>3. FlowInv(toQueue', fromQueue', worker_queue')
      BY <2>5, <3>1, <3>2, Zenon
    <3>4. \A x \in ClientIds, n \in 1 .. MaxCalls :
              b \in WorkerIds /\ qstate' = "running"
              /\ toQueue[b] = <<Wrapped(x, n)>> /\ x \in connected
                  => fromQueue'[x] = Append(fromQueue[x], Request(n))
      BY <2>5, <3>2, Zenon
    <3>5. QED
      BY <3>2, <3>3, <3>4, Zenon
  <2>7. CASE f \in ClientIds
    <3>1. f # Nobody /\ f # b /\ f \in Ids
      BY <1>2, <2>7, Identities DEF Ids
    <3>2. to1[f] # <<>> /\ toQueue[f] = to1[f] /\ q1.queue # <<>>
      BY <2>3, <2>5, <3>1
    <3>3. /\ worker_queue' = Tail(q1.queue)
          /\ Handed(f, Head(q1.queue), q1.out, fromQueue')
      <4>1. PICK qs, listed : qs = q1.out /\ listed = q1.queue
        OBVIOUS
      <4>2. FlowInv(to1, qs, listed) /\ q1 = [queue |-> listed, out |-> qs]
        BY <2>4, <2>5, <4>1
      <4>3. /\ Frontend(q1, f).queue = Tail(listed)
            /\ Handed(f, Head(listed), qs, Frontend(q1, f).out)
        <5>1. /\ FlowInv(to1, qs, listed) /\ q1 = [queue |-> listed, out |-> qs]
              /\ f \in ClientIds /\ to1[f] # <<>> /\ toQueue[f] = to1[f]
              /\ listed # <<>>
          BY <2>7, <3>2, <4>1, <4>2
        <5>2. QED
          BY <5>1, FrontendHands
      <4>4. QED
        BY <2>3, <3>1, <4>1, <4>3
    <3>4. Taken(f, to1, toQueue')
      <4>1. toQueue'[f] = <<>>
        <5>1. Tail(toQueue[f]) = <<>>
          BY <1>1, <2>3, <3>1, TakesAll
        <5>2. QED
          BY <2>3, <3>1, <5>1
      <4>2. ASSUME NEW id \in Ids, id # f PROVE toQueue'[id] = to1[id]
        <5>1. CASE id = b
          <6>1. b \in WorkerIds
            BY <1>2, <5>1, NobodyIsNobody
          <6>2. Tail(toQueue[b]) = <<>>
            BY <1>1, <1>2, <2>3, <5>1, <6>1, TakesAll
          <6>3. QED
            BY <2>3, <2>5, <5>1, <6>1, <6>2
        <5>2. CASE id # b
          BY <2>3, <2>5, <4>2, <5>2
        <5>3. QED
          BY <5>1, <5>2
      <4>3. DOMAIN toQueue' = Ids /\ toQueue' = [id \in Ids |-> toQueue'[id]]
        BY <2>3
      <4>4. QED
        BY <4>1, <4>2, <4>3 DEF Taken
    <3>5. FlowInv(toQueue', fromQueue', worker_queue')
      BY <2>5, <2>7, <3>2, <3>3, <3>4, FrontendKeeps
    <3>6. \A x \in ClientIds : fromQueue'[x] = q1.out[x]
      <4>1. Head(q1.queue) \in WorkerIds
        BY <2>5, <3>2, TailMembers DEF FlowInv, WorkersInv
      <4>2. QED
        BY <3>3, <4>1, Identities DEF Handed, Ids
    <3>7. qstate' = "running"
      BY <2>3
    <3>8. QED
      BY <2>5, <3>5, <3>6, <3>7
  <2>8. QED
    BY <2>6, <2>7
<1>5. QED
  BY <1>3, <1>4

-----------------------------------------------------------------------------
(* What a step does to the parts of the invariant.                         *)

\* A step that leaves the peers alone, and the crashes.
Steady ==
    UNCHANGED <<session, connected, clientVars, jobs, crashes, lost, orphans>>

\* An iteration of the queue leaves the peers alone,
LEMMA SteadyParts ==
    ASSUME Steady
    PROVE  /\ Made' = Made /\ Done' = Done
           /\ \A p : Id(p)' = Id(p)
           /\ \A id : Working(id)' = Working(id)
           /\ \A w, x : Holds(w, x)' = Holds(w, x)
<1>1. Made' = Made
  BY DEF Steady, Made, clientVars
<1>2. Done' = Done
  BY <1>1 DEF Steady, Done, jobs
<1>3. \A p : Id(p)' = Id(p)
  BY DEF Steady, Id
<1>4. \A id : Working(id)' = Working(id)
  BY <1>3 DEF Steady, Working, jobs
<1>5. \A w, x : Holds(w, x)' = Holds(w, x)
  BY DEF Steady, Holds, jobs
<1>6. QED
  BY <1>1, <1>2, <1>3, <1>4, <1>5

\* so it changes nothing but the frames under way and the list.
LEMMA SteadyFlow ==
    ASSUME Steady, FlowInv(toQueue', fromQueue', worker_queue')
    PROVE  FlowInv(toQueue, fromQueue, worker_queue)'
<1>1. /\ session' = session /\ connected' = connected /\ cstate' = cstate
      /\ sequence' = sequence /\ retries_left' = retries_left /\ wstate' = wstate
      /\ crashes' = crashes /\ lost' = lost /\ orphans' = orphans
  BY DEF Steady, clientVars, jobs
<1>2. /\ Made' = Made /\ Done' = Done
      /\ \A p : Id(p)' = Id(p)
      /\ \A id : Working(id)' = Working(id)
      /\ \A w, x : Holds(w, x)' = Holds(w, x)
  BY SteadyParts
<1>3. PICK to, from, listed :
          to = toQueue' /\ from = fromQueue' /\ listed = worker_queue'
  OBVIOUS
<1>4. /\ Forms(to, from) /\ WorkersInv(to, from, listed) /\ ClientsInv(to, from)
      /\ CrashesInv(to, from, listed)
  BY <1>3 DEF FlowInv
<1>5. Forms(toQueue, fromQueue)'
  BY <1>1, <1>2, <1>3, <1>4 DEF Forms, Offer, Task, Call, Answer
<1>6. WorkersInv(toQueue, fromQueue, worker_queue)'
  BY <1>1, <1>2, <1>3, <1>4 DEF WorkersInv
<1>7. \A p, x : At(toQueue, fromQueue, p, x)' = At(to, from, p, x)
  BY <1>2, <1>3 DEF At
<1>8. \A x : Nowhere(toQueue, fromQueue, x)' = Nowhere(to, from, x)
  BY <1>7 DEF Nowhere
<1>9. ClientsInv(toQueue, fromQueue)'
  BY <1>1, <1>2, <1>4, <1>7, <1>8 DEF ClientsInv
<1>10. Gone(toQueue, worker_queue)' = Gone(to, listed)
  BY <1>1, <1>3 DEF Gone
<1>11. \A c : Missing(toQueue, fromQueue, c)' = Missing(to, from, c)
  BY <1>1, <1>2, <1>8 DEF Missing
<1>12. CrashesInv(toQueue, fromQueue, worker_queue)'
  BY <1>1, <1>4, <1>10, <1>11 DEF CrashesInv
<1>13. QED
  BY <1>5, <1>6, <1>9, <1>12 DEF FlowInv

\* The requests in hand stay as they are.
LEMMA SteadyRest ==
    ASSUME Types, Hands, Steady, qstate' \in {"running", "down", "aborted"}
    PROVE  Types' /\ Hands'
<1>1. Types'
  BY DEF Types, Steady, clientVars, jobs, Id
<1>2. Made' = Made
  BY SteadyParts
<1>3. Hands'
  BY <1>2 DEF Hands, Steady, jobs
<1>4. QED
  BY <1>1, <1>3

Running == {w \in Workers : wstate[w] # "off"}

\* There are finitely many workers.
LEMMA RunningFinite ==
    /\ IsFiniteSet(Running) /\ Cardinality(Running) \in Nat
    /\ IsFiniteSet(Running') /\ Cardinality(Running') \in Nat
<1>1. IsFiniteSet(Running)
  BY PirateAssumption, FS_Subset DEF Running
<1>2. IsFiniteSet(Running')
  BY PirateAssumption, FS_Subset DEF Running
<1>3. QED
  BY <1>1, <1>2, FS_CardinalityType

\* The workers of the queue, and one more, are those that run and the dead.
LEMMA AbortExplained ==
    ASSUME Types, FlowInv(toQueue, fromQueue, worker_queue),
           NEW b \in WorkerIds, toQueue[b] # <<>>, Len(worker_queue) >= MAX_WORKERS
    PROVE  Cardinality(Running) + crashes > MAX_WORKERS
<1>1. /\ WorkersInv(toQueue, fromQueue, worker_queue)
      /\ CrashesInv(toQueue, fromQueue, worker_queue)
  BY DEF FlowInv
<1>2. PICK A : A = Members(worker_queue) \union {b}
  OBVIOUS
<1>3. /\ IsFiniteSet(A) /\ Cardinality(A) = Len(worker_queue) + 1
      /\ A \subseteq WorkerIds /\ Len(worker_queue) \in Nat
  <2>1. /\ IsFiniteSet(Members(worker_queue))
        /\ Cardinality(Members(worker_queue)) = Len(worker_queue)
        /\ Members(worker_queue) \subseteq WorkerIds
    BY <1>1, QueueLength DEF WorkersInv
  <2>2. b \notin Members(worker_queue)
    BY <1>1 DEF WorkersInv
  <2>3. Len(worker_queue) \in Nat
    BY <2>1, FS_CardinalityType
  <2>4. QED
    BY <1>2, <2>1, <2>2, <2>3, FS_AddElement
<1>4. PICK B, C : B = A \intersect connected /\ C = A \ connected
  OBVIOUS
<1>5. /\ IsFiniteSet(B) /\ IsFiniteSet(C) /\ A = B \union C /\ B \intersect C = {}
  <2>1. B \in SUBSET A /\ C \in SUBSET A /\ A = B \union C /\ B \intersect C = {}
    BY <1>4
  <2>2. QED
    BY <1>3, <2>1, FS_Subset
<1>6. Cardinality(A) = Cardinality(B) + Cardinality(C)
  <2>1. Cardinality(B) \in Nat /\ Cardinality(C) \in Nat
    BY <1>5, FS_CardinalityType
  <2>2. Cardinality(B \union C) =
            Cardinality(B) + Cardinality(C) - Cardinality(B \intersect C)
    BY <1>5, FS_Union
  <2>3. Cardinality(B \intersect C) = 0
    BY <1>5, FS_EmptySet
  <2>4. QED
    BY <1>5, <2>1, <2>2, <2>3
<1>7. Cardinality(C) <= crashes
  <2>1. C \subseteq Gone(toQueue, worker_queue)
    BY <1>2, <1>3, <1>4 DEF Gone
  <2>2. C \in SUBSET WorkerIds /\ Gone(toQueue, worker_queue) \in SUBSET WorkerIds
    BY <1>3, <1>4 DEF Gone
  <2>3. /\ Cardinality(C) <= Cardinality(Gone(toQueue, worker_queue))
        /\ Cardinality(C) \in Nat
        /\ Cardinality(Gone(toQueue, worker_queue)) \in Nat
    BY <2>1, <2>2, Counting
  <2>4. crashes \in Nat /\ Cardinality(Gone(toQueue, worker_queue)) <= crashes
    BY <1>1, PirateAssumption DEF Types, CrashesInv
  <2>5. QED
    BY <2>3, <2>4
<1>8. Cardinality(B) <= Cardinality(Running)
  <2>1. PICK g : g = [id \in B |-> id.of]
    OBVIOUS
  <2>2. ASSUME NEW id \in B PROVE id.of \in Running /\ id = Id(id.of)
    <3>1. id \in WorkerIds /\ id \in connected
      BY <1>3, <1>4
    <3>2. PICK p \in Peers : id = Id(p)
      BY <3>1 DEF Types
    <3>3. id.of = p /\ p \in Workers
      BY <3>1, <3>2, OwnIdentity, Identities
    <3>4. wstate[p] # "off"
      BY <1>1, <3>1, <3>2, <3>3 DEF WorkersInv
    <3>5. QED
      BY <3>2, <3>3, <3>4 DEF Running
  <2>3. g \in [B -> Running] /\ \A i, j \in B : g[i] = g[j] => i = j
    BY <2>1, <2>2
  <2>4. g \in Injection(B, Running)
    BY <2>3 DEF Injection, IsInjective
  <2>5. QED
    BY <2>4, RunningFinite, FS_Injection
<1>9. /\ Cardinality(A) \in Nat /\ Cardinality(B) \in Nat /\ Cardinality(C) \in Nat
      /\ Cardinality(Running) \in Nat /\ crashes \in Nat /\ MAX_WORKERS \in Nat
  BY <1>3, <1>5, FS_CardinalityType, RunningFinite, PirateAssumption,
     SimpleAssumption DEF Types
<1>10. Cardinality(A) >= MAX_WORKERS + 1
  BY <1>3, <1>9
<1>11. QED
  BY <1>6, <1>7, <1>8, <1>9, <1>10

\* OverflowExplained needs no care while the queue has not aborted, and then
\* as long as the workers and the crashes do not become fewer.
LEMMA OverflowKeeps ==
    ASSUME Types, Types', OverflowExplained,
           qstate' = "aborted" =>
               qstate = "aborted" /\ Cardinality(Running) + crashes
                                     <= Cardinality(Running') + crashes'
    PROVE  OverflowExplained'
<1>1. SUFFICES ASSUME qstate' = "aborted"
               PROVE  Cardinality(Running') + crashes' > MAX_WORKERS
  BY DEF OverflowExplained, Running
<1>2. Cardinality(Running) + crashes > MAX_WORKERS
  BY <1>1 DEF OverflowExplained, Running
<1>3. /\ Cardinality(Running) \in Nat /\ Cardinality(Running') \in Nat
      /\ crashes \in Nat /\ crashes' \in Nat /\ MAX_WORKERS \in Nat
  BY RunningFinite, PirateAssumption, SimpleAssumption DEF Types
<1>4. QED
  BY <1>1, <1>2, <1>3

\* An iteration of the loop of spqueue.cpp keeps the invariant.
LEMMA IteratesInv ==
    ASSUME IInv, NEW b \in WorkerIds \union {Nobody},
           NEW f \in ClientIds \union {Nobody}, Iterates(b, f)
    PROVE  IInv'
<1>1. /\ Types /\ Hands /\ FlowInv(toQueue, fromQueue, worker_queue)
      /\ OverflowExplained
  BY DEF IInv
<1>2. Steady
  BY DEF Iterates, Steady
<1>3. /\ FlowInv(toQueue', fromQueue', worker_queue')
      /\ \/ qstate' = "running"
         \/ /\ qstate' = "aborted" /\ b \in WorkerIds /\ toQueue[b] # <<>>
            /\ Len(worker_queue) >= MAX_WORKERS
  BY <1>1, IteratesKeeps
<1>4. FlowInv(toQueue, fromQueue, worker_queue)'
  BY <1>2, <1>3, SteadyFlow
<1>5. Types' /\ Hands'
  BY <1>1, <1>2, <1>3, SteadyRest
<1>6. OverflowExplained'
  <2>1. CASE qstate' = "running"
    BY <2>1 DEF OverflowExplained
  <2>2. CASE b \in WorkerIds /\ toQueue[b] # <<>> /\ Len(worker_queue) >= MAX_WORKERS
    <3>1. Cardinality(Running) + crashes > MAX_WORKERS
      BY <1>1, <2>2, AbortExplained
    <3>2. wstate' = wstate /\ crashes' = crashes
      BY <1>2 DEF Steady, jobs
    <3>3. QED
      BY <3>1, <3>2 DEF OverflowExplained, Running
  <2>3. QED
    BY <1>3, <2>1, <2>2
<1>7. QED
  BY <1>4, <1>5, <1>6 DEF IInv

\* So does a restart of the queue.
LEMMA RestartsInv ==
    ASSUME IInv, QueueRestarts, UNCHANGED <<worker_queue, lost, orphans>>
    PROVE  IInv'
<1>1. /\ Types /\ Hands /\ FlowInv(toQueue, fromQueue, worker_queue)
  BY DEF IInv
<1>2. Steady /\ qstate' = "running"
  BY DEF QueueRestarts, Steady, sockets
<1>3. FlowInv(toQueue', fromQueue', worker_queue')
  <2>1. toQueue' = toQueue /\ fromQueue' = fromQueue /\ worker_queue' = worker_queue
    BY DEF QueueRestarts, sockets
  <2>2. QED
    BY <1>1, <2>1
<1>4. FlowInv(toQueue, fromQueue, worker_queue)'
  BY <1>2, <1>3, SteadyFlow
<1>5. Types' /\ Hands'
  BY <1>1, <1>2, SteadyRest
<1>6. OverflowExplained'
  BY <1>2 DEF OverflowExplained
<1>7. QED
  BY <1>4, <1>5, <1>6 DEF IInv

\* And a step that changes nothing.
LEMMA StutterInv == ASSUME IInv, UNCHANGED vars PROVE IInv'
<1>1. /\ Types /\ Hands /\ FlowInv(toQueue, fromQueue, worker_queue)
      /\ OverflowExplained
  BY DEF IInv
<1>2. Steady /\ qstate' = qstate /\ qstate \in {"running", "down", "aborted"}
  BY <1>1 DEF vars, pirateVars, sockets, Steady, Types
<1>3. FlowInv(toQueue', fromQueue', worker_queue')
  <2>1. toQueue' = toQueue /\ fromQueue' = fromQueue /\ worker_queue' = worker_queue
    BY DEF vars, pirateVars, sockets
  <2>2. QED
    BY <1>1, <2>1
<1>4. FlowInv(toQueue, fromQueue, worker_queue)'
  BY <1>2, <1>3, SteadyFlow
<1>5. Types' /\ Hands'
  BY <1>1, <1>2, SteadyRest
<1>6. OverflowExplained'
  BY <1>1, <1>2 DEF OverflowExplained, Steady, jobs
<1>7. QED
  BY <1>4, <1>5, <1>6 DEF IInv

\* A step after which the request of a socket is where it was, or at dst instead
\* of src, or nowhere.
Moves(src, dst) ==
    \A x \in ClientIds : \A p :
        At(toQueue, fromQueue, p, x)' =>
            \/ At(toQueue, fromQueue, p, x) /\ p # src
            \/ At(toQueue, fromQueue, src, x) /\ p = dst

\* It changes nothing else for the clients.
LEMMA ClientsKeep ==
    ASSUME Types, ClientsInv(toQueue, fromQueue), UNCHANGED clientVars,
           NEW src, NEW dst, Moves(src, dst),
           \A c \in Clients : Id(c)' = Id(c)
                              /\ (Id(c) \in connected' <=> Id(c) \in connected)
    PROVE  /\ ClientsInv(toQueue, fromQueue)'
           /\ \A x \in ClientIds : Nowhere(toQueue, fromQueue, x)
                                   => Nowhere(toQueue, fromQueue, x)'
<1>0. \A x \in ClientIds : \A p :
          At(toQueue, fromQueue, p, x)' =>
              \/ At(toQueue, fromQueue, p, x) /\ p # src
              \/ At(toQueue, fromQueue, src, x) /\ p = dst
  BY DEF Moves
<1>1. \A x \in ClientIds : Nowhere(toQueue, fromQueue, x)
                           => Nowhere(toQueue, fromQueue, x)'
  BY <1>0 DEF Nowhere
<1>2. \A x \in ClientIds : \A p, q :
          At(toQueue, fromQueue, p, x)' /\ At(toQueue, fromQueue, q, x)' => p = q
  BY <1>0 DEF ClientsInv
<1>3. ASSUME NEW c \in Clients
      PROVE  /\ cstate'[c] = "abandoned" <=> Id(c)' \notin connected'
             /\ cstate'[c] = "ready" => Nowhere(toQueue, fromQueue, Id(c))'
             /\ cstate'[c] = "waiting" => sequence'[c] > 0
             /\ cstate'[c] # "abandoned" => retries_left'[c] > 0
  <2>1. /\ Id(c)' = Id(c) /\ Id(c) \in ClientIds
        /\ Id(c) \in connected' <=> Id(c) \in connected
    BY OwnIdentity
  <2>2. cstate' = cstate /\ sequence' = sequence /\ retries_left' = retries_left
    BY DEF clientVars
  <2>3. /\ cstate[c] = "abandoned" <=> Id(c) \notin connected
        /\ cstate[c] = "ready" => Nowhere(toQueue, fromQueue, Id(c))
        /\ cstate[c] = "waiting" => sequence[c] > 0
        /\ cstate[c] # "abandoned" => retries_left[c] > 0
    BY DEF ClientsInv
  <2>4. Nowhere(toQueue, fromQueue, Id(c)) => Nowhere(toQueue, fromQueue, Id(c))'
    BY <1>1, <2>1 DEF Nowhere
  <2>5. QED
    BY <2>1, <2>2, <2>3, <2>4
<1>4. ClientsInv(toQueue, fromQueue)'
  BY <1>2, <1>3 DEF ClientsInv
<1>5. QED
  BY <1>1, <1>4

\* The losses stay within the crashes.
LEMMA CrashesKeep ==
    ASSUME Types, Types', CrashesInv(toQueue, fromQueue, worker_queue),
           NEW g \in Nat, g = Cardinality(Gone(toQueue, worker_queue)),
           NEW g2 \in Nat, g2 = Cardinality(Gone(toQueue, worker_queue)'),
           g2 + crashes <= g + crashes',
           \A c \in Clients :
               lost'[c] + Missing(toQueue, fromQueue, c)' + g2 + crashes
                   <= lost[c] + Missing(toQueue, fromQueue, c) + g + crashes'
    PROVE  CrashesInv(toQueue, fromQueue, worker_queue)'
<1>1. crashes \in Nat /\ crashes' \in Nat
  BY PirateAssumption DEF Types
<1>2. ASSUME NEW c \in Clients
      PROVE  lost'[c] + Missing(toQueue, fromQueue, c)' + g2 <= crashes'
  <2>1. PICK m, m2 : m = Missing(toQueue, fromQueue, c)
                     /\ m2 = Missing(toQueue, fromQueue, c)'
    OBVIOUS
  <2>2. m \in Nat /\ m2 \in Nat
    BY <2>1 DEF Missing
  <2>3. lost[c] \in Nat /\ lost'[c] \in Nat
    BY DEF Types
  <2>4. lost[c] + m + g <= crashes
    BY <2>1 DEF CrashesInv
  <2>5. lost'[c] + m2 + g2 + crashes <= lost[c] + m + g + crashes'
    BY <2>1
  <2>6. lost'[c] + m2 + g2 <= crashes'
    BY <1>1, <2>2, <2>3, <2>4, <2>5
  <2>7. QED
    BY <2>1, <2>6
<1>3. g2 <= crashes'
  BY <1>1 DEF CrashesInv
<1>4. QED
  BY <1>2, <1>3 DEF CrashesInv

\* The same, when nobody dies and nothing gets lost.
LEMMA CrashesStay ==
    ASSUME Types, Types', CrashesInv(toQueue, fromQueue, worker_queue),
           crashes' = crashes, lost' = lost,
           Gone(toQueue, worker_queue)' \subseteq Gone(toQueue, worker_queue),
           \A c \in Clients :
               /\ cstate'[c] = "waiting" /\ Nowhere(toQueue, fromQueue, Id(c))'
                  => cstate[c] = "waiting" /\ Nowhere(toQueue, fromQueue, Id(c))
    PROVE  CrashesInv(toQueue, fromQueue, worker_queue)'
<1>1. PICK g, g2 : g = Cardinality(Gone(toQueue, worker_queue))
                   /\ g2 = Cardinality(Gone(toQueue, worker_queue)')
  OBVIOUS
<1>2. g \in Nat /\ g2 \in Nat /\ g2 <= g
  <2>1. /\ Gone(toQueue, worker_queue) \in SUBSET WorkerIds
        /\ Gone(toQueue, worker_queue)' \in SUBSET WorkerIds
    BY DEF Gone
  <2>2. QED
    BY <1>1, <2>1, Counting
<1>3. crashes \in Nat
  BY PirateAssumption DEF Types
<1>4. ASSUME NEW c \in Clients
      PROVE  lost'[c] + Missing(toQueue, fromQueue, c)' + g2 + crashes
                   <= lost[c] + Missing(toQueue, fromQueue, c) + g + crashes'
  <2>1. PICK m, m2 : m = Missing(toQueue, fromQueue, c)
                     /\ m2 = Missing(toQueue, fromQueue, c)'
    OBVIOUS
  <2>2. m \in {0, 1} /\ m2 \in {0, 1} /\ (m2 = 1 => m = 1)
    BY <2>1 DEF Missing
  <2>3. lost[c] \in Nat
    BY DEF Types
  <2>4. lost[c] + m2 + g2 + crashes <= lost[c] + m + g + crashes
    BY <1>2, <1>3, <2>2, <2>3
  <2>5. QED
    BY <2>1, <2>4
<1>5. QED
  BY <1>1, <1>2, <1>3, <1>4, CrashesKeep

-----------------------------------------------------------------------------
(* The workers.                                                            *)

\* A worker reads a request and sleeps on it.
LEMMA WorkerTakesInv ==
    ASSUME IInv, NEW w \in Workers, WorkerTakes(w),
           UNCHANGED <<worker_queue, lost, orphans>>
    PROVE  IInv'
<1>1. /\ Types /\ Hands /\ Forms(toQueue, fromQueue) /\ OverflowExplained
      /\ WorkersInv(toQueue, fromQueue, worker_queue)
      /\ ClientsInv(toQueue, fromQueue)
      /\ CrashesInv(toQueue, fromQueue, worker_queue)
  BY DEF IInv, FlowInv
<1>2. /\ wstate[w] = "polling" /\ fromQueue[Id(w)] # <<>>
      /\ request' = [request EXCEPT ![w] = recv(Tail(Head(fromQueue[Id(w)])))]
      /\ wstate' = [wstate EXCEPT ![w] = "working"]
      /\ fromQueue' = [fromQueue EXCEPT ![Id(w)] = Tail(@)]
      /\ qstate' = qstate /\ session' = session /\ connected' = connected
      /\ toQueue' = toQueue /\ executed' = executed /\ crashes' = crashes
      /\ worker_queue' = worker_queue /\ lost' = lost /\ orphans' = orphans
      /\ UNCHANGED clientVars
      /\ cstate' = cstate /\ sequence' = sequence /\ retries_left' = retries_left
  BY DEF WorkerTakes, clientVars
<1>3. PICK i : i = Id(w)
  OBVIOUS
<1>4. i \in WorkerIds /\ i \in Ids /\ i \notin ClientIds
  BY <1>1, <1>3, OwnIdentity, Identities
<1>5. PICK r \in Made : fromQueue[i] = <<Wrapped(r[1], r[2])>>
  BY <1>1, <1>2, <1>3, <1>4 DEF Forms, Task
<1>6. r[1] \in ClientIds /\ r[2] \in 1 .. MaxCalls
  BY MadeType
<1>7. /\ DOMAIN fromQueue' = Ids /\ fromQueue' = [id \in Ids |-> fromQueue'[id]]
      /\ fromQueue'[i] = <<>>
      /\ \A id \in Ids : id # i => fromQueue'[id] = fromQueue[id]
  <2>1. Tail(fromQueue[i]) = <<>>
    BY <1>5, OneMessage
  <2>2. fromQueue' = [fromQueue EXCEPT ![i] = <<>>]
    BY <1>2, <1>3, <2>1
  <2>3. QED
    BY <1>1, <1>4, <2>2 DEF Forms
<1>8. /\ DOMAIN request' = Workers /\ request' = [v \in Workers |-> request'[v]]
      /\ request'[w] = Enveloped(r[1], r[2])
      /\ \A v \in Workers : v # w => request'[v] = request[v]
      /\ wstate' \in [Workers -> {"off", "polling", "working"}]
      /\ wstate'[w] = "working"
      /\ \A v \in Workers : v # w => wstate'[v] = wstate[v]
  <2>1. recv(Tail(Head(fromQueue[i]))) = Enveloped(r[1], r[2])
    BY <1>5, <1>6, OneMessage, WorkerHandles
  <2>2. request' = [request EXCEPT ![w] = Enveloped(r[1], r[2])]
    BY <1>2, <1>3, <2>1
  <2>3. DOMAIN request = Workers /\ request = [v \in Workers |-> request[v]]
    BY <1>1 DEF Hands
  <2>4. wstate \in [Workers -> {"off", "polling", "working"}]
    BY <1>1 DEF Types
  <2>5. QED
    BY <1>2, <2>2, <2>3, <2>4
<1>9. /\ Made' = Made /\ Done' = Done /\ \A p : Id(p)' = Id(p)
  <2>1. Made' = Made
    BY <1>2 DEF Made
  <2>2. QED
    BY <1>2, <2>1 DEF Done, Id
<1>10. \A id \in WorkerIds : Working(id)' <=> (Working(id) \/ id = i)
  <2>1. ASSUME NEW id \in WorkerIds PROVE Working(id)' <=> (Working(id) \/ id = i)
    <3>1. CASE id.of = w
      BY <1>2, <1>3, <1>8, <1>9, <3>1, OwnIdentity, <1>1 DEF Working, Peers
    <3>2. CASE id.of # w
      <4>1. id # i
        BY <1>1, <1>3, <3>2, OwnIdentity DEF Peers
      <4>2. QED
        BY <1>8, <1>9, <3>2, <4>1, Identities DEF Working
    <3>3. QED
      BY <3>1, <3>2
  <2>2. QED
    BY <2>1
<1>11. Types'
  BY <1>1, <1>2, <1>8, <1>9 DEF Types
<1>12. Hands'
  BY <1>1, <1>8, <1>9 DEF Hands
<1>13. Forms(toQueue, fromQueue)'
  <2>1. \A id \in WorkerIds : Offer(toQueue'[id], Done') /\ Task(fromQueue'[id], Made')
    <3>1. \A id \in WorkerIds : Offer(toQueue[id], Done) /\ Task(fromQueue[id], Made)
      BY <1>1 DEF Forms
    <3>2. \A id \in WorkerIds : fromQueue'[id] \in {fromQueue[id], <<>>}
      BY <1>7 DEF Ids
    <3>3. QED
      BY <1>2, <1>9, <3>1, <3>2 DEF Task
  <2>2. \A x \in ClientIds : Call(x, toQueue'[x], Made') /\ Answer(x, fromQueue'[x], Done')
    <3>1. \A x \in ClientIds : Call(x, toQueue[x], Made) /\ Answer(x, fromQueue[x], Done)
      BY <1>1 DEF Forms
    <3>2. \A x \in ClientIds : fromQueue'[x] = fromQueue[x]
      BY <1>4, <1>7 DEF Ids
    <3>3. QED
      BY <1>2, <1>9, <3>1, <3>2
  <2>3. \A id \in Ids : fromQueue'[id] # <<>> => id \in connected'
    BY <1>1, <1>2, <1>7 DEF Forms
  <2>4. DOMAIN toQueue' = Ids /\ toQueue' = [id \in Ids |-> toQueue'[id]]
    BY <1>1, <1>2 DEF Forms
  <2>5. QED
    BY <1>7, <2>1, <2>2, <2>3, <2>4 DEF Forms
<1>14. WorkersInv(toQueue, fromQueue, worker_queue)'
  <2>1. ASSUME NEW id \in WorkerIds
        PROVE  /\ id \in Members(worker_queue') =>
                    toQueue'[id] = <<>> /\ fromQueue'[id] = <<>> /\ ~Working(id)'
               /\ toQueue'[id] # <<>> => fromQueue'[id] = <<>> /\ ~Working(id)'
               /\ fromQueue'[id] # <<>> => ~Working(id)'
               /\ id.n > session'[id.of] =>
                    id \notin Members(worker_queue') /\ toQueue'[id] = <<>>
    <3>1. /\ id \in Members(worker_queue) =>
                    toQueue[id] = <<>> /\ fromQueue[id] = <<>> /\ ~Working(id)
          /\ toQueue[id] # <<>> => fromQueue[id] = <<>> /\ ~Working(id)
          /\ fromQueue[id] # <<>> => ~Working(id)
          /\ id.n > session[id.of] =>
                    id \notin Members(worker_queue) /\ toQueue[id] = <<>>
      BY <1>1 DEF WorkersInv
    <3>2. fromQueue'[id] = IF id = i THEN <<>> ELSE fromQueue[id]
      BY <1>7 DEF Ids
    <3>3. id = i => fromQueue[id] # <<>>
      BY <1>2, <1>3
    <3>4. QED
      BY <1>2, <1>10, <3>1, <3>2, <3>3
  <2>2. ASSUME NEW v \in Workers
        PROVE  /\ wstate'[v] = "off" <=> Id(v)' \notin connected'
               /\ wstate'[v] = "polling" /\ toQueue'[Id(v)'] = <<>>
                  /\ fromQueue'[Id(v)'] = <<>>
                     => Id(v)' \in Members(worker_queue') \union orphans'
    <3>1. /\ wstate[v] = "off" <=> Id(v) \notin connected
          /\ wstate[v] = "polling" /\ toQueue[Id(v)] = <<>> /\ fromQueue[Id(v)] = <<>>
                => Id(v) \in Members(worker_queue) \union orphans
      BY <1>1 DEF WorkersInv
    <3>2. Id(v)' = Id(v)
      BY <1>9
    <3>3. CASE v = w
      BY <1>2, <1>8, <3>1, <3>2, <3>3
    <3>4. CASE v # w
      <4>1. Id(v) # i /\ Id(v) \in Ids
        BY <1>1, <1>3, <3>4, OwnIdentity DEF Peers
      <4>2. QED
        BY <1>2, <1>7, <1>8, <3>1, <3>2, <3>4, <4>1
    <3>5. QED
      BY <3>3, <3>4
  <2>3. QED
    BY <1>1, <1>2, <2>1, <2>2 DEF WorkersInv
<1>15. PICK src, dst : src = <<"sent", i>> /\ dst = <<"held", w>>
  OBVIOUS
<1>16. \A x \in ClientIds : Carries(fromQueue[i], x) <=> x = r[1]
  BY <1>5, <1>6, CarriesOne
<1>17. \A x \in ClientIds : Holds(w, x)' <=> x = r[1]
  BY <1>6, <1>8, Distinct DEF Holds
<1>18. ASSUME NEW x \in ClientIds
       PROVE  /\ \A v \in Workers : v # w => (Holds(v, x)' <=> Holds(v, x))
              /\ ~Holds(w, x)
              /\ fromQueue'[x] = fromQueue[x] /\ toQueue'[x] = toQueue[x]
              /\ ~Carries(fromQueue'[i], x)
              /\ \A id \in WorkerIds : toQueue'[id] = toQueue[id]
              /\ \A id \in WorkerIds : id # i => fromQueue'[id] = fromQueue[id]
  <2>1. \A v \in Workers : v # w => (Holds(v, x)' <=> Holds(v, x))
    BY <1>8 DEF Holds
  <2>2. ~Holds(w, x)
    <3>1. request[w] = <<>>
      BY <1>1, <1>2 DEF Hands
    <3>2. \A n : Enveloped(x, n) # <<>>
      BY Distinct
    <3>3. QED
      BY <3>1, <3>2 DEF Holds
  <2>3. ~Carries(fromQueue'[i], x)
    BY <1>7, CarriesOne
  <2>4. QED
    BY <1>2, <1>4, <1>7, <2>1, <2>2, <2>3 DEF Ids
<1>19. ASSUME NEW x \in ClientIds, NEW p, At(toQueue, fromQueue, p, x)'
       PROVE  \/ At(toQueue, fromQueue, p, x) /\ p # src
              \/ At(toQueue, fromQueue, src, x) /\ p = dst
  <2>1. CASE p = <<"held", w>> /\ Holds(w, x)'
    BY <1>4, <1>15, <1>16, <1>17, <2>1 DEF At
  <2>2. CASE ~(p = <<"held", w>> /\ Holds(w, x)')
    <3>1. At(toQueue, fromQueue, p, x)
      BY <1>18, <1>19, <2>2 DEF At
    <3>2. p # src
      <4>1. SUFFICES ASSUME p = src PROVE FALSE
        OBVIOUS
      <4>2. PICK id \in WorkerIds : p = <<"sent", id>> /\ Carries(fromQueue'[id], x)
        BY <1>15, <1>19, <4>1 DEF At
      <4>3. id = i
        BY <1>15, <4>1, <4>2
      <4>4. QED
        BY <1>18, <4>2, <4>3
    <3>3. QED
      BY <3>1, <3>2
  <2>3. QED
    BY <2>1, <2>2
<1>20. ASSUME NEW x \in ClientIds, Nowhere(toQueue, fromQueue, x)'
       PROVE  Nowhere(toQueue, fromQueue, x)
  <2>1. SUFFICES ASSUME NEW p, At(toQueue, fromQueue, p, x) PROVE FALSE
    BY DEF Nowhere
  <2>2. ~At(toQueue, fromQueue, p, x)' /\ ~At(toQueue, fromQueue, dst, x)'
    BY <1>20 DEF Nowhere
  <2>3. x # r[1]
    BY <1>15, <1>17, <2>2 DEF At
  <2>4. QED
    BY <1>16, <1>18, <2>1, <2>2, <2>3 DEF At
<1>21. ClientsInv(toQueue, fromQueue)'
  <2>1. Moves(src, dst)
    BY <1>19 DEF Moves
  <2>2. \A c \in Clients : Id(c)' = Id(c)
                            /\ (Id(c) \in connected' <=> Id(c) \in connected)
    BY <1>2, <1>9
  <2>3. QED
    BY <1>1, <1>2, <2>1, <2>2, ClientsKeep
<1>22. CrashesInv(toQueue, fromQueue, worker_queue)'
  <2>1. Gone(toQueue, worker_queue)' \subseteq Gone(toQueue, worker_queue)
    BY <1>2 DEF Gone
  <2>2. ASSUME NEW c \in Clients
        PROVE  cstate'[c] = "waiting" /\ Nowhere(toQueue, fromQueue, Id(c))'
                  => cstate[c] = "waiting" /\ Nowhere(toQueue, fromQueue, Id(c))
    <3>1. Nowhere(toQueue, fromQueue, Id(c))' => Nowhere(toQueue, fromQueue, Id(c))
      <4>1. PICK x \in ClientIds : x = Id(c) /\ x = Id(c)'
        BY <1>1, <1>9, OwnIdentity
      <4>2. Nowhere(toQueue, fromQueue, Id(c))' <=> Nowhere(toQueue, fromQueue, x)'
        BY <4>1 DEF Nowhere
      <4>3. QED
        BY <1>20, <4>1, <4>2
    <3>2. QED
      BY <1>2, <3>1
  <2>3. QED
    BY <1>1, <1>2, <1>11, <2>1, <2>2, CrashesStay
<1>23. OverflowExplained'
  <2>1. Running' = Running
    <3>1. \A v \in Workers : wstate'[v] # "off" <=> wstate[v] # "off"
      BY <1>2, <1>8
    <3>2. QED
      BY <3>1 DEF Running
  <2>2. /\ Cardinality(Running) \in Nat /\ crashes \in Nat
    BY <1>1, RunningFinite, PirateAssumption DEF Types
  <2>3. Cardinality(Running) + crashes <= Cardinality(Running') + crashes'
    BY <1>2, <2>1, <2>2
  <2>4. QED
    BY <1>1, <1>2, <1>11, <2>3, OverflowKeeps
<1>24. QED
  BY <1>11, <1>12, <1>13, <1>14, <1>21, <1>22, <1>23 DEF IInv, FlowInv

\* A worker that replies keeps the invariant: the request leaves its hands
\* for the queue of its socket (spworker.cpp).
LEMMA WorkerRepliesInv ==
    ASSUME IInv, NEW w \in Workers, WorkerReplies(w),
           UNCHANGED <<worker_queue, lost, orphans>>
    PROVE  IInv'
<1>1. /\ Types /\ Hands /\ Forms(toQueue, fromQueue) /\ OverflowExplained
      /\ WorkersInv(toQueue, fromQueue, worker_queue)
      /\ ClientsInv(toQueue, fromQueue)
      /\ CrashesInv(toQueue, fromQueue, worker_queue)
  BY DEF IInv, FlowInv
<1>2. /\ wstate[w] = "working"
      /\ toQueue' = [toQueue EXCEPT ![Id(w)] = Append(@, <<Empty>> \o send(request[w]))]
      /\ executed' = executed \union {<<request[w][1].of, request[w][3].n>>}
      /\ request' = [request EXCEPT ![w] = <<>>]
      /\ wstate' = [wstate EXCEPT ![w] = "polling"]
      /\ qstate' = qstate /\ session' = session /\ connected' = connected
      /\ fromQueue' = fromQueue /\ crashes' = crashes
      /\ worker_queue' = worker_queue /\ lost' = lost /\ orphans' = orphans
      /\ UNCHANGED clientVars
      /\ cstate' = cstate /\ sequence' = sequence /\ retries_left' = retries_left
  BY DEF WorkerReplies, JobDone, Sends, clientVars
<1>3. PICK i : i = Id(w)
  OBVIOUS
<1>4. i \in WorkerIds /\ i \in Ids /\ i \notin ClientIds /\ i.of = w
  BY <1>1, <1>3, OwnIdentity, Identities DEF Peers
<1>5. PICK r \in Made : request[w] = Enveloped(r[1], r[2])
  BY <1>1, <1>2 DEF Hands
<1>6. r[1] \in ClientIds /\ r[2] \in 1 .. MaxCalls
  BY MadeType
<1>7. Working(i) /\ toQueue[i] = <<>> /\ fromQueue[i] = <<>> /\ i \notin Members(worker_queue)
  <2>1. Working(i)
    BY <1>2, <1>3, <1>4 DEF Working
  <2>2. QED
    BY <1>1, <1>4, <2>1 DEF WorkersInv
<1>8. /\ DOMAIN toQueue' = Ids /\ toQueue' = [id \in Ids |-> toQueue'[id]]
      /\ toQueue'[i] = <<Wrapped(r[1], r[2])>> /\ toQueue'[i] # <<>>
      /\ \A id \in Ids : id # i => toQueue'[id] = toQueue[id]
  <2>1. <<Empty>> \o send(request[w]) = Wrapped(r[1], r[2])
    BY <1>5, <1>6, WorkerHandles
  <2>2. PICK m : m = Wrapped(r[1], r[2])
    OBVIOUS
  <2>3. toQueue' = [toQueue EXCEPT ![i] = Append(toQueue[i], m)]
    BY <1>2, <1>3, <2>1, <2>2
  <2>4. Append(toQueue[i], m) = <<m>> /\ <<m>> # <<>>
    BY <1>7, OneMessage
  <2>5. toQueue' = [toQueue EXCEPT ![i] = <<m>>]
    BY <2>3, <2>4
  <2>6. DOMAIN toQueue = Ids /\ toQueue = [id \in Ids |-> toQueue[id]]
    BY <1>1 DEF Forms
  <2>7. toQueue'[i] = <<m>> /\ DOMAIN toQueue' = Ids
        /\ \A id \in Ids : id # i => toQueue'[id] = toQueue[id]
    BY <1>4, <2>5, <2>6
  <2>8. toQueue' = [id \in Ids |-> toQueue'[id]]
    BY <2>5, <2>6
  <2>9. QED
    BY <2>2, <2>4, <2>7, <2>8
<1>9. /\ DOMAIN request' = Workers /\ request' = [v \in Workers |-> request'[v]]
      /\ request'[w] = <<>>
      /\ \A v \in Workers : v # w => request'[v] = request[v]
      /\ wstate' \in [Workers -> {"off", "polling", "working"}]
      /\ wstate'[w] = "polling"
      /\ \A v \in Workers : v # w => wstate'[v] = wstate[v]
  <2>1. DOMAIN request = Workers /\ request = [v \in Workers |-> request[v]]
    BY <1>1 DEF Hands
  <2>2. wstate \in [Workers -> {"off", "polling", "working"}]
    BY <1>1 DEF Types
  <2>3. QED
    BY <1>2, <2>1, <2>2
<1>10. /\ Made' = Made /\ \A p : Id(p)' = Id(p)
       /\ executed' = executed \union {<<r[1].of, r[2]>>}
  <2>1. request[w][1].of = r[1].of /\ request[w][3].n = r[2]
    BY <1>5, <1>6, WorkerHandles
  <2>2. QED
    BY <1>2, <2>1 DEF Made, Id
<1>11. Done \subseteq Done' /\ r \in Done'
  BY <1>10 DEF Done
<1>12. \A id \in WorkerIds : Working(id)' <=> (Working(id) /\ id # i)
  <2>1. ASSUME NEW id \in WorkerIds PROVE Working(id)' <=> (Working(id) /\ id # i)
    <3>1. CASE id.of = w
      BY <1>2, <1>3, <1>9, <1>10, <3>1 DEF Working
    <3>2. CASE id.of # w
      BY <1>4, <1>9, <1>10, <3>2, Identities DEF Working
    <3>3. QED
      BY <3>1, <3>2
  <2>2. QED
    BY <2>1
<1>13. Types'
  <2>1. executed' \subseteq Clients \X Nat
    <3>1. r[1].of \in Clients /\ r[2] \in Nat
      BY <1>6, Identities
    <3>2. executed \subseteq Clients \X Nat
      BY <1>1 DEF Types
    <3>3. QED
      BY <1>10, <3>1, <3>2
  <2>2. QED
    BY <1>1, <1>2, <1>9, <1>10, <2>1 DEF Types
<1>14. Hands'
  BY <1>1, <1>9, <1>10 DEF Hands
<1>15. Forms(toQueue, fromQueue)'
  <2>1. ASSUME NEW id \in WorkerIds
        PROVE  Offer(toQueue'[id], Done') /\ Task(fromQueue'[id], Made')
    <3>1. Offer(toQueue[id], Done) /\ Task(fromQueue[id], Made)
      BY <1>1 DEF Forms
    <3>2. Offer(toQueue[id], Done')
      BY <1>11, <3>1 DEF Offer
    <3>3. Offer(toQueue'[i], Done')
      BY <1>8, <1>11 DEF Offer
    <3>4. toQueue'[id] = toQueue[id] \/ id = i
      BY <1>8 DEF Ids
    <3>5. QED
      BY <1>2, <1>10, <3>1, <3>2, <3>3, <3>4
  <2>2. ASSUME NEW x \in ClientIds
        PROVE  Call(x, toQueue'[x], Made') /\ Answer(x, fromQueue'[x], Done')
    <3>1. Call(x, toQueue[x], Made) /\ Answer(x, fromQueue[x], Done)
      BY <1>1 DEF Forms
    <3>2. toQueue'[x] = toQueue[x]
      BY <1>4, <1>8 DEF Ids
    <3>3. Answer(x, fromQueue[x], Done')
      BY <1>11, <3>1 DEF Answer
    <3>4. QED
      BY <1>2, <1>10, <3>1, <3>2, <3>3
  <2>3. /\ \A id \in Ids : fromQueue'[id] # <<>> => id \in connected'
        /\ DOMAIN fromQueue' = Ids /\ fromQueue' = [id \in Ids |-> fromQueue'[id]]
    BY <1>1, <1>2 DEF Forms
  <2>4. QED
    BY <1>8, <2>1, <2>2, <2>3 DEF Forms
<1>16. WorkersInv(toQueue, fromQueue, worker_queue)'
  <2>1. ASSUME NEW id \in WorkerIds
        PROVE  /\ id \in Members(worker_queue') =>
                    toQueue'[id] = <<>> /\ fromQueue'[id] = <<>> /\ ~Working(id)'
               /\ toQueue'[id] # <<>> => fromQueue'[id] = <<>> /\ ~Working(id)'
               /\ fromQueue'[id] # <<>> => ~Working(id)'
               /\ id.n > session'[id.of] =>
                    id \notin Members(worker_queue') /\ toQueue'[id] = <<>>
    <3>1. /\ id \in Members(worker_queue) =>
                    toQueue[id] = <<>> /\ fromQueue[id] = <<>> /\ ~Working(id)
          /\ toQueue[id] # <<>> => fromQueue[id] = <<>> /\ ~Working(id)
          /\ fromQueue[id] # <<>> => ~Working(id)
          /\ id.n > session[id.of] =>
                    id \notin Members(worker_queue) /\ toQueue[id] = <<>>
      BY <1>1 DEF WorkersInv
    <3>2. id # i => toQueue'[id] = toQueue[id]
      BY <1>8 DEF Ids
    <3>3. ~(i.n > session[i.of])
      <4>1. i.n = session[w] /\ session[w] \in Nat
        BY <1>1, <1>3, OwnIdentity DEF Types, Peers
      <4>2. QED
        BY <1>4, <4>1
    <3>4. CASE id = i
      BY <1>2, <1>7, <1>12, <3>3, <3>4
    <3>5. CASE id # i
      BY <1>2, <1>12, <3>1, <3>2, <3>5
    <3>6. QED
      BY <3>4, <3>5
  <2>2. ASSUME NEW v \in Workers
        PROVE  /\ wstate'[v] = "off" <=> Id(v)' \notin connected'
               /\ wstate'[v] = "polling" /\ toQueue'[Id(v)'] = <<>>
                  /\ fromQueue'[Id(v)'] = <<>>
                     => Id(v)' \in Members(worker_queue') \union orphans'
    <3>1. /\ wstate[v] = "off" <=> Id(v) \notin connected
          /\ wstate[v] = "polling" /\ toQueue[Id(v)] = <<>> /\ fromQueue[Id(v)] = <<>>
                => Id(v) \in Members(worker_queue) \union orphans
      BY <1>1 DEF WorkersInv
    <3>2. Id(v)' = Id(v)
      BY <1>10
    <3>3. CASE v = w
      BY <1>2, <1>3, <1>8, <1>9, <3>1, <3>2, <3>3
    <3>4. CASE v # w
      <4>1. Id(v) # i /\ Id(v) \in Ids
        BY <1>1, <1>3, <3>4, OwnIdentity DEF Peers
      <4>2. QED
        BY <1>2, <1>8, <1>9, <3>1, <3>2, <3>4, <4>1
    <3>5. QED
      BY <3>3, <3>4
  <2>3. QED
    BY <1>1, <1>2, <2>1, <2>2 DEF WorkersInv
<1>17. PICK src, dst : src = <<"held", w>> /\ dst = <<"replied", i>>
  OBVIOUS
<1>18. \A x \in ClientIds : Holds(w, x) <=> x = r[1]
  BY <1>5, <1>6, Distinct DEF Holds
<1>19. \A x \in ClientIds : Carries(toQueue'[i], x) <=> x = r[1]
  BY <1>6, <1>8, CarriesOne
<1>20. ASSUME NEW x \in ClientIds
       PROVE  /\ \A v \in Workers : v # w => (Holds(v, x)' <=> Holds(v, x))
              /\ ~Holds(w, x)' /\ ~Carries(toQueue[i], x)
              /\ fromQueue'[x] = fromQueue[x] /\ toQueue'[x] = toQueue[x]
              /\ \A id \in WorkerIds : fromQueue'[id] = fromQueue[id]
              /\ \A id \in WorkerIds : id # i => toQueue'[id] = toQueue[id]
  <2>1. \A v \in Workers : v # w => (Holds(v, x)' <=> Holds(v, x))
    BY <1>9 DEF Holds
  <2>2. ~Holds(w, x)'
    <3>1. \A n : Enveloped(x, n) # <<>>
      BY Distinct
    <3>2. QED
      BY <1>9, <3>1 DEF Holds
  <2>3. ~Carries(toQueue[i], x)
    BY <1>7, CarriesOne
  <2>4. QED
    BY <1>2, <1>4, <1>8, <2>1, <2>2, <2>3 DEF Ids
<1>21. ASSUME NEW x \in ClientIds, NEW p, At(toQueue, fromQueue, p, x)'
       PROVE  \/ At(toQueue, fromQueue, p, x) /\ p # src
              \/ At(toQueue, fromQueue, src, x) /\ p = dst
  <2>1. CASE p = <<"replied", i>> /\ Carries(toQueue'[i], x)
    BY <1>17, <1>18, <1>19, <2>1 DEF At
  <2>2. CASE ~(p = <<"replied", i>> /\ Carries(toQueue'[i], x))
    <3>1. At(toQueue, fromQueue, p, x)
      BY <1>20, <1>21, <2>2 DEF At
    <3>2. p # src
      <4>1. SUFFICES ASSUME p = src PROVE FALSE
        OBVIOUS
      <4>2. PICK v \in Workers : p = <<"held", v>> /\ Holds(v, x)'
        BY <1>17, <1>21, <4>1 DEF At
      <4>3. v = w
        BY <1>17, <4>1, <4>2
      <4>4. QED
        BY <1>20, <4>2, <4>3
    <3>3. QED
      BY <3>1, <3>2
  <2>3. QED
    BY <2>1, <2>2
<1>22. ASSUME NEW x \in ClientIds, Nowhere(toQueue, fromQueue, x)'
       PROVE  Nowhere(toQueue, fromQueue, x)
  <2>1. SUFFICES ASSUME NEW p, At(toQueue, fromQueue, p, x) PROVE FALSE
    BY DEF Nowhere
  <2>2. ~At(toQueue, fromQueue, p, x)' /\ ~At(toQueue, fromQueue, dst, x)'
    BY <1>22 DEF Nowhere
  <2>3. x # r[1]
    BY <1>4, <1>17, <1>19, <2>2 DEF At
  <2>4. QED
    BY <1>18, <1>20, <2>1, <2>2, <2>3 DEF At
<1>23. ClientsInv(toQueue, fromQueue)'
  <2>1. Moves(src, dst)
    BY <1>21 DEF Moves
  <2>2. \A c \in Clients : Id(c)' = Id(c)
                            /\ (Id(c) \in connected' <=> Id(c) \in connected)
    BY <1>2, <1>10
  <2>3. QED
    BY <1>1, <1>2, <2>1, <2>2, ClientsKeep
<1>24. CrashesInv(toQueue, fromQueue, worker_queue)'
  <2>1. Gone(toQueue, worker_queue)' \subseteq Gone(toQueue, worker_queue)
    <3>1. i \in connected
      BY <1>1, <1>2, <1>3 DEF WorkersInv
    <3>2. \A id \in WorkerIds : id # i => toQueue'[id] = toQueue[id]
      BY <1>8 DEF Ids
    <3>3. QED
      BY <1>2, <3>1, <3>2 DEF Gone
  <2>2. ASSUME NEW c \in Clients
        PROVE  cstate'[c] = "waiting" /\ Nowhere(toQueue, fromQueue, Id(c))'
                  => cstate[c] = "waiting" /\ Nowhere(toQueue, fromQueue, Id(c))
    <3>1. Nowhere(toQueue, fromQueue, Id(c))' => Nowhere(toQueue, fromQueue, Id(c))
      <4>1. PICK x \in ClientIds : x = Id(c) /\ x = Id(c)'
        BY <1>1, <1>10, OwnIdentity
      <4>2. Nowhere(toQueue, fromQueue, Id(c))' <=> Nowhere(toQueue, fromQueue, x)'
        BY <4>1 DEF Nowhere
      <4>3. QED
        BY <1>22, <4>1, <4>2
    <3>2. QED
      BY <1>2, <3>1
  <2>3. QED
    BY <1>1, <1>2, <1>13, <2>1, <2>2, CrashesStay
<1>25. OverflowExplained'
  <2>1. Running' = Running
    <3>1. \A v \in Workers : wstate'[v] # "off" <=> wstate[v] # "off"
      BY <1>2, <1>9
    <3>2. QED
      BY <3>1 DEF Running
  <2>2. /\ Cardinality(Running) \in Nat /\ crashes \in Nat
    BY <1>1, RunningFinite, PirateAssumption DEF Types
  <2>3. Cardinality(Running) + crashes <= Cardinality(Running') + crashes'
    BY <1>2, <2>1, <2>2
  <2>4. QED
    BY <1>1, <1>2, <1>13, <2>3, OverflowKeeps
<1>26. QED
  BY <1>13, <1>14, <1>15, <1>16, <1>23, <1>24, <1>25 DEF IInv, FlowInv

-----------------------------------------------------------------------------
(* The clients.                                                            *)

\* What the clients do leaves the workers alone.
LEMMA WorkersStay ==
    ASSUME Types, WorkersInv(toQueue, fromQueue, worker_queue),
           wstate' = wstate, orphans' = orphans, worker_queue' = worker_queue,
           \A w \in Workers : session'[w] = session[w]
                              /\ (Id(w) \in connected' <=> Id(w) \in connected),
           \A id \in WorkerIds : toQueue'[id] = toQueue[id] /\ fromQueue'[id] = fromQueue[id]
    PROVE  /\ WorkersInv(toQueue, fromQueue, worker_queue)'
           /\ \A w \in Workers : Id(w)' = Id(w)
<1>1. \A w \in Workers : Id(w)' = Id(w) /\ Id(w) \in WorkerIds
  BY OwnIdentity DEF Id
<1>2. \A id \in WorkerIds : Working(id)' <=> Working(id)
  BY <1>1, Identities DEF Working
<1>3. ASSUME NEW id \in WorkerIds
      PROVE  /\ id \in Members(worker_queue') =>
                    toQueue'[id] = <<>> /\ fromQueue'[id] = <<>> /\ ~Working(id)'
             /\ toQueue'[id] # <<>> => fromQueue'[id] = <<>> /\ ~Working(id)'
             /\ fromQueue'[id] # <<>> => ~Working(id)'
             /\ id.n > session'[id.of] =>
                    id \notin Members(worker_queue') /\ toQueue'[id] = <<>>
  <2>1. /\ id \in Members(worker_queue) =>
                    toQueue[id] = <<>> /\ fromQueue[id] = <<>> /\ ~Working(id)
        /\ toQueue[id] # <<>> => fromQueue[id] = <<>> /\ ~Working(id)
        /\ fromQueue[id] # <<>> => ~Working(id)
        /\ id.n > session[id.of] =>
                    id \notin Members(worker_queue) /\ toQueue[id] = <<>>
    BY DEF WorkersInv
  <2>2. session'[id.of] = session[id.of]
    BY Identities
  <2>3. QED
    BY <1>2, <2>1, <2>2
<1>4. ASSUME NEW v \in Workers
      PROVE  /\ wstate'[v] = "off" <=> Id(v)' \notin connected'
             /\ wstate'[v] = "polling" /\ toQueue'[Id(v)'] = <<>>
                /\ fromQueue'[Id(v)'] = <<>>
                   => Id(v)' \in Members(worker_queue') \union orphans'
  <2>1. /\ wstate[v] = "off" <=> Id(v) \notin connected
        /\ wstate[v] = "polling" /\ toQueue[Id(v)] = <<>> /\ fromQueue[Id(v)] = <<>>
              => Id(v) \in Members(worker_queue) \union orphans
    BY DEF WorkersInv
  <2>2. QED
    BY <1>1, <2>1
<1>5. QED
  BY <1>1, <1>3, <1>4 DEF WorkersInv

\* A call puts the request of a socket that has none under way (lpclient.cpp).
LEMMA ClientCallsInv ==
    ASSUME IInv, NEW c \in Clients, ClientCalls(c),
           UNCHANGED <<worker_queue, lost, orphans>>
    PROVE  IInv'
<1>1. /\ Types /\ Hands /\ Forms(toQueue, fromQueue) /\ OverflowExplained
      /\ WorkersInv(toQueue, fromQueue, worker_queue)
      /\ ClientsInv(toQueue, fromQueue)
      /\ CrashesInv(toQueue, fromQueue, worker_queue)
  BY DEF IInv, FlowInv
<1>2. /\ cstate[c] = "ready" /\ sequence[c] < MaxCalls
      /\ sequence' = [sequence EXCEPT ![c] = @ + 1]
      /\ cstate' = [cstate EXCEPT ![c] = "waiting"]
      /\ toQueue' = [toQueue EXCEPT ![Id(c)] = Append(@, Request(sequence[c] + 1))]
      /\ qstate' = qstate /\ session' = session /\ connected' = connected
      /\ fromQueue' = fromQueue /\ retries_left' = retries_left
      /\ wstate' = wstate /\ request' = request /\ executed' = executed
      /\ crashes' = crashes
      /\ worker_queue' = worker_queue /\ lost' = lost /\ orphans' = orphans
  BY DEF ClientCalls, Sends, jobs
<1>3. PICK y, n : y = Id(c) /\ n = sequence[c] + 1
  OBVIOUS
<1>4. /\ y \in ClientIds /\ y \in Ids /\ y \notin WorkerIds
      /\ y.of = c /\ y.n = session[c] /\ session[c] \in Nat \ {0}
  BY <1>1, <1>3, OwnIdentity, Identities DEF Peers, Types
<1>5. Nowhere(toQueue, fromQueue, y)
  BY <1>1, <1>2, <1>3 DEF ClientsInv
<1>6. toQueue[y] = <<>> /\ fromQueue[y] = <<>>
  BY <1>5 DEF Nowhere, At
<1>7. /\ sequence' \in [Clients -> 0 .. MaxCalls] /\ sequence'[c] = n
      /\ n \in 1 .. MaxCalls
      /\ \A d \in Clients : d # c => sequence'[d] = sequence[d]
      /\ cstate' \in [Clients -> {"ready", "waiting", "abandoned"}]
      /\ cstate'[c] = "waiting"
      /\ \A d \in Clients : d # c => cstate'[d] = cstate[d]
  <2>1. sequence \in [Clients -> 0 .. MaxCalls] /\ MaxCalls \in Nat
    BY <1>1, PirateAssumption DEF Types
  <2>2. cstate \in [Clients -> {"ready", "waiting", "abandoned"}]
    BY <1>1 DEF Types
  <2>3. n \in 1 .. MaxCalls /\ n \in 0 .. MaxCalls
    BY <1>2, <1>3, <2>1
  <2>4. sequence' = [sequence EXCEPT ![c] = n]
    BY <1>2, <1>3
  <2>5. QED
    BY <1>2, <2>1, <2>2, <2>3, <2>4
<1>8. /\ DOMAIN toQueue' = Ids /\ toQueue' = [id \in Ids |-> toQueue'[id]]
      /\ toQueue'[y] = <<Request(n)>> /\ toQueue'[y] # <<>>
      /\ \A id \in Ids : id # y => toQueue'[id] = toQueue[id]
  <2>1. PICK m : m = Request(n)
    OBVIOUS
  <2>2. toQueue' = [toQueue EXCEPT ![y] = Append(toQueue[y], m)]
    BY <1>2, <1>3, <2>1
  <2>3. Append(toQueue[y], m) = <<m>> /\ <<m>> # <<>>
    BY <1>6, OneMessage
  <2>4. toQueue' = [toQueue EXCEPT ![y] = <<m>>]
    BY <2>2, <2>3
  <2>5. DOMAIN toQueue = Ids /\ toQueue = [id \in Ids |-> toQueue[id]]
    BY <1>1 DEF Forms
  <2>6. toQueue'[y] = <<m>> /\ DOMAIN toQueue' = Ids
        /\ \A id \in Ids : id # y => toQueue'[id] = toQueue[id]
    BY <1>4, <2>4, <2>5
  <2>7. toQueue' = [id \in Ids |-> toQueue'[id]]
    BY <2>4, <2>5
  <2>8. QED
    BY <2>1, <2>3, <2>6, <2>7
<1>9. \A p : Id(p)' = Id(p)
  BY <1>2 DEF Id
<1>10. ASSUME NEW r \in Made, r[1] # y
       PROVE  /\ r \in Made' /\ (r \in Done => r \in Done')
  <2>1. r[1] \in ClientIds /\ r[1].of \in Clients /\ r[1].n \in Nat
        /\ r[1] = Identity(r[1].of, r[1].n)
    BY MadeType, Identities DEF Ids
  <2>2. CASE r[1].of = c
    <3>1. r[1].n # session[c]
      BY <1>3, <1>10, <2>1, <2>2 DEF Id
    <3>2. r[2] <= sequence'[c]
      <4>1. r[2] <= sequence[c] /\ r[2] \in Nat /\ sequence[c] \in Nat
        BY <1>1, <2>2, MadeType, PirateAssumption DEF Made, Types
      <4>2. QED
        BY <1>3, <1>7, <4>1
    <3>3. QED
      BY <1>2, <2>2, <3>1, <3>2 DEF Made, Done
  <2>3. CASE r[1].of # c
    BY <1>2, <1>7, <2>1, <2>3 DEF Made, Done
  <2>4. QED
    BY <2>2, <2>3
<1>11. <<y, n>> \in Made'
  <2>1. n \in Nat /\ n <= n /\ y.n \in 1 .. session[c]
    BY <1>4, <1>7
  <2>2. <<y, n>> \in ClientIds \X (1 .. MaxCalls)
    BY <1>4, <1>7
  <2>3. QED
    BY <1>2, <1>4, <1>7, <2>1, <2>2 DEF Made
<1>12. /\ \A w \in Workers : ~Holds(w, y)
       /\ \A id \in WorkerIds : ~Carries(toQueue[id], y) /\ ~Carries(fromQueue[id], y)
  BY <1>5 DEF Nowhere, At
<1>13. Types'
  BY <1>1, <1>2, <1>7, <1>9 DEF Types
<1>14. Hands'
  <2>1. ASSUME NEW w \in Workers
        PROVE  IF wstate'[w] = "working"
               THEN \E r \in Made' : request'[w] = Enveloped(r[1], r[2])
               ELSE request'[w] = <<>>
    <3>1. CASE wstate[w] = "working"
      <4>1. PICK r \in Made : request[w] = Enveloped(r[1], r[2])
        BY <1>1, <3>1 DEF Hands
      <4>2. r[2] \in 1 .. MaxCalls
        BY MadeType
      <4>3. r[1] # y
        BY <1>12, <4>1, <4>2 DEF Holds
      <4>4. QED
        BY <1>2, <1>10, <3>1, <4>1, <4>3
    <3>2. CASE wstate[w] # "working"
      BY <1>1, <1>2, <3>2 DEF Hands
    <3>3. QED
      BY <3>1, <3>2
  <2>2. QED
    BY <1>1, <1>2, <2>1 DEF Hands
<1>15. Forms(toQueue, fromQueue)'
  <2>1. ASSUME NEW id \in WorkerIds
        PROVE  Offer(toQueue'[id], Done') /\ Task(fromQueue'[id], Made')
    <3>1. Offer(toQueue[id], Done) /\ Task(fromQueue[id], Made)
      BY <1>1 DEF Forms
    <3>2. toQueue'[id] = toQueue[id] /\ fromQueue'[id] = fromQueue[id]
      BY <1>2, <1>4, <1>8 DEF Ids
    <3>3. ASSUME NEW q, NEW r \in Made, q = <<Wrapped(r[1], r[2])>>, ~Carries(q, y)
          PROVE  r[1] # y
      BY <3>3, MadeType, CarriesOne
    <3>4. Offer(toQueue[id], Done')
      <4>1. CASE toQueue[id] \in {<<>>, <<Greeting>>}
        BY <4>1 DEF Offer
      <4>2. ASSUME NEW r \in Done, toQueue[id] = <<Wrapped(r[1], r[2])>>
            PROVE  Offer(toQueue[id], Done')
        <5>1. r \in Made
          BY DEF Done
        <5>2. r[1] # y
          BY <1>12, <3>3, <4>2, <5>1
        <5>3. QED
          BY <1>10, <4>2, <5>1, <5>2 DEF Offer
      <4>3. QED
        BY <3>1, <4>1, <4>2 DEF Offer
    <3>5. Task(fromQueue[id], Made')
      <4>1. CASE fromQueue[id] = <<>>
        BY <4>1 DEF Task
      <4>2. ASSUME NEW r \in Made, fromQueue[id] = <<Wrapped(r[1], r[2])>>
            PROVE  Task(fromQueue[id], Made')
        <5>1. r[1] # y
          BY <1>12, <3>3, <4>2
        <5>2. QED
          BY <1>10, <4>2, <5>1 DEF Task
      <4>3. QED
        BY <3>1, <4>1, <4>2 DEF Task
    <3>6. QED
      BY <3>2, <3>4, <3>5
  <2>2. ASSUME NEW x \in ClientIds
        PROVE  Call(x, toQueue'[x], Made') /\ Answer(x, fromQueue'[x], Done')
    <3>1. CASE x = y
      <4>1. PICK r : r = <<y, n>>
        OBVIOUS
      <4>2. Call(x, toQueue'[x], Made')
        <5>1. r[1] = y /\ r[2] = n /\ r \in Made'
          BY <1>11, <4>1
        <5>2. QED
          BY <1>8, <3>1, <5>1 DEF Call
      <4>3. QED
        BY <1>2, <1>6, <3>1, <4>2 DEF Answer
    <3>2. CASE x # y
      <4>1. Call(x, toQueue[x], Made) /\ Answer(x, fromQueue[x], Done)
        BY <1>1 DEF Forms
      <4>2. toQueue'[x] = toQueue[x] /\ fromQueue'[x] = fromQueue[x]
        BY <1>2, <1>8, <3>2 DEF Ids
      <4>3. Call(x, toQueue[x], Made')
        BY <1>10, <3>2, <4>1 DEF Call
      <4>4. Answer(x, fromQueue[x], Done')
        <5>1. \A r \in Done : r \in Made
          BY DEF Done
        <5>2. QED
          BY <1>10, <3>2, <4>1, <5>1 DEF Answer
      <4>5. QED
        BY <4>2, <4>3, <4>4
    <3>3. QED
      BY <3>1, <3>2
  <2>3. /\ \A id \in Ids : fromQueue'[id] # <<>> => id \in connected'
        /\ DOMAIN fromQueue' = Ids /\ fromQueue' = [id \in Ids |-> fromQueue'[id]]
    BY <1>1, <1>2 DEF Forms
  <2>4. QED
    BY <1>8, <2>1, <2>2, <2>3 DEF Forms
<1>16. /\ \A id \in WorkerIds : toQueue'[id] = toQueue[id]
                                /\ fromQueue'[id] = fromQueue[id]
       /\ \A w, x : Holds(w, x)' <=> Holds(w, x)
       /\ \A x \in ClientIds : x # y => toQueue'[x] = toQueue[x]
  BY <1>2, <1>4, <1>8 DEF Ids, Holds
<1>17. WorkersInv(toQueue, fromQueue, worker_queue)'
  BY <1>1, <1>2, <1>16, WorkersStay
<1>18. ASSUME NEW x \in ClientIds, x # y, NEW p
       PROVE  At(toQueue, fromQueue, p, x)' <=> At(toQueue, fromQueue, p, x)
  BY <1>2, <1>16, <1>18 DEF At
<1>19. ASSUME NEW p
       PROVE  At(toQueue, fromQueue, p, y)' <=> p = <<"called", y>>
  <2>1. /\ \A w \in Workers : ~Holds(w, y)'
        /\ \A id \in WorkerIds : ~Carries(toQueue'[id], y) /\ ~Carries(fromQueue'[id], y)
        /\ fromQueue'[y] = <<>> /\ toQueue'[y] # <<>>
    BY <1>2, <1>6, <1>8, <1>12, <1>16
  <2>2. QED
    BY <2>1 DEF At
<1>20. ClientsInv(toQueue, fromQueue)'
  <2>1. ASSUME NEW x \in ClientIds, NEW p, NEW q,
               At(toQueue, fromQueue, p, x)', At(toQueue, fromQueue, q, x)'
        PROVE  p = q
    <3>1. CASE x = y
      BY <1>19, <2>1, <3>1
    <3>2. CASE x # y
      <4>1. At(toQueue, fromQueue, p, x) /\ At(toQueue, fromQueue, q, x)
        BY <1>18, <2>1, <3>2
      <4>2. QED
        BY <1>1, <4>1 DEF ClientsInv
    <3>3. QED
      BY <3>1, <3>2
  <2>2. ASSUME NEW d \in Clients
        PROVE  /\ cstate'[d] = "abandoned" <=> Id(d)' \notin connected'
               /\ cstate'[d] = "ready" => Nowhere(toQueue, fromQueue, Id(d))'
               /\ cstate'[d] = "waiting" => sequence'[d] > 0
               /\ cstate'[d] # "abandoned" => retries_left'[d] > 0
    <3>1. /\ cstate[d] = "abandoned" <=> Id(d) \notin connected
          /\ cstate[d] = "ready" => Nowhere(toQueue, fromQueue, Id(d))
          /\ cstate[d] = "waiting" => sequence[d] > 0
          /\ cstate[d] # "abandoned" => retries_left[d] > 0
      BY <1>1 DEF ClientsInv
    <3>2. CASE d = c
      <4>1. sequence'[d] > 0
        BY <1>7, <3>2
      <4>2. QED
        BY <1>2, <1>7, <1>9, <3>1, <3>2, <4>1
    <3>3. CASE d # c
      <4>1. Id(d) \in ClientIds /\ Id(d) # y
        BY <1>1, <1>4, <3>3, OwnIdentity DEF Peers
      <4>2. Nowhere(toQueue, fromQueue, Id(d)) => Nowhere(toQueue, fromQueue, Id(d))'
        BY <1>9, <1>18, <4>1 DEF Nowhere
      <4>3. QED
        BY <1>2, <1>7, <1>9, <3>1, <3>3, <4>2
    <3>4. QED
      BY <3>2, <3>3
  <2>3. QED
    BY <2>1, <2>2 DEF ClientsInv
<1>21. CrashesInv(toQueue, fromQueue, worker_queue)'
  <2>1. Gone(toQueue, worker_queue)' \subseteq Gone(toQueue, worker_queue)
    BY <1>2, <1>16 DEF Gone
  <2>2. ASSUME NEW d \in Clients
        PROVE  cstate'[d] = "waiting" /\ Nowhere(toQueue, fromQueue, Id(d))'
                  => cstate[d] = "waiting" /\ Nowhere(toQueue, fromQueue, Id(d))
    <3>1. CASE d = c
      <4>1. ~Nowhere(toQueue, fromQueue, Id(d))'
        BY <1>3, <1>9, <1>19, <3>1 DEF Nowhere
      <4>2. QED
        BY <4>1
    <3>2. CASE d # c
      <4>1. Id(d) \in ClientIds /\ Id(d) # y
        BY <1>1, <1>4, <3>2, OwnIdentity DEF Peers
      <4>2. Nowhere(toQueue, fromQueue, Id(d))' => Nowhere(toQueue, fromQueue, Id(d))
        BY <1>9, <1>18, <4>1 DEF Nowhere
      <4>3. QED
        BY <1>7, <3>2, <4>2
    <3>3. QED
      BY <3>1, <3>2
  <2>3. QED
    BY <1>1, <1>2, <1>13, <2>1, <2>2, CrashesStay
<1>22. OverflowExplained'
  BY <1>1, <1>2 DEF OverflowExplained
<1>23. QED
  BY <1>13, <1>14, <1>15, <1>17, <1>20, <1>21, <1>22 DEF IInv, FlowInv

\* A reply on the socket of client c is the one it waits for.
LEMMA ReplyMatches ==
    ASSUME Types, Forms(toQueue, fromQueue), ClientsInv(toQueue, fromQueue),
           NEW c \in Clients, fromQueue[Id(c)] # <<>>
    PROVE  /\ fromQueue[Id(c)] = <<Request(sequence[c])>>
           /\ <<c, sequence[c]>> \in executed /\ cstate[c] = "waiting"
<1>1. PICK y : y = Id(c)
  OBVIOUS
<1>2. y \in ClientIds /\ y \in Ids /\ y.of = c /\ y.n = session[c]
  BY <1>1, OwnIdentity DEF Peers
<1>3. PICK r \in Done : y = r[1] /\ fromQueue[y] = <<Request(r[2])>>
  BY <1>1, <1>2 DEF Forms, Answer
<1>4. r[2] = sequence[c] /\ <<c, r[2]>> \in executed
  BY <1>2, <1>3 DEF Done, Made
<1>5. cstate[c] # "ready"
  <2>1. At(toQueue, fromQueue, <<"answered", y>>, y)
    BY <1>1 DEF At
  <2>2. QED
    BY <1>1, <2>1 DEF ClientsInv, Nowhere
<1>6. cstate[c] # "abandoned"
  BY <1>1, <1>2 DEF Forms, ClientsInv
<1>7. QED
  BY <1>1, <1>3, <1>4, <1>5, <1>6 DEF Types

\* A client that takes a reply is left with a socket without a request.
LEMMA ClientTakesInv ==
    ASSUME IInv, NEW c \in Clients, ClientTakes(c),
           UNCHANGED <<worker_queue, lost, orphans>>
    PROVE  IInv'
<1>1. /\ Types /\ Hands /\ Forms(toQueue, fromQueue) /\ OverflowExplained
      /\ WorkersInv(toQueue, fromQueue, worker_queue)
      /\ ClientsInv(toQueue, fromQueue)
      /\ CrashesInv(toQueue, fromQueue, worker_queue)
  BY DEF IInv, FlowInv
<1>2. PICK y : y = Id(c)
  OBVIOUS
<1>3. y \in ClientIds /\ y \in Ids /\ y \notin WorkerIds /\ y.of = c
  BY <1>1, <1>2, OwnIdentity, Identities DEF Peers
<1>4. fromQueue[y] = <<Request(sequence[c])>> /\ fromQueue[y] # <<>>
  <2>1. fromQueue[Id(c)] # <<>>
    BY DEF ClientTakes
  <2>2. QED
    BY <1>1, <1>2, <2>1, ReplyMatches
<1>5. /\ cstate[c] = "waiting"
      /\ cstate' = [cstate EXCEPT ![c] = "ready"]
      /\ retries_left' = [retries_left EXCEPT ![c] = Retries]
      /\ fromQueue' = [fromQueue EXCEPT ![y] = <<>>]
      /\ qstate' = qstate /\ session' = session /\ connected' = connected
      /\ toQueue' = toQueue /\ sequence' = sequence
      /\ wstate' = wstate /\ request' = request /\ executed' = executed
      /\ crashes' = crashes
      /\ worker_queue' = worker_queue /\ lost' = lost /\ orphans' = orphans
  <2>1. Head(fromQueue[y]) = Request(sequence[c]) /\ Tail(fromQueue[y]) = <<>>
    BY <1>4, OneMessage
  <2>2. QED
    BY <1>2, <2>1 DEF ClientTakes, jobs
<1>6. /\ retries_left' \in [Clients -> 0 .. Retries] /\ retries_left'[c] > 0
      /\ \A d \in Clients : d # c => retries_left'[d] = retries_left[d]
      /\ cstate' \in [Clients -> {"ready", "waiting", "abandoned"}]
      /\ cstate'[c] = "ready"
      /\ \A d \in Clients : d # c => cstate'[d] = cstate[d]
  <2>1. /\ retries_left \in [Clients -> 0 .. Retries] /\ Retries \in 0 .. Retries
        /\ Retries > 0 /\ cstate \in [Clients -> {"ready", "waiting", "abandoned"}]
    BY <1>1, PirateAssumption DEF Types
  <2>2. QED
    BY <1>5, <2>1
<1>7. /\ DOMAIN fromQueue' = Ids /\ fromQueue' = [id \in Ids |-> fromQueue'[id]]
      /\ fromQueue'[y] = <<>>
      /\ \A id \in Ids : id # y => fromQueue'[id] = fromQueue[id]
  BY <1>1, <1>3, <1>5 DEF Forms
<1>8. /\ Made' = Made /\ Done' = Done /\ \A p : Id(p)' = Id(p)
  <2>1. Made' = Made
    BY <1>5 DEF Made
  <2>2. QED
    BY <1>5, <2>1 DEF Done, Id
<1>9. Types'
  BY <1>1, <1>5, <1>6, <1>8 DEF Types
<1>10. Hands'
  BY <1>1, <1>5, <1>8 DEF Hands
<1>11. Forms(toQueue, fromQueue)'
  <2>1. ASSUME NEW id \in WorkerIds
        PROVE  Offer(toQueue'[id], Done') /\ Task(fromQueue'[id], Made')
    BY <1>1, <1>3, <1>5, <1>7, <1>8 DEF Forms, Ids
  <2>2. ASSUME NEW x \in ClientIds
        PROVE  Call(x, toQueue'[x], Made') /\ Answer(x, fromQueue'[x], Done')
    <3>1. Call(x, toQueue[x], Made) /\ Answer(x, fromQueue[x], Done)
      BY <1>1 DEF Forms
    <3>2. fromQueue'[x] = fromQueue[x] \/ fromQueue'[x] = <<>>
      BY <1>7 DEF Ids
    <3>3. QED
      BY <1>5, <1>8, <3>1, <3>2 DEF Answer
  <2>3. \A id \in Ids : fromQueue'[id] # <<>> => id \in connected'
    BY <1>1, <1>5, <1>7 DEF Forms
  <2>4. DOMAIN toQueue' = Ids /\ toQueue' = [id \in Ids |-> toQueue'[id]]
    BY <1>1, <1>5 DEF Forms
  <2>5. QED
    BY <1>7, <2>1, <2>2, <2>3, <2>4 DEF Forms
<1>12. /\ \A id \in WorkerIds : toQueue'[id] = toQueue[id]
                                /\ fromQueue'[id] = fromQueue[id]
       /\ \A w, x : Holds(w, x)' <=> Holds(w, x)
       /\ \A x \in ClientIds : x # y => fromQueue'[x] = fromQueue[x]
  BY <1>3, <1>5, <1>7 DEF Ids, Holds
<1>13. WorkersInv(toQueue, fromQueue, worker_queue)'
  BY <1>1, <1>5, <1>12, WorkersStay
<1>14. ASSUME NEW x \in ClientIds, NEW p, At(toQueue, fromQueue, p, x)'
       PROVE  At(toQueue, fromQueue, p, x) /\ x # y
  <2>1. At(toQueue, fromQueue, p, x)
    BY <1>5, <1>7, <1>12, <1>14 DEF At
  <2>2. CASE x = y
    <3>1. PICK q : q = <<"answered", y>>
      OBVIOUS
    <3>2. At(toQueue, fromQueue, q, y)
      BY <1>4, <3>1 DEF At
    <3>3. p = q
      BY <1>1, <1>3, <2>1, <2>2, <3>2 DEF ClientsInv
    <3>4. ~At(toQueue, fromQueue, q, y)'
      BY <1>7, <3>1 DEF At
    <3>5. QED
      BY <1>14, <2>2, <3>3, <3>4
  <2>3. QED
    BY <2>1, <2>2
<1>15. ASSUME NEW x \in ClientIds, x # y, NEW p
       PROVE  At(toQueue, fromQueue, p, x)' <=> At(toQueue, fromQueue, p, x)
  BY <1>5, <1>12, <1>15 DEF At
<1>16. ClientsInv(toQueue, fromQueue)'
  <2>1. ASSUME NEW x \in ClientIds, NEW p, NEW q,
               At(toQueue, fromQueue, p, x)', At(toQueue, fromQueue, q, x)'
        PROVE  p = q
    <3>1. At(toQueue, fromQueue, p, x) /\ At(toQueue, fromQueue, q, x)
      BY <1>14, <2>1
    <3>2. QED
      BY <1>1, <3>1 DEF ClientsInv
  <2>2. ASSUME NEW d \in Clients
        PROVE  /\ cstate'[d] = "abandoned" <=> Id(d)' \notin connected'
               /\ cstate'[d] = "ready" => Nowhere(toQueue, fromQueue, Id(d))'
               /\ cstate'[d] = "waiting" => sequence'[d] > 0
               /\ cstate'[d] # "abandoned" => retries_left'[d] > 0
    <3>1. /\ cstate[d] = "abandoned" <=> Id(d) \notin connected
          /\ cstate[d] = "ready" => Nowhere(toQueue, fromQueue, Id(d))
          /\ cstate[d] = "waiting" => sequence[d] > 0
          /\ cstate[d] # "abandoned" => retries_left[d] > 0
      BY <1>1 DEF ClientsInv
    <3>2. CASE d = c
      <4>1. Nowhere(toQueue, fromQueue, Id(d))'
        BY <1>2, <1>3, <1>8, <1>14, <3>2 DEF Nowhere
      <4>2. QED
        BY <1>5, <1>6, <1>8, <3>1, <3>2, <4>1
    <3>3. CASE d # c
      <4>1. Id(d) \in ClientIds /\ Id(d) # y
        BY <1>1, <1>3, <3>3, OwnIdentity DEF Peers
      <4>2. Nowhere(toQueue, fromQueue, Id(d)) => Nowhere(toQueue, fromQueue, Id(d))'
        BY <1>8, <1>15, <4>1 DEF Nowhere
      <4>3. QED
        BY <1>5, <1>6, <1>8, <3>1, <3>3, <4>2
    <3>4. QED
      BY <3>2, <3>3
  <2>3. QED
    BY <2>1, <2>2 DEF ClientsInv
<1>17. CrashesInv(toQueue, fromQueue, worker_queue)'
  <2>1. Gone(toQueue, worker_queue)' \subseteq Gone(toQueue, worker_queue)
    BY <1>5 DEF Gone
  <2>2. ASSUME NEW d \in Clients
        PROVE  cstate'[d] = "waiting" /\ Nowhere(toQueue, fromQueue, Id(d))'
                  => cstate[d] = "waiting" /\ Nowhere(toQueue, fromQueue, Id(d))
    <3>1. CASE d = c
      BY <1>6, <3>1
    <3>2. CASE d # c
      <4>1. Id(d) \in ClientIds /\ Id(d) # y
        BY <1>1, <1>3, <3>2, OwnIdentity DEF Peers
      <4>2. Nowhere(toQueue, fromQueue, Id(d))' => Nowhere(toQueue, fromQueue, Id(d))
        BY <1>8, <1>15, <4>1 DEF Nowhere
      <4>3. QED
        BY <1>6, <3>2, <4>2
    <3>3. QED
      BY <3>1, <3>2
  <2>3. QED
    BY <1>1, <1>5, <1>9, <2>1, <2>2, CrashesStay
<1>18. OverflowExplained'
  BY <1>1, <1>5 DEF OverflowExplained
<1>19. QED
  BY <1>9, <1>10, <1>11, <1>13, <1>16, <1>17, <1>18 DEF IInv, FlowInv

\* What is left on its way from a socket that is closed.
LEMMA CutQueue ==
    ASSUME Forms(toQueue, fromQueue), NEW p, Id(p) \in Ids, NEW kept \in Received(p)
    PROVE  SubSeq(toQueue[Id(p)], 1, kept) \in {<<>>, toQueue[Id(p)]}
<1>1. PICK q : q = toQueue[Id(p)]
  OBVIOUS
<1>2. kept \in 0 .. IF qstate = "running" THEN Len(q) ELSE 0
  BY <1>1 DEF Received
<1>3. CASE q = <<>>
  <2>1. Len(q) = 0
    BY <1>3
  <2>2. kept = 0
    BY <1>2, <2>1
  <2>3. QED
    BY <1>1, <1>3, <2>2, CutNothing
<1>4. ASSUME NEW m, q = <<m>> PROVE SubSeq(q, 1, kept) \in {<<>>, q}
  <2>1. Len(q) = 1
    BY <1>4
  <2>2. kept \in {0, 1}
    BY <1>2, <2>1
  <2>3. SubSeq(<<m>>, 1, kept) = IF kept = 1 THEN <<m>> ELSE <<>>
    BY <2>2, CutMessage
  <2>4. QED
    BY <1>4, <2>3
<1>5. q = <<>> \/ \E m : q = <<m>>
  BY <1>1 DEF Forms, Ids, Offer, Call
<1>6. QED
  BY <1>1, <1>3, <1>4, <1>5

\* What is left of a try is on the socket of the client.
LEMMA NothingLeft ==
    ASSUME Types, Hands, Forms(toQueue, fromQueue), NEW c \in Clients,
           Whereabouts(Id(c), sequence[c]) = {}
    PROVE  Nowhere(toQueue, fromQueue, Id(c))
<1>1. PICK y, n : y = Id(c) /\ n = sequence[c]
  OBVIOUS
<1>2. y \in ClientIds /\ y.of = c /\ y.n = session[c]
  BY <1>1, OwnIdentity DEF Peers
<1>3. \A r \in Made : r[1] = y => r[2] = n
  BY <1>1, <1>2 DEF Made
<1>4. \A m : /\ DOMAIN <<m>> = {1} /\ <<m>>[1] = m
  OBVIOUS
<1>5. ASSUME NEW q, Task(q, Made) \/ Offer(q, Done), Carries(q, y)
      PROVE  Has(q, Enveloped(y, n))
  <2>1. PICK k \in 1 .. MaxCalls : q = <<Wrapped(y, k)>>
    BY <1>5 DEF Carries
  <2>2. PICK r \in Made : q = <<Wrapped(r[1], r[2])>>
    <3>1. q # <<>> /\ q # <<Greeting>>
      BY <1>5, CarriesOne
    <3>2. QED
      BY <1>5, <3>1 DEF Task, Offer, Done
  <2>3. Wrapped(y, k) = Wrapped(r[1], r[2])
    BY <2>1, <2>2, OneMessage
  <2>4. r[1] = y /\ r[2] = k
    BY <2>3, Distinct
  <2>5. q = <<Wrapped(y, n)>>
    BY <1>3, <2>1, <2>4
  <2>6. 1 \in DOMAIN q /\ q[1] = <<Empty>> \o Enveloped(y, n)
    BY <1>4, <2>5 DEF Wrapped
  <2>7. QED
    BY <2>6 DEF Has
<1>6. ASSUME NEW p, At(toQueue, fromQueue, p, y) PROVE FALSE
  <2>1. Whereabouts(y, n) = {}
    BY <1>1
  <2>2. CASE p = <<"called", y>> /\ toQueue[y] # <<>>
    <3>1. PICK r \in Made : y = r[1] /\ toQueue[y] = <<Request(r[2])>>
      BY <1>2, <2>2 DEF Forms, Call
    <3>2. toQueue[y] = <<Request(n)>>
      BY <1>3, <3>1
    <3>3. 1 \in DOMAIN toQueue[y] /\ toQueue[y][1] = Request(n)
      BY <1>4, <3>2
    <3>4. QED
      BY <2>1, <3>3 DEF Whereabouts
  <2>3. ASSUME NEW id \in WorkerIds, Carries(fromQueue[id], y) PROVE FALSE
    <3>1. Task(fromQueue[id], Made)
      BY DEF Forms
    <3>2. Has(fromQueue[id], Enveloped(y, n))
      BY <1>5, <2>3, <3>1
    <3>3. QED
      BY <2>1, <3>2 DEF Whereabouts
  <2>4. ASSUME NEW w \in Workers, Holds(w, y) PROVE FALSE
    <3>1. PICK k \in 1 .. MaxCalls : request[w] = Enveloped(y, k)
      BY <2>4 DEF Holds
    <3>2. request[w] # <<>>
      BY <3>1, Distinct
    <3>3. PICK r \in Made : request[w] = Enveloped(r[1], r[2])
      BY <3>2 DEF Hands
    <3>4. r[1] = y /\ r[2] = k
      <4>1. Enveloped(y, k) = Enveloped(r[1], r[2])
        BY <3>1, <3>3
      <4>2. QED
        BY <4>1, Distinct
    <3>5. request[w] = Enveloped(y, n)
      BY <1>3, <3>1, <3>4
    <3>6. QED
      BY <2>1, <3>5 DEF Whereabouts
  <2>5. ASSUME NEW id \in WorkerIds, Carries(toQueue[id], y) PROVE FALSE
    <3>1. Offer(toQueue[id], Done)
      BY DEF Forms
    <3>2. Has(toQueue[id], Enveloped(y, n))
      BY <1>5, <2>5, <3>1
    <3>3. QED
      BY <2>1, <3>2 DEF Whereabouts
  <2>6. CASE p = <<"answered", y>> /\ fromQueue[y] # <<>>
    <3>1. PICK r \in Done : y = r[1] /\ fromQueue[y] = <<Request(r[2])>>
      BY <1>2, <2>6 DEF Forms, Answer
    <3>2. fromQueue[y] = <<Request(n)>>
      BY <1>3, <3>1 DEF Done
    <3>3. 1 \in DOMAIN fromQueue[y] /\ fromQueue[y][1] = Request(n)
      BY <1>4, <3>2
    <3>4. QED
      BY <2>1, <3>3 DEF Whereabouts
  <2>7. QED
    BY <1>6, <2>2, <2>3, <2>4, <2>5, <2>6 DEF At
<1>7. QED
  BY <1>1, <1>6 DEF Nowhere

\* Client c closes its socket y, and has a new one if fresh is not empty.
Leaves(c, y, fresh) ==
    /\ y = Id(c)
    /\ \A d \in Clients : d # c => Id(d)' = Id(d)
                                   /\ (Id(d) \in connected' <=> Id(d) \in connected)
                                   /\ Id(d) \notin fresh
    /\ \/ fresh = {Id(c)'} /\ Id(c)' \in connected' /\ cstate'[c] = "waiting"
          /\ retries_left'[c] > 0
       \/ fresh = {} /\ Id(c)' \notin connected' /\ cstate'[c] = "abandoned"
    /\ \A x \in fresh :
           /\ x \in ClientIds /\ x # y
           /\ toQueue'[x] = <<Request(sequence[c])>> /\ fromQueue'[x] = <<>>
           /\ <<x, sequence[c]>> \in Made'
    /\ \A r \in Made : r[1] \notin fresh
    /\ \A x \in ClientIds \ fresh :
           /\ toQueue'[x] \in {<<>>, toQueue[x]} /\ fromQueue'[x] \in {<<>>, fromQueue[x]}
           /\ x # y => toQueue'[x] = toQueue[x] /\ fromQueue'[x] = fromQueue[x]
    /\ \A id \in WorkerIds : toQueue'[id] = toQueue[id] /\ fromQueue'[id] = fromQueue[id]
                             /\ (id \in connected' <=> id \in connected)
    /\ DOMAIN toQueue' = Ids /\ toQueue' = [id \in Ids |-> toQueue'[id]]
    /\ DOMAIN fromQueue' = Ids /\ fromQueue' = [id \in Ids |-> fromQueue'[id]]
    /\ \A id \in Ids : fromQueue'[id] # <<>> => id \in connected'
    /\ \A w \in Workers : session'[w] = session[w]
    /\ Made \subseteq Made' /\ Done \subseteq Done'

\* A client leaves a socket, for a new one or for good, and takes with it what
\* is under way on it.
LEMMA ClientLeaves ==
    ASSUME IInv, Types', NEW c \in Clients, NEW y, NEW fresh, Leaves(c, y, fresh),
           cstate[c] = "waiting",
           \A d \in Clients : d # c => cstate'[d] = cstate[d]
                                       /\ retries_left'[d] = retries_left[d],
           sequence' = sequence, qstate' = qstate,
           wstate' = wstate, request' = request, executed' = executed,
           crashes' = crashes, worker_queue' = worker_queue, orphans' = orphans,
           \A d \in Clients : d # c => lost'[d] = lost[d],
           lost'[c] = lost[c] \/ lost'[c] = lost[c] + 1,
           lost'[c] # lost[c] => Nowhere(toQueue, fromQueue, y)
    PROVE  IInv'
<1>1. /\ Types /\ Hands /\ Forms(toQueue, fromQueue) /\ OverflowExplained
      /\ WorkersInv(toQueue, fromQueue, worker_queue)
      /\ ClientsInv(toQueue, fromQueue)
      /\ CrashesInv(toQueue, fromQueue, worker_queue)
  BY DEF IInv, FlowInv
<1>2. /\ y = Id(c) /\ y \in ClientIds /\ y \notin fresh
  BY <1>1, OwnIdentity DEF Leaves
<1>3. \A d \in Clients : d # c => Id(d)' = Id(d)
                                   /\ (Id(d) \in connected' <=> Id(d) \in connected)
                                   /\ Id(d) \notin fresh
  BY DEF Leaves
<1>4. \/ fresh = {Id(c)'} /\ Id(c)' \in connected' /\ cstate'[c] = "waiting"
         /\ retries_left'[c] > 0
      \/ fresh = {} /\ Id(c)' \notin connected' /\ cstate'[c] = "abandoned"
  BY DEF Leaves
<1>5. \A x \in fresh :
          /\ x \in ClientIds /\ x # y
          /\ toQueue'[x] = <<Request(sequence[c])>> /\ fromQueue'[x] = <<>>
          /\ <<x, sequence[c]>> \in Made'
  BY DEF Leaves
<1>6. \A r \in Made : r[1] \notin fresh
  BY DEF Leaves
<1>7. \A x \in ClientIds \ fresh :
          /\ toQueue'[x] \in {<<>>, toQueue[x]} /\ fromQueue'[x] \in {<<>>, fromQueue[x]}
          /\ x # y => toQueue'[x] = toQueue[x] /\ fromQueue'[x] = fromQueue[x]
  BY DEF Leaves
<1>8. \A id \in WorkerIds : toQueue'[id] = toQueue[id] /\ fromQueue'[id] = fromQueue[id]
                            /\ (id \in connected' <=> id \in connected)
  BY DEF Leaves
<1>9. /\ DOMAIN toQueue' = Ids /\ toQueue' = [id \in Ids |-> toQueue'[id]]
      /\ DOMAIN fromQueue' = Ids /\ fromQueue' = [id \in Ids |-> fromQueue'[id]]
      /\ \A id \in Ids : fromQueue'[id] # <<>> => id \in connected'
  BY DEF Leaves
<1>10. /\ \A w \in Workers : session'[w] = session[w]
       /\ Made \subseteq Made' /\ Done \subseteq Done'
  BY DEF Leaves
<1>11. Hands'
  <2>1. \A w \in Workers :
            IF wstate'[w] = "working"
            THEN \E r \in Made' : request'[w] = Enveloped(r[1], r[2])
            ELSE request'[w] = <<>>
    BY <1>1, <1>10 DEF Hands
  <2>2. QED
    BY <1>1, <2>1 DEF Hands
<1>12. Forms(toQueue, fromQueue)'
  <2>1. ASSUME NEW id \in WorkerIds
        PROVE  Offer(toQueue'[id], Done') /\ Task(fromQueue'[id], Made')
    <3>1. Offer(toQueue[id], Done) /\ Task(fromQueue[id], Made)
      BY <1>1 DEF Forms
    <3>2. Offer(toQueue[id], Done') /\ Task(fromQueue[id], Made')
      BY <1>10, <3>1 DEF Offer, Task
    <3>3. QED
      BY <1>8, <3>2
  <2>2. ASSUME NEW x \in ClientIds
        PROVE  Call(x, toQueue'[x], Made') /\ Answer(x, fromQueue'[x], Done')
    <3>1. CASE x \in fresh
      <4>1. PICK r : r = <<x, sequence[c]>>
        OBVIOUS
      <4>2. r[1] = x /\ r[2] = sequence[c] /\ r \in Made'
        BY <1>5, <3>1, <4>1
      <4>3. QED
        BY <1>5, <3>1, <4>2 DEF Call, Answer
    <3>2. CASE x \notin fresh
      <4>1. Call(x, toQueue[x], Made) /\ Answer(x, fromQueue[x], Done)
        BY <1>1 DEF Forms
      <4>2. Call(x, toQueue[x], Made') /\ Answer(x, fromQueue[x], Done')
        BY <1>10, <4>1 DEF Call, Answer
      <4>3. toQueue'[x] \in {<<>>, toQueue[x]} /\ fromQueue'[x] \in {<<>>, fromQueue[x]}
        BY <1>7, <3>2
      <4>4. Call(x, <<>>, Made') /\ Answer(x, <<>>, Done')
        BY DEF Call, Answer
      <4>5. QED
        BY <4>2, <4>3, <4>4
    <3>3. QED
      BY <3>1, <3>2
  <2>3. QED
    BY <1>9, <2>1, <2>2 DEF Forms
<1>13. WorkersInv(toQueue, fromQueue, worker_queue)'
  <2>1. \A w \in Workers : session'[w] = session[w]
                           /\ (Id(w) \in connected' <=> Id(w) \in connected)
    BY <1>1, <1>8, <1>10, OwnIdentity
  <2>2. QED
    BY <1>1, <1>8, <2>1, WorkersStay
<1>14. \A w, x : Holds(w, x)' <=> Holds(w, x)
  BY DEF Holds
<1>15. ASSUME NEW x \in fresh, NEW p, At(toQueue, fromQueue, p, x)'
       PROVE  p = <<"called", x>>
  <2>1. ASSUME NEW q, NEW r \in Made, q = <<Wrapped(r[1], r[2])>> PROVE ~Carries(q, x)
    BY <1>6, <2>1, CarriesOne
  <2>2. ASSUME NEW id \in WorkerIds PROVE ~Carries(fromQueue'[id], x)
    <3>1. Task(fromQueue[id], Made)
      BY <1>1 DEF Forms
    <3>2. ~Carries(fromQueue[id], x)
      BY <2>1, <3>1, CarriesOne DEF Task
    <3>3. QED
      BY <1>8, <3>2
  <2>3. ASSUME NEW id \in WorkerIds PROVE ~Carries(toQueue'[id], x)
    <3>1. Offer(toQueue[id], Done)
      BY <1>1 DEF Forms
    <3>2. Done \subseteq Made
      BY DEF Done
    <3>3. ~Carries(toQueue[id], x)
      BY <2>1, <3>1, <3>2, CarriesOne DEF Offer
    <3>4. QED
      BY <1>8, <3>3
  <2>4. ASSUME NEW w \in Workers PROVE ~Holds(w, x)'
    <3>1. SUFFICES ASSUME NEW k \in 1 .. MaxCalls, request[w] = Enveloped(x, k) PROVE FALSE
      BY <1>14 DEF Holds
    <3>2. request[w] # <<>>
      BY <3>1, Distinct
    <3>3. PICK r \in Made : request[w] = Enveloped(r[1], r[2])
      BY <1>1, <3>2 DEF Hands
    <3>4. Enveloped(x, k) = Enveloped(r[1], r[2])
      BY <3>1, <3>3
    <3>5. x = r[1]
      BY <3>4, Distinct
    <3>6. QED
      BY <1>6, <3>5
  <2>5. fromQueue'[x] = <<>>
    BY <1>5
  <2>6. QED
    BY <1>15, <2>2, <2>3, <2>4, <2>5 DEF At
<1>16. ASSUME NEW x \in ClientIds \ fresh, NEW p
       PROVE  /\ At(toQueue, fromQueue, p, x)' => At(toQueue, fromQueue, p, x)
              /\ x # y /\ At(toQueue, fromQueue, p, x) => At(toQueue, fromQueue, p, x)'
  <2>1. /\ toQueue'[x] # <<>> => toQueue[x] # <<>>
        /\ fromQueue'[x] # <<>> => fromQueue[x] # <<>>
        /\ x # y => toQueue'[x] = toQueue[x] /\ fromQueue'[x] = fromQueue[x]
    BY <1>7
  <2>2. At(toQueue, fromQueue, p, x)' => At(toQueue, fromQueue, p, x)
    BY <1>8, <1>14, <2>1 DEF At
  <2>3. x # y /\ At(toQueue, fromQueue, p, x) => At(toQueue, fromQueue, p, x)'
    BY <1>8, <1>14, <2>1 DEF At
  <2>4. QED
    BY <2>2, <2>3
<1>17. ClientsInv(toQueue, fromQueue)'
  <2>1. ASSUME NEW x \in ClientIds, NEW p, NEW q,
               At(toQueue, fromQueue, p, x)', At(toQueue, fromQueue, q, x)'
        PROVE  p = q
    <3>1. CASE x \in fresh
      BY <1>15, <2>1, <3>1
    <3>2. CASE x \notin fresh
      <4>1. At(toQueue, fromQueue, p, x) /\ At(toQueue, fromQueue, q, x)
        BY <1>16, <2>1, <3>2
      <4>2. QED
        BY <1>1, <4>1 DEF ClientsInv
    <3>3. QED
      BY <3>1, <3>2
  <2>2. ASSUME NEW d \in Clients
        PROVE  /\ cstate'[d] = "abandoned" <=> Id(d)' \notin connected'
               /\ cstate'[d] = "ready" => Nowhere(toQueue, fromQueue, Id(d))'
               /\ cstate'[d] = "waiting" => sequence'[d] > 0
               /\ cstate'[d] # "abandoned" => retries_left'[d] > 0
    <3>1. /\ cstate[d] = "abandoned" <=> Id(d) \notin connected
          /\ cstate[d] = "ready" => Nowhere(toQueue, fromQueue, Id(d))
          /\ cstate[d] = "waiting" => sequence[d] > 0
          /\ cstate[d] # "abandoned" => retries_left[d] > 0
      BY <1>1 DEF ClientsInv
    <3>2. CASE d = c
      BY <1>4, <3>1, <3>2
    <3>3. CASE d # c
      <4>1. Id(d) \in ClientIds \ fresh
        BY <1>1, <1>3, <3>3, OwnIdentity
      <4>2. Nowhere(toQueue, fromQueue, Id(d)) => Nowhere(toQueue, fromQueue, Id(d))'
        BY <1>3, <1>16, <3>3, <4>1 DEF Nowhere
      <4>3. QED
        BY <1>3, <3>1, <3>3, <4>2
    <3>4. QED
      BY <3>2, <3>3
  <2>3. QED
    BY <2>1, <2>2 DEF ClientsInv
<1>18. CrashesInv(toQueue, fromQueue, worker_queue)'
  <2>1. PICK g, g2 : g = Cardinality(Gone(toQueue, worker_queue))
                     /\ g2 = Cardinality(Gone(toQueue, worker_queue)')
    OBVIOUS
  <2>2. Gone(toQueue, worker_queue)' = Gone(toQueue, worker_queue)
    BY <1>8 DEF Gone
  <2>3. g2 = g /\ g \in Nat
    <3>1. Gone(toQueue, worker_queue) \in SUBSET WorkerIds
      BY DEF Gone
    <3>2. QED
      BY <2>1, <2>2, <3>1, Counting
  <2>4. crashes \in Nat
    BY <1>1, PirateAssumption DEF Types
  <2>5. ASSUME NEW d \in Clients
        PROVE  lost'[d] + Missing(toQueue, fromQueue, d)' + g2 + crashes
                   <= lost[d] + Missing(toQueue, fromQueue, d) + g + crashes'
    <3>1. PICK m, m2 : m = Missing(toQueue, fromQueue, d)
                       /\ m2 = Missing(toQueue, fromQueue, d)'
      OBVIOUS
    <3>2. m \in {0, 1} /\ m2 \in {0, 1} /\ lost[d] \in Nat
      BY <1>1, <3>1 DEF Missing, Types
    <3>3. CASE d = c
      <4>1. m2 = 0
        <5>1. CASE cstate'[c] = "abandoned"
          BY <3>1, <3>3, <5>1 DEF Missing
        <5>2. CASE fresh = {Id(c)'}
          <6>1. PICK x : x = Id(c)'
            OBVIOUS
          <6>2. toQueue'[x] # <<>>
            BY <1>5, <5>2, <6>1, OneMessage
          <6>3. At(toQueue, fromQueue, <<"called", x>>, x)'
            BY <6>2 DEF At
          <6>4. ~Nowhere(toQueue, fromQueue, Id(c))'
            BY <6>1, <6>3 DEF Nowhere
          <6>5. QED
            BY <3>1, <3>3, <6>4 DEF Missing
        <5>3. QED
          BY <1>4, <5>1, <5>2
      <4>2. lost'[d] = lost[d] \/ (lost'[d] = lost[d] + 1 /\ m = 1)
        BY <1>2, <3>1, <3>3 DEF Missing
      <4>3. lost'[d] + m2 + g2 + crashes <= lost[d] + m + g + crashes
        BY <2>3, <2>4, <3>2, <4>1, <4>2
      <4>4. QED
        BY <3>1, <4>3
    <3>4. CASE d # c
      <4>1. Id(d) \in ClientIds \ fresh /\ Id(d) # y
        BY <1>1, <1>2, <1>3, <3>4, OwnIdentity DEF Peers
      <4>2. Nowhere(toQueue, fromQueue, Id(d))' => Nowhere(toQueue, fromQueue, Id(d))
        BY <1>3, <1>16, <3>4, <4>1 DEF Nowhere
      <4>3. m2 = 1 => m = 1
        BY <3>1, <3>4, <4>2 DEF Missing
      <4>4. lost'[d] = lost[d]
        BY <3>4
      <4>5. lost'[d] + m2 + g2 + crashes <= lost[d] + m + g + crashes
        BY <2>3, <2>4, <3>2, <4>3, <4>4
      <4>6. QED
        BY <3>1, <4>5
    <3>5. QED
      BY <3>3, <3>4
  <2>6. g2 + crashes <= g + crashes'
    BY <2>3, <2>4
  <2>7. QED
    BY <1>1, <2>1, <2>3, <2>5, <2>6, CrashesKeep
<1>19. OverflowExplained'
  BY <1>1 DEF OverflowExplained
<1>20. QED
  BY <1>11, <1>12, <1>13, <1>17, <1>18, <1>19 DEF IInv, FlowInv

\* The part of it that is the same whether the client tries again or not.
LEMMA GivesUpParts ==
    ASSUME IInv, NEW c \in Clients, ClientGivesUp(c)
    PROVE  /\ cstate[c] = "waiting" /\ sequence[c] \in 1 .. MaxCalls
           /\ sequence' = sequence /\ qstate' = qstate /\ wstate' = wstate
           /\ request' = request /\ executed' = executed /\ crashes' = crashes
           /\ worker_queue' = worker_queue /\ orphans' = orphans
           /\ retries_left' \in [Clients -> 0 .. Retries]
           /\ retries_left[c] > 1 => retries_left'[c] > 0
           /\ \A d \in Clients : d # c => /\ retries_left'[d] = retries_left[d]
                                          /\ lost'[d] = lost[d]
           /\ lost' \in [Clients -> Nat]
           /\ lost'[c] = lost[c] \/ lost'[c] = lost[c] + 1
           /\ lost'[c] # lost[c] => Nowhere(toQueue, fromQueue, Id(c))
<1>1. /\ Types /\ Hands /\ Forms(toQueue, fromQueue) /\ ClientsInv(toQueue, fromQueue)
  BY DEF IInv, FlowInv
<1>2. /\ cstate[c] = "waiting" /\ sequence' = sequence /\ qstate' = qstate
      /\ wstate' = wstate /\ request' = request /\ executed' = executed
      /\ crashes' = crashes /\ worker_queue' = worker_queue /\ orphans' = orphans
      /\ retries_left' = [retries_left EXCEPT ![c] = @ - 1]
  BY DEF ClientGivesUp, ClientTimesOut, jobs
<1>3. sequence[c] \in 1 .. MaxCalls
  BY <1>1, <1>2, PirateAssumption DEF ClientsInv, Types
<1>4. retries_left \in [Clients -> 0 .. Retries] /\ retries_left[c] > 0 /\ Retries \in Nat
  BY <1>1, <1>2, PirateAssumption DEF ClientsInv, Types
<1>5. /\ retries_left' \in [Clients -> 0 .. Retries]
      /\ retries_left[c] > 1 => retries_left'[c] > 0
      /\ \A d \in Clients : d # c => retries_left'[d] = retries_left[d]
  BY <1>2, <1>4
<1>6. PICK none : none = (Whereabouts(Id(c), sequence[c]) = {})
  OBVIOUS
<1>7. lost' = [lost EXCEPT ![c] = IF none THEN @ + 1 ELSE @]
  BY <1>6 DEF ClientGivesUp
<1>8. lost \in [Clients -> Nat]
  BY <1>1 DEF Types
<1>9. /\ \A d \in Clients : d # c => lost'[d] = lost[d]
      /\ lost' \in [Clients -> Nat]
      /\ lost'[c] = lost[c] \/ lost'[c] = lost[c] + 1
      /\ lost'[c] # lost[c] => none
  <2>1. CASE none
    BY <1>7, <1>8, <2>1
  <2>2. CASE ~none
    BY <1>7, <1>8, <2>2
  <2>3. QED
    BY <2>1, <2>2
<1>10. none => Nowhere(toQueue, fromQueue, Id(c))
  BY <1>1, <1>6, NothingLeft
<1>11. QED
  BY <1>2, <1>3, <1>5, <1>9, <1>10

\* A retry: a new socket, the same request (lpclient.cpp).
LEMMA RetryInv ==
    ASSUME IInv, NEW c \in Clients, ClientGivesUp(c), retries_left[c] > 1,
           Reconnects(c, Request(sequence[c])), cstate' = cstate
    PROVE  IInv'
<1>1. /\ Types /\ Hands /\ Forms(toQueue, fromQueue) /\ ClientsInv(toQueue, fromQueue)
  BY DEF IInv, FlowInv
<1>2. /\ cstate[c] = "waiting" /\ sequence[c] \in 1 .. MaxCalls
      /\ sequence' = sequence /\ qstate' = qstate /\ wstate' = wstate
      /\ request' = request /\ executed' = executed /\ crashes' = crashes
      /\ worker_queue' = worker_queue /\ orphans' = orphans
      /\ retries_left' \in [Clients -> 0 .. Retries]
      /\ retries_left'[c] > 0
      /\ \A d \in Clients : d # c => /\ retries_left'[d] = retries_left[d]
                                     /\ lost'[d] = lost[d]
      /\ lost' \in [Clients -> Nat]
      /\ lost'[c] = lost[c] \/ lost'[c] = lost[c] + 1
      /\ lost'[c] # lost[c] => Nowhere(toQueue, fromQueue, Id(c))
  BY GivesUpParts
<1>3. PICK y, z : y = Id(c) /\ z = Identity(c, session[c] + 1)
  OBVIOUS
<1>4. /\ c \in Peers /\ c \notin Workers /\ session \in [Peers -> Nat]
      /\ session[c] < MaxClientSockets /\ session[c] \in Nat
      /\ session' = [session EXCEPT ![c] = @ + 1]
  BY <1>1, PirateAssumption DEF Types, Reconnects, MaxSockets, Peers
<1>5. /\ session' \in [Peers -> Nat] /\ session'[c] = session[c] + 1
      /\ \A p \in Peers : p # c => session'[p] = session[p]
  BY <1>4
<1>6. /\ y \in ClientIds /\ y \in Ids /\ y \notin WorkerIds /\ y.of = c
      /\ y.n = session[c]
  BY <1>1, <1>3, <1>4, OwnIdentity, Identities
<1>7. /\ z \in ClientIds /\ z \in Ids /\ z \notin WorkerIds /\ z.of = c
      /\ z.n = session[c] + 1 /\ z # y /\ Id(c)' = z
  <2>1. session[c] + 1 \in 0 .. MaxClientSockets + MaxCrashes
    BY <1>4, PirateAssumption
  <2>2. z \in ClientIds /\ z.of = c /\ z.n = session[c] + 1
    BY <1>3, <1>4, <2>1, Identities
  <2>3. z \in Ids /\ z \notin WorkerIds
    BY <2>2, Identities DEF Ids
  <2>4. z # y
    BY <1>4, <1>6, <2>2
  <2>5. QED
    BY <1>3, <1>5, <2>2, <2>3, <2>4 DEF Id
<1>8. \A d \in Peers : d # c => Id(d)' = Id(d) /\ Id(d) # y /\ Id(d) # z
  BY <1>1, <1>5, <1>6, <1>7, OwnIdentity DEF Id
<1>9. connected' = (connected \ {y}) \union {z}
  BY <1>3 DEF Reconnects
<1>10. PICK kept \in Received(c) :
           toQueue' = [toQueue EXCEPT ![y] = SubSeq(@, 1, kept),
                                      ![z] = <<Request(sequence[c])>>]
  BY <1>3 DEF Reconnects
<1>11. PICK cut : cut = SubSeq(toQueue[y], 1, kept) /\ cut \in {<<>>, toQueue[y]}
  BY <1>1, <1>3, <1>6, CutQueue
<1>12. PICK fresh : fresh = {z}
  OBVIOUS
<1>13. DOMAIN toQueue = Ids /\ DOMAIN fromQueue = Ids
  BY <1>1 DEF Forms
<1>14. /\ DOMAIN toQueue' = Ids /\ toQueue' = [id \in Ids |-> toQueue'[id]]
       /\ toQueue'[z] = <<Request(sequence[c])>> /\ toQueue'[y] \in {<<>>, toQueue[y]}
       /\ \A id \in Ids : id # y /\ id # z => toQueue'[id] = toQueue[id]
  <2>1. toQueue' = [toQueue EXCEPT ![y] = cut, ![z] = <<Request(sequence[c])>>]
    BY <1>10, <1>11
  <2>2. QED
    BY <1>6, <1>7, <1>11, <1>13, <2>1
<1>15. z \notin connected
  BY <1>1, <1>3, <1>7, <1>8 DEF Types
<1>16. fromQueue' = [fromQueue EXCEPT ![y] = <<>>]
  BY <1>3 DEF Reconnects
<1>17. /\ DOMAIN fromQueue' = Ids /\ fromQueue' = [id \in Ids |-> fromQueue'[id]]
       /\ fromQueue'[y] = <<>> /\ fromQueue'[z] = <<>>
       /\ \A id \in Ids : id # y => fromQueue'[id] = fromQueue[id]
  <2>1. fromQueue[z] = <<>>
    BY <1>1, <1>7, <1>15 DEF Forms
  <2>2. QED
    BY <1>6, <1>7, <1>13, <1>16, <2>1
<1>18. ASSUME NEW r \in Made PROVE r \in Made' /\ r[1] # z
  <2>1. PICK d : d = r[1].of
    OBVIOUS
  <2>2. /\ d \in Clients /\ d \in Peers /\ r[1].n \in 1 .. session[d]
        /\ r[2] <= sequence[d]
        /\ r[1].n = session[d] => r[2] = sequence[d]
        /\ r \in ClientIds \X (1 .. MaxCalls)
    BY <2>1, Identities DEF Made, Peers
  <2>3. CASE d = c
    <3>1. r[1].n # session[c] + 1 /\ r[1].n \in 1 .. session[c] + 1
      BY <1>4, <2>2, <2>3
    <3>2. r[1] # z
      BY <1>7, <3>1
    <3>3. QED
      BY <1>2, <1>5, <2>1, <2>2, <2>3, <3>1, <3>2 DEF Made
  <2>4. CASE d # c
    <3>1. r[1] # z
      BY <1>7, <2>1, <2>4
    <3>2. QED
      BY <1>2, <1>5, <2>1, <2>2, <2>4, <3>1 DEF Made
  <2>5. QED
    BY <2>3, <2>4
<1>19. <<z, sequence[c]>> \in Made'
  <2>1. PICK r : r = <<z, sequence[c]>>
    OBVIOUS
  <2>2. /\ r \in ClientIds \X (1 .. MaxCalls) /\ r[1] = z /\ r[2] = sequence[c]
        /\ sequence[c] <= sequence'[c] /\ session'[c] \in 1 .. session'[c]
    BY <1>2, <1>4, <1>5, <1>7, <2>1
  <2>3. QED
    BY <1>2, <1>5, <1>7, <2>1, <2>2 DEF Made
<1>20. Made \subseteq Made' /\ Done \subseteq Done'
  BY <1>2, <1>18 DEF Done
<1>21. Types'
  <2>1. ASSUME NEW id \in connected' PROVE \E p \in Peers : id = Id(p)'
    <3>1. CASE id = z
      BY <1>4, <1>7, <3>1
    <3>2. CASE id \in connected /\ id # y
      <4>1. PICK p \in Peers : id = Id(p)
        BY <1>1, <3>2 DEF Types
      <4>2. Id(p)' = id
        BY <1>3, <1>8, <3>2, <4>1
      <4>3. QED
        BY <4>2
    <3>3. QED
      BY <1>9, <2>1, <3>1, <3>2
  <2>2. connected' \subseteq {Id(p)' : p \in Peers}
    BY <2>1
  <2>3. \A w \in Workers : session'[w] <= MaxWorkerSockets
    BY <1>1, <1>4, <1>5 DEF Types, Peers
  <2>4. \A d \in Clients : session'[d] \in 1 .. MaxClientSockets + crashes'
    <3>1. /\ \A d \in Clients : session[d] \in 1 .. MaxClientSockets + crashes
          /\ crashes \in Nat /\ MaxClientSockets \in Nat
      BY <1>1, PirateAssumption DEF Types
    <3>2. session'[c] \in 1 .. MaxClientSockets + crashes
      BY <1>4, <1>5, <3>1
    <3>3. QED
      BY <1>2, <1>5, <3>1, <3>2 DEF Peers
  <2>5. QED
    BY <1>1, <1>2, <1>5, <2>2, <2>3, <2>4 DEF Types
<1>22. Leaves(c, y, fresh)
  <2>1. \A d \in Clients : d # c => Id(d)' = Id(d)
                                   /\ (Id(d) \in connected' <=> Id(d) \in connected)
                                   /\ Id(d) \notin fresh
    BY <1>8, <1>9, <1>12 DEF Peers
  <2>2. fresh = {Id(c)'} /\ Id(c)' \in connected' /\ cstate'[c] = "waiting"
        /\ retries_left'[c] > 0
    BY <1>2, <1>7, <1>9, <1>12
  <2>3. \A x \in ClientIds \ fresh :
           /\ toQueue'[x] \in {<<>>, toQueue[x]} /\ fromQueue'[x] \in {<<>>, fromQueue[x]}
           /\ x # y => toQueue'[x] = toQueue[x] /\ fromQueue'[x] = fromQueue[x]
    BY <1>12, <1>14, <1>17 DEF Ids
  <2>4. \A id \in WorkerIds : toQueue'[id] = toQueue[id] /\ fromQueue'[id] = fromQueue[id]
                             /\ (id \in connected' <=> id \in connected)
    BY <1>6, <1>7, <1>9, <1>14, <1>17 DEF Ids
  <2>5. \A id \in Ids : fromQueue'[id] # <<>> => id \in connected'
    BY <1>1, <1>9, <1>17 DEF Forms
  <2>6. \A w \in Workers : session'[w] = session[w]
    BY <1>4, <1>5 DEF Peers
  <2>7. \A x \in fresh :
           /\ x \in ClientIds /\ x # y
           /\ toQueue'[x] = <<Request(sequence[c])>> /\ fromQueue'[x] = <<>>
           /\ <<x, sequence[c]>> \in Made'
    BY <1>7, <1>12, <1>14, <1>17, <1>19
  <2>8. \A r \in Made : r[1] \notin fresh
    BY <1>12, <1>18
  <2>9. QED
    BY <1>3, <1>14, <1>17, <1>20, <2>1, <2>2, <2>3, <2>4, <2>5, <2>6, <2>7, <2>8
    DEF Leaves
<1>23. QED
  BY <1>2, <1>3, <1>21, <1>22, ClientLeaves

\* The last try: the client closes the socket and leaves.
LEMMA AbandonInv ==
    ASSUME IInv, NEW c \in Clients, ClientGivesUp(c), Closes(c),
           cstate' = [cstate EXCEPT ![c] = "abandoned"]
    PROVE  IInv'
<1>1. /\ Types /\ Hands /\ Forms(toQueue, fromQueue) /\ ClientsInv(toQueue, fromQueue)
  BY DEF IInv, FlowInv
<1>2. /\ cstate[c] = "waiting" /\ sequence[c] \in 1 .. MaxCalls
      /\ sequence' = sequence /\ qstate' = qstate /\ wstate' = wstate
      /\ request' = request /\ executed' = executed /\ crashes' = crashes
      /\ worker_queue' = worker_queue /\ orphans' = orphans
      /\ retries_left' \in [Clients -> 0 .. Retries]
      /\ \A d \in Clients : d # c => /\ retries_left'[d] = retries_left[d]
                                     /\ lost'[d] = lost[d]
      /\ lost' \in [Clients -> Nat]
      /\ lost'[c] = lost[c] \/ lost'[c] = lost[c] + 1
      /\ lost'[c] # lost[c] => Nowhere(toQueue, fromQueue, Id(c))
  BY GivesUpParts
<1>3. PICK y : y = Id(c)
  OBVIOUS
<1>4. /\ y \in ClientIds /\ y \in Ids /\ y \notin WorkerIds
      /\ \A d \in Peers : d # c => Id(d) # y
  BY <1>1, <1>3, OwnIdentity, Identities DEF Peers
<1>5. session' = session /\ connected' = connected \ {y}
  BY <1>3 DEF Closes
<1>6. \A p : Id(p)' = Id(p)
  BY <1>5 DEF Id
<1>7. /\ cstate' \in [Clients -> {"ready", "waiting", "abandoned"}]
      /\ cstate'[c] = "abandoned"
      /\ \A d \in Clients : d # c => cstate'[d] = cstate[d]
  <2>1. cstate \in [Clients -> {"ready", "waiting", "abandoned"}]
    BY <1>1 DEF Types
  <2>2. QED
    BY <2>1
<1>8. DOMAIN toQueue = Ids /\ DOMAIN fromQueue = Ids
  BY <1>1 DEF Forms
<1>9. PICK kept \in Received(c) : toQueue' = [toQueue EXCEPT ![y] = SubSeq(@, 1, kept)]
  BY <1>3 DEF Closes
<1>10. PICK cut : cut = SubSeq(toQueue[y], 1, kept) /\ cut \in {<<>>, toQueue[y]}
  BY <1>1, <1>3, <1>4, CutQueue
<1>11. /\ DOMAIN toQueue' = Ids /\ toQueue' = [id \in Ids |-> toQueue'[id]]
       /\ toQueue'[y] \in {<<>>, toQueue[y]}
       /\ \A id \in Ids : id # y => toQueue'[id] = toQueue[id]
  <2>1. toQueue' = [toQueue EXCEPT ![y] = cut]
    BY <1>9, <1>10
  <2>2. QED
    BY <1>4, <1>8, <1>10, <2>1
<1>12. /\ DOMAIN fromQueue' = Ids /\ fromQueue' = [id \in Ids |-> fromQueue'[id]]
       /\ fromQueue'[y] = <<>>
       /\ \A id \in Ids : id # y => fromQueue'[id] = fromQueue[id]
  <2>1. fromQueue' = [fromQueue EXCEPT ![y] = <<>>]
    BY <1>3 DEF Closes
  <2>2. QED
    BY <1>4, <1>8, <2>1
<1>13. Made' = Made /\ Done' = Done
  <2>1. Made' = Made
    BY <1>2, <1>5 DEF Made
  <2>2. QED
    BY <1>2, <2>1 DEF Done
<1>14. Types'
  <2>1. connected' \subseteq {Id(p)' : p \in Peers}
    BY <1>1, <1>5, <1>6 DEF Types
  <2>2. QED
    BY <1>1, <1>2, <1>5, <1>7, <2>1 DEF Types
<1>15. PICK fresh : fresh = {}
  OBVIOUS
<1>16. Leaves(c, y, fresh)
  <2>1. \A d \in Clients : d # c => Id(d)' = Id(d)
                                   /\ (Id(d) \in connected' <=> Id(d) \in connected)
                                   /\ Id(d) \notin fresh
    BY <1>4, <1>5, <1>6, <1>15 DEF Peers
  <2>2. fresh = {} /\ Id(c)' \notin connected' /\ cstate'[c] = "abandoned"
    BY <1>3, <1>5, <1>6, <1>7, <1>15
  <2>3. \A x \in ClientIds \ fresh :
           /\ toQueue'[x] \in {<<>>, toQueue[x]} /\ fromQueue'[x] \in {<<>>, fromQueue[x]}
           /\ x # y => toQueue'[x] = toQueue[x] /\ fromQueue'[x] = fromQueue[x]
    BY <1>11, <1>12 DEF Ids
  <2>4. \A id \in WorkerIds : toQueue'[id] = toQueue[id] /\ fromQueue'[id] = fromQueue[id]
                             /\ (id \in connected' <=> id \in connected)
    BY <1>4, <1>5, <1>11, <1>12 DEF Ids
  <2>5. \A id \in Ids : fromQueue'[id] # <<>> => id \in connected'
    BY <1>1, <1>5, <1>12 DEF Forms
  <2>6. QED
    BY <1>3, <1>5, <1>11, <1>12, <1>13, <1>15, <2>1, <2>2, <2>3, <2>4, <2>5 DEF Leaves
<1>17. QED
  BY <1>2, <1>3, <1>7, <1>14, <1>16, ClientLeaves

\* Either way the invariant is kept.
LEMMA ClientGivesUpInv ==
    ASSUME IInv, NEW c \in Clients, ClientGivesUp(c)
    PROVE  IInv'
<1>1. \/ retries_left[c] > 1 /\ Reconnects(c, Request(sequence[c])) /\ cstate' = cstate
      \/ Closes(c) /\ cstate' = [cstate EXCEPT ![c] = "abandoned"]
  BY DEF ClientGivesUp, ClientTimesOut
<1>2. QED
  BY <1>1, RetryInv, AbandonInv

-----------------------------------------------------------------------------
(* What is lost with a process is paid for.                                *)

\* No request comes to a new place; some request may be lost.
Shrinks == \A x \in ClientIds : \A p :
               At(toQueue, fromQueue, p, x)' => At(toQueue, fromQueue, p, x)
Loses   == \E x \in ClientIds : \E p :
               At(toQueue, fromQueue, p, x) /\ ~At(toQueue, fromQueue, p, x)'

\* A worker or its socket goes: either its entry is all that is left of it, or a
\* request has gone with it, not both.
LEMMA LossPaid ==
    ASSUME Types, Types', ClientsInv(toQueue, fromQueue),
           CrashesInv(toQueue, fromQueue, worker_queue),
           UNCHANGED clientVars, lost' = lost,
           \A c \in Clients : Id(c)' = Id(c)
                              /\ (Id(c) \in connected' <=> Id(c) \in connected),
           NEW g \in Nat, g = Cardinality(Gone(toQueue, worker_queue)),
           NEW g2 \in Nat, g2 = Cardinality(Gone(toQueue, worker_queue)'),
           Shrinks, g2 + crashes <= g + crashes',
           Loses => g2 + 1 + crashes <= g + crashes'
    PROVE  /\ ClientsInv(toQueue, fromQueue)'
           /\ CrashesInv(toQueue, fromQueue, worker_queue)'
<1>1. PICK s : s = "none"
  OBVIOUS
<1>2. Moves(s, s)
  BY DEF Moves, Shrinks
<1>3. ClientsInv(toQueue, fromQueue)'
  BY <1>2, ClientsKeep
<1>4. crashes \in Nat /\ crashes' \in Nat
  BY PirateAssumption DEF Types
<1>5. ASSUME NEW c \in Clients
      PROVE  lost'[c] + Missing(toQueue, fromQueue, c)' + g2 + crashes
                   <= lost[c] + Missing(toQueue, fromQueue, c) + g + crashes'
  <2>1. PICK m, m2 : m = Missing(toQueue, fromQueue, c)
                     /\ m2 = Missing(toQueue, fromQueue, c)'
    OBVIOUS
  <2>2. m \in {0, 1} /\ m2 \in {0, 1} /\ lost[c] \in Nat
    BY <2>1 DEF Missing, Types
  <2>3. ~Loses => (m2 = 1 => m = 1)
    <3>1. Id(c) \in ClientIds /\ Id(c)' = Id(c) /\ cstate' = cstate
      BY OwnIdentity DEF clientVars
    <3>2. ~Loses /\ Nowhere(toQueue, fromQueue, Id(c))'
              => Nowhere(toQueue, fromQueue, Id(c))
      BY <3>1 DEF Loses, Nowhere
    <3>3. QED
      BY <2>1, <3>1, <3>2 DEF Missing
  <2>4. lost[c] + m2 + g2 + crashes <= lost[c] + m + g + crashes'
    BY <1>4, <2>2, <2>3
  <2>5. QED
    BY <2>1, <2>4
<1>6. QED
  BY <1>3, <1>5, CrashesKeep

\* A worker that dies leaves at most an entry, or takes one request along.
LEMMA JobDiesInv ==
    ASSUME IInv, NEW w \in Workers, JobDies(w),
           UNCHANGED <<worker_queue, lost, orphans>>
    PROVE  IInv'
<1>1. /\ Types /\ Hands /\ Forms(toQueue, fromQueue) /\ OverflowExplained
      /\ WorkersInv(toQueue, fromQueue, worker_queue)
      /\ ClientsInv(toQueue, fromQueue)
      /\ CrashesInv(toQueue, fromQueue, worker_queue)
  BY DEF IInv, FlowInv
<1>2. PICK y : y = Id(w)
  OBVIOUS
<1>3. /\ wstate[w] # "off" /\ crashes < MaxCrashes /\ crashes' = crashes + 1
      /\ wstate' = [wstate EXCEPT ![w] = "off"]
      /\ request' = [request EXCEPT ![w] = <<>>]
      /\ connected' = connected \ {y} /\ session' = session /\ qstate' = qstate
      /\ executed' = executed /\ UNCHANGED clientVars
      /\ cstate' = cstate /\ sequence' = sequence /\ retries_left' = retries_left
      /\ worker_queue' = worker_queue /\ lost' = lost /\ orphans' = orphans
  BY <1>2 DEF JobDies, Closes, clientVars
<1>4. /\ y \in WorkerIds /\ y \in Ids /\ y \notin ClientIds /\ y.of = w
      /\ \A p \in Peers : p # w => Id(p) # y
  BY <1>1, <1>2, OwnIdentity, Identities DEF Peers
<1>5. DOMAIN toQueue = Ids /\ DOMAIN fromQueue = Ids
  BY <1>1 DEF Forms
<1>6. PICK kept \in Received(w) : toQueue' = [toQueue EXCEPT ![y] = SubSeq(@, 1, kept)]
  BY <1>2 DEF JobDies, Closes
<1>7. PICK cut : cut = SubSeq(toQueue[y], 1, kept) /\ cut \in {<<>>, toQueue[y]}
  BY <1>1, <1>2, <1>4, CutQueue
<1>8. /\ DOMAIN toQueue' = Ids /\ toQueue' = [id \in Ids |-> toQueue'[id]]
      /\ toQueue'[y] \in {<<>>, toQueue[y]}
      /\ \A id \in Ids : id # y => toQueue'[id] = toQueue[id]
  <2>1. toQueue' = [toQueue EXCEPT ![y] = cut]
    BY <1>6, <1>7
  <2>2. QED
    BY <1>4, <1>5, <1>7, <2>1
<1>9. /\ DOMAIN fromQueue' = Ids /\ fromQueue' = [id \in Ids |-> fromQueue'[id]]
      /\ fromQueue'[y] = <<>>
      /\ \A id \in Ids : id # y => fromQueue'[id] = fromQueue[id]
  <2>1. fromQueue' = [fromQueue EXCEPT ![y] = <<>>]
    BY <1>2 DEF JobDies, Closes
  <2>2. QED
    BY <1>4, <1>5, <2>1
<1>10. /\ DOMAIN request' = Workers /\ request' = [v \in Workers |-> request'[v]]
       /\ request'[w] = <<>>
       /\ \A v \in Workers : v # w => request'[v] = request[v]
       /\ wstate' \in [Workers -> {"off", "polling", "working"}]
       /\ wstate'[w] = "off"
       /\ \A v \in Workers : v # w => wstate'[v] = wstate[v]
  <2>1. DOMAIN request = Workers /\ request = [v \in Workers |-> request[v]]
    BY <1>1 DEF Hands
  <2>2. wstate \in [Workers -> {"off", "polling", "working"}]
    BY <1>1 DEF Types
  <2>3. QED
    BY <1>3, <2>1, <2>2
<1>11. /\ Made' = Made /\ Done' = Done /\ \A p : Id(p)' = Id(p)
  <2>1. Made' = Made
    BY <1>3 DEF Made
  <2>2. QED
    BY <1>3, <2>1 DEF Done, Id
<1>12. crashes \in Nat /\ crashes' \in 0 .. MaxCrashes
  BY <1>1, <1>3, PirateAssumption DEF Types
<1>13. Types'
  <2>1. connected' \subseteq {Id(p)' : p \in Peers}
    BY <1>1, <1>3, <1>11 DEF Types
  <2>2. \A c \in Clients : session'[c] \in 1 .. MaxClientSockets + crashes'
    BY <1>1, <1>3, <1>12, PirateAssumption DEF Types, Peers
  <2>3. QED
    BY <1>1, <1>3, <1>10, <1>12, <2>1, <2>2 DEF Types
<1>14. Hands'
  BY <1>1, <1>10, <1>11 DEF Hands
<1>15. Forms(toQueue, fromQueue)'
  <2>1. ASSUME NEW id \in WorkerIds
        PROVE  Offer(toQueue'[id], Done') /\ Task(fromQueue'[id], Made')
    <3>1. Offer(toQueue[id], Done) /\ Task(fromQueue[id], Made)
      BY <1>1 DEF Forms
    <3>2. toQueue'[id] \in {<<>>, toQueue[id]} /\ fromQueue'[id] \in {<<>>, fromQueue[id]}
      BY <1>8, <1>9 DEF Ids
    <3>3. QED
      BY <1>11, <3>1, <3>2 DEF Offer, Task
  <2>2. \A x \in ClientIds : Call(x, toQueue'[x], Made') /\ Answer(x, fromQueue'[x], Done')
    <3>1. \A x \in ClientIds : Call(x, toQueue[x], Made) /\ Answer(x, fromQueue[x], Done)
      BY <1>1 DEF Forms
    <3>2. \A x \in ClientIds : toQueue'[x] = toQueue[x] /\ fromQueue'[x] = fromQueue[x]
      BY <1>4, <1>8, <1>9 DEF Ids
    <3>3. QED
      BY <1>11, <3>1, <3>2
  <2>3. \A id \in Ids : fromQueue'[id] # <<>> => id \in connected'
    BY <1>1, <1>3, <1>9 DEF Forms
  <2>4. QED
    BY <1>8, <1>9, <2>1, <2>2, <2>3 DEF Forms
<1>16. /\ ~Working(y)'
       /\ \A id \in WorkerIds : id # y => (Working(id)' <=> Working(id))
  <2>1. ~Working(y)'
    BY <1>4, <1>10 DEF Working
  <2>2. ASSUME NEW id \in WorkerIds, id # y PROVE Working(id)' <=> Working(id)
    <3>1. CASE id.of = w
      BY <1>2, <1>11, <2>2, <3>1 DEF Working
    <3>2. CASE id.of # w
      BY <1>10, <1>11, <3>2, Identities DEF Working
    <3>3. QED
      BY <3>1, <3>2
  <2>3. QED
    BY <2>1, <2>2
<1>17. WorkersInv(toQueue, fromQueue, worker_queue)'
  <2>1. ASSUME NEW id \in WorkerIds
        PROVE  /\ id \in Members(worker_queue') =>
                    toQueue'[id] = <<>> /\ fromQueue'[id] = <<>> /\ ~Working(id)'
               /\ toQueue'[id] # <<>> => fromQueue'[id] = <<>> /\ ~Working(id)'
               /\ fromQueue'[id] # <<>> => ~Working(id)'
               /\ id.n > session'[id.of] =>
                    id \notin Members(worker_queue') /\ toQueue'[id] = <<>>
    <3>1. /\ id \in Members(worker_queue) =>
                    toQueue[id] = <<>> /\ fromQueue[id] = <<>> /\ ~Working(id)
          /\ toQueue[id] # <<>> => fromQueue[id] = <<>> /\ ~Working(id)
          /\ fromQueue[id] # <<>> => ~Working(id)
          /\ id.n > session[id.of] =>
                    id \notin Members(worker_queue) /\ toQueue[id] = <<>>
      BY <1>1 DEF WorkersInv
    <3>2. CASE id = y
      BY <1>3, <1>8, <1>9, <1>16, <3>1, <3>2
    <3>3. CASE id # y
      <4>1. toQueue'[id] = toQueue[id] /\ fromQueue'[id] = fromQueue[id]
        BY <1>8, <1>9, <3>3 DEF Ids
      <4>2. Working(id)' <=> Working(id)
        BY <1>16, <3>3
      <4>3. QED
        BY <1>3, <3>1, <4>1, <4>2
    <3>4. QED
      BY <3>2, <3>3
  <2>2. ASSUME NEW v \in Workers
        PROVE  /\ wstate'[v] = "off" <=> Id(v)' \notin connected'
               /\ wstate'[v] = "polling" /\ toQueue'[Id(v)'] = <<>>
                  /\ fromQueue'[Id(v)'] = <<>>
                     => Id(v)' \in Members(worker_queue') \union orphans'
    <3>1. /\ wstate[v] = "off" <=> Id(v) \notin connected
          /\ wstate[v] = "polling" /\ toQueue[Id(v)] = <<>> /\ fromQueue[Id(v)] = <<>>
                => Id(v) \in Members(worker_queue) \union orphans
      BY <1>1 DEF WorkersInv
    <3>2. CASE v = w
      BY <1>2, <1>3, <1>10, <1>11, <3>2
    <3>3. CASE v # w
      <4>1. Id(v) \in Ids /\ Id(v) # y
        BY <1>1, <1>4, <3>3, OwnIdentity DEF Peers
      <4>2. toQueue'[Id(v)] = toQueue[Id(v)] /\ fromQueue'[Id(v)] = fromQueue[Id(v)]
        BY <1>8, <1>9, <4>1
      <4>3. Id(v) \notin connected' <=> Id(v) \notin connected
        BY <1>3, <4>1
      <4>4. QED
        BY <1>3, <1>10, <1>11, <3>1, <3>3, <4>2, <4>3
    <3>4. QED
      BY <3>2, <3>3
  <2>3. /\ worker_queue' \in Seq(WorkerIds)
        /\ \A i, j \in DOMAIN worker_queue' : worker_queue'[i] = worker_queue'[j] => i = j
    BY <1>1, <1>3 DEF WorkersInv
  <2>4. QED
    BY <2>1, <2>2, <2>3 DEF WorkersInv
<1>18. ASSUME NEW x \in ClientIds, NEW p
       PROVE  /\ At(toQueue, fromQueue, p, x)' => At(toQueue, fromQueue, p, x)
              /\ y \in Gone(toQueue, worker_queue)' /\ At(toQueue, fromQueue, p, x)
                 => At(toQueue, fromQueue, p, x)'
  <2>1. x # y /\ toQueue'[x] = toQueue[x] /\ fromQueue'[x] = fromQueue[x]
    BY <1>4, <1>8, <1>9 DEF Ids
  <2>2. ASSUME NEW id \in WorkerIds, id # y
        PROVE  /\ Carries(toQueue'[id], x) <=> Carries(toQueue[id], x)
               /\ Carries(fromQueue'[id], x) <=> Carries(fromQueue[id], x)
    BY <1>8, <1>9, <2>2 DEF Ids
  <2>3. /\ Carries(toQueue'[y], x) => Carries(toQueue[y], x)
        /\ ~Carries(fromQueue'[y], x)
    BY <1>8, <1>9, CarriesOne
  <2>4. \A v \in Workers : v # w => (Holds(v, x)' <=> Holds(v, x))
    BY <1>10 DEF Holds
  <2>5. ~Holds(w, x)'
    BY <1>10, Distinct DEF Holds
  <2>6. At(toQueue, fromQueue, p, x)' => At(toQueue, fromQueue, p, x)
    BY <2>1, <2>2, <2>3, <2>4, <2>5 DEF At
  <2>7. ASSUME y \in Gone(toQueue, worker_queue)'
        PROVE  At(toQueue, fromQueue, p, x) => At(toQueue, fromQueue, p, x)'
    <3>1. y \in Members(worker_queue) \/ toQueue'[y] # <<>>
      BY <1>3, <2>7 DEF Gone
    <3>2. fromQueue[y] = <<>> /\ ~Working(y) /\ toQueue'[y] = toQueue[y]
      BY <1>1, <1>4, <1>8, <3>1 DEF WorkersInv
    <3>3. ~Carries(fromQueue[y], x)
      BY <3>2, CarriesOne
    <3>4. wstate[w] # "working"
      BY <1>2, <1>4, <3>2 DEF Working
    <3>5. request[w] = <<>>
      BY <1>1, <3>4 DEF Hands
    <3>6. ~Holds(w, x)
      BY <3>5, Distinct DEF Holds
    <3>7. QED
      BY <2>1, <2>2, <2>3, <2>4, <3>2, <3>3, <3>6 DEF At
  <2>8. QED
    BY <2>6, <2>7
<1>19. ClientsInv(toQueue, fromQueue)' /\ CrashesInv(toQueue, fromQueue, worker_queue)'
  <2>1. PICK g, g2 : g = Cardinality(Gone(toQueue, worker_queue))
                     /\ g2 = Cardinality(Gone(toQueue, worker_queue)')
    OBVIOUS
  <2>2. Shrinks
    BY <1>18 DEF Shrinks
  <2>3. PICK A, B : A = Gone(toQueue, worker_queue)' /\ B = Gone(toQueue, worker_queue)
    OBVIOUS
  <2>4. A \in SUBSET WorkerIds /\ B \in SUBSET WorkerIds /\ A \subseteq B \union {y}
    <3>1. A \in SUBSET WorkerIds /\ B \in SUBSET WorkerIds
      BY <2>3 DEF Gone
    <3>2. \A id \in WorkerIds : id # y => toQueue'[id] = toQueue[id]
      BY <1>8 DEF Ids
    <3>3. A \subseteq B \union {y}
      BY <1>3, <2>3, <3>2 DEF Gone
    <3>4. QED
      BY <3>1, <3>3
  <2>5. g \in Nat /\ g2 \in Nat /\ g2 <= g + 1
    BY <2>1, <2>3, <2>4, Counting
  <2>6. Loses => y \notin A
    BY <1>18, <2>3 DEF Loses
  <2>7. y \notin A => g2 <= g
    <3>1. y \notin A => A \subseteq B
      BY <2>4
    <3>2. QED
      BY <2>1, <2>3, <2>4, <3>1, Counting
  <2>8. /\ g2 + crashes <= g + crashes'
        /\ Loses => g2 + 1 + crashes <= g + crashes'
    <3>1. g2 + crashes <= g + crashes'
      BY <1>3, <1>12, <2>5
    <3>2. ASSUME Loses PROVE g2 + 1 + crashes <= g + crashes'
      <4>1. g2 <= g
        BY <2>6, <2>7, <3>2
      <4>2. QED
        BY <1>3, <1>12, <2>5, <4>1
    <3>3. QED
      BY <3>1, <3>2
  <2>9. \A c \in Clients : Id(c)' = Id(c)
                           /\ (Id(c) \in connected' <=> Id(c) \in connected)
    BY <1>1, <1>3, <1>4, <1>11, OwnIdentity
  <2>10. QED
    BY <1>1, <1>3, <1>13, <2>1, <2>2, <2>5, <2>8, <2>9, LossPaid
<1>20. OverflowExplained'
  <2>1. Running = Running' \union {w} /\ w \notin Running'
    BY <1>3, <1>10 DEF Running
  <2>2. Cardinality(Running) = Cardinality(Running') + 1
    BY <2>1, RunningFinite, FS_AddElement
  <2>3. Cardinality(Running) + crashes <= Cardinality(Running') + crashes'
    BY <1>3, <1>12, <2>2, RunningFinite
  <2>4. QED
    BY <1>1, <1>3, <1>13, <2>3, OverflowKeeps
<1>21. QED
  BY <1>13, <1>14, <1>15, <1>17, <1>19, <1>20 DEF IInv, FlowInv

\* A worker starts anew under another identity and says READY (spworker.cpp).
LEMMA WorkerStartsInv ==
    ASSUME IInv, NEW w \in Workers, WorkerStarts(w),
           UNCHANGED <<worker_queue, lost, orphans>>
    PROVE  IInv'
<1>1. /\ Types /\ Hands /\ Forms(toQueue, fromQueue) /\ OverflowExplained
      /\ WorkersInv(toQueue, fromQueue, worker_queue)
      /\ ClientsInv(toQueue, fromQueue)
      /\ CrashesInv(toQueue, fromQueue, worker_queue)
  BY DEF IInv, FlowInv
<1>2. PICK y, z : y = Id(w) /\ z = Identity(w, session[w] + 1)
  OBVIOUS
<1>3. /\ wstate[w] = "off" /\ wstate' = [wstate EXCEPT ![w] = "polling"]
      /\ connected' = (connected \ {y}) \union {z}
      /\ session' = [session EXCEPT ![w] = @ + 1]
      /\ request' = request /\ qstate' = qstate /\ crashes' = crashes
      /\ executed' = executed /\ UNCHANGED clientVars
      /\ cstate' = cstate /\ sequence' = sequence /\ retries_left' = retries_left
      /\ worker_queue' = worker_queue /\ lost' = lost /\ orphans' = orphans
  BY <1>2 DEF WorkerStarts, Reconnects, clientVars
<1>4. /\ w \in Peers /\ w \notin Clients /\ session \in [Peers -> Nat]
      /\ session[w] < MaxWorkerSockets /\ session[w] \in Nat /\ MaxWorkerSockets \in Nat
  BY <1>1, PirateAssumption DEF Types, WorkerStarts, Reconnects, MaxSockets, Peers
<1>5. /\ session' \in [Peers -> Nat] /\ session'[w] = session[w] + 1
      /\ \A p \in Peers : p # w => session'[p] = session[p]
  BY <1>3, <1>4
<1>6. /\ y \in WorkerIds /\ y \in Ids /\ y \notin ClientIds /\ y.of = w
      /\ y.n = session[w]
  BY <1>1, <1>2, <1>4, OwnIdentity, Identities
<1>7. /\ z \in WorkerIds /\ z \in Ids /\ z \notin ClientIds /\ z.of = w
      /\ z.n = session[w] + 1 /\ z # y /\ Id(w)' = z
  <2>1. session[w] + 1 \in 0 .. MaxWorkerSockets
    BY <1>4
  <2>2. z \in WorkerIds /\ z.of = w /\ z.n = session[w] + 1
    BY <1>2, <1>4, <2>1, Identities
  <2>3. z \in Ids /\ z \notin ClientIds
    BY <2>2, Identities DEF Ids
  <2>4. z # y
    BY <1>4, <1>6, <2>2
  <2>5. QED
    BY <1>2, <1>5, <2>2, <2>3, <2>4 DEF Id
<1>8. \A d \in Peers : d # w => Id(d)' = Id(d) /\ Id(d) # y /\ Id(d) # z
  BY <1>1, <1>5, <1>6, <1>7, OwnIdentity DEF Id
<1>9. y \notin connected /\ z \notin connected
  <2>1. y \notin connected
    BY <1>1, <1>2, <1>3 DEF WorkersInv
  <2>2. z \notin connected
    BY <1>1, <1>2, <1>7, <1>8 DEF Types
  <2>3. QED
    BY <2>1, <2>2
<1>10. DOMAIN toQueue = Ids /\ DOMAIN fromQueue = Ids
  BY <1>1 DEF Forms
<1>11. PICK kept \in Received(w) :
           toQueue' = [toQueue EXCEPT ![y] = SubSeq(@, 1, kept),
                                      ![z] = <<<<Empty, READY>>>>]
  BY <1>2 DEF WorkerStarts, Reconnects
<1>12. PICK cut : cut = SubSeq(toQueue[y], 1, kept) /\ cut \in {<<>>, toQueue[y]}
  BY <1>1, <1>2, <1>6, CutQueue
<1>13. /\ DOMAIN toQueue' = Ids /\ toQueue' = [id \in Ids |-> toQueue'[id]]
       /\ toQueue'[z] = <<Greeting>> /\ toQueue'[y] \in {<<>>, toQueue[y]}
       /\ \A id \in Ids : id # y /\ id # z => toQueue'[id] = toQueue[id]
  <2>1. toQueue' = [toQueue EXCEPT ![y] = cut, ![z] = <<Greeting>>]
    BY <1>11, <1>12 DEF Greeting
  <2>2. QED
    BY <1>6, <1>7, <1>10, <1>12, <2>1
<1>14. fromQueue[y] = <<>> /\ fromQueue[z] = <<>>
  BY <1>1, <1>6, <1>7, <1>9 DEF Forms
<1>15. /\ DOMAIN fromQueue' = Ids /\ fromQueue' = [id \in Ids |-> fromQueue'[id]]
       /\ \A id \in Ids : fromQueue'[id] = fromQueue[id]
  <2>1. fromQueue' = [fromQueue EXCEPT ![y] = <<>>]
    BY <1>2 DEF WorkerStarts, Reconnects
  <2>2. QED
    BY <1>6, <1>10, <1>14, <2>1
<1>16. /\ wstate' \in [Workers -> {"off", "polling", "working"}]
       /\ wstate'[w] = "polling"
       /\ \A v \in Workers : v # w => wstate'[v] = wstate[v]
  <2>1. wstate \in [Workers -> {"off", "polling", "working"}]
    BY <1>1 DEF Types
  <2>2. QED
    BY <1>3, <2>1
<1>17. Made' = Made /\ Done' = Done
  <2>1. \A x \in ClientIds : session'[x.of] = session[x.of]
    BY <1>4, <1>5, Identities DEF Peers
  <2>2. Made' = Made
    BY <1>3, <2>1 DEF Made
  <2>3. QED
    BY <1>3, <2>2 DEF Done
<1>18. Types'
  <2>1. ASSUME NEW id \in connected' PROVE \E p \in Peers : id = Id(p)'
    <3>1. CASE id = z
      BY <1>4, <1>7, <3>1
    <3>2. CASE id \in connected /\ id # y
      <4>1. PICK p \in Peers : id = Id(p)
        BY <1>1, <3>2 DEF Types
      <4>2. Id(p)' = id
        BY <1>2, <1>8, <3>2, <4>1
      <4>3. QED
        BY <4>2
    <3>3. QED
      BY <1>3, <2>1, <3>1, <3>2
  <2>2. connected' \subseteq {Id(p)' : p \in Peers}
    BY <2>1
  <2>3. \A v \in Workers : session'[v] <= MaxWorkerSockets
    <3>1. \A v \in Workers : session[v] <= MaxWorkerSockets
      BY <1>1 DEF Types
    <3>2. session'[w] <= MaxWorkerSockets
      BY <1>4, <1>5
    <3>3. QED
      BY <1>5, <3>1, <3>2 DEF Peers
  <2>4. \A d \in Clients : session'[d] \in 1 .. MaxClientSockets + crashes'
    BY <1>1, <1>3, <1>4, <1>5 DEF Types, Peers
  <2>5. QED
    BY <1>1, <1>3, <1>5, <1>16, <2>2, <2>3, <2>4 DEF Types
<1>19. Hands'
  BY <1>1, <1>3, <1>16, <1>17 DEF Hands
<1>20. Forms(toQueue, fromQueue)'
  <2>1. ASSUME NEW id \in WorkerIds
        PROVE  Offer(toQueue'[id], Done') /\ Task(fromQueue'[id], Made')
    <3>1. Offer(toQueue[id], Done) /\ Task(fromQueue[id], Made)
      BY <1>1 DEF Forms
    <3>2. /\ toQueue'[id] \in {<<>>, <<Greeting>>, toQueue[id]}
          /\ fromQueue'[id] = fromQueue[id]
      BY <1>13, <1>15 DEF Ids
    <3>3. QED
      BY <1>17, <3>1, <3>2 DEF Offer
  <2>2. \A x \in ClientIds : Call(x, toQueue'[x], Made') /\ Answer(x, fromQueue'[x], Done')
    <3>1. \A x \in ClientIds : Call(x, toQueue[x], Made) /\ Answer(x, fromQueue[x], Done)
      BY <1>1 DEF Forms
    <3>2. \A x \in ClientIds : toQueue'[x] = toQueue[x] /\ fromQueue'[x] = fromQueue[x]
      BY <1>6, <1>7, <1>13, <1>15 DEF Ids
    <3>3. QED
      BY <1>17, <3>1, <3>2
  <2>3. \A id \in Ids : fromQueue'[id] # <<>> => id \in connected'
    BY <1>1, <1>3, <1>9, <1>15 DEF Forms
  <2>4. QED
    BY <1>13, <1>15, <2>1, <2>2, <2>3 DEF Forms
<1>21. /\ ~Working(y)' /\ ~Working(z)'
       /\ \A id \in WorkerIds : id # y => (Working(id)' <=> Working(id))
  <2>1. ~Working(y)' /\ ~Working(z)'
    BY <1>6, <1>7, <1>16 DEF Working
  <2>2. ASSUME NEW id \in WorkerIds, id # y PROVE Working(id)' <=> Working(id)
    <3>1. CASE id.of = w
      BY <1>2, <1>3, <1>16, <2>2, <3>1 DEF Working
    <3>2. CASE id.of # w
      BY <1>8, <1>16, <3>2, Identities DEF Working, Peers
    <3>3. QED
      BY <3>1, <3>2
  <2>3. QED
    BY <2>1, <2>2
<1>22. WorkersInv(toQueue, fromQueue, worker_queue)'
  <2>1. ASSUME NEW id \in WorkerIds
        PROVE  /\ id \in Members(worker_queue') =>
                    toQueue'[id] = <<>> /\ fromQueue'[id] = <<>> /\ ~Working(id)'
               /\ toQueue'[id] # <<>> => fromQueue'[id] = <<>> /\ ~Working(id)'
               /\ fromQueue'[id] # <<>> => ~Working(id)'
               /\ id.n > session'[id.of] =>
                    id \notin Members(worker_queue') /\ toQueue'[id] = <<>>
    <3>1. /\ id \in Members(worker_queue) =>
                    toQueue[id] = <<>> /\ fromQueue[id] = <<>> /\ ~Working(id)
          /\ toQueue[id] # <<>> => fromQueue[id] = <<>> /\ ~Working(id)
          /\ fromQueue[id] # <<>> => ~Working(id)
          /\ id.n > session[id.of] =>
                    id \notin Members(worker_queue) /\ toQueue[id] = <<>>
      BY <1>1 DEF WorkersInv
    <3>2. /\ fromQueue'[id] = fromQueue[id] /\ worker_queue' = worker_queue
          /\ id # z => toQueue'[id] \in {<<>>, toQueue[id]}
      BY <1>3, <1>13, <1>15 DEF Ids
    <3>3. id.n > session'[id.of] => id.n > session[id.of] /\ id # z
      <4>1. id.n \in Nat /\ id.of \in Peers
        BY Identities DEF Ids, Peers
      <4>2. CASE id.of = w
        BY <1>4, <1>5, <1>7, <4>1, <4>2
      <4>3. CASE id.of # w
        BY <1>5, <1>7, <4>1, <4>3
      <4>4. QED
        BY <4>2, <4>3
    <3>4. CASE id = z
      <4>1. z \notin Members(worker_queue)
        BY <1>4, <1>7, <3>1, <3>4
      <4>2. QED
        BY <1>14, <1>21, <3>2, <3>3, <3>4, <4>1
    <3>5. CASE id # z
      <4>1. Working(id)' => Working(id)
        BY <1>21
      <4>2. QED
        BY <3>1, <3>2, <3>3, <3>5, <4>1
    <3>6. QED
      BY <3>4, <3>5
  <2>2. ASSUME NEW v \in Workers
        PROVE  /\ wstate'[v] = "off" <=> Id(v)' \notin connected'
               /\ wstate'[v] = "polling" /\ toQueue'[Id(v)'] = <<>>
                  /\ fromQueue'[Id(v)'] = <<>>
                     => Id(v)' \in Members(worker_queue') \union orphans'
    <3>1. /\ wstate[v] = "off" <=> Id(v) \notin connected
          /\ wstate[v] = "polling" /\ toQueue[Id(v)] = <<>> /\ fromQueue[Id(v)] = <<>>
                => Id(v) \in Members(worker_queue) \union orphans
      BY <1>1 DEF WorkersInv
    <3>2. CASE v = w
      <4>1. toQueue'[z] # <<>>
        BY <1>13, OneMessage
      <4>2. QED
        BY <1>3, <1>7, <1>16, <3>2, <4>1
    <3>3. CASE v # w
      <4>1. Id(v) \in Ids /\ Id(v) # y /\ Id(v) # z /\ Id(v)' = Id(v)
        BY <1>1, <1>8, <3>3, OwnIdentity DEF Peers
      <4>2. toQueue'[Id(v)] = toQueue[Id(v)] /\ fromQueue'[Id(v)] = fromQueue[Id(v)]
        BY <1>13, <1>15, <4>1
      <4>3. Id(v) \notin connected' <=> Id(v) \notin connected
        BY <1>3, <4>1
      <4>4. QED
        BY <1>3, <1>16, <3>1, <3>3, <4>1, <4>2, <4>3
    <3>4. QED
      BY <3>2, <3>3
  <2>3. /\ worker_queue' \in Seq(WorkerIds)
        /\ \A i, j \in DOMAIN worker_queue' : worker_queue'[i] = worker_queue'[j] => i = j
    BY <1>1, <1>3 DEF WorkersInv
  <2>4. QED
    BY <2>1, <2>2, <2>3 DEF WorkersInv
<1>23. z \notin Members(worker_queue) /\ toQueue[z] = <<>>
  BY <1>1, <1>4, <1>7 DEF WorkersInv
<1>24. ASSUME NEW x \in ClientIds, NEW p
       PROVE  /\ At(toQueue, fromQueue, p, x)' => At(toQueue, fromQueue, p, x)
              /\ toQueue'[y] = toQueue[y] /\ At(toQueue, fromQueue, p, x)
                 => At(toQueue, fromQueue, p, x)'
  <2>1. x # y /\ toQueue'[x] = toQueue[x] /\ fromQueue'[x] = fromQueue[x]
    BY <1>6, <1>7, <1>13, <1>15 DEF Ids
  <2>2. ASSUME NEW id \in WorkerIds
        PROVE  /\ id # y /\ id # z => (Carries(toQueue'[id], x) <=> Carries(toQueue[id], x))
               /\ Carries(fromQueue'[id], x) <=> Carries(fromQueue[id], x)
    BY <1>13, <1>15 DEF Ids
  <2>3. /\ Carries(toQueue'[y], x) => Carries(toQueue[y], x)
        /\ ~Carries(toQueue'[z], x) /\ ~Carries(toQueue[z], x)
    BY <1>13, <1>23, CarriesOne
  <2>4. \A v \in Workers : Holds(v, x)' <=> Holds(v, x)
    BY <1>3 DEF Holds
  <2>5. At(toQueue, fromQueue, p, x)' => At(toQueue, fromQueue, p, x)
    BY <2>1, <2>2, <2>3, <2>4 DEF At
  <2>6. ASSUME toQueue'[y] = toQueue[y]
        PROVE  At(toQueue, fromQueue, p, x) => At(toQueue, fromQueue, p, x)'
    BY <2>1, <2>2, <2>3, <2>4, <2>6 DEF At
  <2>7. QED
    BY <2>5, <2>6
<1>25. ClientsInv(toQueue, fromQueue)' /\ CrashesInv(toQueue, fromQueue, worker_queue)'
  <2>1. PICK g, g2 : g = Cardinality(Gone(toQueue, worker_queue))
                     /\ g2 = Cardinality(Gone(toQueue, worker_queue)')
    OBVIOUS
  <2>2. Shrinks
    BY <1>24 DEF Shrinks
  <2>3. PICK A, B : A = Gone(toQueue, worker_queue)' /\ B = Gone(toQueue, worker_queue)
    OBVIOUS
  <2>4. A \in SUBSET WorkerIds /\ B \in SUBSET WorkerIds /\ A \subseteq B
    <3>1. A \in SUBSET WorkerIds /\ B \in SUBSET WorkerIds
      BY <2>3 DEF Gone
    <3>2. \A id \in WorkerIds : id # z => toQueue'[id] \in {<<>>, toQueue[id]}
      BY <1>13 DEF Ids
    <3>3. A \subseteq B
      BY <1>3, <1>9, <2>3, <3>2 DEF Gone
    <3>4. QED
      BY <3>1, <3>3
  <2>5. g \in Nat /\ g2 \in Nat /\ g2 <= g
    BY <2>1, <2>3, <2>4, Counting
  <2>6. ASSUME Loses PROVE y \in B /\ y \notin A
    <3>1. toQueue'[y] # toQueue[y]
      BY <1>24, <2>6 DEF Loses
    <3>2. toQueue[y] # <<>> /\ toQueue'[y] = <<>>
      BY <1>13, <3>1
    <3>3. y \in B
      BY <1>6, <1>9, <2>3, <3>2 DEF Gone
    <3>4. y \notin Members(worker_queue)
      BY <1>1, <1>6, <3>2 DEF WorkersInv
    <3>5. y \notin A
      BY <1>3, <2>3, <3>2, <3>4 DEF Gone
    <3>6. QED
      BY <3>3, <3>5
  <2>7. Loses => g2 + 1 <= g
    <3>1. Loses => y \in B /\ A \subseteq B \ {y}
      BY <2>4, <2>6
    <3>2. QED
      BY <2>1, <2>3, <2>4, <3>1, Counting
  <2>8. crashes \in Nat
    BY <1>1, PirateAssumption DEF Types
  <2>9. /\ g2 + crashes <= g + crashes'
        /\ Loses => g2 + 1 + crashes <= g + crashes'
    BY <1>3, <2>5, <2>7, <2>8
  <2>10. \A c \in Clients : Id(c)' = Id(c)
                           /\ (Id(c) \in connected' <=> Id(c) \in connected)
    BY <1>3, <1>4, <1>8 DEF Peers
  <2>11. QED
    BY <1>1, <1>3, <1>18, <2>1, <2>2, <2>5, <2>9, <2>10, LossPaid
<1>26. OverflowExplained'
  <2>1. Running \subseteq Running'
    BY <1>3, <1>16 DEF Running
  <2>2. Cardinality(Running) <= Cardinality(Running')
    BY <2>1, RunningFinite, FS_Subset
  <2>3. crashes \in Nat
    BY <1>1, PirateAssumption DEF Types
  <2>4. Cardinality(Running) + crashes <= Cardinality(Running') + crashes'
    BY <1>3, <2>2, <2>3, RunningFinite
  <2>5. QED
    BY <1>1, <1>3, <1>18, <2>4, OverflowKeeps
<1>27. QED
  BY <1>18, <1>19, <1>20, <1>22, <1>25, <1>26 DEF IInv, FlowInv

-----------------------------------------------------------------------------
(* The queue is killed.                                                    *)

\* Of a queue with one message at most, the end or the beginning gets through.
LEMMA Spares ==
    ASSUME NEW q, q = <<>> \/ \E m : q = <<m>>, NEW n \in 0 .. Len(q)
    PROVE  /\ SubSeq(q, 1, n) \in {<<>>, q}
           /\ SubSeq(q, Len(q) - n + 1, Len(q)) \in {<<>>, q}
<1>1. CASE q = <<>>
  <2>1. Len(q) = 0 /\ n = 0
    BY <1>1
  <2>2. Len(q) - n + 1 = 1
    BY <2>1
  <2>3. QED
    BY <1>1, <2>1, <2>2, CutNothing
<1>2. ASSUME NEW m, q = <<m>>
      PROVE  /\ SubSeq(q, 1, n) \in {<<>>, q}
             /\ SubSeq(q, Len(q) - n + 1, Len(q)) \in {<<>>, q}
  <2>1. Len(q) = 1 /\ n \in {0, 1}
    BY <1>2
  <2>2. SubSeq(q, 1, n) \in {<<>>, q}
    <3>1. SubSeq(<<m>>, 1, n) = IF n = 1 THEN <<m>> ELSE <<>>
      BY <2>1, CutMessage
    <3>2. QED
      BY <1>2, <3>1
  <2>3. CASE n = 1
    <3>1. Len(q) - n + 1 = 1 /\ Len(q) = n
      BY <2>1, <2>3
    <3>2. QED
      BY <2>2, <3>1
  <2>4. CASE n = 0
    <3>1. Len(q) - n + 1 = 2 /\ Len(q) = 1
      BY <2>1, <2>4
    <3>2. SubSeq(q, 2, 1) = <<>>
      BY SubSeqEmpty
    <3>3. QED
      BY <2>2, <3>1, <3>2
  <2>5. QED
    BY <2>1, <2>3, <2>4
<1>3. QED
  BY <1>1, <1>2

\* Which messages get through.
LEMMA SparedRange ==
    ASSUME NEW qs, \A id \in Ids : qs[id] = <<>> \/ \E m : qs[id] = <<m>>,
           NEW n \in Spared(qs)
    PROVE  \A i \in DOMAIN n : i \in Ids /\ n[i] \in 0 .. Len(qs[i])
<1>1. PICK used : used = {id \in Ids : qs[id] # <<>>}
  OBVIOUS
<1>2. /\ n \in [used -> UNION {0 .. Len(qs[id]) : id \in used}]
      /\ \A id \in used : n[id] <= Len(qs[id])
  BY <1>1 DEF Spared
<1>3. ASSUME NEW i \in used PROVE i \in Ids /\ n[i] \in 0 .. Len(qs[i])
  <2>1. i \in Ids
    BY <1>1, <1>3
  <2>2. n[i] \in Nat
    <3>1. PICK j \in used : n[i] \in 0 .. Len(qs[j])
      BY <1>2, <1>3
    <3>2. QED
      BY <3>1
  <2>3. Len(qs[i]) \in Nat
    <3>1. qs[i] = <<>> \/ \E m : qs[i] = <<m>>
      BY <2>1
    <3>2. QED
      BY <3>1
  <2>4. QED
    BY <1>2, <1>3, <2>1, <2>2, <2>3
<1>4. QED
  BY <1>2, <1>3

\* Each connected peer has what got through of its messages, on its new identity
\* if it has one, and there is nothing else.
Survives(qs, qs2) ==
    /\ DOMAIN qs2 = Ids /\ qs2 = [id \in Ids |-> qs2[id]]
    /\ \A id \in Ids :
           \/ qs2[id] = <<>>
           \/ /\ Id(id.of) \in connected /\ id = Id(id.of)'
              /\ qs2[id] = qs[Id(id.of)]

\* What a death of the queue does to the sockets of its peers.
LEMMA QueueDiesMoves ==
    ASSUME Types, Forms(toQueue, fromQueue), SocketsLoseQueue
    PROVE  /\ session' \in [Peers -> Nat]
           /\ \A p \in Peers : session'[p] = session[p] + IF p \in Anonymous THEN 1 ELSE 0
           /\ connected' = {Id(p)' : p \in {p \in Peers : Id(p) \in connected}}
           /\ Survives(toQueue, toQueue') /\ Survives(fromQueue, fromQueue')
<1>1. session' = [p \in Peers |-> session[p] + IF p \in Anonymous THEN 1 ELSE 0]
  BY DEF SocketsLoseQueue
<1>2. session \in [Peers -> Nat]
  BY DEF Types
<1>3. /\ session' \in [Peers -> Nat]
      /\ \A p \in Peers : session'[p] = session[p] + IF p \in Anonymous THEN 1 ELSE 0
  BY <1>1, <1>2
<1>4. \A p \in Peers :
          Id(p)' = Identity(p, session[p] + IF p \in Anonymous THEN 1 ELSE 0)
  BY <1>3 DEF Id
<1>5. connected' = {Id(p)' : p \in {p \in Peers : Id(p) \in connected}}
  <2>1. connected' = {Identity(p, session[p] + IF p \in Anonymous THEN 1 ELSE 0) :
                          p \in {p \in Peers : Id(p) \in connected}}
    BY DEF SocketsLoseQueue
  <2>2. QED
    BY <1>4, <2>1
<1>6. \A id \in Ids : id.of \in Peers
  BY Identities DEF Ids, Peers
<1>7. \A id \in Ids :
          /\ toQueue[id] = <<>> \/ \E m : toQueue[id] = <<m>>
          /\ fromQueue[id] = <<>> \/ \E m : fromQueue[id] = <<m>>
  BY DEF Forms, Ids, Offer, Task, Call, Answer
<1>8. \A p \in Peers : Id(p) \in Ids
  BY OwnIdentity DEF Peers
<1>9. Survives(toQueue, toQueue')
  <2>1. PICK n \in Spared(toQueue) :
            toQueue' = [id \in Ids |->
                IF /\ Id(id.of) \in connected
                   /\ id.n = session[id.of] + IF id.of \in Anonymous THEN 1 ELSE 0
                THEN [i \in Ids |-> IF i \in DOMAIN n
                                    THEN SubSeq(toQueue[i], Len(toQueue[i]) - n[i] + 1,
                                                Len(toQueue[i]))
                                    ELSE <<>>][Id(id.of)]
                ELSE <<>>]
    BY DEF SocketsLoseQueue
  <2>2. \A i \in DOMAIN n : i \in Ids /\ n[i] \in 0 .. Len(toQueue[i])
    BY <1>7, SparedRange
  <2>3. ASSUME NEW id \in Ids
        PROVE  \/ toQueue'[id] = <<>>
               \/ /\ Id(id.of) \in connected /\ id = Id(id.of)'
                  /\ toQueue'[id] = toQueue[Id(id.of)]
    <3>1. PICK i : i = Id(id.of) /\ i \in Ids
      BY <1>6, <1>8
    <3>2. CASE /\ i \in connected /\ i \in DOMAIN n
               /\ id.n = session[id.of] + IF id.of \in Anonymous THEN 1 ELSE 0
      <4>1. toQueue'[id] = SubSeq(toQueue[i], Len(toQueue[i]) - n[i] + 1, Len(toQueue[i]))
        BY <2>1, <3>1, <3>2
      <4>2. toQueue'[id] \in {<<>>, toQueue[i]}
        BY <1>7, <2>2, <3>1, <3>2, <4>1, Spares
      <4>3. id = Id(id.of)'
        <5>1. id = Identity(id.of, id.n)
          BY Identities
        <5>2. QED
          BY <1>4, <1>6, <3>2, <5>1
      <4>4. QED
        BY <3>1, <3>2, <4>2, <4>3
    <3>3. CASE ~ /\ i \in connected /\ i \in DOMAIN n
                 /\ id.n = session[id.of] + IF id.of \in Anonymous THEN 1 ELSE 0
      BY <2>1, <3>1, <3>3
    <3>4. QED
      BY <3>2, <3>3
  <2>4. QED
    BY <2>1, <2>3 DEF Survives
<1>10. Survives(fromQueue, fromQueue')
  <2>1. PICK n \in Spared(fromQueue) :
            fromQueue' = [id \in Ids |->
                IF /\ Id(id.of) \in connected
                   /\ id.n = session[id.of] + IF id.of \in Anonymous THEN 1 ELSE 0
                THEN [i \in Ids |-> IF i \in DOMAIN n THEN SubSeq(fromQueue[i], 1, n[i])
                                    ELSE <<>>][Id(id.of)]
                ELSE <<>>]
    BY DEF SocketsLoseQueue
  <2>2. \A i \in DOMAIN n : i \in Ids /\ n[i] \in 0 .. Len(fromQueue[i])
    BY <1>7, SparedRange
  <2>3. ASSUME NEW id \in Ids
        PROVE  \/ fromQueue'[id] = <<>>
               \/ /\ Id(id.of) \in connected /\ id = Id(id.of)'
                  /\ fromQueue'[id] = fromQueue[Id(id.of)]
    <3>1. PICK i : i = Id(id.of) /\ i \in Ids
      BY <1>6, <1>8
    <3>2. CASE /\ i \in connected /\ i \in DOMAIN n
               /\ id.n = session[id.of] + IF id.of \in Anonymous THEN 1 ELSE 0
      <4>1. fromQueue'[id] = SubSeq(fromQueue[i], 1, n[i])
        BY <2>1, <3>1, <3>2
      <4>2. fromQueue'[id] \in {<<>>, fromQueue[i]}
        BY <1>7, <2>2, <3>1, <3>2, <4>1, Spares
      <4>3. id = Id(id.of)'
        <5>1. id = Identity(id.of, id.n)
          BY Identities
        <5>2. QED
          BY <1>4, <1>6, <3>2, <5>1
      <4>4. QED
        BY <3>1, <3>2, <4>2, <4>3
    <3>3. CASE ~ /\ i \in connected /\ i \in DOMAIN n
                 /\ id.n = session[id.of] + IF id.of \in Anonymous THEN 1 ELSE 0
      BY <2>1, <3>1, <3>3
    <3>4. QED
      BY <3>2, <3>3
  <2>4. QED
    BY <2>1, <2>3 DEF Survives
<1>11. QED
  BY <1>3, <1>5, <1>9, <1>10

\* A death of the queue loses its list and frames under way, for one crash.
LEMMA QueueDiesInv ==
    ASSUME IInv, QueueDies
    PROVE  IInv'
<1>1. /\ Types /\ Hands /\ Forms(toQueue, fromQueue)
      /\ WorkersInv(toQueue, fromQueue, worker_queue)
      /\ ClientsInv(toQueue, fromQueue)
      /\ CrashesInv(toQueue, fromQueue, worker_queue)
  BY DEF IInv, FlowInv
<1>2. /\ qstate' = "down" /\ crashes < MaxCrashes /\ crashes' = crashes + 1
      /\ worker_queue' = <<>> /\ lost' = lost
      /\ orphans' = orphans \union {Id(w) : w \in {w \in Workers : wstate[w] = "polling"}}
      /\ cstate' = cstate /\ sequence' = sequence /\ retries_left' = retries_left
      /\ wstate' = wstate /\ request' = request /\ executed' = executed
  BY DEF QueueDies, SocketsLoseQueue, clientVars, jobs
<1>3. crashes \in Nat /\ crashes' \in 0 .. MaxCrashes
  BY <1>1, <1>2, PirateAssumption DEF Types
<1>4. /\ session' \in [Peers -> Nat]
      /\ \A p \in Peers : session'[p] = session[p] + IF p \in Anonymous THEN 1 ELSE 0
      /\ connected' = {Id(p)' : p \in {p \in Peers : Id(p) \in connected}}
      /\ Survives(toQueue, toQueue') /\ Survives(fromQueue, fromQueue')
  BY <1>1, QueueDiesMoves DEF QueueDies
<1>5. /\ DOMAIN toQueue' = Ids /\ toQueue' = [id \in Ids |-> toQueue'[id]]
      /\ DOMAIN fromQueue' = Ids /\ fromQueue' = [id \in Ids |-> fromQueue'[id]]
      /\ \A id \in Ids :
           /\ \/ toQueue'[id] = <<>>
              \/ /\ Id(id.of) \in connected /\ id = Id(id.of)'
                 /\ toQueue'[id] = toQueue[Id(id.of)]
           /\ \/ fromQueue'[id] = <<>>
              \/ /\ Id(id.of) \in connected /\ id = Id(id.of)'
                 /\ fromQueue'[id] = fromQueue[Id(id.of)]
  BY <1>4 DEF Survives
<1>6. \A p \in Peers : session[p] \in Nat
  BY <1>1 DEF Types
<1>7. /\ \A w \in Workers : session'[w] = session[w] /\ Id(w)' = Id(w)
      /\ \A c \in Clients : session'[c] \in {session[c], session[c] + 1}
  <2>1. /\ \A w \in Workers : w \notin Anonymous /\ w \in Peers
        /\ \A c \in Clients : c \in Peers
    BY PirateAssumption DEF Peers
  <2>2. \A w \in Workers : session'[w] = session[w]
    BY <1>4, <1>6, <2>1
  <2>3. QED
    BY <1>4, <1>6, <2>1, <2>2 DEF Id
<1>8. Types'
  <2>1. connected' \subseteq {Id(p)' : p \in Peers}
    BY <1>4
  <2>2. \A w \in Workers : session'[w] <= MaxWorkerSockets
    BY <1>1, <1>7 DEF Types
  <2>3. \A c \in Clients : session'[c] \in 1 .. MaxClientSockets + crashes'
    <3>1. /\ \A c \in Clients : session[c] \in 1 .. MaxClientSockets + crashes
          /\ MaxClientSockets \in Nat
      BY <1>1, PirateAssumption DEF Types
    <3>2. QED
      BY <1>2, <1>3, <1>7, <3>1
  <2>4. orphans' \subseteq WorkerIds
    BY <1>1, <1>2, OwnIdentity DEF Types
  <2>5. QED
    BY <1>1, <1>2, <1>3, <1>4, <2>1, <2>2, <2>3, <2>4 DEF Types
<1>9. /\ \A c \in Clients : Id(c)' \in ClientIds /\ Id(c)'.of = c /\ Id(c)'.n = session'[c]
      /\ \A p \in Peers : Id(p)'.of = p
  <2>1. \A c \in Clients : session'[c] \in 0 .. MaxClientSockets + MaxCrashes
    BY <1>3, <1>8, PirateAssumption DEF Types
  <2>2. \A c \in Clients : Id(c)' \in ClientIds
    BY <2>1, Identities DEF Id
  <2>3. \A p \in Peers : Id(p)'.of = p /\ Id(p)'.n = session'[p]
    BY Identities DEF Id
  <2>4. QED
    BY <2>2, <2>3 DEF Peers
<1>10. ASSUME NEW r \in Made PROVE r \in Made'
  <2>1. PICK d : d = r[1].of
    OBVIOUS
  <2>2. /\ d \in Clients /\ d \in Peers /\ r[1].n \in 1 .. session[d]
        /\ r[2] <= sequence[d]
        /\ r[1].n = session[d] => r[2] = sequence[d]
        /\ r \in ClientIds \X (1 .. MaxCalls)
    BY <2>1, Identities DEF Made, Peers
  <2>3. /\ r[1].n \in 1 .. session'[d]
        /\ r[1].n = session'[d] => r[1].n = session[d]
    BY <1>6, <1>7, <2>2
  <2>4. QED
    BY <1>2, <2>1, <2>2, <2>3 DEF Made
<1>11. Made \subseteq Made' /\ Done \subseteq Done'
  BY <1>2, <1>10 DEF Done
<1>12. ASSUME NEW r \in Made, NEW c \in Clients, r[1] = Id(c)
       PROVE  \E s \in Made' : s[1] = Id(c)' /\ s[2] = r[2] /\ (r \in Done => s \in Done')
  <2>1. /\ r[1].of = c /\ r[1].n = session[c] /\ r[2] = sequence[c]
        /\ r[2] \in 1 .. MaxCalls
    BY <1>1, <1>12, OwnIdentity DEF Made, Peers
  <2>2. PICK s : s = <<Id(c)', r[2]>>
    OBVIOUS
  <2>3. s[1] = Id(c)' /\ s[2] = r[2] /\ s \in ClientIds \X (1 .. MaxCalls)
    BY <1>9, <2>1, <2>2
  <2>4. session'[c] \in 1 .. session'[c] /\ sequence[c] <= sequence[c]
    BY <1>1, <1>8 DEF Types
  <2>5. s \in Made'
    BY <1>2, <1>9, <2>1, <2>3, <2>4 DEF Made
  <2>6. r \in Done => s \in Done'
    BY <1>2, <1>9, <2>1, <2>3, <2>5 DEF Done
  <2>7. QED
    BY <2>3, <2>5, <2>6
<1>13. Hands'
  BY <1>1, <1>2, <1>11 DEF Hands
<1>14. \A id \in WorkerIds : /\ toQueue'[id] \in {<<>>, toQueue[id]}
                             /\ fromQueue'[id] \in {<<>>, fromQueue[id]}
                             /\ Working(id)' <=> Working(id)
  <2>1. ASSUME NEW id \in WorkerIds
        PROVE  /\ toQueue'[id] \in {<<>>, toQueue[id]}
               /\ fromQueue'[id] \in {<<>>, fromQueue[id]}
               /\ Working(id)' <=> Working(id)
    <3>1. id \in Ids /\ id.of \in Workers /\ Id(id.of)' = Id(id.of)
      BY <1>7, Identities DEF Ids
    <3>2. QED
      BY <1>2, <1>5, <3>1 DEF Working
  <2>2. QED
    BY <2>1
<1>15. Forms(toQueue, fromQueue)'
  <2>1. ASSUME NEW id \in WorkerIds
        PROVE  Offer(toQueue'[id], Done') /\ Task(fromQueue'[id], Made')
    <3>1. Offer(toQueue[id], Done) /\ Task(fromQueue[id], Made)
      BY <1>1 DEF Forms
    <3>2. toQueue'[id] \in {<<>>, toQueue[id]} /\ fromQueue'[id] \in {<<>>, fromQueue[id]}
      BY <1>14
    <3>3. QED
      BY <1>11, <3>1, <3>2 DEF Offer, Task
  <2>2. ASSUME NEW x \in ClientIds
        PROVE  Call(x, toQueue'[x], Made') /\ Answer(x, fromQueue'[x], Done')
    <3>1. PICK c \in Clients : c = x.of
      BY Identities
    <3>2. x \in Ids /\ Id(c) \in ClientIds
      BY <1>1, OwnIdentity DEF Ids
    <3>3. Call(Id(c), toQueue[Id(c)], Made) /\ Answer(Id(c), fromQueue[Id(c)], Done)
      BY <1>1, <3>2 DEF Forms
    <3>4. Call(x, toQueue'[x], Made')
      <4>1. CASE x = Id(c)' /\ toQueue'[x] = toQueue[Id(c)] /\ toQueue'[x] # <<>>
        <5>1. PICK r \in Made : r[1] = Id(c) /\ toQueue'[x] = <<Request(r[2])>>
          BY <3>3, <4>1 DEF Call
        <5>2. PICK s \in Made' : s[1] = x /\ s[2] = r[2]
          BY <1>12, <4>1, <5>1
        <5>3. QED
          BY <5>1, <5>2 DEF Call
      <4>2. CASE toQueue'[x] = <<>>
        BY <4>2 DEF Call
      <4>3. QED
        BY <1>5, <3>1, <3>2, <4>1, <4>2
    <3>5. Answer(x, fromQueue'[x], Done')
      <4>1. CASE x = Id(c)' /\ fromQueue'[x] = fromQueue[Id(c)] /\ fromQueue'[x] # <<>>
        <5>1. PICK r \in Done : r[1] = Id(c) /\ fromQueue'[x] = <<Request(r[2])>>
          BY <3>3, <4>1 DEF Answer
        <5>2. r \in Made
          BY DEF Done
        <5>3. PICK s \in Made' : s[1] = x /\ s[2] = r[2] /\ s \in Done'
          BY <1>12, <4>1, <5>1, <5>2
        <5>4. QED
          BY <5>1, <5>3 DEF Answer
      <4>2. CASE fromQueue'[x] = <<>>
        BY <4>2 DEF Answer
      <4>3. QED
        BY <1>5, <3>1, <3>2, <4>1, <4>2
    <3>6. QED
      BY <3>4, <3>5
  <2>3. \A id \in Ids : fromQueue'[id] # <<>> => id \in connected'
    <3>1. \A id \in Ids : id.of \in Peers
      BY Identities DEF Ids, Peers
    <3>2. QED
      BY <1>4, <1>5, <3>1
  <2>4. QED
    BY <1>5, <2>1, <2>2, <2>3 DEF Forms
<1>16. \A p \in Peers : Id(p)' \in connected' <=> Id(p) \in connected
  BY <1>4, <1>9
<1>17. WorkersInv(toQueue, fromQueue, worker_queue)'
  <2>1. Members(worker_queue') = {} /\ worker_queue' \in Seq(WorkerIds)
        /\ DOMAIN worker_queue' = {}
    BY <1>2 DEF Members
  <2>2. ASSUME NEW id \in WorkerIds
        PROVE  /\ toQueue'[id] # <<>> => fromQueue'[id] = <<>> /\ ~Working(id)'
               /\ fromQueue'[id] # <<>> => ~Working(id)'
               /\ id.n > session'[id.of] => toQueue'[id] = <<>>
    <3>1. /\ toQueue[id] # <<>> => fromQueue[id] = <<>> /\ ~Working(id)
          /\ fromQueue[id] # <<>> => ~Working(id)
          /\ id.n > session[id.of] => toQueue[id] = <<>>
      BY <1>1 DEF WorkersInv
    <3>2. session'[id.of] = session[id.of]
      BY <1>7, Identities
    <3>3. QED
      BY <1>14, <3>1, <3>2
  <2>3. ASSUME NEW w \in Workers
        PROVE  /\ wstate'[w] = "off" <=> Id(w)' \notin connected'
               /\ wstate'[w] = "polling" => Id(w)' \in orphans'
    <3>1. wstate[w] = "off" <=> Id(w) \notin connected
      BY <1>1 DEF WorkersInv
    <3>2. Id(w)' \in connected' <=> Id(w) \in connected
      BY <1>16 DEF Peers
    <3>3. QED
      BY <1>2, <1>7, <3>1, <3>2
  <2>4. QED
    BY <2>1, <2>2, <2>3 DEF WorkersInv
<1>18. \A w, x : Holds(w, x)' <=> Holds(w, x)
  BY <1>2 DEF Holds
<1>19. ASSUME NEW x \in ClientIds, x.n > session[x.of], NEW p PROVE ~At(toQueue, fromQueue, p, x)
  <2>1. \A r \in Made : r[1] # x
    BY <1>1, <1>19, Identities DEF Made, Types, Peers
  <2>2. toQueue[x] = <<>> /\ fromQueue[x] = <<>>
    BY <1>1, <2>1 DEF Forms, Call, Answer, Done
  <2>3. ASSUME NEW q, NEW r \in Made, q = <<Wrapped(r[1], r[2])>> PROVE ~Carries(q, x)
    BY <2>1, <2>3, CarriesOne
  <2>4. ASSUME NEW id \in WorkerIds PROVE ~Carries(fromQueue[id], x)
    <3>1. Task(fromQueue[id], Made)
      BY <1>1 DEF Forms
    <3>2. QED
      BY <2>3, <3>1, CarriesOne DEF Task
  <2>5. ASSUME NEW id \in WorkerIds PROVE ~Carries(toQueue[id], x)
    <3>1. Offer(toQueue[id], Done) /\ Done \subseteq Made
      BY <1>1 DEF Forms, Done
    <3>2. QED
      BY <2>3, <3>1, CarriesOne DEF Offer
  <2>6. ASSUME NEW w \in Workers PROVE ~Holds(w, x)
    <3>1. SUFFICES ASSUME NEW k \in 1 .. MaxCalls, request[w] = Enveloped(x, k) PROVE FALSE
      BY DEF Holds
    <3>2. request[w] # <<>>
      BY <3>1, Distinct
    <3>3. PICK r \in Made : request[w] = Enveloped(r[1], r[2])
      BY <1>1, <3>2 DEF Hands
    <3>4. Enveloped(x, k) = Enveloped(r[1], r[2])
      BY <3>1, <3>3
    <3>5. x = r[1]
      BY <3>4, Distinct
    <3>6. QED
      BY <2>1, <3>5
  <2>7. QED
    BY <2>2, <2>4, <2>5, <2>6 DEF At
<1>20. ASSUME NEW x \in ClientIds, NEW p, At(toQueue, fromQueue, p, x)'
       PROVE  \/ At(toQueue, fromQueue, p, x)
              \/ /\ x = Id(x.of)' /\ x # Id(x.of)
                 /\ \/ p = <<"called", x>> /\ toQueue[Id(x.of)] # <<>>
                    \/ p = <<"answered", x>> /\ fromQueue[Id(x.of)] # <<>>
  <2>1. PICK c : c = x.of /\ c \in Clients /\ x \in Ids
    BY Identities DEF Ids
  <2>2. \A id \in WorkerIds : /\ Carries(toQueue'[id], x) => Carries(toQueue[id], x)
                              /\ Carries(fromQueue'[id], x) => Carries(fromQueue[id], x)
    BY <1>14, CarriesOne
  <2>3. /\ toQueue'[x] # <<>> => x = Id(c)' /\ toQueue'[x] = toQueue[Id(c)]
        /\ fromQueue'[x] # <<>> => x = Id(c)' /\ fromQueue'[x] = fromQueue[Id(c)]
    BY <1>5, <2>1
  <2>4. CASE p = <<"called", x>> /\ toQueue'[x] # <<>>
    <3>1. x = Id(c)' /\ toQueue[Id(c)] # <<>>
      BY <2>3, <2>4
    <3>2. CASE x = Id(c)
      BY <2>4, <3>1, <3>2 DEF At
    <3>3. CASE x # Id(c)
      BY <2>1, <2>4, <3>1, <3>3
    <3>4. QED
      BY <3>2, <3>3
  <2>5. CASE p = <<"answered", x>> /\ fromQueue'[x] # <<>>
    <3>1. x = Id(c)' /\ fromQueue[Id(c)] # <<>>
      BY <2>3, <2>5
    <3>2. CASE x = Id(c)
      BY <2>5, <3>1, <3>2 DEF At
    <3>3. CASE x # Id(c)
      BY <2>1, <2>5, <3>1, <3>3
    <3>4. QED
      BY <3>2, <3>3
  <2>6. CASE \/ \E id \in WorkerIds : p = <<"sent", id>> /\ Carries(fromQueue'[id], x)
             \/ \E w \in Workers : p = <<"held", w>> /\ Holds(w, x)
             \/ \E id \in WorkerIds : p = <<"replied", id>> /\ Carries(toQueue'[id], x)
    BY <2>2, <2>6 DEF At
  <2>7. QED
    BY <1>18, <1>20, <2>4, <2>5, <2>6 DEF At
<1>21. ClientsInv(toQueue, fromQueue)'
  <2>1. ASSUME NEW x \in ClientIds, NEW p, NEW q,
               At(toQueue, fromQueue, p, x)', At(toQueue, fromQueue, q, x)'
        PROVE  p = q
    <3>1. PICK c, y : c = x.of /\ y = Id(c) /\ c \in Clients /\ y \in ClientIds
      BY <1>1, Identities, OwnIdentity
    <3>2. CASE x = Id(c)' /\ x # y
      <4>1. x.n = session'[c] /\ session'[c] = session[c] + 1 /\ session[c] \in Nat
        BY <1>6, <1>7, <1>9, <3>1, <3>2 DEF Id, Peers
      <4>2. x.n > session[x.of]
        BY <3>1, <4>1
      <4>3. /\ \/ p = <<"called", x>> /\ toQueue[y] # <<>>
               \/ p = <<"answered", x>> /\ fromQueue[y] # <<>>
            /\ \/ q = <<"called", x>> /\ toQueue[y] # <<>>
               \/ q = <<"answered", x>> /\ fromQueue[y] # <<>>
        <5>1. ~At(toQueue, fromQueue, p, x) /\ ~At(toQueue, fromQueue, q, x)
          BY <1>19, <4>2
        <5>2. \/ p = <<"called", x>> /\ toQueue[y] # <<>>
              \/ p = <<"answered", x>> /\ fromQueue[y] # <<>>
          BY <1>20, <2>1, <3>1, <5>1
        <5>3. \/ q = <<"called", x>> /\ toQueue[y] # <<>>
              \/ q = <<"answered", x>> /\ fromQueue[y] # <<>>
          BY <1>20, <2>1, <3>1, <5>1
        <5>4. QED
          BY <5>2, <5>3
      <4>4. ~(toQueue[y] # <<>> /\ fromQueue[y] # <<>>)
        <5>1. PICK a, b : a = <<"called", y>> /\ b = <<"answered", y>>
          OBVIOUS
        <5>2. a # b
          BY <5>1
        <5>3. /\ toQueue[y] # <<>> => At(toQueue, fromQueue, a, y)
              /\ fromQueue[y] # <<>> => At(toQueue, fromQueue, b, y)
          BY <5>1 DEF At
        <5>4. QED
          BY <1>1, <3>1, <5>2, <5>3 DEF ClientsInv
      <4>5. QED
        BY <4>3, <4>4
    <3>3. CASE ~(x = Id(c)' /\ x # y)
      <4>1. At(toQueue, fromQueue, p, x) /\ At(toQueue, fromQueue, q, x)
        BY <1>20, <2>1, <3>1, <3>3
      <4>2. QED
        BY <1>1, <4>1 DEF ClientsInv
    <3>4. QED
      BY <3>2, <3>3
  <2>2. ASSUME NEW c \in Clients
        PROVE  /\ cstate'[c] = "abandoned" <=> Id(c)' \notin connected'
               /\ cstate'[c] = "ready" => Nowhere(toQueue, fromQueue, Id(c))'
               /\ cstate'[c] = "waiting" => sequence'[c] > 0
               /\ cstate'[c] # "abandoned" => retries_left'[c] > 0
    <3>1. /\ cstate[c] = "abandoned" <=> Id(c) \notin connected
          /\ cstate[c] = "ready" => Nowhere(toQueue, fromQueue, Id(c))
          /\ cstate[c] = "waiting" => sequence[c] > 0
          /\ cstate[c] # "abandoned" => retries_left[c] > 0
      BY <1>1 DEF ClientsInv
    <3>2. Id(c)' \in connected' <=> Id(c) \in connected
      BY <1>16 DEF Peers
    <3>3. Nowhere(toQueue, fromQueue, Id(c)) => Nowhere(toQueue, fromQueue, Id(c))'
      <4>1. PICK x, y : x = Id(c)' /\ y = Id(c)
        OBVIOUS
      <4>2. x \in ClientIds /\ x.of = c
        BY <1>9, <4>1
      <4>3. SUFFICES ASSUME Nowhere(toQueue, fromQueue, y), NEW p,
                            At(toQueue, fromQueue, p, x)'
                     PROVE  FALSE
        BY <4>1 DEF Nowhere
      <4>4. toQueue[y] = <<>> /\ fromQueue[y] = <<>>
        <5>1. PICK a, b : a = <<"called", y>> /\ b = <<"answered", y>>
          OBVIOUS
        <5>2. /\ toQueue[y] # <<>> => At(toQueue, fromQueue, a, y)
              /\ fromQueue[y] # <<>> => At(toQueue, fromQueue, b, y)
          BY <5>1 DEF At
        <5>3. QED
          BY <4>3, <5>2 DEF Nowhere
      <4>5. At(toQueue, fromQueue, p, x)
        BY <1>20, <4>1, <4>2, <4>3, <4>4
      <4>6. CASE x = y
        BY <4>3, <4>5, <4>6 DEF Nowhere
      <4>7. CASE x # y
        <5>1. x.n = session'[c] /\ session'[c] = session[c] + 1 /\ session[c] \in Nat
          BY <1>6, <1>7, <1>9, <4>1, <4>7 DEF Id, Peers
        <5>2. x.n > session[x.of]
          BY <4>2, <5>1
        <5>3. QED
          BY <1>19, <4>2, <4>5, <5>2
      <4>8. QED
        BY <4>6, <4>7
    <3>4. QED
      BY <1>2, <3>1, <3>2, <3>3
  <2>3. QED
    BY <2>1, <2>2 DEF ClientsInv
<1>22. CrashesInv(toQueue, fromQueue, worker_queue)'
  <2>1. Gone(toQueue, worker_queue)' = {}
    <3>1. Members(worker_queue') = {}
      BY <1>2 DEF Members
    <3>2. ASSUME NEW id \in WorkerIds, toQueue'[id] # <<>> PROVE id \in connected'
      <4>1. id \in Ids /\ id.of \in Peers
        BY Identities DEF Ids, Peers
      <4>2. QED
        BY <1>4, <1>5, <3>2, <4>1
    <3>3. QED
      BY <3>1, <3>2 DEF Gone
  <2>2. PICK g, g2 : g = Cardinality(Gone(toQueue, worker_queue))
                     /\ g2 = Cardinality(Gone(toQueue, worker_queue)')
    OBVIOUS
  <2>3. g2 = 0
    BY <2>1, <2>2, FS_EmptySet
  <2>4. g \in Nat
    <3>1. Gone(toQueue, worker_queue) \in SUBSET WorkerIds
      BY DEF Gone
    <3>2. QED
      BY <2>2, <3>1, Counting
  <2>5. ASSUME NEW c \in Clients
        PROVE  lost'[c] + Missing(toQueue, fromQueue, c)' + g2 + crashes
                   <= lost[c] + Missing(toQueue, fromQueue, c) + g + crashes'
    <3>1. PICK m, m2 : m = Missing(toQueue, fromQueue, c)
                       /\ m2 = Missing(toQueue, fromQueue, c)'
      OBVIOUS
    <3>2. m \in {0, 1} /\ m2 \in {0, 1} /\ lost[c] \in Nat /\ lost'[c] = lost[c]
      BY <1>1, <1>2, <3>1 DEF Missing, Types
    <3>3. lost'[c] + m2 + g2 + crashes <= lost[c] + m + g + crashes'
      BY <1>2, <1>3, <2>3, <2>4, <3>2
    <3>4. QED
      BY <3>1, <3>3
  <2>6. g2 + crashes <= g + crashes' /\ g2 \in Nat
    BY <1>2, <1>3, <2>3, <2>4
  <2>7. QED
    BY <1>1, <1>8, <2>2, <2>4, <2>5, <2>6, CrashesKeep
<1>23. OverflowExplained'
  BY <1>2 DEF OverflowExplained
<1>24. QED
  BY <1>8, <1>13, <1>15, <1>17, <1>21, <1>22, <1>23 DEF IInv, FlowInv

-----------------------------------------------------------------------------
(* The invariant holds.                                                    *)

\* Nothing is under way before the programs start.
LEMMA InitInv == Init => IInv
<1> SUFFICES ASSUME Init PROVE IInv
  OBVIOUS
<1>1. /\ qstate = "running"
      /\ session = [p \in Peers |-> IF p \in Clients THEN 1 ELSE 0]
      /\ connected = {Identity(c, 1) : c \in Clients}
      /\ toQueue = [id \in Ids |-> <<>>] /\ fromQueue = [id \in Ids |-> <<>>]
      /\ cstate = [c \in Clients |-> "ready"] /\ sequence = [c \in Clients |-> 0]
      /\ retries_left = [c \in Clients |-> Retries]
      /\ wstate = [w \in Workers |-> "off"] /\ request = [w \in Workers |-> <<>>]
      /\ executed = {} /\ crashes = 0
      /\ worker_queue = <<>> /\ lost = [c \in Clients |-> 0] /\ orphans = {}
  BY DEF Init, PirateInit
<1>2. /\ \A w \in Workers : w \in Peers /\ session[w] = 0 /\ Id(w) = Identity(w, 0)
      /\ \A c \in Clients : c \in Peers /\ session[c] = 1 /\ Id(c) = Identity(c, 1)
  BY <1>1, PirateAssumption DEF Peers, Id
<1>3. Types
  <2>1. /\ MaxWorkerSockets \in Nat /\ MaxClientSockets \in Nat \ {0}
        /\ MaxCalls \in Nat /\ Retries \in Nat \ {0} /\ MaxCrashes \in Nat
    BY PirateAssumption
  <2>2. session \in [Peers -> Nat]
    BY <1>1
  <2>3. \A w \in Workers : session[w] <= MaxWorkerSockets
    BY <1>2, <2>1
  <2>4. \A c \in Clients : session[c] \in 1 .. MaxClientSockets + crashes
    BY <1>1, <1>2, <2>1
  <2>5. connected \subseteq {Id(p) : p \in Peers}
    BY <1>1, <1>2
  <2>6. /\ sequence \in [Clients -> 0 .. MaxCalls]
        /\ retries_left \in [Clients -> 0 .. Retries]
        /\ crashes \in 0 .. MaxCrashes /\ lost \in [Clients -> Nat]
    BY <1>1, <2>1
  <2>7. QED
    BY <1>1, <2>2, <2>3, <2>4, <2>5, <2>6 DEF Types
<1>4. Hands
  BY <1>1 DEF Hands
<1>5. \A id \in Ids : toQueue[id] = <<>> /\ fromQueue[id] = <<>>
  BY <1>1
<1>6. Forms(toQueue, fromQueue)
  BY <1>1, <1>5 DEF Forms, Offer, Task, Call, Answer, Ids
<1>7. Members(worker_queue) = {} /\ worker_queue \in Seq(WorkerIds)
      /\ DOMAIN worker_queue = {}
  BY <1>1 DEF Members
<1>8. \A id \in WorkerIds : ~Working(id)
  BY <1>1, Identities DEF Working
<1>9. \A w \in Workers : Id(w) \notin connected
  <2>1. ASSUME NEW w \in Workers, NEW c \in Clients PROVE Id(w) # Identity(c, 1)
    <3>1. w \in Peers /\ c \in Peers /\ w # c
      BY PirateAssumption DEF Peers
    <3>2. Id(w).of = w /\ Identity(c, 1).of = c
      BY <1>2, <3>1, Identities
    <3>3. QED
      BY <3>1, <3>2
  <2>2. QED
    BY <1>1, <2>1
<1>10. WorkersInv(toQueue, fromQueue, worker_queue)
  BY <1>1, <1>5, <1>7, <1>8, <1>9 DEF WorkersInv, Ids
<1>11. \A x \in ClientIds : Nowhere(toQueue, fromQueue, x)
  <2>1. ASSUME NEW x \in ClientIds, NEW p PROVE ~At(toQueue, fromQueue, p, x)
    <3>1. \A w \in Workers : ~Holds(w, x)
      BY <1>1, Distinct DEF Holds
    <3>2. \A id \in WorkerIds : ~Carries(toQueue[id], x) /\ ~Carries(fromQueue[id], x)
      BY <1>5, CarriesOne DEF Ids
    <3>3. toQueue[x] = <<>> /\ fromQueue[x] = <<>>
      BY <1>5 DEF Ids
    <3>4. QED
      BY <3>1, <3>2, <3>3 DEF At
  <2>2. QED
    BY <2>1 DEF Nowhere
<1>12. ClientsInv(toQueue, fromQueue)
  <2>1. \A c \in Clients : Id(c) \in connected /\ Nowhere(toQueue, fromQueue, Id(c))
    BY <1>1, <1>2, <1>3, <1>11, OwnIdentity
  <2>2. \A c \in Clients : cstate[c] = "ready" /\ retries_left[c] > 0
    BY <1>1, PirateAssumption
  <2>3. QED
    BY <1>11, <2>1, <2>2 DEF ClientsInv, Nowhere
<1>13. CrashesInv(toQueue, fromQueue, worker_queue)
  <2>1. Gone(toQueue, worker_queue) = {}
    BY <1>5, <1>7 DEF Gone, Ids
  <2>2. Cardinality(Gone(toQueue, worker_queue)) = 0
    BY <2>1, FS_EmptySet
  <2>3. \A c \in Clients : Missing(toQueue, fromQueue, c) = 0 /\ lost[c] = 0
    BY <1>1 DEF Missing
  <2>4. QED
    BY <1>1, <2>2, <2>3 DEF CrashesInv
<1>14. QED
  BY <1>1, <1>3, <1>4, <1>6, <1>10, <1>12, <1>13 DEF IInv, FlowInv, OverflowExplained

\* Every step keeps the invariant.
LEMMA NextInv == IInv /\ [Next]_vars => IInv'
<1> SUFFICES ASSUME IInv, [Next]_vars PROVE IInv'
  OBVIOUS
<1>1. ASSUME QueueStep PROVE IInv'
  <2>1. ASSUME NEW b \in WorkerIds, Iterates(b, Nobody) PROVE IInv'
    BY <2>1, IteratesInv
  <2>2. ASSUME NEW f \in ClientIds, Iterates(Nobody, f) PROVE IInv'
    BY <2>2, IteratesInv
  <2>3. ASSUME NEW b \in WorkerIds, NEW f \in ClientIds, Iterates(b, f) PROVE IInv'
    BY <2>3, IteratesInv
  <2>4. QED
    BY <1>1, <2>1, <2>2, <2>3, QueueDiesInv DEF QueueStep
<1>2. ASSUME Others, UNCHANGED <<worker_queue, lost, orphans>> PROVE IInv'
  BY <1>2, RestartsInv, WorkerStartsInv, WorkerTakesInv, WorkerRepliesInv,
     JobDiesInv, ClientCallsInv, ClientTakesInv DEF Others
<1>3. QED
  BY <1>1, <1>2, ClientGivesUpInv, StutterInv DEF Next

\* In whatever order queue, workers and clients act, die and start, what the
\* invariant says of their messages holds.
THEOREM InvariantHolds == Spec => []IInv
  BY InitInv, NextInv, PTL DEF Spec

-----------------------------------------------------------------------------
(* What follows.                                                           *)

\* The list holds the idle workers, by the invariant.
LEMMA WaitingListed == IInv => ListedIffWaiting
<1> SUFFICES ASSUME IInv PROVE ListedIffWaiting
  OBVIOUS
<1>1. /\ Types /\ Hands /\ WorkersInv(toQueue, fromQueue, worker_queue)
  BY DEF IInv, FlowInv
<1>2. Listed = Members(worker_queue) /\ Listed \subseteq WorkerIds
  <2>1. Listed = Members(worker_queue)
    BY DEF Listed, Members
  <2>2. QED
    BY <1>1, <2>1, QueueLength DEF WorkersInv
<1>3. ASSUME NEW id \in Listed PROVE ~Engaged(id)
  <2>1. toQueue[id] = <<>> /\ fromQueue[id] = <<>> /\ ~Working(id) /\ id.of \in Workers
    BY <1>1, <1>2, <1>3, Identities DEF WorkersInv
  <2>2. \A m : ~Has(<<>>, m)
    BY DEF Has
  <2>3. id = Id(id.of) => request[id.of] = <<>>
    BY <1>1, <2>1 DEF Working, Hands
  <2>4. \A r \in Requests : r # <<>>
    BY Distinct DEF Requests
  <2>5. QED
    BY <2>1, <2>2, <2>3, <2>4 DEF Engaged
<1>4. ASSUME NEW id \in Listed \intersect connected PROVE wstate[id.of] = "polling"
  <2>1. id \in WorkerIds /\ id.of \in Workers /\ ~Working(id)
    BY <1>1, <1>2, <1>4, Identities DEF WorkersInv
  <2>2. PICK p \in Peers : id = Id(p)
    BY <1>1, <1>4 DEF Types
  <2>3. id = Id(id.of)
    BY <1>1, <2>2, OwnIdentity
  <2>4. wstate[id.of] # "off"
    BY <1>1, <1>4, <2>1, <2>3 DEF WorkersInv
  <2>5. wstate[id.of] # "working"
    BY <2>1, <2>3 DEF Working
  <2>6. QED
    BY <1>1, <2>1, <2>4, <2>5 DEF Types
<1>5. Cardinality(Listed) = Len(worker_queue)
  BY <1>1, <1>2, QueueLength DEF WorkersInv
<1>6. ASSUME NEW w \in Workers, wstate[w] = "polling",
             <<toQueue[Id(w)], fromQueue[Id(w)]>> = <<<<>>, <<>>>>
      PROVE  Id(w) \in Listed \union orphans
  <2>1. toQueue[Id(w)] = <<>> /\ fromQueue[Id(w)] = <<>>
    BY <1>6
  <2>2. QED
    BY <1>1, <1>2, <1>6, <2>1 DEF WorkersInv
<1>7. QED
  BY <1>3, <1>4, <1>5, <1>6 DEF ListedIffWaiting

\* The queue lists a worker, once, exactly while that waits and nothing is under
\* way between them (s_worker_queue in spqueue.cpp), for any number of workers,
\* clients and crashes.
THEOREM ListIsRight == Spec => []ListedIffWaiting
  BY InvariantHolds, WaitingListed, PTL

\* No client takes a reply to anything but the request it waits for: lpclient
\* never reports a malformed reply, whatever becomes of earlier tries.
THEOREM RepliesMatch == Spec => []RepliesMatchSequence
<1>1. IInv => RepliesMatchSequence
  <2> SUFFICES ASSUME IInv, NEW c \in Clients
               PROVE  /\ Len(fromQueue[Id(c)]) <= 1
                      /\ \A i \in DOMAIN fromQueue[Id(c)] :
                             /\ cstate[c] = "waiting"
                             /\ fromQueue[Id(c)][i] = Request(sequence[c])
    BY DEF RepliesMatchSequence
  <2>1. Types /\ Forms(toQueue, fromQueue) /\ ClientsInv(toQueue, fromQueue)
    BY DEF IInv, FlowInv
  <2>2. PICK q : q = fromQueue[Id(c)]
    OBVIOUS
  <2>3. CASE q = <<>>
    <3>1. Len(q) = 0 /\ DOMAIN q = {}
      BY <2>3
    <3>2. QED
      BY <2>2, <3>1
  <2>4. CASE q # <<>>
    <3>1. q = <<Request(sequence[c])>> /\ cstate[c] = "waiting"
      BY <2>1, <2>2, <2>4, ReplyMatches
    <3>2. Len(q) = 1 /\ DOMAIN q = {1} /\ q[1] = Request(sequence[c])
      BY <3>1
    <3>3. QED
      BY <2>2, <3>1, <3>2
  <2>5. QED
    BY <2>3, <2>4
<1>2. QED
  BY <1>1, InvariantHolds, PTL

\* A client gives up a try of which nothing is left at most as often as processes
\* have died: the entry of a dead worker takes one request, without heartbeats,
\* and whoever dies with a request leaves no entry.
THEOREM LossesPaid == Spec => []TriesLostToCrashes
<1>1. IInv => TriesLostToCrashes
  <2> SUFFICES ASSUME IInv, NEW c \in Clients PROVE lost[c] <= crashes
    BY DEF TriesLostToCrashes
  <2>1. Types /\ CrashesInv(toQueue, fromQueue, worker_queue)
    BY DEF IInv, FlowInv
  <2>2. PICK g, m : /\ g = Cardinality(Gone(toQueue, worker_queue))
                    /\ m = Missing(toQueue, fromQueue, c)
    OBVIOUS
  <2>3. Gone(toQueue, worker_queue) \in SUBSET WorkerIds
    BY DEF Gone
  <2>4. g \in Nat /\ m \in Nat /\ lost[c] \in Nat /\ crashes \in Nat
    BY <2>1, <2>2, <2>3, Counting, PirateAssumption DEF Missing, Types
  <2>5. lost[c] + m + g <= crashes
    BY <2>1, <2>2 DEF CrashesInv
  <2>6. QED
    BY <2>4, <2>5
<1>2. QED
  BY <1>1, InvariantHolds, PTL

\* The queue aborts on MAX_WORKERS only if more workers than that run, those
\* whose entries outlive them included.
THEOREM AbortsOnlyWhenFull == Spec => []OverflowExplained
<1>1. IInv => OverflowExplained
  BY DEF IInv
<1>2. QED
  BY <1>1, InvariantHolds, PTL

\* The request of a socket is in one place at most: neither the queue nor a
\* worker multiplies it, whatever is killed and whoever retries on a new socket.
THEOREM NothingMultiplied == Spec => []NeverMultiplied
<1>1. IInv => NeverMultiplied
  <2> SUFFICES ASSUME IInv, NEW x \in ClientIds, NEW n \in 1 .. MaxCalls
               PROVE  Cardinality(Whereabouts(x, n)) <= 1
    BY DEF NeverMultiplied
  <2>1. /\ Hands /\ Forms(toQueue, fromQueue)
        /\ \A p, q : At(toQueue, fromQueue, p, x) /\ At(toQueue, fromQueue, q, x)
                         => p = q
    BY DEF IInv, FlowInv, ClientsInv
  <2>2. DOMAIN <<>> = {} /\ \A m : DOMAIN <<m>> = {1} /\ <<m>>[1] = m
    OBVIOUS
  <2>3. ASSUME NEW q, Task(q, Made) \/ Offer(q, Done), Has(q, Enveloped(x, n))
        PROVE  Carries(q, x)
    <3>1. q # <<>>
      BY <2>3 DEF Has
    <3>2. PICK m : q = <<m>>
      BY <2>3, <3>1 DEF Task, Offer
    <3>3. m = Enveloped(x, n) \/ m = Wrapped(x, n)
      BY <2>2, <2>3, <3>2 DEF Has, Wrapped
    <3>4. m = Greeting \/ \E r \in Made : m = Wrapped(r[1], r[2])
      BY <2>3, <3>1, <3>2, OneMessage DEF Task, Offer, Done
    <3>5. m # Enveloped(x, n)
      <4>1. /\ Enveloped(x, n) = <<x, Empty, Number(n)>> /\ Len(<<x, Empty, Number(n)>>) = 3
        BY Shapes
      <4>2. Greeting # <<x, Empty, Number(n)>>
        BY DEF Greeting
      <4>3. \A y, k : Wrapped(y, k) # <<x, Empty, Number(n)>>
        <5>1. ASSUME NEW y, NEW k PROVE Wrapped(y, k) # <<x, Empty, Number(n)>>
          <6>1. Wrapped(y, k) = <<Empty, y, Empty, Number(k)>>
            BY Shapes
          <6>2. QED
            BY <6>1
        <5>2. QED
          BY <5>1
      <4>4. QED
        BY <3>4, <4>1, <4>2, <4>3
    <3>6. QED
      BY <3>2, <3>3, <3>5, CarriesOne
  <2>4. ASSUME NEW e \in Whereabouts(x, n)
        PROVE  \/ e \in {<<"called", 1>>, <<"answered", 1>>}
                  /\ At(toQueue, fromQueue, <<e[1], x>>, x)
               \/ e[1] \notin {"called", "answered"} /\ At(toQueue, fromQueue, e, x)
    <3>1. CASE \E i \in DOMAIN toQueue[x] : e = <<"called", i>>
      <4>1. toQueue[x] # <<>> /\ DOMAIN toQueue[x] = {1}
        <5>1. toQueue[x] # <<>>
          BY <2>2, <3>1
        <5>2. Call(x, toQueue[x], Made)
          BY <2>1 DEF Forms
        <5>3. PICK m : toQueue[x] = <<m>>
          BY <5>1, <5>2 DEF Call
        <5>4. QED
          BY <2>2, <5>1, <5>3
      <4>2. PICK p : p = <<"called", x>>
        OBVIOUS
      <4>3. At(toQueue, fromQueue, p, x)
        BY <4>1, <4>2 DEF At
      <4>4. e = <<"called", 1>> /\ p = <<e[1], x>>
        BY <3>1, <4>1, <4>2
      <4>5. QED
        BY <4>3, <4>4
    <3>2. CASE \E i \in DOMAIN fromQueue[x] : e = <<"answered", i>>
      <4>1. fromQueue[x] # <<>> /\ DOMAIN fromQueue[x] = {1}
        <5>1. fromQueue[x] # <<>>
          BY <2>2, <3>2
        <5>2. Answer(x, fromQueue[x], Done)
          BY <2>1 DEF Forms
        <5>3. PICK m : fromQueue[x] = <<m>>
          BY <5>1, <5>2 DEF Answer
        <5>4. QED
          BY <2>2, <5>1, <5>3
      <4>2. PICK p : p = <<"answered", x>>
        OBVIOUS
      <4>3. At(toQueue, fromQueue, p, x)
        BY <4>1, <4>2 DEF At
      <4>4. e = <<"answered", 1>> /\ p = <<e[1], x>>
        BY <3>2, <4>1, <4>2
      <4>5. QED
        BY <4>3, <4>4
    <3>3. CASE \E id \in WorkerIds : e = <<"sent", id>> /\ Has(fromQueue[id], Enveloped(x, n))
      <4>1. PICK id \in WorkerIds : e = <<"sent", id>> /\ Has(fromQueue[id], Enveloped(x, n))
        BY <3>3
      <4>2. Carries(fromQueue[id], x)
        BY <2>1, <2>3, <4>1 DEF Forms
      <4>3. At(toQueue, fromQueue, e, x)
        BY <4>1, <4>2 DEF At
      <4>4. e[1] \notin {"called", "answered"}
        BY <4>1
      <4>5. QED
        BY <4>3, <4>4
    <3>4. CASE \E id \in WorkerIds : e = <<"replied", id>> /\ Has(toQueue[id], Enveloped(x, n))
      <4>1. PICK id \in WorkerIds : e = <<"replied", id>> /\ Has(toQueue[id], Enveloped(x, n))
        BY <3>4
      <4>2. Carries(toQueue[id], x)
        BY <2>1, <2>3, <4>1 DEF Forms
      <4>3. At(toQueue, fromQueue, e, x)
        BY <4>1, <4>2 DEF At
      <4>4. e[1] \notin {"called", "answered"}
        BY <4>1
      <4>5. QED
        BY <4>3, <4>4
    <3>5. CASE \E w \in Workers : e = <<"held", w>> /\ request[w] = Enveloped(x, n)
      <4>1. PICK w \in Workers : e = <<"held", w>> /\ request[w] = Enveloped(x, n)
        BY <3>5
      <4>2. At(toQueue, fromQueue, e, x)
        BY <4>1 DEF At, Holds
      <4>3. e[1] \notin {"called", "answered"}
        BY <4>1
      <4>4. QED
        BY <4>2, <4>3
    <3>6. QED
      BY <2>4, <3>1, <3>2, <3>3, <3>4, <3>5 DEF Whereabouts
  <2>5. ASSUME NEW d \in Whereabouts(x, n), NEW e \in Whereabouts(x, n) PROVE d = e
    <3>1. ASSUME NEW f, f \in {<<"called", 1>>, <<"answered", 1>>}
          PROVE  f[1] \in {"called", "answered"} /\ f = <<f[1], 1>> /\ <<f[1], x>>[1] = f[1]
      BY <3>1
    <3>2. CASE d \in {<<"called", 1>>, <<"answered", 1>>}
      <4>1. PICK p : p = <<d[1], x>>
        OBVIOUS
      <4>2. At(toQueue, fromQueue, p, x) /\ p[1] \in {"called", "answered"} /\ p[1] = d[1]
        BY <2>4, <3>1, <3>2, <4>1
      <4>3. CASE e \in {<<"called", 1>>, <<"answered", 1>>}
        <5>1. PICK q : q = <<e[1], x>>
          OBVIOUS
        <5>2. At(toQueue, fromQueue, q, x) /\ q[1] = e[1]
          BY <2>4, <3>1, <4>3, <5>1
        <5>3. d[1] = e[1]
          BY <2>1, <4>2, <5>2
        <5>4. QED
          BY <3>1, <3>2, <4>3, <5>3
      <4>4. CASE e[1] \notin {"called", "answered"} /\ At(toQueue, fromQueue, e, x)
        BY <2>1, <4>2, <4>4
      <4>5. QED
        BY <2>4, <4>3, <4>4
    <3>3. CASE d[1] \notin {"called", "answered"} /\ At(toQueue, fromQueue, d, x)
      <4>1. CASE e \in {<<"called", 1>>, <<"answered", 1>>}
        <5>1. PICK q : q = <<e[1], x>>
          OBVIOUS
        <5>2. At(toQueue, fromQueue, q, x) /\ q[1] \in {"called", "answered"}
          BY <2>4, <3>1, <4>1, <5>1
        <5>3. QED
          BY <2>1, <3>3, <5>2
      <4>2. CASE e[1] \notin {"called", "answered"} /\ At(toQueue, fromQueue, e, x)
        BY <2>1, <3>3, <4>2
      <4>3. QED
        BY <2>4, <4>1, <4>2
    <3>4. QED
      BY <2>4, <3>2, <3>3
  <2>6. CASE Whereabouts(x, n) = {}
    BY <2>6, FS_EmptySet
  <2>7. CASE Whereabouts(x, n) # {}
    <3>1. PICK e : Whereabouts(x, n) = {e}
      BY <2>5, <2>7
    <3>2. QED
      BY <3>1, FS_Singleton
  <2>8. QED
    BY <2>6, <2>7
<1>2. QED
  BY <1>1, InvariantHolds, PTL

-----------------------------------------------------------------------------
(* What a step does.                                                       *)

\* A socket that is opened or closed changes the connections.
LEMMA Reopened ==
    ASSUME Types, NEW p \in Peers,
           session[p] \in Nat,
           connected' = (connected \ {Id(p)}) \union {Identity(p, session[p] + 1)}
    PROVE  connected' # connected
<1>1. PICK z : z = Identity(p, session[p] + 1)
  OBVIOUS
<1>2. z.of = p /\ z.n = session[p] + 1
  BY <1>1, Identities
<1>3. \A q \in Peers : z # Id(q)
  <2>1. \A q \in Peers : Id(q).of = q /\ Id(q).n = session[q]
    BY OwnIdentity
  <2>2. QED
    BY <1>2, <2>1
<1>4. z \notin connected
  BY <1>3 DEF Types
<1>5. QED
  BY <1>1, <1>4

\* Only an iteration with the message of worker id takes that message and leaves
\* the connections alone.
LEMMA OnlyIterations ==
    ASSUME IInv, Next, NEW id \in WorkerIds, toQueue[id] # <<>>,
           toQueue'[id] = <<>>, qstate = "running", qstate' = "running",
           connected' = connected
    PROVE  \E f \in ClientIds \union {Nobody} : Iterates(id, f)
<1>1. /\ Types /\ Forms(toQueue, fromQueue) /\ ClientsInv(toQueue, fromQueue)
      /\ WorkersInv(toQueue, fromQueue, worker_queue)
  BY DEF IInv, FlowInv
<1>2. id \in Ids /\ id \notin ClientIds /\ DOMAIN toQueue = Ids
  BY <1>1, Identities DEF Forms, Ids
<1>3. ASSUME NEW b \in WorkerIds \union {Nobody}, NEW f \in ClientIds \union {Nobody},
             Iterates(b, f)
      PROVE  b = id
  <2>1. Nobody \notin Ids
    BY NobodyIsNobody
  <2>2. toQueue' = [i \in Ids |-> IF i \in {b, f} THEN Tail(toQueue[i]) ELSE toQueue[i]]
    BY <1>3 DEF Iterates
  <2>3. id # f
    BY <1>2, <2>1
  <2>4. QED
    BY <1>2, <2>2, <2>3
<1>4. ASSUME UNCHANGED toQueue PROVE FALSE
  BY <1>4
<1>5. ASSUME NEW p \in Peers, NEW frames, Sends(p, frames) PROVE FALSE
  <2>1. toQueue' = [toQueue EXCEPT ![Id(p)] = Append(@, frames)]
    BY <1>5 DEF Sends
  <2>2. CASE id = Id(p)
    <3>1. toQueue'[id] = Append(toQueue[id], frames)
      BY <1>2, <2>1, <2>2
    <3>2. PICK m : toQueue[id] = <<m>>
      BY <1>1 DEF Forms, Offer
    <3>3. Append(<<m>>, frames) # <<>>
      OBVIOUS
    <3>4. QED
      BY <3>1, <3>2, <3>3
  <2>3. CASE id # Id(p)
    BY <1>2, <2>1, <2>3
  <2>4. QED
    BY <2>2, <2>3
<1>6. ASSUME NEW p \in Peers, NEW frames, Reconnects(p, frames) PROVE FALSE
  <2>1. session[p] \in Nat
    BY <1>1 DEF Types
  <2>2. connected' = (connected \ {Id(p)}) \union {Identity(p, session[p] + 1)}
    BY <1>6 DEF Reconnects
  <2>3. QED
    BY <1>1, <2>1, <2>2, Reopened
<1>7. ASSUME NEW p \in Peers, Id(p) \in connected, Closes(p) PROVE FALSE
  BY <1>7 DEF Closes
<1>8. \A w \in Workers : w \in Peers
  BY DEF Peers
<1>9. \A c \in Clients : c \in Peers
  BY DEF Peers
<1>10. CASE QueueStep
  <2>1. ~QueueDies
    BY DEF QueueDies, SocketsLoseQueue
  <2>2. QED
    BY <1>3, <1>10, <2>1 DEF QueueStep
<1>11. CASE Others
  <2>1. ~QueueRestarts
    BY DEF QueueRestarts
  <2>2. ASSUME NEW w \in Workers,
               WorkerStarts(w) \/ WorkerTakes(w) \/ WorkerReplies(w) \/ JobDies(w)
        PROVE  FALSE
    <3>1. CASE WorkerStarts(w)
      BY <1>6, <1>8, <3>1 DEF WorkerStarts
    <3>2. CASE WorkerTakes(w)
      BY <1>4, <3>2 DEF WorkerTakes
    <3>3. CASE WorkerReplies(w)
      BY <1>5, <1>8, <3>3 DEF WorkerReplies, JobDone
    <3>4. CASE JobDies(w)
      <4>1. wstate[w] # "off" /\ Closes(w)
        BY <3>4 DEF JobDies
      <4>2. Id(w) \in connected
        BY <1>1, <4>1 DEF WorkersInv
      <4>3. QED
        BY <1>7, <1>8, <4>1, <4>2
    <3>5. QED
      BY <2>2, <3>1, <3>2, <3>3, <3>4
  <2>3. ASSUME NEW c \in Clients, ClientCalls(c) \/ ClientTakes(c) PROVE FALSE
    <3>1. CASE ClientCalls(c)
      BY <1>5, <1>9, <3>1 DEF ClientCalls
    <3>2. CASE ClientTakes(c)
      BY <1>4, <3>2 DEF ClientTakes
    <3>3. QED
      BY <2>3, <3>1, <3>2
  <2>4. QED
    BY <1>11, <2>1, <2>2, <2>3 DEF Others
<1>12. ASSUME NEW c \in Clients, ClientGivesUp(c) PROVE FALSE
  <2>1. cstate[c] = "waiting" /\ (Reconnects(c, Request(sequence[c])) \/ Closes(c))
    BY <1>12 DEF ClientGivesUp, ClientTimesOut
  <2>2. Id(c) \in connected
    BY <1>1, <2>1 DEF ClientsInv
  <2>3. QED
    BY <1>6, <1>7, <1>9, <2>1, <2>2
<1>13. QED
  BY <1>10, <1>11, <1>12 DEF Next

\* A reply the queue takes from a worker goes to the client, unless that has
\* closed the socket (backend part of the loop of spqueue.cpp).
THEOREM RepliesReachClients == Spec => RepliesPassedOn
<1>1. ASSUME IInv, Next, NEW w \in WorkerIds, NEW r \in Requests PROVE PassesOn(w, r)
  <2> SUFFICES ASSUME {qstate, qstate'} = {"running"}, connected' = connected,
                      toQueue[w] # <<>>, Head(toQueue[w]) \in {r, <<Empty>> \o r},
                      toQueue'[w] = Tail(toQueue[w]), address(r) \in connected
               PROVE  fromQueue'[address(r)] = Append(fromQueue[address(r)], Tail(r))
    BY DEF PassesOn
  <2>1. /\ Types /\ FlowInv(toQueue, fromQueue, worker_queue)
        /\ Forms(toQueue, fromQueue)
    BY <1>1 DEF IInv, FlowInv
  <2>2. qstate = "running" /\ qstate' = "running"
    OBVIOUS
  <2>3. PICK x \in ClientIds, n \in 1 .. MaxCalls : r = Enveloped(x, n)
    BY DEF Requests
  <2>4. PICK m : toQueue[w] = <<m>> /\ (m = Greeting \/ \E s \in Made : m = Wrapped(s[1], s[2]))
    BY <2>1 DEF Forms, Offer, Done
  <2>5. Tail(toQueue[w]) = <<>> /\ m \in {r, <<Empty>> \o r}
    BY <2>4, OneMessage
  <2>6. r = <<x, Empty, Number(n)>> /\ <<Empty>> \o r = Wrapped(x, n)
    BY <2>3, Shapes DEF Wrapped
  <2>7. m # r
    <3>1. Greeting # <<x, Empty, Number(n)>>
      BY DEF Greeting
    <3>2. ASSUME NEW s \in Made PROVE Wrapped(s[1], s[2]) # <<x, Empty, Number(n)>>
      <4>1. Wrapped(s[1], s[2]) = <<Empty, s[1], Empty, Number(s[2])>>
        BY Shapes
      <4>2. QED
        BY <4>1
    <3>3. QED
      BY <2>4, <2>6, <3>1, <3>2
  <2>8. m = Wrapped(x, n) /\ m # Greeting
    BY <2>5, <2>6, <2>7, Distinct
  <2>9. PICK s \in Made : m = Wrapped(s[1], s[2])
    BY <2>4, <2>8
  <2>10. s[1] = x
    <3>1. Wrapped(s[1], s[2]) = Wrapped(x, n)
      BY <2>8, <2>9
    <3>2. QED
      BY <3>1, Distinct
  <2>11. x.n # 0
    BY <2>10 DEF Made
  <2>12. address(r) = x /\ Tail(r) = Request(n)
    BY <2>3, <2>11, ReplySends, Shapes
  <2>13. PICK f \in ClientIds \union {Nobody} : Iterates(w, f)
    <3>1. toQueue[w] # <<>> /\ toQueue'[w] = <<>>
      BY <2>5
    <3>2. IInv /\ Next
      BY <1>1
    <3>3. \E f \in ClientIds \union {Nobody} : Iterates(w, f)
      BY <2>2, <3>1, <3>2, OnlyIterations, Zenon
    <3>4. QED
      BY <3>3
  <2>14. \A y \in ClientIds, k \in 1 .. MaxCalls :
             w \in WorkerIds /\ qstate' = "running"
             /\ toQueue[w] = <<Wrapped(y, k)>> /\ y \in connected
                 => fromQueue'[y] = Append(fromQueue[y], Request(k))
    <3>1. w \in WorkerIds \union {Nobody}
      OBVIOUS
    <3>2. QED
      BY <2>1, <2>13, <3>1, IteratesKeeps, Zenon
  <2>15. toQueue[w] = <<Wrapped(x, n)>> /\ x \in connected
    BY <2>4, <2>8, <2>12
  <2>16. fromQueue'[x] = Append(fromQueue[x], Request(n))
    BY <2>2, <2>14, <2>15
  <2>17. QED
    BY <2>12, <2>16
<1>2. IInv /\ [Next]_vars => [\A w \in WorkerIds, r \in Requests : PassesOn(w, r)]_pirateVars
  BY <1>1 DEF vars
<1>3. QED
  BY <1>2, InvariantHolds, PTL DEF Spec, RepliesPassedOn

-----------------------------------------------------------------------------
(* The service.                                                            *)

\* Every step of the programs is a step of the service, or none.
LEMMA Simulates == IInv /\ [Next]_vars => [Service!Next]_(Service!vars)
<1> SUFFICES ASSUME IInv, [Next]_vars PROVE [Service!Next]_(Service!vars)
  OBVIOUS
<1>1. /\ Types /\ Hands /\ Forms(toQueue, fromQueue) /\ ClientsInv(toQueue, fromQueue)
  BY DEF IInv, FlowInv
<1>2. cstate \in [Clients -> {"ready", "waiting", "abandoned"}]
  BY <1>1 DEF Types
<1>3. ASSUME UNCHANGED <<sequence, cstate, executed>> PROVE [Service!Next]_(Service!vars)
  BY <1>3 DEF Service!vars
<1>4. CASE QueueStep
  <2>1. UNCHANGED <<sequence, cstate, executed>>
    BY <1>4 DEF QueueStep, Iterates, QueueDies, clientVars, jobs
  <2>2. QED
    BY <1>3, <2>1
<1>5. CASE QueueRestarts
  BY <1>3, <1>5 DEF QueueRestarts, clientVars, jobs
<1>6. ASSUME NEW w \in Workers, WorkerStarts(w) \/ WorkerTakes(w) \/ JobDies(w)
      PROVE  [Service!Next]_(Service!vars)
  <2>1. UNCHANGED <<sequence, cstate, executed>>
    BY <1>6 DEF WorkerStarts, WorkerTakes, JobDies, clientVars
  <2>2. QED
    BY <1>3, <2>1
<1>7. ASSUME NEW w \in Workers, WorkerReplies(w) PROVE [Service!Next]_(Service!vars)
  <2>1. /\ wstate[w] = "working" /\ UNCHANGED <<sequence, cstate>>
        /\ executed' = executed \union {<<request[w][1].of, request[w][3].n>>}
    BY <1>7 DEF WorkerReplies, JobDone, clientVars
  <2>2. PICK r \in Made : request[w] = Enveloped(r[1], r[2])
    BY <1>1, <2>1 DEF Hands
  <2>3. PICK c \in Clients : c = r[1].of
    BY Identities DEF Made
  <2>4. request[w][1] = r[1] /\ request[w][3].n = r[2]
    BY <2>2, MadeType, WorkerHandles
  <2>5. r[2] \in 1 .. sequence[c]
    <3>1. r[2] \in 1 .. MaxCalls /\ r[2] <= sequence[c] /\ sequence[c] \in Nat
      BY <1>1, <2>3, PirateAssumption DEF Made, Types
    <3>2. QED
      BY <3>1
  <2>6. executed' = executed \union {<<c, r[2]>>}
    BY <2>1, <2>3, <2>4
  <2>7. Service!Execute(c)
    BY <2>1, <2>5, <2>6 DEF Service!Execute
  <2>8. QED
    BY <2>7 DEF Service!Next
<1>8. ASSUME NEW c \in Clients, ClientCalls(c) PROVE [Service!Next]_(Service!vars)
  <2>1. /\ cstate[c] = "ready" /\ cstate' = [cstate EXCEPT ![c] = "waiting"]
        /\ sequence' = [sequence EXCEPT ![c] = @ + 1] /\ executed' = executed
    BY <1>8 DEF ClientCalls, jobs
  <2>2. Service!Ask(c)
    BY <1>2, <2>1 DEF Service!Ask
  <2>3. QED
    BY <2>2 DEF Service!Next
<1>9. ASSUME NEW c \in Clients, ClientTakes(c) PROVE [Service!Next]_(Service!vars)
  <2>1. cstate[c] = "waiting" /\ fromQueue[Id(c)] # <<>>
    BY <1>9 DEF ClientTakes
  <2>2. fromQueue[Id(c)] = <<Request(sequence[c])>> /\ <<c, sequence[c]>> \in executed
    BY <1>1, <2>1, ReplyMatches
  <2>3. Head(fromQueue[Id(c)]) = Request(sequence[c])
    BY <2>2, OneMessage
  <2>4. /\ cstate' = [cstate EXCEPT ![c] = "ready"]
        /\ sequence' = sequence /\ executed' = executed
    BY <1>9, <2>3 DEF ClientTakes, jobs
  <2>5. Service!Answer(c)
    BY <1>2, <2>1, <2>2, <2>4 DEF Service!Answer
  <2>6. QED
    BY <2>5 DEF Service!Next
<1>10. ASSUME NEW c \in Clients, ClientGivesUp(c) PROVE [Service!Next]_(Service!vars)
  <2>1. /\ cstate[c] = "waiting" /\ sequence' = sequence /\ executed' = executed
        /\ cstate' = cstate \/ cstate' = [cstate EXCEPT ![c] = "abandoned"]
    BY <1>10 DEF ClientGivesUp, ClientTimesOut, jobs
  <2>2. CASE cstate' = cstate
    BY <1>3, <2>1, <2>2
  <2>3. CASE cstate' = [cstate EXCEPT ![c] = "abandoned"]
    <3>1. Service!Abandon(c)
      BY <1>2, <2>1, <2>3 DEF Service!Abandon
    <3>2. QED
      BY <3>1 DEF Service!Next
  <2>4. QED
    BY <2>1, <2>2, <2>3
<1>11. CASE UNCHANGED vars
  BY <1>3, <1>11 DEF vars, pirateVars, clientVars, jobs
<1>12. QED
  BY <1>4, <1>5, <1>6, <1>7, <1>8, <1>9, <1>10, <1>11 DEF Next, Others

\* The queue, the workers and the clients together implement the service: a
\* client gets an answer only if some worker has executed that very call, or it
\* gives the call up, whatever dies and restarts.
THEOREM ServiceImplemented == Spec => ImplementsService
<1>1. Init => Service!Init
  BY DEF Init, PirateInit, Service!Init
<1>2. QED
  BY <1>1, Simulates, InvariantHolds, PTL
     DEF Spec, ImplementsService, Service!Spec
=============================================================================
