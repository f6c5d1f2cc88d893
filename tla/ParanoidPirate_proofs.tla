------------------------ MODULE ParanoidPirate_proofs -----------------------
(***************************************************************************)
(* The Paranoid Pirate, for any number of workers, clients and crashes and *)
(* whatever expires: no worker is available and engaged at once, a request *)
(* is never in two places, the programs implement the service, and replies *)
(* reach the clients that have identities of their own.                    *)
(***************************************************************************)
EXTENDS ParanoidPirate, LazyPirate_proofs

-----------------------------------------------------------------------------
(* The inductive invariant.  The frames under way and the list are         *)
(* parameters, so that an iteration can be followed step by step.          *)

Beat     == Word("HEARTBEAT")
Greeting == Word("READY")
Numbers  == 1 .. MaxCalls
Calls    == {Request(n) : n \in Numbers}

\* A queue of frames holds heartbeats and one other message at most: its load.
Load(q)   == Members(q) \ {Beat}
Single(q) == \A i, j \in DOMAIN q : q[i] # Beat /\ q[j] # Beat => i = j
Offers    == {Beat, Greeting} \union Requests    \* of a worker to the queue
Tasks     == {Beat} \union Requests              \* of the queue for a worker

Queued(q, S) == q \in Seq(S) /\ Single(q)
Queues(to, from) ==
    /\ DOMAIN to = Ids /\ to = [id \in Ids |-> to[id]]
    /\ DOMAIN from = Ids /\ from = [id \in Ids |-> from[id]]
    /\ \A id \in WorkerIds : Queued(to[id], Offers) /\ Queued(from[id], Tasks)
    /\ \A x \in ClientIds : Queued(to[x], Calls) /\ Queued(from[x], Calls)
    /\ \A id \in Ids : Load(from[id]) # {} => id \in connected

Lists(list) ==
    /\ list \in Seq(WorkerIds)
    /\ \A i, j \in DOMAIN list : list[i] = list[j] => i = j

Types ==
    /\ qstate \in {"running", "down"}
    /\ session \in [Peers -> Nat]
    /\ \A w \in Workers : session[w] <= MaxWorkerSockets
    /\ \A c \in Clients : session[c] \in 1 .. MaxClientSockets + crashes
    /\ connected \subseteq {Id(p) : p \in Peers}
    /\ cstate \in [Clients -> {"ready", "waiting", "abandoned"}]
    /\ sequence \in [Clients -> 0 .. MaxCalls]
    /\ wstate \in [Workers -> {"off", "polling", "working", "sleeping"}]
    /\ executed \subseteq Clients \X Nat
    /\ crashes \in 0 .. MaxCrashes

ClientStates ==
    \A c \in Clients :
        /\ cstate[c] = "abandoned" => Id(c) \notin connected
        /\ cstate[c] = "waiting" => sequence[c] > 0

\* The requests in the hands of the workers.
Hands ==
    /\ DOMAIN request = Workers /\ request = [w \in Workers |-> request[w]]
    /\ \A w \in Workers :
        IF wstate[w] = "working" THEN request[w] \in Requests
        ELSE request[w] = <<>>

\* In a session a worker is in one place at most: its READY or its reply is on
\* its way, the list has it, a request is on its way, or it is busy.
Working(id) == id = Id(id.of) /\ request[id.of] # <<>>
WorkersInv(to, from, listed) ==
    \A id \in WorkerIds :
        /\ id \in listed => Load(to[id]) = {} /\ Load(from[id]) = {} /\ ~Working(id)
        /\ Load(to[id]) # {} => Load(from[id]) = {} /\ ~Working(id)
        /\ Load(from[id]) # {} => ~Working(id)
        /\ id.n > session[id.of] => id \notin listed /\ Load(to[id]) = {}

\* Request n of socket `of' of a client as a token: where it is.
AllTokens ==
    [kind : {"called", "sent", "held", "replied", "answered"},
     place : Ids \union Workers, of : ClientIds, n : Numbers]
There(t, to, from, hands) ==
    \/ /\ t.kind = "called" /\ t.place = t.of
       /\ Request(t.n) \in Load(to[t.of])
    \/ /\ t.kind = "sent" /\ t.place \in WorkerIds
       /\ Enveloped(t.of, t.n) \in Load(from[t.place])
    \/ /\ t.kind = "held" /\ t.place \in Workers
       /\ Enveloped(t.of, t.n) = hands[t.place]
    \/ /\ t.kind = "replied" /\ t.place \in WorkerIds
       /\ Enveloped(t.of, t.n) \in Load(to[t.place])
    \/ /\ t.kind = "answered" /\ t.place = t.of
       /\ Request(t.n) \in Load(from[t.of])
Tokens(to, from, hands) == {t \in AllTokens : There(t, to, from, hands)}

\* What there is on the latest socket of a client is its latest call, and not
\* yet answered; a reply was worked for.
Legal(t) ==
    LET c == t.of.of
    IN /\ t.of.n \in 1 .. session[c] /\ t.n <= sequence[c]
       /\ t.of.n = session[c] => t.n = sequence[c] /\ cstate[c] # "ready"
       /\ t.kind \in {"replied", "answered"} => <<c, t.n>> \in executed

\* A request is never in two places, nor two of one socket in any.
Unique(tokens) == \A s, t \in tokens : s.of = t.of => s = t

Flow(to, from, list) ==
    /\ Queues(to, from) /\ Lists(list)
    /\ WorkersInv(to, from, Members(list))
    /\ Unique(Tokens(to, from, request))
    /\ \A t \in Tokens(to, from, request) : Legal(t)

IInv ==
    /\ Types /\ ClientStates /\ Hands
    /\ Flow(toQueue, fromQueue, queue)

-----------------------------------------------------------------------------
(* Queues of frames and their load.                                        *)

\* The load of an empty queue and of a queue of one frame.
LEMMA NewLoad ==
    /\ Load(<<>>) = {} /\ Single(<<>>)
    /\ \A m : Load(<<m>>) = {m} \ {Beat} /\ Single(<<m>>)
  BY DEF Load, Single, Members

\* Of what is not a heartbeat a queue holds no second one.
LEMMA OneLoad ==
    ASSUME NEW q, Single(q), NEW m \in Load(q)
    PROVE  Load(q) = {m}
  BY DEF Load, Single, Members

\* A message joins a queue that carries heartbeats only.
LEMMA AppendLoad ==
    ASSUME NEW S, NEW q, Queued(q, S), NEW m \in S, m = Beat \/ Load(q) = {}
    PROVE  /\ Queued(Append(q, m), S)
           /\ Load(Append(q, m)) = Load(q) \union ({m} \ {Beat})
<1>1. PICK new : new = Append(q, m)
  OBVIOUS
<1>2. /\ Len(q) \in Nat /\ DOMAIN q = 1 .. Len(q)
      /\ new \in Seq(S) /\ DOMAIN new = 1 .. Len(q) + 1
      /\ \A i \in 1 .. Len(q) : new[i] = q[i]
      /\ new[Len(q) + 1] = m
  BY <1>1, AppendProperties, LenProperties DEF Queued
<1>3. PICK last : last = Len(q) + 1
  OBVIOUS
<1>4. /\ DOMAIN new = DOMAIN q \union {last} /\ last \notin DOMAIN q
      /\ \A i \in DOMAIN q : new[i] = q[i]
      /\ new[last] = m
  BY <1>2, <1>3
<1>5. Members(new) = Members(q) \union {m}
  BY <1>4 DEF Members
<1>6. \A i \in DOMAIN q : Load(q) = {} => q[i] = Beat
  BY DEF Load, Members
<1>7. Single(new)
  BY <1>4, <1>6 DEF Queued, Single
<1>8. QED
  BY <1>1, <1>2, <1>5, <1>7 DEF Queued, Load

\* A receiver takes the first message.
LEMMA TailLoad ==
    ASSUME NEW S, NEW q, Queued(q, S), q # <<>>
    PROVE  /\ Head(q) \in S /\ Queued(Tail(q), S)
           /\ Head(q) = Beat => Load(Tail(q)) = Load(q)
           /\ Head(q) # Beat => Load(q) = {Head(q)} /\ Load(Tail(q)) = {}
<1>1. PICK rest : rest = Tail(q)
  OBVIOUS
<1>2. /\ Len(q) \in Nat \ {0} /\ DOMAIN q = 1 .. Len(q) /\ Head(q) = q[1]
      /\ rest \in Seq(S) /\ DOMAIN rest = 1 .. Len(q) - 1 /\ Head(q) \in S
      /\ \A i \in 1 .. Len(q) - 1 : rest[i] = q[i + 1]
  BY <1>1, HeadTailProperties, LenProperties, EmptySeq DEF Queued
<1>3. /\ 1 \in DOMAIN q
      /\ \A i \in DOMAIN rest : i + 1 \in DOMAIN q /\ i + 1 # 1
      /\ \A i \in DOMAIN q : i = 1 \/ (i - 1 \in DOMAIN rest /\ rest[i - 1] = q[i])
      /\ \A i, j \in DOMAIN rest : i + 1 = j + 1 => i = j
  BY <1>2
<1>4. \A i \in DOMAIN rest : rest[i] = q[i + 1]
  BY <1>2
<1>5. \A i, j \in DOMAIN q : q[i] # Beat /\ q[j] # Beat => i = j
  BY DEF Queued, Single
<1>6. Single(rest)
  BY <1>3, <1>4, <1>5 DEF Single
<1>7. Members(q) = Members(rest) \union {Head(q)}
  <2>1. Members(rest) \subseteq Members(q) /\ Head(q) \in Members(q)
    BY <1>2, <1>3, <1>4 DEF Members
  <2>2. Members(q) \subseteq Members(rest) \union {Head(q)}
    BY <1>2, <1>3 DEF Members
  <2>3. QED
    BY <2>1, <2>2
<1>8. Head(q) = Beat => Load(rest) = Load(q)
  BY <1>7 DEF Load
<1>9. ASSUME Head(q) # Beat PROVE Load(q) = {Head(q)} /\ Load(rest) = {}
  <2>1. \A i \in DOMAIN rest : rest[i] = Beat
    BY <1>2, <1>3, <1>4, <1>5, <1>9
  <2>2. Load(rest) = {}
    BY <2>1 DEF Load, Members
  <2>3. Load(q) = Load(rest) \union {Head(q)}
    BY <1>7, <1>9 DEF Load
  <2>4. QED
    BY <2>2, <2>3
<1>10. QED
  BY <1>1, <1>2, <1>6, <1>8, <1>9 DEF Queued

\* What is left of a queue when a process dies is a part of it.
LEMMA CutLoad ==
    ASSUME NEW S, NEW q, Queued(q, S), NEW m \in Nat \ {0}, NEW n \in Nat,
           n <= Len(q)
    PROVE  Queued(SubSeq(q, m, n), S) /\ Load(SubSeq(q, m, n)) \subseteq Load(q)
<1>1. PICK part : part = SubSeq(q, m, n)
  OBVIOUS
<1>2. /\ Len(q) \in Nat /\ DOMAIN q = 1 .. Len(q)
      /\ \A i \in 1 .. Len(q) : q[i] \in S
  BY LenProperties, ElementOfSeq DEF Queued
<1>3. /\ part \in Seq(S)
      /\ Len(part) = IF m <= n THEN n - m + 1 ELSE 0
      /\ \A i \in 1 .. n - m + 1 : part[i] = q[m + i - 1]
  <2>1. m \in Int /\ n \in Int /\ \A i \in m .. n : q[i] \in S
    BY <1>2
  <2>2. QED
    BY <1>1, <2>1, SubSeqProperties
<1>4. DOMAIN part = 1 .. Len(part)
  BY <1>3, LenProperties
<1>5. /\ \A i \in DOMAIN part : m + i - 1 \in DOMAIN q /\ part[i] = q[m + i - 1]
      /\ \A i, j \in DOMAIN part : m + i - 1 = m + j - 1 => i = j
  BY <1>2, <1>3, <1>4
<1>6. Members(part) \subseteq Members(q)
  BY <1>5 DEF Members
<1>7. Single(part)
  BY <1>5 DEF Queued, Single
<1>8. QED
  BY <1>1, <1>3, <1>6, <1>7 DEF Queued, Load

-----------------------------------------------------------------------------
(* The list of available workers.                                          *)

\* s_worker_delete takes the entry of a worker out, if there is one.
LEMMA RemoveMembers ==
    ASSUME NEW q, Lists(q), NEW e
    PROVE  Lists(RemoveFirst(q, e)) /\ Members(RemoveFirst(q, e)) = Members(q) \ {e}
<1>1. /\ Len(q) \in Nat /\ DOMAIN q = 1 .. Len(q) /\ q \in Seq(WorkerIds)
      /\ \A i \in 1 .. Len(q) : q[i] \in WorkerIds
      /\ \A i, j \in DOMAIN q : q[i] = q[j] => i = j
  BY LenProperties, ElementOfSeq DEF Lists
<1>2. CASE ~ \E i \in 1 .. Len(q) : q[i] = e
  <2>1. RemoveFirst(q, e) = q
    BY <1>2 DEF RemoveFirst
  <2>2. e \notin Members(q)
    BY <1>1, <1>2 DEF Members
  <2>3. QED
    BY <2>1, <2>2
<1>3. ASSUME NEW k \in 1 .. Len(q), q[k] = e
      PROVE  Lists(RemoveFirst(q, e)) /\ Members(RemoveFirst(q, e)) = Members(q) \ {e}
  <2>1. {i \in 1 .. Len(q) : q[i] = e} = {k}
    BY <1>1, <1>3
  <2>2. Min({k}) = k
    BY <1>3 DEF Min
  <2>3. SelectInSeq(q, LAMBDA v : v = e) = k
    BY <2>1, <2>2 DEF SelectInSeq
  <2>4. PICK new : new = SubSeq(q, 1, k - 1) \o SubSeq(q, k + 1, Len(q))
    OBVIOUS
  <2>5. RemoveFirst(q, e) = new
    BY <1>3, <2>3, <2>4 DEF RemoveFirst, RemoveAt
  <2>6. PICK one : one = SubSeq(q, 1, k - 1)
    OBVIOUS
  <2>7. PICK two : two = SubSeq(q, k + 1, Len(q))
    OBVIOUS
  <2>8. /\ one \in Seq(WorkerIds) /\ Len(one) = k - 1
        /\ \A i \in 1 .. k - 1 : one[i] = q[i]
    <3>1. 1 \in Int /\ k - 1 \in Int /\ \A i \in 1 .. k - 1 : q[i] \in WorkerIds
      BY <1>1
    <3>2. QED
      BY <1>1, <2>6, <3>1, SubSeqProperties
  <2>9. /\ two \in Seq(WorkerIds) /\ Len(two) = Len(q) - k
        /\ \A i \in 1 .. Len(q) - k : two[i] = q[k + i]
    <3>1. k + 1 \in Int /\ Len(q) \in Int /\ \A i \in k + 1 .. Len(q) : q[i] \in WorkerIds
      BY <1>1
    <3>2. /\ two \in Seq(WorkerIds)
          /\ Len(two) = IF k + 1 <= Len(q) THEN Len(q) - (k + 1) + 1 ELSE 0
          /\ \A i \in 1 .. Len(q) - (k + 1) + 1 : two[i] = q[(k + 1) + i - 1]
      BY <2>7, <3>1, SubSeqProperties
    <3>3. Len(q) - (k + 1) + 1 = Len(q) - k /\ Len(two) = Len(q) - k
      <4>1. Len(q) \in Nat /\ k \in 1 .. Len(q)
        BY <1>1
      <4>2. CASE k + 1 <= Len(q)
        BY <3>2, <4>1, <4>2
      <4>3. CASE ~(k + 1 <= Len(q))
        <5>1. Len(two) = 0
          BY <3>2, <4>3
        <5>2. QED
          BY <4>1, <4>3, <5>1
      <4>4. QED
        BY <4>2, <4>3
    <3>4. ASSUME NEW i \in 1 .. Len(q) - k PROVE two[i] = q[k + i]
      <4>1. (k + 1) + i - 1 = k + i
        OBVIOUS
      <4>2. two[i] = q[(k + 1) + i - 1]
        BY <3>2, <3>3
      <4>3. QED
        BY <4>1, <4>2
    <3>5. QED
      BY <3>2, <3>3, <3>4
  <2>10. /\ new \in Seq(WorkerIds) /\ Len(new) = Len(q) - 1
         /\ \A i \in 1 .. Len(q) - 1 : new[i] = IF i < k THEN q[i] ELSE q[i + 1]
    <3>1. /\ new \in Seq(WorkerIds) /\ Len(new) = Len(one) + Len(two)
          /\ \A i \in 1 .. Len(one) + Len(two) :
                 new[i] = IF i <= Len(one) THEN one[i] ELSE two[i - Len(one)]
      <4>1. one \in Seq(WorkerIds) /\ two \in Seq(WorkerIds) /\ new = one \o two
        BY <2>4, <2>6, <2>7, <2>8, <2>9
      <4>2. QED
        BY <4>1, ConcatProperties
    <3>2. ASSUME NEW i \in 1 .. Len(q) - 1
          PROVE  new[i] = IF i < k THEN q[i] ELSE q[i + 1]
      <4> /\ Len(q) \in Nat /\ k \in 1 .. Len(q) /\ Len(one) = k - 1
          /\ Len(two) = Len(q) - k
        BY <1>1, <2>8, <2>9
      <4>0. i \in 1 .. Len(one) + Len(two)
        OBVIOUS
      <4>1. CASE i < k
        <5>1. i \in 1 .. k - 1 /\ i <= Len(one)
          BY <4>1
        <5>2. QED
          BY <2>8, <3>1, <4>0, <4>1, <5>1
      <4>2. CASE ~(i < k)
        <5>1. new[i] = two[i - (k - 1)] /\ i - (k - 1) \in 1 .. Len(q) - k
          <6>1. ~(i <= Len(one)) /\ i - Len(one) = i - (k - 1)
                /\ i - (k - 1) \in 1 .. Len(q) - k
            BY <4>2
          <6>2. QED
            BY <3>1, <4>0, <6>1
        <5>2. k + (i - (k - 1)) = i + 1
          BY <1>1
        <5>3. QED
          BY <2>9, <4>2, <5>1, <5>2
      <4>3. QED
        BY <4>1, <4>2
    <3>3. QED
      BY <1>1, <2>8, <2>9, <3>1, <3>2
  <2>11. PICK at : at = [i \in 1 .. Len(q) - 1 |-> IF i < k THEN i ELSE i + 1]
    OBVIOUS
  <2>12. /\ DOMAIN new = 1 .. Len(q) - 1
         /\ \A i \in DOMAIN new : at[i] \in DOMAIN q /\ at[i] # k /\ new[i] = q[at[i]]
         /\ \A i, j \in DOMAIN new : at[i] = at[j] => i = j
         /\ \A j \in DOMAIN q : j # k => \E i \in DOMAIN new : at[i] = j
    <3>1. DOMAIN new = 1 .. Len(q) - 1
      BY <2>10, LenProperties
    <3>2. \A i \in DOMAIN new : at[i] = IF i < k THEN i ELSE i + 1
      BY <2>11, <3>1
    <3>3. \A i \in DOMAIN new : at[i] \in DOMAIN q /\ at[i] # k /\ new[i] = q[at[i]]
      BY <1>1, <2>10, <3>1, <3>2
    <3>4. \A i, j \in DOMAIN new : at[i] = at[j] => i = j
      BY <3>1, <3>2
    <3>5. ASSUME NEW j \in DOMAIN q, j # k PROVE \E i \in DOMAIN new : at[i] = j
      <4>1. CASE j < k
        BY <1>1, <3>1, <3>2, <4>1
      <4>2. CASE j > k
        <5>1. j - 1 \in DOMAIN new /\ at[j - 1] = j
          BY <1>1, <3>1, <3>2, <4>2
        <5>2. QED
          BY <5>1
      <4>3. QED
        BY <1>1, <3>5, <4>1, <4>2
    <3>6. QED
      BY <3>1, <3>3, <3>4, <3>5
  <2>13. \A i, j \in DOMAIN new : new[i] = new[j] => i = j
    BY <1>1, <2>12
  <2>14. Members(new) = Members(q) \ {e}
    <3>1. Members(new) \subseteq Members(q) \ {e}
      BY <1>1, <1>3, <2>12 DEF Members
    <3>2. Members(q) \ {e} \subseteq Members(new)
      BY <1>3, <2>12 DEF Members
    <3>3. QED
      BY <3>1, <3>2
  <2>15. QED
    BY <2>5, <2>10, <2>13, <2>14 DEF Lists
<1>4. QED
  BY <1>2, <1>3

\* s_queue_purge keeps the workers that have not expired, each of them once.
LEMMA KeptMembers ==
    ASSUME NEW q, Lists(q), NEW S
    PROVE  Lists(Kept(q, S)) /\ Members(Kept(q, S)) = Members(q) \intersect S
<1>1. /\ Len(q) \in Nat /\ DOMAIN q = 1 .. Len(q)
      /\ \A i \in DOMAIN q : q[i] \in WorkerIds
      /\ \A i, j \in DOMAIN q : q[i] = q[j] => i = j
  BY LenProperties, ElementOfSeq DEF Lists
<1>2. PICK kept : kept = {i \in DOMAIN q : q[i] \in S}
  OBVIOUS
<1>3. kept \subseteq 1 .. Len(q) /\ IsFiniteSet(kept) /\ Cardinality(kept) \in Nat
  <2>1. kept \subseteq 1 .. Len(q) /\ IsFiniteSet(1 .. Len(q))
    BY <1>1, <1>2, FS_Interval
  <2>2. QED
    BY <2>1, FS_Subset, FS_CardinalityType
<1>4. PICK upto : upto = [i \in kept |-> {k \in kept : k <= i}]
  OBVIOUS
<1>5. PICK rank : rank = [i \in kept |-> Cardinality(upto[i])]
  OBVIOUS
<1>6. ASSUME NEW i \in kept
      PROVE  /\ IsFiniteSet(upto[i]) /\ rank[i] = Cardinality(upto[i])
             /\ rank[i] \in 1 .. Cardinality(kept)
             /\ upto[i] = {k \in kept : k <= i}
  <2>1. upto[i] \subseteq kept /\ i \in upto[i]
    BY <1>3, <1>4
  <2>2. /\ IsFiniteSet(upto[i]) /\ Cardinality(upto[i]) <= Cardinality(kept)
        /\ Cardinality(upto[i]) \in Nat
    BY <1>3, <2>1, FS_Subset, FS_CardinalityType
  <2>3. Cardinality(upto[i]) # 0
    BY <2>1, <2>2, FS_EmptySet
  <2>4. QED
    BY <1>3, <1>4, <1>5, <2>2, <2>3
<1>7. ASSUME NEW i \in kept, NEW k \in kept, i < k PROVE rank[i] < rank[k]
  <2>1. upto[i] \subseteq upto[k] \ {k} /\ k \in upto[k]
    <3>1. upto[i] = {j \in kept : j <= i} /\ upto[k] = {j \in kept : j <= k}
      BY <1>6
    <3>2. i \in Nat /\ k \in Nat /\ \A j \in kept : j \in Nat
      BY <1>3
    <3>3. k <= k /\ \A j \in kept : j <= i => j <= k /\ j # k
      BY <1>7, <3>2
    <3>4. QED
      BY <3>1, <3>3, Zenon
  <2>2. /\ IsFiniteSet(upto[k] \ {k})
        /\ Cardinality(upto[k] \ {k}) = Cardinality(upto[k]) - 1
    BY <1>6, <2>1, FS_RemoveElement
  <2>3. Cardinality(upto[i]) <= Cardinality(upto[k] \ {k})
    BY <2>1, <2>2, FS_Subset
  <2>4. rank[i] \in Nat /\ rank[k] \in Nat
    BY <1>3, <1>6
  <2>5. QED
    BY <1>6, <2>2, <2>3, <2>4
<1>8. \A i, k \in kept : rank[i] = rank[k] => i = k
  <2>1. ASSUME NEW i \in kept, NEW k \in kept, rank[i] = rank[k] PROVE i = k
    <3>1. i \in Nat /\ k \in Nat /\ rank[i] \in Nat /\ rank[k] \in Nat
      BY <1>3, <1>6
    <3>2. ~(i < k) /\ ~(k < i)
      BY <1>7, <2>1, <3>1
    <3>3. QED
      BY <3>1, <3>2
  <2>2. QED
    BY <2>1
<1>9. PICK last : last = Cardinality(kept)
  OBVIOUS
<1>10. \A j \in 1 .. last : \E i \in kept : rank[i] = j
  <2>1. rank \in Injection(kept, 1 .. last)
    BY <1>5, <1>6, <1>8, <1>9 DEF Injection, IsInjective
  <2>2. IsFiniteSet(1 .. last) /\ Cardinality(1 .. last) = last
    BY <1>3, <1>9, FS_Interval
  <2>3. rank \in Surjection(kept, 1 .. last)
    BY <1>9, <2>1, <2>2, FS_Injection
  <2>4. QED
    BY <2>3 DEF Surjection
<1>11. PICK at : at = [j \in 1 .. last |->
                           CHOOSE i \in kept : Cardinality({k \in kept : k <= i}) = j]
  OBVIOUS
<1>12. ASSUME NEW j \in 1 .. last PROVE at[j] \in kept /\ rank[at[j]] = j
  <2>1. \E i \in kept : Cardinality({k \in kept : k <= i}) = j
    BY <1>6, <1>10
  <2>2. at[j] \in kept /\ Cardinality({k \in kept : k <= at[j]}) = j
    BY <1>11, <2>1
  <2>3. QED
    BY <1>6, <2>2
<1>13. PICK new : new = [j \in 1 .. last |-> q[at[j]]]
  OBVIOUS
<1>14. Kept(q, S) = new
  BY <1>2, <1>9, <1>11, <1>13 DEF Kept
<1>15. /\ DOMAIN new = 1 .. last /\ last \in Nat
       /\ \A j \in 1 .. last : new[j] = q[at[j]] /\ at[j] \in DOMAIN q
                               /\ new[j] \in WorkerIds /\ new[j] \in S
  BY <1>1, <1>2, <1>3, <1>9, <1>12, <1>13
<1>16. new \in Seq(WorkerIds)
  BY <1>13, <1>15, IsASeq
<1>17. \A i, j \in DOMAIN new : new[i] = new[j] => i = j
  BY <1>1, <1>12, <1>15
<1>18. Members(new) \subseteq Members(q) \intersect S
  BY <1>15 DEF Members
<1>19. ASSUME NEW i \in kept PROVE \E j \in 1 .. last : at[j] = i
  <2>1. rank[i] \in 1 .. last
    BY <1>6, <1>9
  <2>2. at[rank[i]] = i
    BY <1>8, <1>12, <1>19, <2>1
  <2>3. QED
    BY <2>1, <2>2
<1>20. Members(q) \intersect S \subseteq Members(new)
  <2>1. ASSUME NEW e \in Members(q), e \in S PROVE e \in Members(new)
    <3>1. PICK i \in kept : q[i] = e
      BY <1>2, <2>1 DEF Members
    <3>2. PICK j \in 1 .. last : at[j] = i
      BY <1>19
    <3>3. QED
      BY <1>15, <3>1, <3>2 DEF Members
  <2>2. QED
    BY <2>1
<1>21. QED
  BY <1>14, <1>16, <1>17, <1>18, <1>20 DEF Lists

-----------------------------------------------------------------------------
(* Messages.                                                               *)

\* The frames of each message, and how many there are.
LEMMA Shapes ==
    ASSUME NEW x, NEW n
    PROVE  /\ Request(n) = <<Empty, Number(n)>>
           /\ Enveloped(x, n) = <<x, Empty, Number(n)>>
           /\ Tail(Enveloped(x, n)) = Request(n)
           /\ Len(Enveloped(x, n)) = 3 /\ Len(Request(n)) = 2
           /\ Len(Beat) = 1 /\ Len(Greeting) = 1
<1>1. Request(n) = <<Empty, Number(n)>>
  BY DEF Request
<1>2. Enveloped(x, n) = <<x, Empty, Number(n)>>
  BY <1>1, Frames3 DEF Enveloped
<1>3. Tail(<<x, Empty, Number(n)>>) = <<Empty, Number(n)>>
  BY Frames3
<1>4. Len(Beat) = 1 /\ Len(Greeting) = 1
  BY DEF Beat, Greeting, Word
<1>5. QED
  BY <1>1, <1>2, <1>3, <1>4

\* A message tells its client and its call, a request is no control message.
LEMMA Distinct ==
    ASSUME NEW x, NEW n, NEW y, NEW m
    PROVE  /\ Request(n) = Request(m) => n = m
           /\ Enveloped(x, n) = Enveloped(y, m) => x = y /\ n = m
           /\ Beat # Greeting
           /\ Enveloped(x, n) \notin {Beat, Greeting, <<>>, <<Empty>> \o Enveloped(y, m)}
           /\ Request(n) \notin {Beat, Greeting, Enveloped(y, m), <<>>}
           /\ <<Empty>> \o Enveloped(y, m) \notin {Beat, Greeting}
<1>1. Number(n) = Number(m) => n = m
  BY DEF Number, Text
<1>2. /\ Request(n) = <<Empty, Number(n)>> /\ Request(m) = <<Empty, Number(m)>>
      /\ Enveloped(x, n) = <<x, Empty, Number(n)>>
      /\ Enveloped(y, m) = <<y, Empty, Number(m)>>
      /\ Len(Enveloped(x, n)) = 3 /\ Len(Request(n)) = 2
      /\ Len(Beat) = 1 /\ Len(Greeting) = 1
  BY Shapes
<1>3. Beat # Greeting
  BY DEF Beat, Greeting, Word, Text
<1>4. Len(<<Empty>> \o Enveloped(y, m)) = 4
  <2>1. <<Empty>> \o <<y, Empty, Number(m)>> = <<Empty, y, Empty, Number(m)>>
    BY Frames4
  <2>2. Len(<<Empty, y, Empty, Number(m)>>) = 4
    OBVIOUS
  <2>3. QED
    BY <1>2, <2>1, <2>2
<1>5. Len(Enveloped(y, m)) = 3 /\ Len(<<>>) = 0
  BY Shapes
<1>6. Enveloped(x, n) = Enveloped(y, m) => x = y /\ n = m
  BY <1>1, <1>2
<1>7. Request(n) = Request(m) => n = m
  BY <1>1, <1>2
<1>8. /\ Enveloped(x, n) \notin {Beat, Greeting, <<>>, <<Empty>> \o Enveloped(y, m)}
      /\ Request(n) \notin {Beat, Greeting, Enveloped(y, m), <<>>}
      /\ <<Empty>> \o Enveloped(y, m) \notin {Beat, Greeting}
  <2>1. /\ 3 \notin {1, 0, 4} /\ 2 \notin {1, 3, 0} /\ 4 \notin {1}
    OBVIOUS
  <2>2. QED
    BY <1>2, <1>4, <1>5, <2>1, Zenon
<1>9. QED
  BY <1>3, <1>6, <1>7, <1>8

\* Messages of four frames.
LEMMA Plain4 ==
    ASSUME NEW a, NEW b, NEW c, NEW d,
           Plain(a), Plain(b), Plain(c), Plain(d)
    PROVE  recv(<<a, b, c, d>>) = <<a, b, c, d>> /\ send(<<a, b, c, d>>) = <<a, b, c, d>>
  BY PlainMessages

\* Messages of one and two frames.
LEMMA Plain2 ==
    ASSUME NEW a, NEW b, Plain(a), Plain(b)
    PROVE  /\ recv(<<a>>) = <<a>> /\ send(<<a>>) = <<a>>
           /\ recv(<<a, b>>) = <<a, b>> /\ send(<<a, b>>) = <<a, b>>
  BY PlainMessages

\* The parts of the messages go through as they are.
LEMMA PlainParts ==
    /\ Plain(Empty) /\ Plain(Text("READY", 0)) /\ Plain(Text("HEARTBEAT", 0))
    /\ \A n : Plain(Number(n))
    /\ StartsWithNul(Empty) /\ CStr(Empty) = Empty
    /\ \A word : ~StartsWithNul(Text(word, 0))
    /\ Greeting = <<Text("READY", 0)>> /\ Beat = <<Text("HEARTBEAT", 0)>>
<1>1. \A word : ~StartsWithNul(Text(word, 0))
  BY DEF StartsWithNul, Text
<1>2. QED
  BY <1>1, PlainTexts DEF Number, Greeting, Beat, Word

\* What ppqueue makes of a request: addressed to the worker at the head.
LEMMA FrontendSends ==
    ASSUME NEW i \in WorkerIds, NEW x \in ClientIds, NEW n,
           Head(toQueue[x]) = Request(n)
    PROVE  /\ Head(send(push_front(FromPeer(x), i))) = i
           /\ Tail(send(push_front(FromPeer(x), i))) = Enveloped(x, n)
<1>1. Plain(i) /\ Plain(x) /\ CStr(i) = i
  BY Identities DEF Ids
<1>2. FromPeer(x) = <<x, Empty, Number(n)>>
  <2>1. Head(toQueue[x]) = <<Empty, Number(n)>>
    BY Shapes
  <2>2. <<x>> \o <<Empty, Number(n)>> = <<x, Empty, Number(n)>>
    BY Frames3
  <2>3. recv(<<x, Empty, Number(n)>>) = <<x, Empty, Number(n)>>
    BY <1>1, PlainParts, Plain3
  <2>4. QED
    BY <2>1, <2>2, <2>3 DEF FromPeer
<1>3. push_front(FromPeer(x), i) = <<i, x, Empty, Number(n)>>
  BY <1>1, <1>2, Frames4 DEF push_front
<1>4. send(<<i, x, Empty, Number(n)>>) = <<i, x, Empty, Number(n)>>
  BY <1>1, PlainParts, Plain4
<1>5. /\ Head(<<i, x, Empty, Number(n)>>) = i
      /\ Tail(<<i, x, Empty, Number(n)>>) = <<x, Empty, Number(n)>>
  BY Frames4
<1>6. QED
  BY <1>3, <1>4, <1>5, Shapes

\* What ppqueue makes of a control message, and of a reply: of the envelope of
\* an anonymous client only the empty frame is left.
LEMMA BackendReads ==
    ASSUME NEW b \in WorkerIds
    PROVE  /\ Head(toQueue[b]) = Greeting => unwrap(FromPeer(b)) = Greeting
           /\ Head(toQueue[b]) = Beat => unwrap(FromPeer(b)) = Beat
           /\ \A x \in ClientIds : \A n : Head(toQueue[b]) = Enveloped(x, n) =>
                  unwrap(FromPeer(b)) =
                      IF StartsWithNul(x) THEN Request(n) ELSE Enveloped(x, n)
<1>1. Plain(b)
  BY Identities DEF Ids
<1>2. ASSUME NEW part, Plain(part), ~StartsWithNul(part), Head(toQueue[b]) = <<part>>
      PROVE  unwrap(FromPeer(b)) = <<part>>
  <2>1. <<b>> \o <<part>> = <<b, part>>
    BY Frames2
  <2>2. recv(<<b, part>>) = <<b, part>>
    BY <1>1, <1>2, Plain2
  <2>3. FromPeer(b) = <<b, part>>
    BY <1>2, <2>1, <2>2 DEF FromPeer
  <2>4. Tail(<<b, part>>) = <<part>> /\ <<part>> # <<>> /\ Head(<<part>>) = part
    BY Frames2
  <2>5. QED
    BY <1>2, <2>3, <2>4 DEF unwrap, address
<1>3. ASSUME NEW x \in ClientIds, NEW n, Head(toQueue[b]) = Enveloped(x, n)
      PROVE  unwrap(FromPeer(b)) =
                 IF StartsWithNul(x) THEN Request(n) ELSE Enveloped(x, n)
  <2>1. Head(toQueue[b]) = <<x, Empty, Number(n)>> /\ Plain(x)
    BY <1>3, Shapes, Identities DEF Ids
  <2>2. <<b>> \o <<x, Empty, Number(n)>> = <<b, x, Empty, Number(n)>>
    BY Frames4
  <2>3. recv(<<b, x, Empty, Number(n)>>) = <<b, x, Empty, Number(n)>>
    BY <1>1, <2>1, PlainParts, Plain4
  <2>4. FromPeer(b) = <<b, x, Empty, Number(n)>>
    BY <2>1, <2>2, <2>3 DEF FromPeer
  <2>5. /\ Tail(<<b, x, Empty, Number(n)>>) = <<x, Empty, Number(n)>>
        /\ <<x, Empty, Number(n)>> # <<>>
        /\ Head(<<x, Empty, Number(n)>>) = x
        /\ Tail(<<x, Empty, Number(n)>>) = <<Empty, Number(n)>>
    BY Frames4, Frames3
  <2>6. Enveloped(x, n) = <<x, Empty, Number(n)>> /\ Request(n) = <<Empty, Number(n)>>
    BY Shapes
  <2>7. QED
    BY <2>4, <2>5, <2>6 DEF unwrap, address
<1>4. QED
  BY <1>2, <1>3, PlainParts

\* Where the reply goes: to the client, or nowhere, since nobody is empty.
LEMMA ReplySends ==
    ASSUME NEW x \in ClientIds, NEW n
    PROVE  /\ Head(send(Enveloped(x, n))) = x
           /\ Tail(send(Enveloped(x, n))) = Request(n)
           /\ Head(send(Request(n))) = Empty /\ Empty \notin Ids
<1>1. Enveloped(x, n) = <<x, Empty, Number(n)>> /\ Request(n) = <<Empty, Number(n)>>
  BY Shapes
<1>2. Plain(x) /\ Plain(Empty) /\ Plain(Number(n))
  BY PlainParts, Identities DEF Ids
<1>3. send(<<x, Empty, Number(n)>>) = <<x, Empty, Number(n)>>
  BY <1>2, Plain3, Zenon
<1>4. send(<<Empty, Number(n)>>) = <<Empty, Number(n)>>
  BY <1>2, Plain2, Zenon
<1>5. /\ Head(<<x, Empty, Number(n)>>) = x
      /\ Tail(<<x, Empty, Number(n)>>) = <<Empty, Number(n)>>
      /\ Head(<<Empty, Number(n)>>) = Empty
  BY Frames3, Frames2
<1>6. Empty \notin Ids
  <2>1. \A p, k : Identity(p, k) # Empty
    BY DEF Identity, Empty
  <2>2. QED
    BY <2>1, Identities
<1>7. QED
  BY <1>1, <1>3, <1>4, <1>5, <1>6

\* What a worker makes of a message, and how it replies.
LEMMA WorkerHandles ==
    ASSUME NEW x \in ClientIds, NEW n
    PROVE  /\ recv(Enveloped(x, n)) = Enveloped(x, n)
           /\ send(Enveloped(x, n)) = Enveloped(x, n)
           /\ Enveloped(x, n)[1] = x /\ Enveloped(x, n)[3].n = n
<1> Enveloped(x, n) = <<x, Empty, Number(n)>>
  BY Shapes
<1>1. Plain(x) /\ Plain(Empty) /\ Plain(Number(n))
  BY PlainParts, Identities DEF Ids
<1>2. recv(Enveloped(x, n)) = Enveloped(x, n) /\ send(Enveloped(x, n)) = Enveloped(x, n)
  BY <1>1, Plain3, Zenon
<1>3. Enveloped(x, n)[1] = x /\ Enveloped(x, n)[3].n = n
  BY DEF Number, Text
<1>4. QED
  BY <1>2, <1>3

\* A heartbeat arrives as it was sent.
LEMMA BeatReceived == recv(Beat) = Beat /\ Len(Beat) = 1
  BY PlainParts, Plain2

\* The kinds of messages.
LEMMA MessageKinds ==
    /\ \A m \in Requests : \E x \in ClientIds, n \in Numbers : m = Enveloped(x, n)
    /\ \A x \in ClientIds, n \in Numbers : Enveloped(x, n) \in Requests
    /\ \A m \in Calls : \E n \in Numbers : m = Request(n)
    /\ Beat \notin Requests /\ Beat \notin Calls /\ Greeting \notin Requests
    /\ <<>> \notin Requests
  BY Distinct DEF Requests, Calls, Numbers

-----------------------------------------------------------------------------
(* What the invariant says of single queues and peers.                     *)

\* The socket a peer has is one of the identities.
LEMMA OwnIdentity ==
    ASSUME Types
    PROVE  /\ \A w \in Workers : Id(w) \in WorkerIds /\ Id(w) \in Ids
           /\ \A c \in Clients : Id(c) \in ClientIds /\ Id(c) \in Ids
           /\ \A p \in Peers : Id(p).of = p /\ Id(p).n = session[p] /\ Id(p) \in Ids
           /\ connected \subseteq Ids
<1>1. \A w \in Workers : session[w] \in 0 .. MaxWorkerSockets
  BY PirateAssumption DEF Types, Peers
<1>2. \A c \in Clients : session[c] \in 0 .. MaxClientSockets + MaxCrashes
  BY PirateAssumption DEF Types
<1>3. /\ \A w \in Workers : Id(w) \in WorkerIds /\ Id(w) \in Ids
      /\ \A c \in Clients : Id(c) \in ClientIds /\ Id(c) \in Ids
      /\ \A p \in Peers : Id(p).of = p /\ Id(p).n = session[p]
  BY <1>1, <1>2, Identities DEF Id, Ids, Peers
<1>4. \A p \in Peers : Id(p) \in Ids
  BY <1>3 DEF Peers
<1>5. connected \subseteq Ids
  BY <1>4 DEF Types
<1>6. QED
  BY <1>3, <1>4, <1>5

-----------------------------------------------------------------------------
(* Tokens.                                                                 *)

\* Where nothing is added there are no new tokens.
LEMMA FewerTokens ==
    ASSUME NEW to, NEW from, NEW hands, NEW to2, NEW from2, NEW hands2,
           \A id \in Ids : /\ Load(to2[id]) \subseteq Load(to[id])
                           /\ Load(from2[id]) \subseteq Load(from[id]),
           \A w \in Workers : hands2[w] \in {hands[w], <<>>}
    PROVE  Tokens(to2, from2, hands2) \subseteq Tokens(to, from, hands)
<1>1. ASSUME NEW t \in AllTokens, There(t, to2, from2, hands2)
      PROVE  There(t, to, from, hands)
  <2>1. t.of \in Ids /\ (t.place \in WorkerIds => t.place \in Ids)
    BY DEF AllTokens, Ids
  <2>2. /\ Load(to2[t.of]) \subseteq Load(to[t.of])
        /\ Load(from2[t.of]) \subseteq Load(from[t.of])
        /\ t.place \in WorkerIds =>
               /\ Load(to2[t.place]) \subseteq Load(to[t.place])
               /\ Load(from2[t.place]) \subseteq Load(from[t.place])
    BY <2>1
  <2>3. \A w \in Workers : Enveloped(t.of, t.n) = hands2[w] => hands2[w] = hands[w]
    BY Distinct
  <2>4. QED
    BY <1>1, <2>2, <2>3, Zenon DEF There
<1>2. QED
  BY <1>1 DEF Tokens

\* A step puts token t in the place of s, or loses it.
Moved(K, K2, s, t) == K2 \subseteq (K \ {s}) \union {t}

\* A token that moves keeps its socket to itself.
LEMMA MovedUnique ==
    ASSUME NEW K, Unique(K), NEW s \in K, NEW t, t.of = s.of,
           NEW K2, Moved(K, K2, s, t)
    PROVE  Unique(K2)
<1>1. \A u, v \in K : u.of = v.of => u = v
  BY DEF Unique
<1>2. \A u \in K2 : u = t \/ (u \in K /\ u # s)
  BY DEF Moved
<1>3. QED
  BY <1>1, <1>2 DEF Unique

\* The tokens of request n of socket x.
Called(x, n)   == [kind |-> "called", place |-> x, of |-> x, n |-> n]
Sent(h, x, n)  == [kind |-> "sent", place |-> h, of |-> x, n |-> n]
Held(w, x, n)  == [kind |-> "held", place |-> w, of |-> x, n |-> n]
Reply(b, x, n) == [kind |-> "replied", place |-> b, of |-> x, n |-> n]
Answer(x, n)   == [kind |-> "answered", place |-> x, of |-> x, n |-> n]

\* The reply of worker b goes to its client, or nowhere.
LEMMA ReplyMoves ==
    ASSUME NEW to, NEW from, NEW hands, NEW to2, NEW from2,
           NEW b \in WorkerIds, NEW x \in ClientIds, NEW n \in Numbers,
           Enveloped(x, n) \in Load(to[b]), Load(to2[b]) = {},
           \A id \in Ids : id # b => Load(to2[id]) = Load(to[id]),
           Load(from2[x]) \subseteq Load(from[x]) \union {Request(n)},
           \A id \in Ids : id # x => Load(from2[id]) = Load(from[id])
    PROVE  /\ Reply(b, x, n) \in Tokens(to, from, hands)
           /\ Moved(Tokens(to, from, hands), Tokens(to2, from2, hands), Reply(b, x, n), Answer(x, n))
<1>s. PICK s : s = Reply(b, x, n)
  OBVIOUS
<1>t. PICK t : t = Answer(x, n)
  OBVIOUS
<1>1. b \in Ids /\ x \in Ids /\ b # x /\ x \notin WorkerIds /\ b \notin ClientIds
  BY Identities DEF Ids
<1>2. s \in Tokens(to, from, hands)
  BY <1>1, <1>s DEF Tokens, AllTokens, There, Reply
<1>3. ASSUME NEW u \in Tokens(to2, from2, hands)
      PROVE  u = t \/ (u \in Tokens(to, from, hands) /\ u # s)
  <2>1. u \in AllTokens /\ There(u, to2, from2, hands)
    BY DEF Tokens
  <2>2. u.of \in ClientIds /\ u.of \in Ids /\ u.of # b
    BY <1>1, <2>1 DEF AllTokens, Ids
  <2>3. CASE u.kind = "called"
    BY <1>s, <2>1, <2>2, <2>3 DEF There, Tokens, Reply
  <2>4. CASE u.kind = "sent"
    <3>1. u.place \in WorkerIds /\ u.place \in Ids /\ u.place # x
          /\ Enveloped(u.of, u.n) \in Load(from2[u.place])
      BY <1>1, <2>1, <2>4 DEF There, Ids
    <3>2. QED
      BY <1>s, <2>1, <2>4, <3>1 DEF There, Tokens, Reply
  <2>5. CASE u.kind = "held"
    BY <1>s, <2>1, <2>5 DEF There, Tokens, Reply
  <2>6. CASE u.kind = "replied"
    <3>1. u.place \in WorkerIds /\ u.place \in Ids
          /\ Enveloped(u.of, u.n) \in Load(to2[u.place])
      BY <2>1, <2>6 DEF There, Ids
    <3>2. u.place # b
      BY <3>1
    <3>3. QED
      BY <1>s, <2>1, <2>6, <3>1, <3>2 DEF There, Tokens, Reply
  <2>7. CASE u.kind = "answered"
    <3>1. u.place = u.of /\ Request(u.n) \in Load(from2[u.of])
      BY <2>1, <2>7 DEF There
    <3>2. CASE Request(u.n) \in Load(from[u.of])
      BY <1>s, <2>1, <2>7, <3>1, <3>2 DEF There, Tokens, Reply
    <3>3. CASE Request(u.n) \notin Load(from[u.of])
      <4>1. u.of = x /\ Request(u.n) = Request(n)
        BY <2>2, <3>1, <3>3
      <4>2. u.n = n
        BY <4>1, Distinct
      <4>3. u = t
        BY <1>t, <2>1, <2>7, <3>1, <4>1, <4>2 DEF AllTokens, Answer
      <4>4. QED
        BY <4>3
    <3>4. QED
      BY <3>2, <3>3
  <2>8. QED
    BY <2>1, <2>3, <2>4, <2>5, <2>6, <2>7 DEF There
<1>4. QED
  BY <1>s, <1>t, <1>2, <1>3 DEF Moved

\* A request of client x goes to worker h, or nowhere.
LEMMA RequestMoves ==
    ASSUME NEW to, NEW from, NEW hands, NEW to2, NEW from2,
           NEW h \in WorkerIds, NEW x \in ClientIds, NEW n \in Numbers,
           Request(n) \in Load(to[x]), Load(to2[x]) = {},
           \A id \in Ids : id # x => Load(to2[id]) = Load(to[id]),
           Load(from2[h]) \subseteq Load(from[h]) \union {Enveloped(x, n)},
           \A id \in Ids : id # h => Load(from2[id]) = Load(from[id])
    PROVE  /\ Called(x, n) \in Tokens(to, from, hands)
           /\ Moved(Tokens(to, from, hands), Tokens(to2, from2, hands), Called(x, n), Sent(h, x, n))
<1>s. PICK s : s = Called(x, n)
  OBVIOUS
<1>t. PICK t : t = Sent(h, x, n)
  OBVIOUS
<1>1. h \in Ids /\ x \in Ids /\ h # x /\ x \notin WorkerIds /\ h \notin ClientIds
  BY Identities DEF Ids
<1>2. s \in Tokens(to, from, hands)
  BY <1>1, <1>s DEF Tokens, AllTokens, There, Called
<1>3. ASSUME NEW u \in Tokens(to2, from2, hands)
      PROVE  u = t \/ (u \in Tokens(to, from, hands) /\ u # s)
  <2>1. u \in AllTokens /\ There(u, to2, from2, hands)
    BY DEF Tokens
  <2>2. u.of \in ClientIds /\ u.of \in Ids /\ u.of # h
    BY <1>1, <2>1 DEF AllTokens, Ids
  <2>3. CASE u.kind = "called"
    <3>1. u.place = u.of /\ Request(u.n) \in Load(to2[u.of])
      BY <2>1, <2>3 DEF There
    <3>2. u.of # x
      BY <3>1
    <3>3. QED
      BY <1>s, <2>1, <2>2, <2>3, <3>1, <3>2 DEF There, Tokens, Called
  <2>4. CASE u.kind = "sent"
    <3>1. u.place \in WorkerIds /\ u.place \in Ids
          /\ Enveloped(u.of, u.n) \in Load(from2[u.place])
      BY <2>1, <2>4 DEF There, Ids
    <3>2. CASE Enveloped(u.of, u.n) \in Load(from[u.place])
      BY <1>s, <2>1, <2>4, <3>1, <3>2 DEF There, Tokens, Called
    <3>3. CASE Enveloped(u.of, u.n) \notin Load(from[u.place])
      <4>1. u.place = h /\ Enveloped(u.of, u.n) = Enveloped(x, n)
        BY <3>1, <3>3
      <4>2. u.of = x /\ u.n = n
        BY <4>1, Distinct
      <4>3. u = t
        BY <1>t, <2>1, <2>4, <4>1, <4>2 DEF AllTokens, Sent
      <4>4. QED
        BY <4>3
    <3>4. QED
      BY <3>2, <3>3
  <2>5. CASE u.kind = "held"
    BY <1>s, <2>1, <2>5 DEF There, Tokens, Called
  <2>6. CASE u.kind = "replied"
    <3>1. u.place \in WorkerIds /\ u.place \in Ids /\ u.place # x
          /\ Enveloped(u.of, u.n) \in Load(to2[u.place])
      BY <1>1, <2>1, <2>6 DEF There, Ids
    <3>2. QED
      BY <1>s, <2>1, <2>6, <3>1 DEF There, Tokens, Called
  <2>7. CASE u.kind = "answered"
    BY <1>s, <2>1, <2>2, <2>7 DEF There, Tokens, Called
  <2>8. QED
    BY <2>1, <2>3, <2>4, <2>5, <2>6, <2>7 DEF There
<1>4. QED
  BY <1>s, <1>t, <1>2, <1>3 DEF Moved

-----------------------------------------------------------------------------
(* An iteration of the queue.                                              *)

\* Messages that are lost and workers that are struck off break nothing.
LEMMA FlowShrinks ==
    ASSUME NEW to, NEW from, NEW list, Flow(to, from, list),
           NEW to2, NEW from2, NEW list2, Queues(to2, from2), Lists(list2),
           \A id \in Ids : /\ Load(to2[id]) \subseteq Load(to[id])
                           /\ Load(from2[id]) \subseteq Load(from[id]),
           Members(list2) \subseteq Members(list)
    PROVE  Flow(to2, from2, list2)
<1>1. Tokens(to2, from2, request) \subseteq Tokens(to, from, request)
  BY FewerTokens
<1>2. Unique(Tokens(to2, from2, request)) /\ \A t \in Tokens(to2, from2, request) : Legal(t)
  BY <1>1 DEF Flow, Unique
<1>3. WorkersInv(to2, from2, Members(list2))
  <2>1. ASSUME NEW id \in WorkerIds
        PROVE  /\ Load(to2[id]) \subseteq Load(to[id])
               /\ Load(from2[id]) \subseteq Load(from[id])
    BY DEF Ids
  <2>2. WorkersInv(to, from, Members(list))
    BY DEF Flow
  <2>3. QED
    BY <2>1, <2>2 DEF WorkersInv
<1>4. QED
  BY <1>2, <1>3 DEF Flow

\* What an iteration does with the message of a worker.
Replied(b, q, x, n) ==
    /\ Head(toQueue[b]) = Enveloped(x, n)
    /\ q.queue = IF b \in Members(queue) THEN queue ELSE Append(queue, b)
    /\ \/ q.out = fromQueue
       \/ x \in connected
          /\ q.out = [fromQueue EXCEPT ![x] = Append(@, Request(n))]
Handled(b, q) ==
    \/ Head(toQueue[b]) = Beat /\ q.queue = queue /\ q.out = fromQueue
    \/ /\ Head(toQueue[b]) = Greeting
       /\ q.queue = Append(RemoveFirst(queue, b), b) /\ q.out = fromQueue
    \/ \E x \in ClientIds, n \in Numbers : Replied(b, q, x, n)

\* What the queue does with the message of a worker is one of those.
LEMMA BackendDoes ==
    ASSUME Types, Queues(toQueue, fromQueue), Lists(queue), NEW b \in WorkerIds,
           toQueue[b] # <<>>, NEW q, q = Backend(Now, b)
    PROVE  Handled(b, q)
<1>1. Head(toQueue[b]) \in Offers
  BY TailLoad DEF Queues
<1>2. PICK msg : msg = unwrap(FromPeer(b))
  OBVIOUS
<1>3. \A r : In(r, b) <=> b \in Members(r.queue)
  BY DEF In, Members
<1>4. CASE Head(toQueue[b]) = Beat
  <2>1. msg = Beat /\ msg # Greeting
    BY <1>2, <1>4, BackendReads, Distinct
  <2>2. q = s_worker_refresh(Now, b)
    BY <1>2, <2>1 DEF Backend, Beat, Greeting
  <2>3. q.queue = queue /\ q.out = fromQueue
    BY <2>2 DEF s_worker_refresh, Fresh, Now
  <2>4. QED
    BY <1>4, <2>3 DEF Handled
<1>5. CASE Head(toQueue[b]) = Greeting
  <2>1. msg = Greeting /\ msg # Beat
    BY <1>2, <1>5, BackendReads, Distinct
  <2>2. q = s_worker_append(s_worker_delete(Now, b), b)
    <3>1. msg = Word("READY") /\ msg # Word("HEARTBEAT")
      BY <2>1 DEF Beat, Greeting
    <3>2. QED
      BY <1>2, <3>1, Zenon DEF Backend
  <2>3. PICK r : r = s_worker_delete(Now, b)
    OBVIOUS
  <2>4. /\ r.queue = RemoveFirst(queue, b) /\ r.out = fromQueue
        /\ r = [queue |-> RemoveFirst(queue, b), expiry |-> expiry, out |-> fromQueue]
    BY <2>3 DEF s_worker_delete, Now
  <2>5. ~In(r, b)
    BY <1>3, <2>4, RemoveMembers
  <2>6. q = Fresh([r EXCEPT !.queue = Append(@, b)], b)
    BY <2>2, <2>3, <2>5 DEF s_worker_append
  <2>7. q.queue = Append(RemoveFirst(queue, b), b) /\ q.out = fromQueue
    BY <2>4, <2>6 DEF Fresh
  <2>8. QED
    BY <1>5, <2>7 DEF Handled
<1>6. ASSUME NEW x \in ClientIds, NEW n \in Numbers,
             Head(toQueue[b]) = Enveloped(x, n)
      PROVE  Replied(b, q, x, n)
  <2>1. msg = IF StartsWithNul(x) THEN Request(n) ELSE Enveloped(x, n)
    BY <1>2, <1>6, BackendReads
  <2>2. msg # Beat /\ msg # Greeting /\ Len(msg) # 1
    <3>1. /\ Request(n) \notin {Beat, Greeting} /\ Enveloped(x, n) \notin {Beat, Greeting}
          /\ Len(Request(n)) = 2 /\ Len(Enveloped(x, n)) = 3
      BY Distinct, Shapes
    <3>2. QED
      BY <2>1, <3>1
  <2>3. q = s_worker_append([Now EXCEPT !.out = Routed(@, msg)], b)
    BY <1>2, <2>2 DEF Backend, Beat, Greeting
  <2>4. PICK out : out = Routed(fromQueue, msg)
    OBVIOUS
  <2>5. PICK r : r = [queue |-> queue, expiry |-> expiry, out |-> out]
    OBVIOUS
  <2>6. q = s_worker_append(r, b)
    BY <2>3, <2>4, <2>5 DEF Now
  <2>7. /\ q.queue = IF b \in Members(queue) THEN queue ELSE Append(queue, b)
        /\ q.out = out
    <3>1. CASE b \in Members(queue)
      BY <1>3, <2>5, <2>6, <3>1 DEF s_worker_append
    <3>2. CASE b \notin Members(queue)
      <4>1. q = Fresh([r EXCEPT !.queue = Append(@, b)], b)
        BY <1>3, <2>5, <2>6, <3>2 DEF s_worker_append
      <4>2. QED
        BY <2>5, <3>2, <4>1 DEF Fresh
    <3>3. QED
      BY <3>1, <3>2
  <2>8. out = fromQueue \/ (x \in connected
                            /\ out = [fromQueue EXCEPT ![x] = Append(@, Request(n))])
    <3>1. CASE StartsWithNul(x)
      <4>1. Head(send(msg)) \notin connected
        <5>1. connected \subseteq Ids
          BY OwnIdentity DEF Types
        <5>2. Head(send(msg)) = Empty /\ Empty \notin Ids
          BY <2>1, <3>1, ReplySends
        <5>3. QED
          BY <5>1, <5>2
      <4>2. QED
        BY <2>4, <4>1 DEF Routed
    <3>2. CASE ~StartsWithNul(x)
      <4>1. Head(send(msg)) = x /\ Tail(send(msg)) = Request(n)
        BY <2>1, <3>2, ReplySends
      <4>2. QED
        BY <2>4, <4>1 DEF Routed
    <3>3. QED
      BY <3>1, <3>2
  <2>9. QED
    BY <1>6, <2>7, <2>8 DEF Replied
<1>7. CASE Head(toQueue[b]) \in Requests
  <2>1. PICK x \in ClientIds, n \in Numbers : Head(toQueue[b]) = Enveloped(x, n)
    BY <1>7, MessageKinds
  <2>2. QED
    BY <1>6, <2>1 DEF Handled
<1>8. QED
  BY <1>1, <1>4, <1>5, <1>7 DEF Offers

\* A READY or a reply is taken and its worker listed; a reply goes on to its
\* client, if the client still has that socket.
LEMMA BackendKeeps ==
    ASSUME Types, Flow(toQueue, fromQueue, queue), NEW b \in WorkerIds,
           toQueue[b] # <<>>, NEW q, q = Backend(Now, b),
           NEW to, to = [toQueue EXCEPT ![b] = Tail(@)]
    PROVE  Flow(to, q.out, q.queue) /\ (queue # <<>> => q.queue # <<>>)
<1>1. /\ Queues(toQueue, fromQueue) /\ Lists(queue)
      /\ WorkersInv(toQueue, fromQueue, Members(queue))
      /\ Unique(Tokens(toQueue, fromQueue, request))
      /\ \A t \in Tokens(toQueue, fromQueue, request) : Legal(t)
  BY DEF Flow
<1>2. b \in Ids /\ b \notin ClientIds
  BY Identities DEF Ids
<1>3. /\ DOMAIN to = Ids /\ to = [id \in Ids |-> to[id]]
      /\ to[b] = Tail(toQueue[b])
      /\ \A id \in Ids : id # b => to[id] = toQueue[id]
  BY <1>1, <1>2 DEF Queues
<1>4. Queued(toQueue[b], Offers)
  BY <1>1 DEF Queues
<1>5. /\ Queued(to[b], Offers)
      /\ Head(toQueue[b]) = Beat => Load(to[b]) = Load(toQueue[b])
      /\ Head(toQueue[b]) # Beat =>
             Load(toQueue[b]) = {Head(toQueue[b])} /\ Load(to[b]) = {}
  <2>1. PICK old : old = toQueue[b]
    OBVIOUS
  <2>2. Queued(old, Offers) /\ old # <<>>
    BY <1>4, <2>1
  <2>3. /\ Queued(Tail(old), Offers)
        /\ Head(old) = Beat => Load(Tail(old)) = Load(old)
        /\ Head(old) # Beat => Load(old) = {Head(old)} /\ Load(Tail(old)) = {}
    BY <2>2, TailLoad
  <2>4. QED
    BY <1>3, <2>1, <2>3
<1>6. Queues(to, fromQueue)
  <2>1. ASSUME NEW id \in WorkerIds PROVE Queued(to[id], Offers)
    <3>1. id \in Ids
      BY DEF Ids
    <3>2. QED
      BY <1>1, <1>3, <1>5, <3>1 DEF Queues
  <2>2. ASSUME NEW x \in ClientIds PROVE to[x] = toQueue[x]
    BY <1>2, <1>3 DEF Ids
  <2>3. QED
    BY <1>1, <1>3, <2>1, <2>2 DEF Queues
<1>7. CASE Head(toQueue[b]) = Beat /\ q.queue = queue /\ q.out = fromQueue
  <2>1. \A id \in Ids : Load(to[id]) \subseteq Load(toQueue[id])
    BY <1>3, <1>5, <1>7
  <2>2. Flow(to, fromQueue, queue)
    BY <1>1, <1>6, <2>1, FlowShrinks
  <2>3. QED
    BY <1>7, <2>2
<1>8. ASSUME Head(toQueue[b]) # Beat
      PROVE  /\ b \notin Members(queue) /\ ~(b.n > session[b.of]) /\ ~Working(b)
             /\ Load(fromQueue[b]) = {} /\ Load(to[b]) = {}
             /\ Load(toQueue[b]) = {Head(toQueue[b])}
             /\ \A id \in Ids : Load(to[id]) \subseteq Load(toQueue[id])
  <2>1. Load(toQueue[b]) = {Head(toQueue[b])} /\ Load(to[b]) = {}
    BY <1>5, <1>8
  <2>2. Load(toQueue[b]) # {}
    BY <2>1
  <2>3. /\ b \notin Members(queue) /\ ~Working(b) /\ Load(fromQueue[b]) = {}
        /\ ~(b.n > session[b.of])
    BY <1>1, <2>2 DEF WorkersInv
  <2>4. \A id \in Ids : Load(to[id]) \subseteq Load(toQueue[id])
    BY <1>3, <2>1
  <2>5. QED
    BY <2>1, <2>3, <2>4
<1>9. ASSUME Head(toQueue[b]) # Beat, NEW list, Members(list) = Members(queue) \union {b},
             NEW from, \A id \in WorkerIds : from[id] = fromQueue[id]
      PROVE  WorkersInv(to, from, Members(list))
  <2>1. ASSUME NEW id \in WorkerIds
        PROVE  /\ Load(to[id]) \subseteq Load(toQueue[id])
               /\ Load(from[id]) = Load(fromQueue[id])
               /\ id # b => Load(to[id]) = Load(toQueue[id])
    BY <1>3, <1>8, <1>9 DEF Ids
  <2>2. ~(b.n > session[b.of])
    BY <1>8, <1>9
  <2>3. QED
    BY <1>1, <1>8, <1>9, <2>1, <2>2 DEF WorkersInv
<1>10. CASE /\ Head(toQueue[b]) = Greeting
            /\ q.queue = Append(RemoveFirst(queue, b), b) /\ q.out = fromQueue
  <2>1. Head(toQueue[b]) # Beat
    BY <1>10, Distinct
  <2>2. Lists(RemoveFirst(queue, b)) /\ Members(RemoveFirst(queue, b)) = Members(queue) \ {b}
    BY <1>1, RemoveMembers
  <2>3. /\ Lists(q.queue) /\ Members(q.queue) = Members(queue) \union {b}
        /\ q.queue # <<>>
    BY <1>10, <2>2, AppendMembers, AppendProperties DEF Lists
  <2>4. WorkersInv(to, fromQueue, Members(q.queue))
    BY <1>9, <2>1, <2>3
  <2>5. Tokens(to, fromQueue, request) \subseteq Tokens(toQueue, fromQueue, request)
    BY <1>8, <2>1, FewerTokens
  <2>6. Unique(Tokens(to, fromQueue, request)) /\ \A t \in Tokens(to, fromQueue, request) : Legal(t)
    BY <1>1, <2>5 DEF Unique
  <2>7. Flow(to, fromQueue, q.queue)
    BY <1>6, <2>3, <2>4, <2>6 DEF Flow
  <2>8. QED
    BY <1>10, <2>3, <2>7
<1>11. ASSUME NEW x \in ClientIds, NEW n \in Numbers, Replied(b, q, x, n)
       PROVE  Flow(to, q.out, q.queue) /\ q.queue # <<>>
  <2>0. /\ Head(toQueue[b]) = Enveloped(x, n)
        /\ q.queue = IF b \in Members(queue) THEN queue ELSE Append(queue, b)
        /\ \/ q.out = fromQueue
           \/ x \in connected
              /\ q.out = [fromQueue EXCEPT ![x] = Append(@, Request(n))]
    BY <1>11 DEF Replied
  <2>1. Head(toQueue[b]) # Beat
    BY <2>0, Distinct
  <2>2. /\ Lists(q.queue) /\ Members(q.queue) = Members(queue) \union {b}
        /\ q.queue # <<>>
    <3>1. q.queue = Append(queue, b)
      BY <1>8, <2>0, <2>1
    <3>2. QED
      BY <1>1, <1>8, <2>1, <3>1, AppendMembers, AppendProperties DEF Lists
  <2>3. PICK s : s = Reply(b, x, n)
    OBVIOUS
  <2>4. PICK t : t = Answer(x, n)
    OBVIOUS
  <2>5. x \in Ids /\ x \notin WorkerIds /\ Enveloped(x, n) \in Load(toQueue[b])
    BY <1>8, <2>0, <2>1, Identities DEF Ids
  <2>6. s \in Tokens(toQueue, fromQueue, request)
    BY <1>2, <2>3, <2>5 DEF Tokens, AllTokens, There, Reply
  <2>7. Load(fromQueue[x]) = {}
    <3>1. SUFFICES ASSUME NEW m \in Load(fromQueue[x]) PROVE FALSE
      OBVIOUS
    <3>2. PICK k \in Numbers : m = Request(k)
      <4>1. m \in Calls
        <5>1. fromQueue[x] \in Seq(Calls)
          BY <1>1 DEF Queues, Queued
        <5>2. \A i \in DOMAIN fromQueue[x] : fromQueue[x][i] \in Calls
          BY <5>1, ElementOfSeq, LenProperties
        <5>3. QED
          BY <5>2 DEF Load, Members
      <4>2. QED
        BY <4>1, MessageKinds
    <3>3. PICK u : u = Answer(x, k)
      OBVIOUS
    <3>4. u \in Tokens(toQueue, fromQueue, request)
      BY <2>5, <3>1, <3>2, <3>3 DEF Tokens, AllTokens, There, Answer
    <3>5. u = s
      BY <1>1, <2>3, <2>6, <3>3, <3>4 DEF Unique, Reply, Answer
    <3>6. QED
      BY <2>3, <3>3, <3>5 DEF Reply, Answer
  <2>8. /\ Queues(to, q.out)
        /\ Load(q.out[x]) \subseteq Load(fromQueue[x]) \union {Request(n)}
        /\ \A id \in Ids : id # x => q.out[id] = fromQueue[id]
    <3>1. CASE q.out = fromQueue
      BY <1>6, <3>1
    <3>2. CASE x \in connected
               /\ q.out = [fromQueue EXCEPT ![x] = Append(@, Request(n))]
      <4>1. /\ Queued(Append(fromQueue[x], Request(n)), Calls)
            /\ Load(Append(fromQueue[x], Request(n)))
                   = Load(fromQueue[x]) \union ({Request(n)} \ {Beat})
        <5>1. Queued(fromQueue[x], Calls) /\ Request(n) \in Calls
          BY <1>1 DEF Queues, Calls
        <5>2. QED
          BY <2>7, <5>1, AppendLoad
      <4>2. /\ DOMAIN q.out = Ids /\ q.out = [id \in Ids |-> q.out[id]]
            /\ q.out[x] = Append(fromQueue[x], Request(n))
            /\ \A id \in Ids : id # x => q.out[id] = fromQueue[id]
        BY <1>1, <2>5, <3>2 DEF Queues
      <4>3. \A id \in WorkerIds : id \in Ids /\ id # x
        BY <2>5 DEF Ids
      <4>4. \A y \in ClientIds : Queued(q.out[y], Calls)
        BY <1>6, <4>1, <4>2 DEF Queues, Ids
      <4>5. \A id \in WorkerIds : Queued(q.out[id], Tasks)
        BY <1>6, <4>2, <4>3 DEF Queues
      <4>6. \A id \in Ids : Load(q.out[id]) # {} => id \in connected
        BY <1>6, <3>2, <4>2 DEF Queues
      <4>7. Queues(to, q.out)
        BY <1>6, <4>2, <4>4, <4>5, <4>6 DEF Queues
      <4>8. QED
        BY <4>1, <4>2, <4>7
    <3>3. QED
      BY <2>0, <3>1, <3>2
  <2>9. Moved(Tokens(toQueue, fromQueue, request), Tokens(to, q.out, request), s, t)
    <3>1. /\ Load(to[b]) = {}
          /\ \A id \in Ids : id # b => Load(to[id]) = Load(toQueue[id])
          /\ \A id \in Ids : id # x => Load(q.out[id]) = Load(fromQueue[id])
      BY <1>3, <1>8, <2>1, <2>8
    <3>2. QED
      BY <2>3, <2>4, <2>5, <2>8, <3>1, ReplyMoves
  <2>10. Legal(s) /\ t.of = s.of
    BY <1>1, <2>3, <2>4, <2>6 DEF Reply, Answer
  <2>11. Legal(t)
    BY <2>3, <2>4, <2>10 DEF Legal, Reply, Answer
  <2>12. Unique(Tokens(to, q.out, request))
    BY <1>1, <2>6, <2>9, <2>10, MovedUnique
  <2>13. \A u \in Tokens(to, q.out, request) : Legal(u)
    BY <1>1, <2>9, <2>11 DEF Moved
  <2>14. WorkersInv(to, q.out, Members(q.queue))
    <3>1. \A id \in WorkerIds : q.out[id] = fromQueue[id]
      BY <2>5, <2>8 DEF Ids
    <3>2. QED
      BY <1>9, <2>1, <2>2, <3>1
  <2>15. QED
    BY <2>2, <2>8, <2>12, <2>13, <2>14 DEF Flow
<1>12. QED
  <2>1. Handled(b, q)
    BY <1>1, BackendDoes
  <2>2. QED
    BY <1>7, <1>10, <1>11, <2>1 DEF Handled

\* A request is taken and goes to the first worker of the list, who is struck
\* off, if that worker still has that socket.
LEMMA FrontendKeeps ==
    ASSUME Types, NEW to, NEW q, Flow(to, q.out, q.queue), q.queue # <<>>,
           q = [queue |-> q.queue, expiry |-> q.expiry, out |-> q.out],
           NEW x \in ClientIds, to[x] = toQueue[x], to[x] # <<>>,
           NEW q2, q2 = Frontend(q, x),
           NEW to2, to2 = [to EXCEPT ![x] = Tail(@)]
    PROVE  Flow(to2, q2.out, q2.queue)
<1>1. PICK from : from = q.out
  OBVIOUS
<1>2. PICK list : list = q.queue
  OBVIOUS
<1>3. /\ Queues(to, from) /\ Lists(list) /\ list # <<>>
      /\ WorkersInv(to, from, Members(list))
      /\ Unique(Tokens(to, from, request)) /\ \A t \in Tokens(to, from, request) : Legal(t)
  BY <1>1, <1>2 DEF Flow
<1>4. x \in Ids /\ x \notin WorkerIds
  BY Identities DEF Ids
<1>5. /\ DOMAIN to2 = Ids /\ to2 = [id \in Ids |-> to2[id]]
      /\ to2[x] = Tail(to[x])
      /\ \A id \in Ids : id # x => to2[id] = to[id]
  BY <1>3, <1>4 DEF Queues
<1>6. PICK h : h = Head(list)
  OBVIOUS
<1>7. /\ Lists(Tail(list)) /\ h \in WorkerIds /\ h \in Members(list)
      /\ Members(Tail(list)) = Members(list) \ {h}
  BY <1>3, <1>6, TailMembers DEF Lists
<1>8. PICK old : old = to[x]
  OBVIOUS
<1>9. /\ Head(old) \in Calls /\ Queued(Tail(old), Calls)
      /\ Head(old) # Beat => Load(old) = {Head(old)} /\ Load(Tail(old)) = {}
  <2>1. Queued(old, Calls) /\ old # <<>>
    BY <1>3, <1>8 DEF Queues
  <2>2. QED
    BY <2>1, TailLoad
<1>10. PICK n \in Numbers : Head(old) = Request(n)
  BY <1>9, MessageKinds
<1>11. Load(to[x]) = {Request(n)} /\ Load(to2[x]) = {} /\ Queued(to2[x], Calls)
  BY <1>5, <1>8, <1>9, <1>10, Distinct
<1>12. h \in Ids /\ h # x /\ h \notin ClientIds
  BY <1>4, <1>7, Identities DEF Ids
<1>13. Load(from[h]) = {} /\ Load(to[h]) = {} /\ ~Working(h) /\ ~(h.n > session[h.of])
  BY <1>3, <1>7 DEF WorkersInv
<1>14. /\ q2.queue = Tail(list)
       /\ \/ q2.out = from
          \/ h \in connected /\ q2.out = [from EXCEPT ![h] = Append(@, Enveloped(x, n))]
  <2>1. PICK msg : msg = push_front(FromPeer(x), h)
    OBVIOUS
  <2>2. Head(send(msg)) = h /\ Tail(send(msg)) = Enveloped(x, n)
    BY <1>7, <1>8, <1>10, <2>1, FrontendSends
  <2>3. PICK out : out = Routed(from, msg)
    OBVIOUS
  <2>4. q2 = [queue |-> Tail(list), expiry |-> q.expiry, out |-> out]
    BY <1>1, <1>2, <1>6, <2>1, <2>3 DEF Frontend
  <2>5. out = IF h \in connected THEN [from EXCEPT ![h] = Append(@, Enveloped(x, n))]
              ELSE from
    BY <2>2, <2>3 DEF Routed
  <2>6. QED
    BY <2>4, <2>5
<1>15. Queues(to2, from)
  <2>1. ASSUME NEW y \in ClientIds PROVE Queued(to2[y], Calls)
    <3>1. y \in Ids
      BY DEF Ids
    <3>2. QED
      BY <1>3, <1>5, <1>11, <3>1 DEF Queues
  <2>2. ASSUME NEW id \in WorkerIds PROVE to2[id] = to[id]
    BY <1>4, <1>5 DEF Ids
  <2>3. QED
    BY <1>3, <1>5, <2>1, <2>2 DEF Queues
<1>16. PICK out : out = q2.out
  OBVIOUS
<1>17. /\ Queues(to2, out)
       /\ Load(out[h]) \subseteq Load(from[h]) \union {Enveloped(x, n)}
       /\ \A id \in Ids : id # h => out[id] = from[id]
  <2>1. CASE out = from
    BY <1>15, <2>1
  <2>2. CASE h \in connected /\ out = [from EXCEPT ![h] = Append(@, Enveloped(x, n))]
    <3>1. /\ Queued(Append(from[h], Enveloped(x, n)), Tasks)
          /\ Load(Append(from[h], Enveloped(x, n)))
                 = Load(from[h]) \union ({Enveloped(x, n)} \ {Beat})
      <4>1. Queued(from[h], Tasks) /\ Enveloped(x, n) \in Tasks
        BY <1>3, <1>7, MessageKinds DEF Queues, Tasks
      <4>2. QED
        BY <1>13, <4>1, AppendLoad
    <3>2. /\ DOMAIN out = Ids /\ out = [id \in Ids |-> out[id]]
          /\ out[h] = Append(from[h], Enveloped(x, n))
          /\ \A id \in Ids : id # h => out[id] = from[id]
      BY <1>3, <1>12, <2>2 DEF Queues
    <3>3. \A y \in ClientIds : y \in Ids /\ y # h
      BY <1>12 DEF Ids
    <3>4. \A id \in WorkerIds : Queued(out[id], Tasks)
      BY <1>15, <3>1, <3>2 DEF Queues, Ids
    <3>5. \A y \in ClientIds : Queued(out[y], Calls)
      BY <1>15, <3>2, <3>3 DEF Queues
    <3>6. \A id \in Ids : Load(out[id]) # {} => id \in connected
      BY <1>15, <2>2, <3>2 DEF Queues
    <3>7. Queues(to2, out)
      BY <1>15, <3>2, <3>4, <3>5, <3>6 DEF Queues
    <3>8. QED
      BY <3>1, <3>2, <3>7
  <2>3. QED
    BY <1>14, <1>16, <2>1, <2>2
<1>18. /\ Called(x, n) \in Tokens(to, from, request)
       /\ Moved(Tokens(to, from, request), Tokens(to2, out, request), Called(x, n), Sent(h, x, n))
  <2>1. /\ Request(n) \in Load(to[x]) /\ Load(to2[x]) = {}
        /\ \A id \in Ids : id # x => Load(to2[id]) = Load(to[id])
        /\ Load(out[h]) \subseteq Load(from[h]) \union {Enveloped(x, n)}
        /\ \A id \in Ids : id # h => Load(out[id]) = Load(from[id])
    BY <1>5, <1>11, <1>17
  <2>2. QED
    BY <1>7, <2>1, RequestMoves
<1>19. Legal(Called(x, n)) /\ Sent(h, x, n).of = Called(x, n).of
  BY <1>3, <1>18 DEF Called, Sent
<1>20. Legal(Sent(h, x, n))
  BY <1>19 DEF Legal, Called, Sent
<1>21. Unique(Tokens(to2, out, request))
  BY <1>3, <1>18, <1>19, MovedUnique
<1>22. \A t \in Tokens(to2, out, request) : Legal(t)
  BY <1>3, <1>18, <1>20 DEF Moved
<1>23. WorkersInv(to2, out, Members(Tail(list)))
  <2>1. ASSUME NEW id \in WorkerIds
        PROVE  Load(to2[id]) = Load(to[id]) /\ (id # h => Load(out[id]) = Load(from[id]))
    BY <1>4, <1>5, <1>17 DEF Ids
  <2>2. QED
    BY <1>3, <1>7, <1>13, <2>1 DEF WorkersInv
<1>24. QED
  BY <1>7, <1>14, <1>16, <1>17, <1>21, <1>22, <1>23 DEF Flow

\* Heartbeats go to workers that have nothing to read, and are no load.
LEMMA HeartbeatsKeep ==
    ASSUME NEW to, NEW q, Flow(to, q.out, q.queue), NEW q2, q2 = Heartbeats(q),
           q = [queue |-> q.queue, expiry |-> q.expiry, out |-> q.out]
    PROVE  Flow(to, q2.out, q2.queue)
<1>1. PICK from : from = q.out
  OBVIOUS
<1>2. PICK out : out = q2.out
  OBVIOUS
<1>3. Queues(to, from) /\ Lists(q.queue)
  BY <1>1 DEF Flow
<1>4. /\ q2.queue = q.queue
      /\ out = [id \in Ids |-> IF In(q, id) /\ id \in connected /\ from[id] = <<>>
                               THEN <<Beat>> ELSE from[id]]
  BY <1>1, <1>2 DEF Heartbeats, Beat
<1>5. \A id : In(q, id) => id \in WorkerIds
  <2>1. \A i \in DOMAIN q.queue : q.queue[i] \in WorkerIds
    BY <1>3, ElementOfSeq, LenProperties DEF Lists
  <2>2. QED
    BY <2>1 DEF In
<1>6. Queued(<<Beat>>, Tasks) /\ Load(<<Beat>>) = {} /\ Load(<<>>) = {}
  <2>1. Load(<<Beat>>) = {} /\ Load(<<>>) = {} /\ Single(<<Beat>>)
    BY NewLoad
  <2>2. <<Beat>> \in Seq(Tasks)
    BY DEF Tasks
  <2>3. QED
    BY <2>1, <2>2 DEF Queued
<1>7. ASSUME NEW id \in Ids
      PROVE  /\ out[id] = from[id] \/ (out[id] = <<Beat>> /\ id \in WorkerIds)
             /\ Load(out[id]) = Load(from[id])
  BY <1>4, <1>5, <1>6
<1>8. Queues(to, out)
  <2>1. DOMAIN out = Ids /\ out = [id \in Ids |-> out[id]]
    BY <1>4
  <2>2. ASSUME NEW id \in WorkerIds PROVE Queued(out[id], Tasks)
    BY <1>3, <1>6, <1>7 DEF Queues, Ids
  <2>3. ASSUME NEW x \in ClientIds PROVE Queued(out[x], Calls)
    <3>1. x \in Ids /\ x \notin WorkerIds
      BY Identities DEF Ids
    <3>2. QED
      BY <1>3, <1>7, <3>1 DEF Queues
  <2>4. QED
    BY <1>3, <1>7, <2>1, <2>2, <2>3 DEF Queues
<1>9. Flow(to, out, q.queue)
  BY <1>1, <1>3, <1>7, <1>8, FlowShrinks
<1>10. QED
  BY <1>2, <1>4, <1>9

\* The purge takes workers off the list.
LEMMA PurgeKeeps ==
    ASSUME NEW to, NEW q, Flow(to, q.out, q.queue), NEW q2, q2 = s_queue_purge(q),
           q = [queue |-> q.queue, expiry |-> q.expiry, out |-> q.out]
    PROVE  Flow(to, q2.out, q2.queue)
<1>1. PICK S : S = {id \in WorkerIds : q.expiry[id] > 0}
  OBVIOUS
<1>2. q2.queue = Kept(q.queue, S) /\ q2.out = q.out
  BY <1>1 DEF s_queue_purge
<1>3. Queues(to, q.out) /\ Lists(q.queue)
  BY DEF Flow
<1>4. Lists(Kept(q.queue, S)) /\ Members(Kept(q.queue, S)) \subseteq Members(q.queue)
  BY <1>3, KeptMembers
<1>5. Flow(to, q.out, Kept(q.queue, S))
  BY <1>3, <1>4, FlowShrinks
<1>6. QED
  BY <1>2, <1>5

\* No peer is the Nobody of an iteration without a message.
LEMMA NobodyIsNobody == Nobody \notin Ids
<1>1. \A p, k : Identity(p, k) # Empty
  BY DEF Identity, Empty
<1>2. QED
  BY <1>1, Identities DEF Nobody

\* The tables of the queue stay a record of the vector, the expiries and the
\* messages.
Tables(q) == q = [queue |-> q.queue, expiry |-> q.expiry, out |-> q.out]

\* The edits of the tables leave tables: the single edits,
LEMMA FreshTables ==
    ASSUME NEW q, Tables(q), NEW id
    PROVE  /\ Tables(Fresh(q, id))
           /\ Tables([q EXCEPT !.queue = Append(@, id)])
           /\ Tables(s_worker_delete(q, id))
           /\ \A out : Tables([q EXCEPT !.out = out])
<1>1. PICK a, e, o : q = [queue |-> a, expiry |-> e, out |-> o]
  BY DEF Tables
<1>2. \A i, j, k : Tables([queue |-> i, expiry |-> j, out |-> k])
  BY DEF Tables
<1>3. Fresh(q, id) = [queue |-> a, expiry |-> [e EXCEPT ![id] = Expiry], out |-> o]
  BY <1>1 DEF Fresh
<1>4. [q EXCEPT !.queue = Append(@, id)]
          = [queue |-> Append(a, id), expiry |-> e, out |-> o]
  BY <1>1
<1>5. s_worker_delete(q, id) = [queue |-> RemoveFirst(a, id), expiry |-> e, out |-> o]
  BY <1>1 DEF s_worker_delete
<1>6. \A out : [q EXCEPT !.out = out] = [queue |-> a, expiry |-> e, out |-> out]
  BY <1>1
<1>7. QED
  BY <1>2, <1>3, <1>4, <1>5, <1>6

\* those of the list of workers,
LEMMA WorkerTables ==
    ASSUME NEW q, Tables(q), NEW id
    PROVE  Tables(s_worker_append(q, id)) /\ Tables(s_worker_refresh(q, id))
<1>1. Tables(Fresh([q EXCEPT !.queue = Append(@, id)], id)) /\ Tables(Fresh(q, id))
  <2>1. PICK r : r = [q EXCEPT !.queue = Append(@, id)]
    OBVIOUS
  <2>2. Tables(r)
    BY <2>1, FreshTables
  <2>3. Tables(Fresh(r, id)) /\ Tables(Fresh(q, id))
    BY <2>2, FreshTables
  <2>4. QED
    BY <2>1, <2>3
<1>2. QED
  BY <1>1, Zenon DEF s_worker_append, s_worker_refresh

\* that of a message of a worker,
LEMMA BackendTables == ASSUME NEW b PROVE Tables(Backend(Now, b))
<1>1. PICK msg : msg = unwrap(FromPeer(b))
  OBVIOUS
<1>2. Tables(Now)
  BY DEF Tables, Now
<1>3. Tables(s_worker_append(s_worker_delete(Now, b), b)) /\ Tables(s_worker_refresh(Now, b))
  BY <1>2, FreshTables, WorkerTables
<1>4. Tables(s_worker_append([Now EXCEPT !.out = Routed(@, msg)], b))
  <2>1. PICK out : out = Routed(fromQueue, msg)
    OBVIOUS
  <2>2. [Now EXCEPT !.out = Routed(@, msg)] = [Now EXCEPT !.out = out]
    BY <2>1 DEF Now
  <2>3. Tables([Now EXCEPT !.out = out])
    BY <1>2, FreshTables
  <2>4. QED
    BY <2>2, <2>3, WorkerTables
<1>5. CASE msg = Greeting
  <2>1. msg = Word("READY") /\ msg # Word("HEARTBEAT")
    BY <1>5, Distinct DEF Beat, Greeting
  <2>2. Backend(Now, b) = s_worker_append(s_worker_delete(Now, b), b)
    BY <1>1, <2>1, Zenon DEF Backend
  <2>3. QED
    BY <1>3, <2>2
<1>6. CASE msg = Beat
  <2>1. msg = Word("HEARTBEAT") /\ msg # Word("READY")
    BY <1>6, Distinct DEF Beat, Greeting
  <2>2. Backend(Now, b) = s_worker_refresh(Now, b)
    BY <1>1, <2>1, Zenon DEF Backend
  <2>3. QED
    BY <1>3, <2>2
<1>7. CASE msg # Greeting /\ msg # Beat
  <2>1. msg # Word("READY") /\ msg # Word("HEARTBEAT")
    BY <1>7 DEF Beat, Greeting
  <2>2. CASE Len(msg) = 1
    <3>1. Backend(Now, b) = Now
      BY <1>1, <2>1, <2>2 DEF Backend
    <3>2. QED
      BY <1>2, <3>1
  <2>3. CASE Len(msg) # 1
    <3>1. Backend(Now, b) = s_worker_append([Now EXCEPT !.out = Routed(@, msg)], b)
      BY <1>1, <2>1, <2>3 DEF Backend
    <3>2. QED
      BY <1>4, <3>1
  <2>4. QED
    BY <2>2, <2>3
<1>8. QED
  BY <1>5, <1>6, <1>7

\* and what an iteration does after it.
LEMMA LaterTables ==
    ASSUME NEW q, Tables(q), NEW x
    PROVE  Tables(Frontend(q, x)) /\ Tables(Heartbeats(q))
<1>1. PICK a, e, o : q = [queue |-> a, expiry |-> e, out |-> o]
  BY DEF Tables
<1>2. \A i, j, k : Tables([queue |-> i, expiry |-> j, out |-> k])
  BY DEF Tables
<1>3. PICK msg : msg = push_front(FromPeer(x), Head(q.queue))
  OBVIOUS
<1>t. PICK tail, out : tail = Tail(a) /\ out = Routed(o, msg)
  OBVIOUS
<1>4. PICK r : r = Frontend(q, x)
  OBVIOUS
<1>r. r = [queue |-> tail, expiry |-> e, out |-> out]
  BY <1>1, <1>3, <1>t, <1>4 DEF Frontend
<1>5. PICK beats : beats = [id \in Ids |-> IF In(q, id) /\ id \in connected /\ o[id] = <<>>
                                     THEN <<Word("HEARTBEAT")>> ELSE o[id]]
  OBVIOUS
<1>6. Heartbeats(q) = [queue |-> a, expiry |-> e, out |-> beats]
  BY <1>1, <1>5 DEF Heartbeats
<1>7. QED
  BY <1>2, <1>4, <1>r, <1>6

\* Whatever an iteration takes and sends, and whoever it lists and purges, the
\* frames and the list are as they should be, and it finds a worker for a
\* request.
LEMMA IteratesKeeps ==
    ASSUME Types, Flow(toQueue, fromQueue, queue),
           NEW b \in WorkerIds \union {Nobody}, NEW x \in ClientIds \union {Nobody},
           NEW beat \in BOOLEAN, Iterates(b, x, beat)
    PROVE  Flow(toQueue', fromQueue', queue') /\ qstate' = "running"
<1>1. PICK q1 : q1 = IF b = Nobody THEN Now ELSE Backend(Now, b)
  OBVIOUS
<1>2. PICK to1 : to1 = IF b = Nobody THEN toQueue ELSE [toQueue EXCEPT ![b] = Tail(@)]
  OBVIOUS
<1>3. /\ qstate = "running"
      /\ b # Nobody => toQueue[b] # <<>>
      /\ x # Nobody => toQueue[x] # <<>> /\ queue # <<>>
  BY DEF Iterates
<1>4. Tables(q1) /\ Flow(to1, q1.out, q1.queue) /\ (queue # <<>> => q1.queue # <<>>)
  <2>1. CASE b = Nobody
    <3>1. q1 = Now /\ to1 = toQueue
      BY <1>1, <1>2, <2>1
    <3>2. Tables(q1) /\ q1.out = fromQueue /\ q1.queue = queue
      BY <3>1 DEF Tables, Now
    <3>3. QED
      BY <3>1, <3>2
  <2>2. CASE b # Nobody
    <3>1. /\ q1 = Backend(Now, b) /\ to1 = [toQueue EXCEPT ![b] = Tail(@)]
          /\ b \in WorkerIds /\ toQueue[b] # <<>>
      BY <1>1, <1>2, <1>3, <2>2
    <3>2. Flow(to1, q1.out, q1.queue) /\ (queue # <<>> => q1.queue # <<>>)
      BY <3>1, BackendKeeps
    <3>3. QED
      BY <3>1, <3>2, BackendTables
  <2>3. QED
    BY <2>1, <2>2
<1>5. ~(x # Nobody /\ q1.queue = <<>>)
  BY <1>3, <1>4
<1>6. PICK q2 : q2 = IF x = Nobody THEN q1 ELSE Frontend(q1, x)
  OBVIOUS
<1>7. PICK q3 : q3 = IF beat THEN Heartbeats(q2) ELSE q2
  OBVIOUS
<1>8. PICK q4 : q4 = s_queue_purge(q3)
  OBVIOUS
<1>9. /\ toQueue' = [id \in Ids |-> IF id \in {b, x} THEN Tail(toQueue[id]) ELSE toQueue[id]]
      /\ queue' = q4.queue /\ fromQueue' = q4.out /\ qstate' = qstate
  BY <1>1, <1>5, <1>6, <1>7, <1>8 DEF Iterates
<1>10. PICK to2 : to2 = IF x = Nobody THEN to1 ELSE [to1 EXCEPT ![x] = Tail(@)]
  OBVIOUS
<1>11. DOMAIN toQueue = Ids /\ toQueue = [id \in Ids |-> toQueue[id]]
  BY DEF Flow, Queues
<1>12. (b = Nobody \/ b \in WorkerIds) /\ (x = Nobody \/ x \in ClientIds)
       /\ Nobody \notin Ids /\ WorkerIds \intersect ClientIds = {}
  BY NobodyIsNobody, Identities
<1>13. x # Nobody => to1[x] = toQueue[x]
  BY <1>2, <1>11, <1>12 DEF Ids
<1>14. toQueue' = to2
  <2>1. \A id \in Ids : to1[id] = IF id = b THEN Tail(toQueue[id]) ELSE toQueue[id]
    BY <1>2, <1>11, <1>12
  <2>2. DOMAIN to1 = Ids /\ to1 = [id \in Ids |-> to1[id]]
    BY <1>2, <1>11
  <2>3. \A id \in Ids : to2[id] = IF id = x THEN Tail(to1[id]) ELSE to1[id]
    BY <1>10, <1>12, <2>2
  <2>4. DOMAIN to2 = Ids /\ to2 = [id \in Ids |-> to2[id]]
    BY <1>10, <2>2
  <2>5. \A id \in Ids : ~(id = b /\ id = x)
    BY <1>12
  <2>6. \A id \in Ids : to2[id] = IF id \in {b, x} THEN Tail(toQueue[id]) ELSE toQueue[id]
    BY <2>1, <2>3, <2>5
  <2>7. QED
    BY <1>9, <2>4, <2>6
<1>15. Tables(q2) /\ Flow(to2, q2.out, q2.queue)
  <2>1. CASE x = Nobody
    BY <1>4, <1>6, <1>10, <2>1
  <2>2. CASE x # Nobody
    <3>1. /\ q2 = Frontend(q1, x) /\ to2 = [to1 EXCEPT ![x] = Tail(@)]
          /\ x \in ClientIds /\ q1.queue # <<>>
          /\ to1[x] = toQueue[x] /\ to1[x] # <<>>
      BY <1>3, <1>5, <1>6, <1>10, <1>12, <1>13, <2>2
    <3>2. q1 = [queue |-> q1.queue, expiry |-> q1.expiry, out |-> q1.out]
      BY <1>4 DEF Tables
    <3>3. Flow(to2, q2.out, q2.queue)
      BY <1>4, <3>1, <3>2, FrontendKeeps
    <3>4. QED
      BY <1>4, <3>1, <3>3, LaterTables
  <2>3. QED
    BY <2>1, <2>2
<1>16. Tables(q3) /\ Flow(to2, q3.out, q3.queue)
  <2>1. CASE ~beat
    BY <1>7, <1>15, <2>1
  <2>2. CASE beat
    <3>1. q2 = [queue |-> q2.queue, expiry |-> q2.expiry, out |-> q2.out]
          /\ q3 = Heartbeats(q2)
      BY <1>7, <1>15, <2>2 DEF Tables
    <3>2. Flow(to2, q3.out, q3.queue)
      BY <1>15, <3>1, HeartbeatsKeep
    <3>3. QED
      BY <1>15, <3>1, <3>2, LaterTables
  <2>3. QED
    BY <2>1, <2>2
<1>17. Flow(to2, q4.out, q4.queue)
  <2>1. q3 = [queue |-> q3.queue, expiry |-> q3.expiry, out |-> q3.out]
    BY <1>16 DEF Tables
  <2>2. QED
    BY <1>8, <1>16, <2>1, PurgeKeeps
<1>18. QED
  BY <1>3, <1>9, <1>14, <1>17

\* Where the peers do nothing, what holds of the queues is the invariant.
LEMMA SteadyFlow ==
    ASSUME Flow(toQueue', fromQueue', queue'),
           UNCHANGED <<session, connected, request, sequence, cstate, executed>>
    PROVE  Flow(toQueue, fromQueue, queue)'
<1>1. Queues(toQueue, fromQueue)' /\ Lists(queue)'
  BY DEF Flow, Queues, Lists
<1>2. WorkersInv(toQueue, fromQueue, Members(queue))'
  BY DEF Flow, WorkersInv, Working, Members, Id
<1>3. Tokens(toQueue, fromQueue, request)' = Tokens(toQueue', fromQueue', request)
  BY DEF Tokens, There
<1>4. \A t : Legal(t) => Legal(t)'
  BY DEF Legal
<1>5. Unique(Tokens(toQueue, fromQueue, request)')
      /\ \A t \in Tokens(toQueue, fromQueue, request)' : Legal(t)'
  BY <1>3, <1>4 DEF Flow
<1>6. QED
  BY <1>1, <1>2, <1>5 DEF Flow

\* The main loop of ppqueue: one iteration.
LEMMA IteratesInv ==
    ASSUME IInv, NEW b \in WorkerIds \union {Nobody},
           NEW x \in ClientIds \union {Nobody},
           NEW beat \in BOOLEAN, Iterates(b, x, beat)
    PROVE  IInv'
<1>1. Types /\ ClientStates /\ Hands /\ Flow(toQueue, fromQueue, queue)
  BY DEF IInv
<1>2. Flow(toQueue', fromQueue', queue') /\ qstate' = "running"
  BY <1>1, IteratesKeeps
<1>3. /\ UNCHANGED <<session, connected, request, sequence, cstate, executed>>
      /\ UNCHANGED <<wstate, crashes>>
  BY DEF Iterates, workerVars, clientVars
<1>4. Flow(toQueue, fromQueue, queue)'
  BY <1>2, <1>3, SteadyFlow
<1>5. Types'
  BY <1>1, <1>2, <1>3 DEF Types, Id
<1>6. ClientStates' /\ Hands'
  BY <1>1, <1>3 DEF ClientStates, Hands, Id
<1>7. QED
  BY <1>4, <1>5, <1>6 DEF IInv

\* Time passes, the queue starts again, a poll of a worker times out.
LEMMA QuietInv ==
    ASSUME IInv,
           UNCHANGED <<session, connected, request, sequence, cstate, executed,
                       toQueue, fromQueue, queue, crashes>>,
           qstate' \in {qstate, "running"},
           \/ wstate' = wstate
           \/ \E w \in Workers, s \in {"polling", "sleeping"} :
                  wstate[w] = "polling" /\ wstate' = [wstate EXCEPT ![w] = s]
    PROVE  IInv'
<1>1. Types /\ ClientStates /\ Hands /\ Flow(toQueue, fromQueue, queue)
  BY DEF IInv
<1>2. Flow(toQueue, fromQueue, queue)'
  BY <1>1, SteadyFlow
<1>3. /\ wstate' \in [Workers -> {"off", "polling", "working", "sleeping"}]
      /\ \A w \in Workers : wstate'[w] = "working" <=> wstate[w] = "working"
  BY <1>1 DEF Types
<1>4. Types'
  BY <1>1, <1>3 DEF Types, Id
<1>5. ClientStates' /\ Hands'
  BY <1>1, <1>3 DEF ClientStates, Hands, Id
<1>6. QED
  BY <1>2, <1>4, <1>5 DEF IInv

\* Time passes.
LEMMA TickInv == ASSUME IInv, Tick PROVE IInv'
  BY QuietInv DEF Tick, sockets, workerVars, clientVars

\* The queue starts again.
LEMMA QueueRestartsInv ==
    ASSUME IInv, QueueRestarts, UNCHANGED workerAndQueue PROVE IInv'
  BY QuietInv DEF QueueRestarts, sockets, jobs, clientVars, workerAndQueue

\* A worker hears nothing and sleeps.
LEMMA WorkerTimesOutInv ==
    ASSUME IInv, NEW w \in Workers, WorkerTimesOut(w) PROVE IInv'
  BY QuietInv DEF WorkerTimesOut, queueVars, sockets, clientVars

-----------------------------------------------------------------------------
(* The peers.                                                              *)

\* What a peer does is the invariant again if it is for the frames, the list,
\* the workers and each token.
LEMMA FlowNext ==
    ASSUME Queues(toQueue, fromQueue)', Lists(queue)',
           WorkersInv(toQueue, fromQueue, Members(queue))',
           Unique(Tokens(toQueue', fromQueue', request')),
           \A t \in Tokens(toQueue', fromQueue', request') : Legal(t)'
    PROVE  Flow(toQueue, fromQueue, queue)'
<1>1. Tokens(toQueue, fromQueue, request)' = Tokens(toQueue', fromQueue', request')
  BY DEF Tokens, There
<1>2. Unique(Tokens(toQueue, fromQueue, request)')
  BY <1>1
<1>3. \A t \in Tokens(toQueue, fromQueue, request)' : Legal(t)'
  BY <1>1
<1>4. QED
  BY <1>2, <1>3 DEF Flow

\* A token stays legal while its client does nothing.
LEMMA LegalStays ==
    ASSUME NEW t, Legal(t), executed \subseteq executed', UNCHANGED <<session, sequence, cstate>>
    PROVE  Legal(t)'
  BY DEF Legal

\* Worker w takes request n of socket x.
LEMMA TakeMoves ==
    ASSUME NEW to, NEW from, NEW hands, NEW from2, NEW hands2,
           NEW w \in Workers, NEW h \in WorkerIds,
           NEW x \in ClientIds, NEW n \in Numbers,
           Enveloped(x, n) \in Load(from[h]), Load(from2[h]) = {},
           \A id \in Ids : id # h => from2[id] = from[id],
           hands2[w] = Enveloped(x, n),
           \A v \in Workers : v # w => hands2[v] = hands[v]
    PROVE  /\ Sent(h, x, n) \in Tokens(to, from, hands)
           /\ Moved(Tokens(to, from, hands), Tokens(to, from2, hands2),
                    Sent(h, x, n), Held(w, x, n))
<1>s. PICK s : s = Sent(h, x, n)
  OBVIOUS
<1>t. PICK t : t = Held(w, x, n)
  OBVIOUS
<1>1. h \in Ids /\ h \notin ClientIds
  BY Identities DEF Ids
<1>2. s \in Tokens(to, from, hands)
  BY <1>1, <1>s DEF Tokens, AllTokens, There, Sent
<1>3. ASSUME NEW u \in Tokens(to, from2, hands2)
      PROVE  u = t \/ (u \in Tokens(to, from, hands) /\ u # s)
  <2>1. u \in AllTokens /\ There(u, to, from2, hands2)
    BY DEF Tokens
  <2>2. u.of \in ClientIds /\ u.of \in Ids /\ u.of # h
    BY <1>1, <2>1 DEF AllTokens, Ids
  <2>3. CASE u.kind = "called"
    BY <1>s, <2>1, <2>3 DEF There, Tokens, Sent
  <2>4. CASE u.kind = "sent"
    <3>1. u.place \in WorkerIds /\ u.place \in Ids
          /\ Enveloped(u.of, u.n) \in Load(from2[u.place])
      BY <2>1, <2>4 DEF There, Ids
    <3>2. u.place # h
      BY <3>1
    <3>3. QED
      BY <1>s, <2>1, <2>4, <3>1, <3>2 DEF There, Tokens, Sent
  <2>5. CASE u.kind = "held"
    <3>1. u.place \in Workers /\ Enveloped(u.of, u.n) = hands2[u.place]
      BY <2>1, <2>5 DEF There
    <3>2. CASE u.place = w
      <4>1. u.of = x /\ u.n = n
        BY <3>1, <3>2, Distinct
      <4>2. QED
        BY <1>t, <2>1, <2>5, <3>2, <4>1 DEF AllTokens, Held
    <3>3. CASE u.place # w
      BY <1>s, <2>1, <2>5, <3>1, <3>3 DEF There, Tokens, Sent
    <3>4. QED
      BY <3>2, <3>3
  <2>6. CASE u.kind = "replied"
    BY <1>s, <2>1, <2>6 DEF There, Tokens, Sent
  <2>7. CASE u.kind = "answered"
    BY <1>s, <2>1, <2>2, <2>7 DEF There, Tokens, Sent
  <2>8. QED
    BY <2>1, <2>3, <2>4, <2>5, <2>6, <2>7 DEF There
<1>4. QED
  BY <1>s, <1>t, <1>2, <1>3 DEF Moved

\* Worker w replies to it.
LEMMA DoneMoves ==
    ASSUME NEW to, NEW from, NEW hands, NEW to2, NEW hands2,
           NEW w \in Workers, NEW h \in WorkerIds,
           NEW x \in ClientIds, NEW n \in Numbers,
           hands[w] = Enveloped(x, n), hands2[w] = <<>>,
           \A v \in Workers : v # w => hands2[v] = hands[v],
           Load(to2[h]) \subseteq Load(to[h]) \union {Enveloped(x, n)},
           \A id \in Ids : id # h => to2[id] = to[id]
    PROVE  /\ Held(w, x, n) \in Tokens(to, from, hands)
           /\ Moved(Tokens(to, from, hands), Tokens(to2, from, hands2),
                    Held(w, x, n), Reply(h, x, n))
<1>s. PICK s : s = Held(w, x, n)
  OBVIOUS
<1>t. PICK t : t = Reply(h, x, n)
  OBVIOUS
<1>1. h \in Ids /\ h \notin ClientIds
  BY Identities DEF Ids
<1>2. s \in Tokens(to, from, hands)
  BY <1>s DEF Tokens, AllTokens, There, Held
<1>3. ASSUME NEW u \in Tokens(to2, from, hands2)
      PROVE  u = t \/ (u \in Tokens(to, from, hands) /\ u # s)
  <2>1. u \in AllTokens /\ There(u, to2, from, hands2)
    BY DEF Tokens
  <2>2. u.of \in ClientIds /\ u.of \in Ids /\ u.of # h
    BY <1>1, <2>1 DEF AllTokens, Ids
  <2>3. CASE u.kind = "called"
    BY <1>s, <2>1, <2>2, <2>3 DEF There, Tokens, Held
  <2>4. CASE u.kind = "sent"
    BY <1>s, <2>1, <2>4 DEF There, Tokens, Held
  <2>5. CASE u.kind = "held"
    <3>1. u.place \in Workers /\ Enveloped(u.of, u.n) = hands2[u.place]
      BY <2>1, <2>5 DEF There
    <3>2. u.place # w
      BY <3>1, Distinct
    <3>3. QED
      BY <1>s, <2>1, <2>5, <3>1, <3>2 DEF There, Tokens, Held
  <2>6. CASE u.kind = "replied"
    <3>1. u.place \in WorkerIds /\ u.place \in Ids
          /\ Enveloped(u.of, u.n) \in Load(to2[u.place])
      BY <2>1, <2>6 DEF There, Ids
    <3>2. CASE Enveloped(u.of, u.n) \in Load(to[u.place])
      BY <1>s, <2>1, <2>6, <3>1, <3>2 DEF There, Tokens, Held
    <3>3. CASE Enveloped(u.of, u.n) \notin Load(to[u.place])
      <4>1. u.place = h /\ Enveloped(u.of, u.n) = Enveloped(x, n)
        BY <3>1, <3>3
      <4>2. u.of = x /\ u.n = n
        BY <4>1, Distinct
      <4>3. QED
        BY <1>t, <2>1, <2>6, <4>1, <4>2 DEF AllTokens, Reply
    <3>4. QED
      BY <3>2, <3>3
  <2>7. CASE u.kind = "answered"
    BY <1>s, <2>1, <2>2, <2>7 DEF There, Tokens, Held
  <2>8. QED
    BY <2>1, <2>3, <2>4, <2>5, <2>6, <2>7 DEF There
<1>4. QED
  BY <1>s, <1>t, <1>2, <1>3 DEF Moved

\* A client sends request n on its socket x.
LEMMA CallAdds ==
    ASSUME NEW to, NEW from, NEW hands, NEW to2, NEW from2,
           NEW x \in ClientIds, NEW n \in Numbers,
           Load(to2[x]) \subseteq Load(to[x]) \union {Request(n)},
           \A id \in Ids : /\ id # x => Load(to2[id]) \subseteq Load(to[id])
                           /\ Load(from2[id]) \subseteq Load(from[id])
    PROVE  \A u \in Tokens(to2, from2, hands) :
               u = Called(x, n) \/ u \in Tokens(to, from, hands)
<1>t. PICK t : t = Called(x, n)
  OBVIOUS
<1>1. x \in Ids /\ x \notin WorkerIds
  BY Identities DEF Ids
<1>3. ASSUME NEW u \in Tokens(to2, from2, hands)
      PROVE  u = t \/ u \in Tokens(to, from, hands)
  <2>1. u \in AllTokens /\ There(u, to2, from2, hands)
    BY DEF Tokens
  <2>2. u.of \in ClientIds /\ u.of \in Ids
    BY <2>1 DEF AllTokens, Ids
  <2>3. CASE u.kind = "called"
    <3>1. u.place = u.of /\ Request(u.n) \in Load(to2[u.of])
      BY <2>1, <2>3 DEF There
    <3>2. CASE Request(u.n) \in Load(to[u.of])
      BY <2>1, <2>3, <3>1, <3>2 DEF There, Tokens
    <3>3. CASE Request(u.n) \notin Load(to[u.of])
      <4>1. u.of = x /\ Request(u.n) = Request(n)
        BY <2>2, <3>1, <3>3
      <4>2. u.n = n
        BY <4>1, Distinct
      <4>3. QED
        BY <1>t, <2>1, <2>3, <3>1, <4>1, <4>2 DEF AllTokens, Called
    <3>4. QED
      BY <3>2, <3>3
  <2>4. CASE u.kind = "sent"
    <3>1. u.place \in WorkerIds /\ u.place \in Ids
      BY <2>1, <2>4 DEF There, Ids
    <3>2. QED
      BY <2>1, <2>4, <3>1 DEF There, Tokens
  <2>5. CASE u.kind = "held"
    BY <2>1, <2>5 DEF There, Tokens
  <2>6. CASE u.kind = "replied"
    <3>1. u.place \in WorkerIds /\ u.place \in Ids /\ u.place # x
      BY <1>1, <2>1, <2>6 DEF There, Ids
    <3>2. QED
      BY <2>1, <2>6, <3>1 DEF There, Tokens
  <2>7. CASE u.kind = "answered"
    BY <2>1, <2>2, <2>7 DEF There, Tokens
  <2>8. QED
    BY <2>1, <2>3, <2>4, <2>5, <2>6, <2>7 DEF There
<1>4. QED
  BY <1>t, <1>3

\* WorkerBeats (ppworker.cpp): a heartbeat is no load.
LEMMA WorkerBeatsInv ==
    ASSUME IInv, NEW w \in Workers, WorkerBeats(w) PROVE IInv'
<1>1. Types /\ ClientStates /\ Hands /\ Flow(toQueue, fromQueue, queue)
  BY DEF IInv
<1>2. PICK id : id = Id(w)
  OBVIOUS
<1>3. /\ toQueue' = [toQueue EXCEPT ![id] = Append(@, Beat)]
      /\ UNCHANGED <<session, connected, fromQueue, wstate, request, queue, qstate>>
      /\ UNCHANGED <<cstate, sequence, executed, crashes>>
  BY <1>2 DEF WorkerBeats, Sends, Beat, queueVars, workerVars, clientVars
<1>4. Queues(toQueue, fromQueue) /\ id \in WorkerIds /\ id \in Ids
  BY <1>1, <1>2, OwnIdentity DEF Flow
<1>5. Queued(Append(toQueue[id], Beat), Offers)
      /\ Load(Append(toQueue[id], Beat)) = Load(toQueue[id])
  <2>1. PICK old : old = toQueue[id]
    OBVIOUS
  <2>2. Queued(old, Offers) /\ Beat \in Offers
    BY <1>4, <2>1 DEF Queues, Offers
  <2>3. /\ Queued(Append(old, Beat), Offers)
        /\ Load(Append(old, Beat)) = Load(old) \union ({Beat} \ {Beat})
    BY <2>2, AppendLoad
  <2>4. QED
    BY <2>1, <2>3
<1>6. toQueue'[id] = Append(toQueue[id], Beat)
      /\ (\A i \in Ids : i # id => toQueue'[i] = toQueue[i])
      /\ DOMAIN toQueue' = Ids /\ toQueue' = [i \in Ids |-> toQueue'[i]]
  BY <1>3, <1>4 DEF Queues
<1>7. Queues(toQueue', fromQueue)
  <2>1. \A i \in WorkerIds : Queued(toQueue'[i], Offers)
    BY <1>4, <1>5, <1>6 DEF Queues, Ids
  <2>2. \A x \in ClientIds : toQueue'[x] = toQueue[x]
    BY <1>4, <1>6, Identities DEF Ids
  <2>3. QED
    BY <1>4, <1>6, <2>1, <2>2 DEF Queues
<1>8. \A i \in Ids : Load(toQueue'[i]) \subseteq Load(toQueue[i])
                     /\ Load(fromQueue[i]) \subseteq Load(fromQueue[i])
  BY <1>5, <1>6
<1>9. Lists(queue)
  BY <1>1 DEF Flow
<1>10. Flow(toQueue', fromQueue, queue)
  BY <1>1, <1>7, <1>8, <1>9, FlowShrinks
<1>11. Flow(toQueue, fromQueue, queue)'
  BY <1>3, <1>10, SteadyFlow
<1>12. Types'
  BY <1>1, <1>3 DEF Types, Id
<1>13. ClientStates' /\ Hands'
  BY <1>1, <1>3 DEF ClientStates, Hands, Id
<1>14. QED
  BY <1>11, <1>12, <1>13 DEF IInv

\* WorkerTakes (ppworker.cpp): a heartbeat, or a request to work on.
LEMMA WorkerTakesInv ==
    ASSUME IInv, NEW w \in Workers, WorkerTakes(w) PROVE IInv'
<1>1. Types /\ ClientStates /\ Hands /\ Flow(toQueue, fromQueue, queue)
  BY DEF IInv
<1>2. PICK h : h = Id(w)
  OBVIOUS
<1>3. /\ wstate[w] = "polling" /\ fromQueue[h] # <<>>
      /\ fromQueue' = [fromQueue EXCEPT ![h] = Tail(@)]
      /\ UNCHANGED <<session, connected, toQueue, queue, qstate>>
      /\ UNCHANGED <<cstate, sequence, executed, crashes>>
  BY <1>2 DEF WorkerTakes, queueVars, clientVars
<1>4. /\ Queues(toQueue, fromQueue) /\ Lists(queue)
      /\ WorkersInv(toQueue, fromQueue, Members(queue))
      /\ Unique(Tokens(toQueue, fromQueue, request))
      /\ \A t \in Tokens(toQueue, fromQueue, request) : Legal(t)
  BY <1>1 DEF Flow
<1>5. h \in WorkerIds /\ h \in Ids /\ h.of = w
  BY <1>1, <1>2, OwnIdentity DEF Peers
<1>6. Queued(fromQueue[h], Tasks)
  BY <1>4, <1>5 DEF Queues
<1>7. PICK m, rest : m = Head(fromQueue[h]) /\ rest = Tail(fromQueue[h])
  OBVIOUS
<1>8. /\ m \in Tasks /\ Queued(rest, Tasks)
      /\ m = Beat => Load(rest) = Load(fromQueue[h])
      /\ m # Beat => Load(fromQueue[h]) = {m} /\ Load(rest) = {}
  BY <1>3, <1>6, <1>7, TailLoad
<1>9. fromQueue'[h] = rest
      /\ (\A i \in Ids : i # h => fromQueue'[i] = fromQueue[i])
      /\ DOMAIN fromQueue' = Ids /\ fromQueue' = [i \in Ids |-> fromQueue'[i]]
  BY <1>3, <1>4, <1>5, <1>7 DEF Queues
<1>10. \A i \in Ids : Load(fromQueue'[i]) \subseteq Load(fromQueue[i])
  BY <1>8, <1>9
<1>11. Queues(toQueue, fromQueue')
  <2>1. \A i \in WorkerIds : Queued(fromQueue'[i], Tasks)
    BY <1>4, <1>8, <1>9 DEF Queues, Ids
  <2>2. \A x \in ClientIds : fromQueue'[x] = fromQueue[x]
    BY <1>5, <1>9, Identities DEF Ids
  <2>3. QED
    BY <1>4, <1>9, <1>10, <2>1, <2>2 DEF Queues
<1>12. CASE m = Beat
  <2>1. recv(m) = Beat /\ Len(recv(m)) # 3
    BY <1>12, BeatReceived
  <2>2. UNCHANGED <<wstate, request>>
    BY <1>2, <1>7, <2>1 DEF WorkerTakes
  <2>3. Flow(toQueue, fromQueue', queue)
    BY <1>1, <1>4, <1>10, <1>11, FlowShrinks
  <2>4. Flow(toQueue, fromQueue, queue)'
    BY <1>3, <2>2, <2>3, SteadyFlow
  <2>5. Types'
    BY <1>1, <1>3, <2>2 DEF Types, Id
  <2>6. ClientStates' /\ Hands'
    BY <1>1, <1>3, <2>2 DEF ClientStates, Hands, Id
  <2>7. QED
    BY <2>4, <2>5, <2>6 DEF IInv
<1>13. ASSUME NEW x \in ClientIds, NEW n \in Numbers, m = Enveloped(x, n)
       PROVE  IInv'
  <2>1. recv(m) = m /\ Len(m) = 3 /\ m # Beat /\ m \in Requests /\ m # <<>>
    BY <1>13, WorkerHandles, Shapes, Distinct, MessageKinds
  <2>2. /\ request' = [request EXCEPT ![w] = m]
        /\ wstate' = [wstate EXCEPT ![w] = "working"]
    BY <1>2, <1>7, <2>1 DEF WorkerTakes
  <2>3. DOMAIN request = Workers
    BY <1>1 DEF Hands
  <2>4. request'[w] = m /\ (\A v \in Workers : v # w => request'[v] = request[v])
        /\ DOMAIN request' = Workers /\ request' = [v \in Workers |-> request'[v]]
        /\ wstate'[w] = "working" /\ (\A v \in Workers : v # w => wstate'[v] = wstate[v])
        /\ wstate' \in [Workers -> {"off", "polling", "working", "sleeping"}]
    BY <1>1, <2>2, <2>3 DEF Types, Hands
  <2>5. m \in Load(fromQueue[h]) /\ Load(fromQueue'[h]) = {}
    BY <1>8, <1>9, <2>1
  <2>6. /\ Sent(h, x, n) \in Tokens(toQueue, fromQueue, request)
        /\ Moved(Tokens(toQueue, fromQueue, request), Tokens(toQueue, fromQueue', request'),
                 Sent(h, x, n), Held(w, x, n))
    BY <1>5, <1>9, <1>13, <2>4, <2>5, TakeMoves
  <2>7. Unique(Tokens(toQueue, fromQueue', request'))
    <3>1. Held(w, x, n).of = Sent(h, x, n).of
      BY DEF Held, Sent
    <3>2. QED
      BY <1>4, <2>6, <3>1, MovedUnique
  <2>8. \A t \in Tokens(toQueue, fromQueue', request') : Legal(t)
    <3>1. Legal(Sent(h, x, n))
      BY <1>4, <2>6
    <3>2. Legal(Held(w, x, n))
      BY <3>1 DEF Legal, Sent, Held
    <3>3. QED
      BY <1>4, <2>6, <3>2 DEF Moved
  <2>9. WorkersInv(toQueue, fromQueue, Members(queue))'
    <3>1. ASSUME NEW id \in WorkerIds
          PROVE  /\ id \in Members(queue) => Load(toQueue[id]) = {}
                        /\ Load(fromQueue'[id]) = {} /\ ~Working(id)'
                 /\ Load(toQueue[id]) # {} => Load(fromQueue'[id]) = {} /\ ~Working(id)'
                 /\ Load(fromQueue'[id]) # {} => ~Working(id)'
                 /\ id.n > session[id.of] => id \notin Members(queue) /\ Load(toQueue[id]) = {}
      <4>1. id \in Ids /\ id.of \in Workers
        BY Identities DEF Ids
      <4>2. CASE id = h
        BY <1>4, <2>5, <4>1, <4>2 DEF WorkersInv
      <4>3. CASE id # h
        <5>1. Working(id)' => Working(id)
          BY <1>2, <1>3, <1>5, <2>4, <4>1, <4>3 DEF Working, Id
        <5>2. Load(fromQueue'[id]) = Load(fromQueue[id])
          BY <1>9, <4>1, <4>3
        <5>3. QED
          BY <1>4, <4>1, <5>1, <5>2 DEF WorkersInv
      <4>4. QED
        BY <4>2, <4>3
    <3>2. QED
      BY <1>3, <3>1 DEF WorkersInv, Members
  <2>10. Flow(toQueue, fromQueue, queue)'
    <3>1. Queues(toQueue, fromQueue)' /\ Lists(queue)'
      BY <1>3, <1>4, <1>11 DEF Queues, Lists
    <3>2. toQueue' = toQueue
      BY <1>3
    <3>3. \A t \in Tokens(toQueue', fromQueue', request') : Legal(t)'
      BY <1>3, <2>8, <3>2, LegalStays
    <3>4. QED
      BY <2>7, <2>9, <3>1, <3>2, <3>3, FlowNext
  <2>11. Types'
    BY <1>1, <1>3, <2>4 DEF Types, Id
  <2>12. ClientStates' /\ Hands'
    BY <1>1, <1>3, <2>1, <2>4 DEF ClientStates, Hands, Id
  <2>13. QED
    BY <2>10, <2>11, <2>12 DEF IInv
<1>14. CASE m \in Requests
  BY <1>13, <1>14, MessageKinds
<1>15. QED
  BY <1>8, <1>12, <1>14 DEF Tasks

\* WorkerReplies (ppworker.cpp): what it worked on is its reply.
LEMMA WorkerRepliesInv ==
    ASSUME IInv, NEW w \in Workers, WorkerReplies(w) PROVE IInv'
<1>1. Types /\ ClientStates /\ Hands /\ Flow(toQueue, fromQueue, queue)
  BY DEF IInv
<1>2. PICK h : h = Id(w)
  OBVIOUS
<1>3. /\ wstate[w] = "working"
      /\ toQueue' = [toQueue EXCEPT ![h] = Append(@, send(request[w]))]
      /\ executed' = executed \union {<<request[w][1].of, request[w][3].n>>}
      /\ request' = [request EXCEPT ![w] = <<>>]
      /\ wstate' = [wstate EXCEPT ![w] = "polling"]
      /\ UNCHANGED <<session, connected, fromQueue, queue, qstate>>
      /\ UNCHANGED <<cstate, sequence, crashes>>
  BY <1>2 DEF WorkerReplies, JobDone, Sends, clientVars
<1>4. /\ Queues(toQueue, fromQueue) /\ Lists(queue)
      /\ WorkersInv(toQueue, fromQueue, Members(queue))
      /\ Unique(Tokens(toQueue, fromQueue, request))
      /\ \A t \in Tokens(toQueue, fromQueue, request) : Legal(t)
  BY <1>1 DEF Flow
<1>5. h \in WorkerIds /\ h \in Ids /\ h.of = w
  BY <1>1, <1>2, OwnIdentity DEF Peers
<1>6. PICK x \in ClientIds, n \in Numbers : request[w] = Enveloped(x, n)
  BY <1>1, <1>3, MessageKinds DEF Hands
<1>7. PICK m : m = Enveloped(x, n)
  OBVIOUS
<1>8. /\ request[w] = m /\ send(m) = m /\ m # <<>> /\ m # Beat /\ m \in Offers
      /\ request[w][1].of = x.of /\ request[w][3].n = n
  BY <1>6, <1>7, WorkerHandles, Distinct, MessageKinds DEF Offers
<1>9. Working(h) /\ Load(toQueue[h]) = {} /\ Load(fromQueue[h]) = {}
      /\ h \notin Members(queue)
  <2>1. Working(h)
    BY <1>2, <1>5, <1>8 DEF Working
  <2>2. QED
    BY <1>4, <1>5, <2>1 DEF WorkersInv
<1>10. PICK new : new = Append(toQueue[h], m)
  OBVIOUS
<1>11. Queued(new, Offers) /\ Load(new) \subseteq {m}
  <2>1. Queued(toQueue[h], Offers)
    BY <1>4, <1>5 DEF Queues
  <2>2. QED
    BY <1>8, <1>9, <1>10, <2>1, AppendLoad
<1>12. toQueue'[h] = new
       /\ (\A i \in Ids : i # h => toQueue'[i] = toQueue[i])
       /\ DOMAIN toQueue' = Ids /\ toQueue' = [i \in Ids |-> toQueue'[i]]
  BY <1>3, <1>4, <1>5, <1>8, <1>10 DEF Queues
<1>13. Queues(toQueue', fromQueue)
  <2>1. \A i \in WorkerIds : Queued(toQueue'[i], Offers)
    BY <1>4, <1>11, <1>12 DEF Queues, Ids
  <2>2. \A i \in ClientIds : toQueue'[i] = toQueue[i]
    BY <1>5, <1>12, Identities DEF Ids
  <2>3. QED
    BY <1>4, <1>12, <2>1, <2>2 DEF Queues
<1>14. /\ request'[w] = <<>> /\ (\A v \in Workers : v # w => request'[v] = request[v])
       /\ DOMAIN request' = Workers /\ request' = [v \in Workers |-> request'[v]]
       /\ wstate'[w] = "polling" /\ (\A v \in Workers : v # w => wstate'[v] = wstate[v])
       /\ wstate' \in [Workers -> {"off", "polling", "working", "sleeping"}]
  BY <1>1, <1>3 DEF Types, Hands
<1>15. /\ Held(w, x, n) \in Tokens(toQueue, fromQueue, request)
       /\ Moved(Tokens(toQueue, fromQueue, request), Tokens(toQueue', fromQueue, request'),
                Held(w, x, n), Reply(h, x, n))
  <2>1. PICK hands, hands2 : hands = request /\ hands2 = request'
    OBVIOUS
  <2>2. PICK to, to2 : to = toQueue /\ to2 = toQueue'
    OBVIOUS
  <2>3. /\ hands[w] = Enveloped(x, n) /\ hands2[w] = <<>>
        /\ \A v \in Workers : v # w => hands2[v] = hands[v]
    BY <1>7, <1>8, <1>14, <2>1
  <2>4. /\ Load(to2[h]) \subseteq Load(to[h]) \union {Enveloped(x, n)}
        /\ \A i \in Ids : i # h => to2[i] = to[i]
    BY <1>7, <1>11, <1>12, <2>2
  <2>5. /\ Held(w, x, n) \in Tokens(to, fromQueue, hands)
        /\ Moved(Tokens(to, fromQueue, hands), Tokens(to2, fromQueue, hands2),
                 Held(w, x, n), Reply(h, x, n))
    BY <1>5, <2>3, <2>4, DoneMoves
  <2>6. QED
    BY <2>1, <2>2, <2>5
<1>16. Unique(Tokens(toQueue', fromQueue, request'))
  <2>1. Reply(h, x, n).of = Held(w, x, n).of
    BY DEF Held, Reply
  <2>2. QED
    BY <1>4, <1>15, <2>1, MovedUnique
<1>17. executed \subseteq executed' /\ <<x.of, n>> \in executed'
       /\ executed' \subseteq Clients \X Nat
  <2>1. x.of \in Clients /\ n \in Nat
    BY Identities, PirateAssumption DEF Numbers
  <2>2. QED
    BY <1>1, <1>3, <1>8, <2>1 DEF Types
<1>18. \A t \in Tokens(toQueue', fromQueue, request') : Legal(t)'
  <2>1. Legal(Held(w, x, n))
    BY <1>4, <1>15
  <2>2. Legal(Reply(h, x, n))'
    BY <1>3, <1>17, <2>1 DEF Legal, Held, Reply
  <2>3. \A t \in Tokens(toQueue, fromQueue, request) : Legal(t)'
    BY <1>3, <1>4, <1>17, LegalStays
  <2>4. QED
    BY <1>15, <2>2, <2>3 DEF Moved
<1>19. WorkersInv(toQueue, fromQueue, Members(queue))'
  <2>1. ASSUME NEW id \in WorkerIds
        PROVE  /\ id \in Members(queue) => Load(toQueue'[id]) = {}
                      /\ Load(fromQueue[id]) = {} /\ ~Working(id)'
               /\ Load(toQueue'[id]) # {} => Load(fromQueue[id]) = {} /\ ~Working(id)'
               /\ Load(fromQueue[id]) # {} => ~Working(id)'
               /\ id.n > session[id.of] => id \notin Members(queue) /\ Load(toQueue'[id]) = {}
    <3>1. id \in Ids /\ id.of \in Workers
      BY Identities DEF Ids
    <3>2. CASE id = h
      <4>1. ~Working(id)'
        BY <1>5, <1>14, <3>2 DEF Working
      <4>2. ~(id.n > session[id.of])
        <5>1. id.n = session[id.of] /\ session[id.of] \in Nat
          BY <1>1, <1>2, <1>5, <3>2, OwnIdentity DEF Peers, Types
        <5>2. QED
          BY <5>1
      <4>3. QED
        BY <1>9, <3>2, <4>1, <4>2
    <3>3. CASE id # h
      <4>1. Working(id)' => Working(id)
        BY <1>3, <1>14, <3>1 DEF Working, Id
      <4>2. toQueue'[id] = toQueue[id]
        BY <1>12, <3>1, <3>3
      <4>3. QED
        BY <1>4, <3>1, <4>1, <4>2 DEF WorkersInv
    <3>4. QED
      BY <3>2, <3>3
  <2>2. QED
    BY <1>3, <2>1 DEF WorkersInv, Members
<1>20. Flow(toQueue, fromQueue, queue)'
  <2>1. Queues(toQueue, fromQueue)' /\ Lists(queue)'
    BY <1>3, <1>4, <1>13 DEF Queues, Lists
  <2>2. fromQueue' = fromQueue
    BY <1>3
  <2>3. QED
    BY <1>16, <1>18, <1>19, <2>1, <2>2, FlowNext
<1>21. Types'
  BY <1>1, <1>3, <1>14, <1>17 DEF Types, Id
<1>22. ClientStates' /\ Hands'
  BY <1>1, <1>3, <1>14 DEF ClientStates, Hands, Id
<1>23. QED
  BY <1>20, <1>21, <1>22 DEF IInv

-----------------------------------------------------------------------------
(* Sockets that are closed and opened.                                     *)

\* What is left of the messages of a socket that is closed.
LEMMA KeptLoad ==
    ASSUME Types, NEW p \in Peers, NEW S, Queued(toQueue[Id(p)], S),
           NEW kept \in Received(p)
    PROVE  /\ Queued(SubSeq(toQueue[Id(p)], 1, kept), S)
           /\ Load(SubSeq(toQueue[Id(p)], 1, kept)) \subseteq Load(toQueue[Id(p)])
<1>1. Len(toQueue[Id(p)]) \in Nat
  BY LenProperties DEF Queued
<1>2. kept \in Nat /\ kept <= Len(toQueue[Id(p)])
  BY <1>1 DEF Received
<1>3. 1 \in Nat \ {0}
  OBVIOUS
<1>4. QED
  BY <1>2, <1>3, CutLoad

\* The frames for and from each kind of peer.
Takes(id) == IF id \in WorkerIds THEN Tasks ELSE Calls
Gives(id) == IF id \in WorkerIds THEN Offers ELSE Calls

\* The queues one by one.
LEMMA EachQueued ==
    ASSUME NEW to, NEW from
    PROVE  Queues(to, from) <=>
               /\ DOMAIN to = Ids /\ to = [id \in Ids |-> to[id]]
               /\ DOMAIN from = Ids /\ from = [id \in Ids |-> from[id]]
               /\ \A id \in Ids : /\ Queued(to[id], Gives(id))
                                  /\ Queued(from[id], Takes(id))
                                  /\ Load(from[id]) # {} => id \in connected
<1>1. \A id \in Ids : id \in WorkerIds \/ id \in ClientIds
  BY DEF Ids
<1>2. \A id \in WorkerIds : id \in Ids /\ Gives(id) = Offers /\ Takes(id) = Tasks
  BY DEF Ids, Gives, Takes
<1>3. \A id \in ClientIds : id \in Ids /\ Gives(id) = Calls /\ Takes(id) = Calls
  BY Identities DEF Ids, Gives, Takes
<1>4. QED
  BY <1>1, <1>2, <1>3 DEF Queues

\* A new socket has an empty queue.
LEMMA NoFrames == \A S : Queued(<<>>, S)
  BY NewLoad DEF Queued

\* A peer closes its socket.
LEMMA ClosesQueues ==
    ASSUME Types, Queues(toQueue, fromQueue), NEW p \in Peers, Closes(p)
    PROVE  /\ Queues(toQueue, fromQueue)'
           /\ \A id \in Ids : /\ Load(toQueue'[id]) \subseteq Load(toQueue[id])
                              /\ Load(fromQueue'[id]) \subseteq Load(fromQueue[id])
           /\ Load(fromQueue'[Id(p)]) = {}
<1>1. PICK id : id = Id(p)
  OBVIOUS
<1>2. id \in Ids
  BY <1>1, OwnIdentity
<1>k. PICK kept \in Received(p) :
          toQueue' = [toQueue EXCEPT ![id] = SubSeq(toQueue[id], 1, kept)]
  BY <1>1 DEF Closes
<1>3. PICK part : part = SubSeq(toQueue[id], 1, kept)
  OBVIOUS
<1>4. fromQueue' = [fromQueue EXCEPT ![id] = <<>>] /\ connected' = connected \ {id}
  BY <1>1 DEF Closes
<1>5. /\ DOMAIN toQueue = Ids /\ toQueue = [i \in Ids |-> toQueue[i]]
      /\ DOMAIN fromQueue = Ids /\ fromQueue = [i \in Ids |-> fromQueue[i]]
      /\ \A i \in Ids : /\ Queued(toQueue[i], Gives(i))
                        /\ Queued(fromQueue[i], Takes(i))
                        /\ Load(fromQueue[i]) # {} => i \in connected
  BY EachQueued
<1>6. Queued(part, Gives(id)) /\ Load(part) \subseteq Load(toQueue[id])
  BY <1>1, <1>2, <1>3, <1>5, KeptLoad
<1>7. /\ DOMAIN toQueue' = Ids /\ toQueue' = [i \in Ids |-> toQueue'[i]]
      /\ toQueue'[id] = part /\ \A i \in Ids : i # id => toQueue'[i] = toQueue[i]
  BY <1>2, <1>k, <1>3, <1>5
<1>8. /\ DOMAIN fromQueue' = Ids /\ fromQueue' = [i \in Ids |-> fromQueue'[i]]
      /\ fromQueue'[id] = <<>> /\ \A i \in Ids : i # id => fromQueue'[i] = fromQueue[i]
  BY <1>2, <1>4, <1>5
<1>9. \A i \in Ids : /\ Load(toQueue'[i]) \subseteq Load(toQueue[i])
                     /\ Load(fromQueue'[i]) \subseteq Load(fromQueue[i])
  BY <1>6, <1>7, <1>8, NewLoad
<1>10. \A i \in Ids : /\ Queued(toQueue'[i], Gives(i))
                      /\ Queued(fromQueue'[i], Takes(i))
  BY <1>5, <1>6, <1>7, <1>8, NoFrames
<1>11. \A i \in Ids : Load(fromQueue'[i]) # {} => i \in connected'
  <2>1. ASSUME NEW i \in Ids, Load(fromQueue'[i]) # {} PROVE i \in connected'
    <3>1. i # id
      BY <1>8, <2>1, NewLoad
    <3>2. QED
      BY <1>4, <1>5, <1>8, <2>1, <3>1
  <2>2. QED
    BY <2>1
<1>12. Queues(toQueue, fromQueue)'
  <2>1. /\ \A i \in WorkerIds : Queued(toQueue'[i], Offers) /\ Queued(fromQueue'[i], Tasks)
        /\ \A i \in ClientIds : Queued(toQueue'[i], Calls) /\ Queued(fromQueue'[i], Calls)
    BY <1>10, Identities DEF Ids, Gives, Takes
  <2>2. QED
    BY <1>7, <1>8, <1>11, <2>1 DEF Queues
<1>13. QED
  BY <1>1, <1>8, <1>9, <1>12, NewLoad

\* A peer opens the next one, and sends.
LEMMA NextIdentity ==
    ASSUME Types, NEW p \in Peers, session[p] < MaxSockets(p),
           NEW new, new = Identity(p, session[p] + 1)
    PROVE  /\ new \in Ids /\ new # Id(p) /\ new \notin connected
           /\ new.of = p /\ new.n = session[p] + 1
           /\ p \in Workers => new \in WorkerIds
           /\ p \in Clients => new \in ClientIds
<1>1. session[p] \in Nat /\ session[p] + 1 # session[p]
      /\ session[p] + 1 \in Nat /\ session[p] + 1 <= MaxSockets(p)
  BY PirateAssumption DEF Types, MaxSockets
<1>2. Id(p).of = p /\ Id(p).n = session[p] /\ new.of = p /\ new.n = session[p] + 1
  BY OwnIdentity, Identities
<1>3. \A q \in Peers : Id(q).of = q
  BY OwnIdentity
<1>4. new # Id(p) /\ new \notin connected
  BY <1>1, <1>2, <1>3 DEF Types
<1>5. CASE p \in Workers
  <2>1. session[p] + 1 \in 0 .. MaxWorkerSockets
    BY <1>1, <1>5, PirateAssumption DEF MaxSockets
  <2>2. new \in WorkerIds /\ p \notin Clients
    BY <1>5, <2>1, Identities, PirateAssumption
  <2>3. QED
    BY <1>2, <1>4, <2>2 DEF Ids
<1>6. CASE p \in Clients
  <2>1. session[p] + 1 \in 0 .. MaxClientSockets + MaxCrashes /\ p \notin Workers
    BY <1>1, <1>6, PirateAssumption DEF MaxSockets
  <2>2. new \in ClientIds
    BY <1>6, <2>1, Identities
  <2>3. QED
    BY <1>2, <1>4, <2>1, <2>2 DEF Ids
<1>7. QED
  BY <1>5, <1>6 DEF Peers

\* A peer opens another socket, with its first message on it.
LEMMA ReconnectsQueues ==
    ASSUME Types, Queues(toQueue, fromQueue), NEW p \in Peers, NEW first,
           Reconnects(p, first), NEW new, new = Identity(p, session[p] + 1),
           first \in Gives(new), first # Beat
    PROVE  /\ Queues(toQueue, fromQueue)'
           /\ Load(toQueue'[new]) = {first} /\ Load(fromQueue'[new]) = {}
           /\ Load(fromQueue[new]) = {}
           /\ \A id \in Ids :
                  /\ id # new => Load(toQueue'[id]) \subseteq Load(toQueue[id])
                  /\ Load(fromQueue'[id]) \subseteq Load(fromQueue[id])
           /\ Load(fromQueue'[Id(p)]) = {}
<1>1. PICK id : id = Id(p)
  OBVIOUS
<1>2. id \in Ids /\ new \in Ids /\ new # id /\ new \notin connected
  BY <1>1, OwnIdentity, NextIdentity DEF Reconnects
<1>k. PICK kept \in Received(p) :
          toQueue' = [toQueue EXCEPT ![id] = SubSeq(@, 1, kept),
                                     ![new] = <<first>>]
  BY <1>1 DEF Reconnects
<1>3. PICK part, call : part = SubSeq(toQueue[id], 1, kept) /\ call = <<first>>
  OBVIOUS
<1>4. fromQueue' = [fromQueue EXCEPT ![id] = <<>>]
      /\ connected' = (connected \ {id}) \union {new}
  BY <1>1 DEF Reconnects
<1>5. /\ DOMAIN toQueue = Ids /\ toQueue = [i \in Ids |-> toQueue[i]]
      /\ DOMAIN fromQueue = Ids /\ fromQueue = [i \in Ids |-> fromQueue[i]]
      /\ \A i \in Ids : /\ Queued(toQueue[i], Gives(i))
                        /\ Queued(fromQueue[i], Takes(i))
                        /\ Load(fromQueue[i]) # {} => i \in connected
  BY EachQueued
<1>6. Queued(part, Gives(id)) /\ Load(part) \subseteq Load(toQueue[id])
  BY <1>1, <1>2, <1>3, <1>5, KeptLoad
<1>c. Queued(call, Gives(new)) /\ Load(call) = {first}
  <2>1. call \in Seq(Gives(new))
    BY <1>3
  <2>2. Load(call) = {first} /\ Single(call)
    BY <1>3, NewLoad
  <2>3. QED
    BY <2>1, <2>2 DEF Queued
<1>7. /\ DOMAIN toQueue' = Ids /\ toQueue' = [i \in Ids |-> toQueue'[i]]
      /\ toQueue'[id] = part /\ toQueue'[new] = call
      /\ \A i \in Ids : i # id /\ i # new => toQueue'[i] = toQueue[i]
  <2>1. PICK mid : mid = [toQueue EXCEPT ![id] = part]
    OBVIOUS
  <2>2. toQueue' = [mid EXCEPT ![new] = call]
    <3>1. [toQueue EXCEPT ![id] = SubSeq(@, 1, kept)] = mid
      BY <1>3, <2>1
    <3>2. toQueue' = [[toQueue EXCEPT ![id] = SubSeq(@, 1, kept)] EXCEPT ![new] = <<first>>]
      BY <1>k
    <3>3. QED
      BY <1>3, <3>1, <3>2
  <2>3. QED
    BY <1>2, <1>5, <2>1, <2>2
<1>8. /\ DOMAIN fromQueue' = Ids /\ fromQueue' = [i \in Ids |-> fromQueue'[i]]
      /\ fromQueue'[id] = <<>> /\ \A i \in Ids : i # id => fromQueue'[i] = fromQueue[i]
  BY <1>2, <1>4, <1>5
<1>9. \A i \in Ids : /\ i # new => Load(toQueue'[i]) \subseteq Load(toQueue[i])
                     /\ Load(fromQueue'[i]) \subseteq Load(fromQueue[i])
  BY <1>6, <1>7, <1>8, NewLoad
<1>10. \A i \in Ids : /\ Queued(toQueue'[i], Gives(i))
                      /\ Queued(fromQueue'[i], Takes(i))
  BY <1>5, <1>6, <1>7, <1>8, <1>c, NoFrames
<1>11. \A i \in Ids : Load(fromQueue'[i]) # {} => i \in connected'
  <2>1. ASSUME NEW i \in Ids, Load(fromQueue'[i]) # {} PROVE i \in connected'
    <3>1. i # id
      BY <1>8, <2>1, NewLoad
    <3>2. QED
      BY <1>4, <1>5, <1>8, <2>1, <3>1
  <2>2. QED
    BY <2>1
<1>12. Queues(toQueue, fromQueue)'
  <2>1. /\ \A i \in WorkerIds : Queued(toQueue'[i], Offers) /\ Queued(fromQueue'[i], Tasks)
        /\ \A i \in ClientIds : Queued(toQueue'[i], Calls) /\ Queued(fromQueue'[i], Calls)
    BY <1>10, Identities DEF Ids, Gives, Takes
  <2>2. QED
    BY <1>7, <1>8, <1>11, <2>1 DEF Queues
<1>13. Load(fromQueue[new]) = {} /\ Load(fromQueue'[new]) = {}
  BY <1>2, <1>5, <1>8
<1>14. QED
  BY <1>1, <1>7, <1>8, <1>9, <1>c, <1>12, <1>13, NewLoad

\* The session of the peer grows by one, within its bound.
LEMMA ReconnectsTypes ==
    ASSUME Types, NEW p \in Peers, NEW first, Reconnects(p, first)
    PROVE  /\ session' \in [Peers -> Nat] /\ session'[p] = session[p] + 1
           /\ \A q \in Peers : q # p => session'[q] = session[q]
           /\ \A w \in Workers : session'[w] <= MaxWorkerSockets
           /\ \A c \in Clients : session'[c] \in 1 .. MaxClientSockets + crashes
           /\ connected' \subseteq {Identity(q, session'[q]) : q \in Peers}
<1>1. /\ session' = [session EXCEPT ![p] = session[p] + 1]
      /\ session[p] < MaxSockets(p)
      /\ connected' = (connected \ {Id(p)}) \union {Identity(p, session[p] + 1)}
  BY DEF Reconnects
<1>2. /\ session' \in [Peers -> Nat] /\ session'[p] = session[p] + 1
      /\ \A q \in Peers : q # p => session'[q] = session[q]
  BY <1>1 DEF Types
<1>3. \A w \in Workers : session'[w] <= MaxWorkerSockets
  BY <1>1, <1>2, PirateAssumption DEF Types, MaxSockets, Peers
<1>4. ASSUME NEW c \in Clients PROVE session'[c] \in 1 .. MaxClientSockets + crashes
  <2>1. c \in Peers /\ c \notin Workers /\ session[c] \in 1 .. MaxClientSockets + crashes
        /\ crashes \in Nat
    BY PirateAssumption DEF Types, Peers
  <2>2. CASE c = p
    BY <1>1, <1>2, <2>1, <2>2, PirateAssumption DEF MaxSockets
  <2>3. CASE c # p
    BY <1>2, <2>1, <2>3
  <2>4. QED
    BY <2>2, <2>3
<1>5. connected' \subseteq {Identity(q, session'[q]) : q \in Peers}
  <2>1. ASSUME NEW id \in connected'
        PROVE  \E q \in Peers : id = Identity(q, session'[q])
    <3>1. CASE id = Identity(p, session[p] + 1)
      BY <1>2, <3>1
    <3>2. CASE id \in connected /\ id # Id(p)
      <4>1. PICK q \in Peers : id = Id(q)
        BY <3>2 DEF Types
      <4>2. q # p /\ session'[q] = session[q]
        BY <1>2, <3>2, <4>1
      <4>3. QED
        BY <4>1, <4>2 DEF Id
    <3>3. QED
      BY <1>1, <3>1, <3>2
  <2>2. QED
    BY <2>1
<1>6. QED
  BY <1>2, <1>3, <1>4, <1>5

\* A token is of a client, and stays legal while that client does nothing.
LEMMA LegalOf ==
    ASSUME NEW t, NEW c, c = t.of.of, Legal(t), executed \subseteq executed',
           session'[c] = session[c], sequence'[c] = sequence[c],
           cstate'[c] = cstate[c]
    PROVE  Legal(t)'
  BY DEF Legal

\* A token names the socket of a client and the number of a call.
LEMMA TokenOf ==
    ASSUME NEW to, NEW from, NEW hands, NEW t \in Tokens(to, from, hands)
    PROVE  /\ t.of \in ClientIds /\ t.of.of \in Clients /\ t.of.of \notin Workers
           /\ t.of = Identity(t.of.of, t.of.n) /\ t.of \in Ids /\ t.n \in Numbers
<1>1. t.of \in ClientIds /\ t.n \in Numbers
  BY DEF Tokens, AllTokens
<1>2. QED
  BY <1>1, Identities, PirateAssumption DEF Ids

\* A worker is killed.
LEMMA WorkerDiesInv ==
    ASSUME IInv, NEW w \in Workers, WorkerDies(w) PROVE IInv'
<1>1. Types /\ ClientStates /\ Hands /\ Flow(toQueue, fromQueue, queue)
  BY DEF IInv
<1>2. PICK h : h = Id(w)
  OBVIOUS
<1>3. /\ Closes(w) /\ crashes < MaxCrashes /\ crashes' = crashes + 1
      /\ wstate' = [wstate EXCEPT ![w] = "off"]
      /\ request' = [request EXCEPT ![w] = <<>>]
      /\ connected' = connected \ {h}
      /\ UNCHANGED <<session, queue, qstate, cstate, sequence, executed>>
  BY <1>2 DEF WorkerDies, JobDies, Closes, clientVars
<1>4. /\ Queues(toQueue, fromQueue) /\ Lists(queue)
      /\ WorkersInv(toQueue, fromQueue, Members(queue))
      /\ Unique(Tokens(toQueue, fromQueue, request))
      /\ \A t \in Tokens(toQueue, fromQueue, request) : Legal(t)
  BY <1>1 DEF Flow
<1>5. h \in WorkerIds /\ h \in Ids /\ h.of = w /\ w \in Peers
  BY <1>1, <1>2, OwnIdentity DEF Peers
<1>6. /\ Queues(toQueue, fromQueue)'
      /\ \A id \in Ids : /\ Load(toQueue'[id]) \subseteq Load(toQueue[id])
                         /\ Load(fromQueue'[id]) \subseteq Load(fromQueue[id])
  BY <1>1, <1>3, <1>4, <1>5, ClosesQueues
<1>7. /\ request'[w] = <<>> /\ (\A v \in Workers : v # w => request'[v] = request[v])
      /\ DOMAIN request' = Workers /\ request' = [v \in Workers |-> request'[v]]
      /\ wstate'[w] = "off" /\ (\A v \in Workers : v # w => wstate'[v] = wstate[v])
      /\ wstate' \in [Workers -> {"off", "polling", "working", "sleeping"}]
  BY <1>1, <1>3 DEF Types, Hands
<1>8. Tokens(toQueue', fromQueue', request') \subseteq Tokens(toQueue, fromQueue, request)
  <2>1. \A v \in Workers : request'[v] \in {request[v], <<>>}
    BY <1>7
  <2>2. QED
    BY <1>6, <2>1, FewerTokens
<1>9. Unique(Tokens(toQueue', fromQueue', request'))
      /\ \A t \in Tokens(toQueue', fromQueue', request') : Legal(t)'
  <2>1. Unique(Tokens(toQueue', fromQueue', request'))
    BY <1>4, <1>8 DEF Unique
  <2>2. \A t \in Tokens(toQueue, fromQueue, request) : Legal(t)'
    BY <1>3, <1>4, LegalStays
  <2>3. QED
    BY <1>8, <2>1, <2>2
<1>10. WorkersInv(toQueue, fromQueue, Members(queue))'
  <2>1. ASSUME NEW id \in WorkerIds
        PROVE  /\ Load(toQueue'[id]) \subseteq Load(toQueue[id])
               /\ Load(fromQueue'[id]) \subseteq Load(fromQueue[id])
               /\ Working(id)' => Working(id)
    <3>1. id \in Ids /\ id.of \in Workers
      BY Identities DEF Ids
    <3>2. Working(id)' => Working(id)
      BY <1>3, <1>7, <3>1 DEF Working, Id
    <3>3. QED
      BY <1>6, <3>1, <3>2
  <2>2. Members(queue)' = Members(queue)
    BY <1>3 DEF Members
  <2>3. \A id \in WorkerIds :
            /\ id \in Members(queue) => Load(toQueue'[id]) = {}
                      /\ Load(fromQueue'[id]) = {} /\ ~Working(id)'
            /\ Load(toQueue'[id]) # {} => Load(fromQueue'[id]) = {} /\ ~Working(id)'
            /\ Load(fromQueue'[id]) # {} => ~Working(id)'
            /\ id.n > session[id.of] => id \notin Members(queue) /\ Load(toQueue'[id]) = {}
    BY <1>4, <2>1 DEF WorkersInv
  <2>4. QED
    BY <1>3, <2>2, <2>3 DEF WorkersInv
<1>11. Flow(toQueue, fromQueue, queue)'
  <2>1. Lists(queue)'
    BY <1>3, <1>4 DEF Lists
  <2>2. QED
    BY <1>6, <1>9, <1>10, <2>1, FlowNext
<1>12. Types'
  <2>1. crashes' \in 0 .. MaxCrashes /\ crashes \in Nat
    BY <1>1, <1>3, PirateAssumption DEF Types
  <2>2. \A c \in Clients : session'[c] \in 1 .. MaxClientSockets + crashes'
    BY <1>1, <1>3, <2>1, PirateAssumption DEF Types
  <2>3. QED
    BY <1>1, <1>3, <1>7, <2>1, <2>2 DEF Types, Id
<1>13. ClientStates' /\ Hands'
  BY <1>1, <1>3, <1>7 DEF ClientStates, Hands, Id
<1>14. QED
  BY <1>11, <1>12, <1>13 DEF IInv

\* s_worker_socket (ppworker.cpp): a new socket says READY.
LEMMA WorkerConnectsInv ==
    ASSUME IInv, NEW w \in Workers, wstate[w] \in {"off", "sleeping"},
           Reconnects(w, Word("READY")), wstate' = [wstate EXCEPT ![w] = "polling"],
           UNCHANGED <<qstate, queue, request, cstate, sequence, executed, crashes>>
    PROVE  IInv'
<1>1. Types /\ ClientStates /\ Hands /\ Flow(toQueue, fromQueue, queue)
  BY DEF IInv
<1>2. PICK h, new : h = Id(w) /\ new = Identity(w, session[w] + 1)
  OBVIOUS
<1>3. w \in Peers /\ Reconnects(w, Greeting) /\ session[w] < MaxSockets(w)
      /\ connected' = (connected \ {h}) \union {new}
  BY <1>2 DEF Peers, Greeting, Reconnects
<1>4. /\ Queues(toQueue, fromQueue) /\ Lists(queue)
      /\ WorkersInv(toQueue, fromQueue, Members(queue))
      /\ Unique(Tokens(toQueue, fromQueue, request))
      /\ \A t \in Tokens(toQueue, fromQueue, request) : Legal(t)
  BY <1>1 DEF Flow
<1>5. h \in WorkerIds /\ h.of = w /\ h.n = session[w] /\ session[w] \in Nat
  BY <1>1, <1>2, <1>3, OwnIdentity DEF Types
<1>6. /\ new \in Ids /\ new # h /\ new.of = w /\ new.n = session[w] + 1
      /\ new \in WorkerIds
  BY <1>1, <1>2, <1>3, NextIdentity
<1>7. Greeting \in Gives(new) /\ Greeting # Beat
  BY <1>6, Distinct DEF Gives, Offers
<1>8. /\ Queues(toQueue, fromQueue)'
      /\ Load(toQueue'[new]) = {Greeting} /\ Load(fromQueue'[new]) = {}
      /\ \A id \in Ids :
             /\ id # new => Load(toQueue'[id]) \subseteq Load(toQueue[id])
             /\ Load(fromQueue'[id]) \subseteq Load(fromQueue[id])
      /\ Load(fromQueue'[h]) = {}
  BY <1>1, <1>2, <1>3, <1>4, <1>7, ReconnectsQueues
<1>9. /\ session' \in [Peers -> Nat] /\ session'[w] = session[w] + 1
      /\ \A q \in Peers : q # w => session'[q] = session[q]
      /\ \A v \in Workers : session'[v] <= MaxWorkerSockets
      /\ \A c \in Clients : session'[c] \in 1 .. MaxClientSockets + crashes
      /\ connected' \subseteq {Identity(q, session'[q]) : q \in Peers}
  BY <1>1, <1>3, ReconnectsTypes
<1>10. request[w] = <<>>
  BY <1>1 DEF Hands
<1>11. ASSUME NEW t \in Tokens(toQueue', fromQueue', request')
       PROVE  t \in Tokens(toQueue, fromQueue, request)
  <2>1. t \in AllTokens /\ There(t, toQueue', fromQueue', request)
    BY DEF Tokens
  <2>2. t.of \in Ids /\ t.of # new /\ (t.place \in WorkerIds => t.place \in Ids)
    BY <1>6, <2>1, TokenOf DEF Ids
  <2>3. Enveloped(t.of, t.n) # Greeting
    BY Distinct
  <2>4. /\ Load(toQueue'[t.of]) \subseteq Load(toQueue[t.of])
        /\ Load(fromQueue'[t.of]) \subseteq Load(fromQueue[t.of])
        /\ t.place \in WorkerIds =>
               /\ Enveloped(t.of, t.n) \in Load(toQueue'[t.place])
                      => Enveloped(t.of, t.n) \in Load(toQueue[t.place])
               /\ Load(fromQueue'[t.place]) \subseteq Load(fromQueue[t.place])
    BY <1>8, <2>2, <2>3
  <2>5. There(t, toQueue, fromQueue, request)
    BY <2>1, <2>4, Zenon DEF There
  <2>6. QED
    BY <2>1, <2>5 DEF Tokens
<1>12. Unique(Tokens(toQueue', fromQueue', request'))
  BY <1>4, <1>11 DEF Unique
<1>13. \A t \in Tokens(toQueue', fromQueue', request') : Legal(t)'
  <2>1. ASSUME NEW t \in Tokens(toQueue', fromQueue', request') PROVE Legal(t)'
    <3>1. Legal(t)
      BY <1>4, <1>11
    <3>2. t.of.of \in Peers /\ t.of.of # w
      BY TokenOf DEF Peers
    <3>3. session'[t.of.of] = session[t.of.of]
      BY <1>9, <3>2
    <3>4. QED
      BY <3>1, <3>3, LegalOf
  <2>2. QED
    BY <2>1
<1>14. WorkersInv(toQueue, fromQueue, Members(queue))'
  <2>1. ASSUME NEW id \in WorkerIds
        PROVE  /\ id \in Members(queue) => Load(toQueue'[id]) = {}
                      /\ Load(fromQueue'[id]) = {} /\ ~Working(id)'
               /\ Load(toQueue'[id]) # {} => Load(fromQueue'[id]) = {} /\ ~Working(id)'
               /\ Load(fromQueue'[id]) # {} => ~Working(id)'
               /\ id.n > session'[id.of] => id \notin Members(queue) /\ Load(toQueue'[id]) = {}
    <3>1. id \in Ids /\ id.of \in Workers /\ id.of \in Peers /\ id.n \in Nat
      BY Identities DEF Ids, Peers
    <3>2. CASE id = new
      <4>1. ~Working(id)'
        BY <1>6, <1>10, <3>2 DEF Working
      <4>2. new.n > session[w] /\ ~(new.n > session'[w])
        BY <1>5, <1>6, <1>9
      <4>3. new \notin Members(queue)
        BY <1>4, <1>6, <4>2 DEF WorkersInv
      <4>4. QED
        BY <1>6, <1>8, <3>2, <4>1, <4>2, <4>3
    <3>3. CASE id # new
      <4>1. Working(id)' => Working(id)
        <5>1. CASE id.of = w
          BY <1>10, <5>1 DEF Working
        <5>2. CASE id.of # w
          BY <1>9, <3>1, <5>2 DEF Working, Id
        <5>3. QED
          BY <5>1, <5>2
      <4>2. Load(toQueue'[id]) \subseteq Load(toQueue[id])
            /\ Load(fromQueue'[id]) \subseteq Load(fromQueue[id])
        BY <1>8, <3>1, <3>3
      <4>3. id.n > session'[id.of] => id.n > session[id.of]
        <5>1. session[id.of] \in Nat
              /\ session'[id.of] \in {session[id.of], session[id.of] + 1}
          BY <1>1, <1>9, <3>1 DEF Types
        <5>2. QED
          BY <3>1, <5>1
      <4>4. QED
        BY <1>4, <4>1, <4>2, <4>3 DEF WorkersInv
    <3>4. QED
      BY <3>2, <3>3
  <2>2. QED
    BY <2>1 DEF WorkersInv, Members
<1>15. Flow(toQueue, fromQueue, queue)'
  <2>1. Lists(queue)'
    BY <1>4 DEF Lists
  <2>2. QED
    BY <1>8, <1>12, <1>13, <1>14, <2>1, FlowNext
<1>16. Types'
  BY <1>1, <1>9 DEF Types, Id
<1>17. ClientStates'
  <2>1. ASSUME NEW c \in Clients, cstate[c] = "abandoned" PROVE Id(c)' \notin connected'
    <3>1. c \in Peers /\ c # w /\ Id(c).of = c
      BY <1>1, OwnIdentity, PirateAssumption DEF Peers
    <3>2. Id(c)' = Id(c)
      BY <1>9, <3>1 DEF Id
    <3>3. Id(c) \notin connected /\ Id(c) # new
      BY <1>1, <1>6, <2>1, <3>1 DEF ClientStates
    <3>4. QED
      BY <1>3, <3>2, <3>3
  <2>2. QED
    BY <1>1, <2>1 DEF ClientStates
<1>18. Hands'
  BY <1>1 DEF Hands, Types
<1>19. QED
  BY <1>15, <1>16, <1>17, <1>18 DEF IInv

\* A worker is started.
LEMMA WorkerStartsInv ==
    ASSUME IInv, NEW w \in Workers, WorkerStarts(w) PROVE IInv'
  BY WorkerConnectsInv DEF WorkerStarts, queueVars, clientVars

\* A worker that has slept connects again.
LEMMA WorkerReconnectsInv ==
    ASSUME IInv, NEW w \in Workers, WorkerReconnects(w) PROVE IInv'
  BY WorkerConnectsInv DEF WorkerReconnects, queueVars, clientVars

\* What a client has on its way is a token.
LEMMA ClientLoads ==
    ASSUME Queues(toQueue, fromQueue), NEW x \in ClientIds, NEW m
    PROVE  /\ m \in Load(toQueue[x]) =>
                  \E n \in Numbers : m = Request(n)
                      /\ Called(x, n) \in Tokens(toQueue, fromQueue, request)
           /\ m \in Load(fromQueue[x]) =>
                  \E n \in Numbers : m = Request(n)
                      /\ Answer(x, n) \in Tokens(toQueue, fromQueue, request)
<1>1. \A S, q : Queued(q, S) => Load(q) \subseteq S
  <2>1. ASSUME NEW S, NEW q, Queued(q, S) PROVE Load(q) \subseteq S
    BY <2>1, LenProperties, ElementOfSeq DEF Queued, Load, Members
  <2>2. QED
    BY <2>1
<1>2. Load(toQueue[x]) \subseteq Calls /\ Load(fromQueue[x]) \subseteq Calls
  BY <1>1 DEF Queues
<1>3. x \in Ids
  BY DEF Ids
<1>4. ASSUME NEW n \in Numbers, Request(n) \in Load(toQueue[x])
      PROVE  Called(x, n) \in Tokens(toQueue, fromQueue, request)
  BY <1>3, <1>4 DEF Tokens, AllTokens, There, Called
<1>5. ASSUME NEW n \in Numbers, Request(n) \in Load(fromQueue[x])
      PROVE  Answer(x, n) \in Tokens(toQueue, fromQueue, request)
  BY <1>3, <1>5 DEF Tokens, AllTokens, There, Answer
<1>6. QED
  BY <1>2, <1>4, <1>5, MessageKinds

\* The next request of lpclient: nothing of the earlier ones is left.
LEMMA ClientCallsInv ==
    ASSUME IInv, NEW c \in Clients, ClientCalls(c), UNCHANGED workerAndQueue
    PROVE  IInv'
<1>1. Types /\ ClientStates /\ Hands /\ Flow(toQueue, fromQueue, queue)
  BY DEF IInv
<1>2. PICK x, n : x = Id(c) /\ n = sequence[c] + 1
  OBVIOUS
<1>3. /\ cstate[c] = "ready" /\ sequence[c] < MaxCalls
      /\ toQueue' = [toQueue EXCEPT ![x] = Append(@, Request(n))]
      /\ sequence' = [sequence EXCEPT ![c] = n]
      /\ cstate' = [cstate EXCEPT ![c] = "waiting"]
      /\ UNCHANGED <<qstate, session, connected, fromQueue, queue, wstate,
                     request, executed, crashes>>
  BY <1>2 DEF ClientCalls, Sends, jobs, workerAndQueue
<1>4. /\ Queues(toQueue, fromQueue) /\ Lists(queue)
      /\ WorkersInv(toQueue, fromQueue, Members(queue))
      /\ Unique(Tokens(toQueue, fromQueue, request))
      /\ \A t \in Tokens(toQueue, fromQueue, request) : Legal(t)
  BY <1>1 DEF Flow
<1>5. x \in ClientIds /\ x \in Ids /\ x.of = c /\ x.n = session[c] /\ c \in Peers
      /\ x \notin WorkerIds
  BY <1>1, <1>2, OwnIdentity, Identities DEF Peers
<1>6. n \in Numbers /\ n \in Nat /\ n <= MaxCalls /\ sequence[c] < n /\ sequence[c] \in Nat
  BY <1>1, <1>2, <1>3, PirateAssumption DEF Types, Numbers
<1>7. \A t \in Tokens(toQueue, fromQueue, request) : t.of # x
  BY <1>3, <1>4, <1>5 DEF Legal
<1>8. Load(toQueue[x]) = {}
  <2>1. \A m : m \notin Load(toQueue[x])
    <3>1. \A k : Called(x, k).of = x
      BY DEF Called
    <3>2. QED
      BY <1>4, <1>5, <1>7, <3>1, ClientLoads
  <2>2. QED
    BY <2>1
<1>9. PICK m, new : m = Request(n) /\ new = Append(toQueue[x], m)
  OBVIOUS
<1>10. Queued(new, Calls) /\ Load(new) \subseteq {m}
  <2>1. Queued(toQueue[x], Calls) /\ m \in Calls
    BY <1>4, <1>5, <1>6, <1>9 DEF Queues, Calls
  <2>2. QED
    BY <1>8, <1>9, <2>1, AppendLoad
<1>11. /\ toQueue'[x] = new
       /\ \A i \in Ids : i # x => toQueue'[i] = toQueue[i]
       /\ DOMAIN toQueue' = Ids /\ toQueue' = [i \in Ids |-> toQueue'[i]]
  BY <1>3, <1>4, <1>5, <1>9 DEF Queues
<1>12. Queues(toQueue', fromQueue)
  <2>1. \A i \in ClientIds : Queued(toQueue'[i], Calls)
    BY <1>4, <1>10, <1>11 DEF Queues, Ids
  <2>2. \A i \in WorkerIds : toQueue'[i] = toQueue[i]
    BY <1>5, <1>11 DEF Ids
  <2>3. QED
    BY <1>4, <1>11, <2>1, <2>2 DEF Queues
<1>13. \A t \in Tokens(toQueue', fromQueue, request) :
           t = Called(x, n) \/ t \in Tokens(toQueue, fromQueue, request)
  <2>1. Load(toQueue'[x]) \subseteq Load(toQueue[x]) \union {Request(n)}
    BY <1>9, <1>10, <1>11
  <2>2. \A id \in Ids : /\ id # x => Load(toQueue'[id]) \subseteq Load(toQueue[id])
                        /\ Load(fromQueue[id]) \subseteq Load(fromQueue[id])
    BY <1>11
  <2>3. QED
    BY <1>5, <1>6, <2>1, <2>2, CallAdds
<1>14. Unique(Tokens(toQueue', fromQueue, request))
  <2>1. Called(x, n).of = x
    BY DEF Called
  <2>2. QED
    BY <1>4, <1>7, <1>13, <2>1 DEF Unique
<1>15. \A t \in Tokens(toQueue', fromQueue, request) : Legal(t)'
  <2>1. Legal(Called(x, n))'
    <3>1. session[c] \in 1 .. session[c]
      BY <1>1, PirateAssumption DEF Types
    <3>2. sequence'[c] = n /\ cstate'[c] = "waiting" /\ n <= n
      BY <1>1, <1>3, <1>6 DEF Types
    <3>3. QED
      BY <1>3, <1>5, <3>1, <3>2 DEF Legal, Called
  <2>2. ASSUME NEW t \in Tokens(toQueue, fromQueue, request) PROVE Legal(t)'
    <3>1. Legal(t) /\ t.of # x /\ t.of = Identity(t.of.of, t.of.n) /\ t.of.of \in Clients
          /\ t.n \in Nat
      BY <1>4, <1>7, TokenOf, PirateAssumption DEF Numbers
    <3>2. CASE t.of.of = c
      <4>1. t.of.n # session[c]
        BY <1>2, <3>1, <3>2 DEF Id
      <4>2. sequence'[c] = n /\ (t.n <= sequence[c] => t.n <= n)
        BY <1>1, <1>3, <1>6, <3>1 DEF Types
      <4>3. QED
        BY <1>3, <3>1, <3>2, <4>1, <4>2 DEF Legal
    <3>3. CASE t.of.of # c
      <4>1. sequence'[t.of.of] = sequence[t.of.of] /\ cstate'[t.of.of] = cstate[t.of.of]
        BY <1>1, <1>3, <3>1, <3>3 DEF Types
      <4>2. QED
        BY <1>3, <3>1, <4>1, LegalOf
    <3>4. QED
      BY <3>2, <3>3
  <2>3. QED
    BY <1>13, <2>1, <2>2
<1>16. WorkersInv(toQueue, fromQueue, Members(queue))'
  <2>1. \A id \in WorkerIds : toQueue'[id] = toQueue[id]
    BY <1>5, <1>11 DEF Ids
  <2>2. QED
    BY <1>3, <1>4, <2>1 DEF WorkersInv, Working, Members, Id
<1>17. Flow(toQueue, fromQueue, queue)'
  <2>1. Queues(toQueue, fromQueue)' /\ Lists(queue)'
    BY <1>3, <1>4, <1>12 DEF Queues, Lists
  <2>2. fromQueue' = fromQueue /\ request' = request
    BY <1>3
  <2>3. QED
    BY <1>14, <1>15, <1>16, <2>1, <2>2, FlowNext
<1>18. Types'
  <2>1. sequence' \in [Clients -> 0 .. MaxCalls]
    <3>1. n \in 0 .. MaxCalls
      BY <1>6, PirateAssumption
    <3>2. QED
      BY <1>1, <1>3, <3>1 DEF Types
  <2>2. QED
    BY <1>1, <1>3, <2>1 DEF Types, Id
<1>19. ClientStates' /\ Hands'
  <2>1. Hands'
    BY <1>1, <1>3 DEF Hands
  <2>2. ASSUME NEW d \in Clients
        PROVE  /\ cstate'[d] = "abandoned" => Id(d) \notin connected
               /\ cstate'[d] = "waiting" => sequence'[d] > 0
    <3>1. CASE d = c
      BY <1>1, <1>3, <1>6, <3>1 DEF Types
    <3>2. CASE d # c
      BY <1>1, <1>3, <3>2 DEF Types, ClientStates
    <3>3. QED
      BY <3>1, <3>2
  <2>3. QED
    BY <1>3, <2>1, <2>2 DEF ClientStates, Id
<1>20. QED
  BY <1>17, <1>18, <1>19 DEF IInv

\* A reply ends the wait: it is the latest call's, and nothing else is left.
LEMMA ClientTakesInv ==
    ASSUME IInv, NEW c \in Clients, ClientTakes(c), UNCHANGED workerAndQueue
    PROVE  IInv'
<1>1. Types /\ ClientStates /\ Hands /\ Flow(toQueue, fromQueue, queue)
  BY DEF IInv
<1>2. PICK x : x = Id(c)
  OBVIOUS
<1>3. /\ cstate[c] = "waiting" /\ fromQueue[x] # <<>>
      /\ fromQueue' = [fromQueue EXCEPT ![x] = Tail(@)]
      /\ UNCHANGED <<qstate, session, connected, toQueue, queue, wstate, sequence,
                     request, executed, crashes>>
  BY <1>2 DEF ClientTakes, jobs, workerAndQueue
<1>4. /\ Queues(toQueue, fromQueue) /\ Lists(queue)
      /\ WorkersInv(toQueue, fromQueue, Members(queue))
      /\ Unique(Tokens(toQueue, fromQueue, request))
      /\ \A t \in Tokens(toQueue, fromQueue, request) : Legal(t)
  BY <1>1 DEF Flow
<1>5. x \in ClientIds /\ x \in Ids /\ x.of = c /\ x.n = session[c] /\ c \in Peers
      /\ x \notin WorkerIds
  BY <1>1, <1>2, OwnIdentity, Identities DEF Peers
<1>6. PICK m, rest : m = Head(fromQueue[x]) /\ rest = Tail(fromQueue[x])
  OBVIOUS
<1>7. /\ m \in Calls /\ m # Beat /\ Queued(rest, Calls)
      /\ Load(fromQueue[x]) = {m} /\ Load(rest) = {}
  <2>1. Queued(fromQueue[x], Calls)
    BY <1>4, <1>5 DEF Queues
  <2>2. QED
    BY <1>3, <1>6, <2>1, TailLoad, MessageKinds
<1>8. PICK n \in Numbers : m = Request(n) /\ Answer(x, n) \in Tokens(toQueue, fromQueue, request)
  <2>1. m \in Load(fromQueue[x])
    BY <1>7
  <2>2. QED
    BY <1>4, <1>5, <2>1, ClientLoads
<1>9. n = sequence[c]
  <2>1. Legal(Answer(x, n))
    BY <1>4, <1>8
  <2>2. QED
    BY <1>5, <2>1 DEF Legal, Answer
<1>10. cstate' = [cstate EXCEPT ![c] = "ready"]
  BY <1>2, <1>6, <1>8, <1>9 DEF ClientTakes
<1>11. fromQueue'[x] = rest
       /\ (\A i \in Ids : i # x => fromQueue'[i] = fromQueue[i])
       /\ DOMAIN fromQueue' = Ids /\ fromQueue' = [i \in Ids |-> fromQueue'[i]]
  BY <1>3, <1>4, <1>5, <1>6 DEF Queues
<1>12. \A i \in Ids : Load(fromQueue'[i]) \subseteq Load(fromQueue[i])
  BY <1>7, <1>11
<1>13. Queues(toQueue, fromQueue')
  <2>1. \A i \in ClientIds : Queued(fromQueue'[i], Calls)
    BY <1>4, <1>7, <1>11 DEF Queues, Ids
  <2>2. \A i \in WorkerIds : fromQueue'[i] = fromQueue[i]
    BY <1>5, <1>11 DEF Ids
  <2>3. QED
    BY <1>4, <1>11, <1>12, <2>1, <2>2 DEF Queues
<1>14. Tokens(toQueue, fromQueue', request) \subseteq Tokens(toQueue, fromQueue, request)
  BY <1>12, FewerTokens
<1>15. \A t \in Tokens(toQueue, fromQueue', request) : t.of # x
  <2>1. ASSUME NEW t \in Tokens(toQueue, fromQueue', request), t.of = x PROVE FALSE
    <3>1. Answer(x, n).of = x
      BY DEF Answer
    <3>2. t = Answer(x, n)
      BY <1>4, <1>8, <1>14, <2>1, <3>1 DEF Unique
    <3>3. There(t, toQueue, fromQueue', request) /\ t.kind = "answered"
      BY <3>2 DEF Tokens, Answer
    <3>4. Request(t.n) \in Load(fromQueue'[t.of])
      BY <3>3 DEF There
    <3>5. QED
      BY <1>7, <1>11, <2>1, <3>4
  <2>2. QED
    BY <2>1
<1>16. Unique(Tokens(toQueue, fromQueue', request))
  BY <1>4, <1>14 DEF Unique
<1>17. \A t \in Tokens(toQueue, fromQueue', request) : Legal(t)'
  <2>1. ASSUME NEW t \in Tokens(toQueue, fromQueue', request) PROVE Legal(t)'
    <3>1. Legal(t) /\ t.of # x /\ t.of = Identity(t.of.of, t.of.n) /\ t.of.of \in Clients
      BY <1>4, <1>14, <1>15, TokenOf
    <3>2. CASE t.of.of = c
      <4>1. t.of.n # session[c]
        BY <1>2, <3>1, <3>2 DEF Id
      <4>2. QED
        BY <1>3, <3>1, <3>2, <4>1 DEF Legal
    <3>3. CASE t.of.of # c
      <4>1. cstate'[t.of.of] = cstate[t.of.of]
        BY <1>1, <1>10, <3>1, <3>3 DEF Types
      <4>2. QED
        BY <1>3, <3>1, <4>1, LegalOf
    <3>4. QED
      BY <3>2, <3>3
  <2>2. QED
    BY <2>1
<1>18. WorkersInv(toQueue, fromQueue, Members(queue))'
  <2>1. \A id \in WorkerIds : fromQueue'[id] = fromQueue[id]
    BY <1>5, <1>11 DEF Ids
  <2>2. QED
    BY <1>3, <1>4, <2>1 DEF WorkersInv, Working, Members, Id
<1>19. Flow(toQueue, fromQueue, queue)'
  <2>1. Queues(toQueue, fromQueue)' /\ Lists(queue)'
    BY <1>3, <1>4, <1>13 DEF Queues, Lists
  <2>2. toQueue' = toQueue /\ request' = request
    BY <1>3
  <2>3. QED
    BY <1>16, <1>17, <1>18, <2>1, <2>2, FlowNext
<1>20. Types'
  BY <1>1, <1>3, <1>10 DEF Types, Id
<1>21. ClientStates' /\ Hands'
  <2>1. Hands'
    BY <1>1, <1>3 DEF Hands
  <2>2. QED
    BY <1>1, <1>3, <1>10, <2>1 DEF ClientStates, Types, Id
<1>22. QED
  BY <1>19, <1>20, <1>21 DEF IInv

\* The last poll of a client times out: it closes its socket for good.
LEMMA ClientAbandonsInv ==
    ASSUME IInv, NEW c \in Clients, Closes(c),
           cstate' = [cstate EXCEPT ![c] = "abandoned"],
           UNCHANGED <<qstate, queue, sequence, wstate, request, executed, crashes>>
    PROVE  IInv'
<1>1. Types /\ ClientStates /\ Hands /\ Flow(toQueue, fromQueue, queue)
  BY DEF IInv
<1>2. c \in Peers /\ session' = session /\ connected' = connected \ {Id(c)}
  BY DEF Closes, Peers
<1>4. /\ Queues(toQueue, fromQueue) /\ Lists(queue)
      /\ WorkersInv(toQueue, fromQueue, Members(queue))
      /\ Unique(Tokens(toQueue, fromQueue, request))
      /\ \A t \in Tokens(toQueue, fromQueue, request) : Legal(t)
  BY <1>1 DEF Flow
<1>6. /\ Queues(toQueue, fromQueue)'
      /\ \A id \in Ids : /\ Load(toQueue'[id]) \subseteq Load(toQueue[id])
                         /\ Load(fromQueue'[id]) \subseteq Load(fromQueue[id])
  BY <1>1, <1>2, <1>4, ClosesQueues
<1>8. Tokens(toQueue', fromQueue', request') \subseteq Tokens(toQueue, fromQueue, request)
  BY <1>6, FewerTokens
<1>9. Unique(Tokens(toQueue', fromQueue', request'))
  BY <1>4, <1>8 DEF Unique
<1>10. /\ cstate' \in [Clients -> {"ready", "waiting", "abandoned"}]
       /\ cstate'[c] = "abandoned"
       /\ \A d \in Clients : d # c => cstate'[d] = cstate[d]
  BY <1>1 DEF Types
<1>11. \A t \in Tokens(toQueue', fromQueue', request') : Legal(t)'
  <2>1. ASSUME NEW t \in Tokens(toQueue', fromQueue', request') PROVE Legal(t)'
    <3>1. Legal(t) /\ t.of.of \in Clients
      BY <1>4, <1>8, TokenOf
    <3>2. QED
      BY <1>2, <1>10, <3>1 DEF Legal
  <2>2. QED
    BY <2>1
<1>12. WorkersInv(toQueue, fromQueue, Members(queue))'
  <2>1. \A id \in WorkerIds : /\ Load(toQueue'[id]) \subseteq Load(toQueue[id])
                              /\ Load(fromQueue'[id]) \subseteq Load(fromQueue[id])
    BY <1>6 DEF Ids
  <2>2. \A id \in WorkerIds : Working(id)' <=> Working(id)
    BY <1>2 DEF Working, Id
  <2>3. QED
    BY <1>2, <1>4, <2>1, <2>2 DEF WorkersInv, Members
<1>13. Flow(toQueue, fromQueue, queue)'
  <2>1. Lists(queue)'
    BY <1>4 DEF Lists
  <2>2. QED
    BY <1>6, <1>9, <1>11, <1>12, <2>1, FlowNext
<1>14. Types'
  BY <1>1, <1>2, <1>10 DEF Types, Id
<1>15. ClientStates' /\ Hands'
  BY <1>1, <1>2, <1>10 DEF ClientStates, Hands, Id
<1>16. QED
  BY <1>13, <1>14, <1>15 DEF IInv

\* An earlier poll times out: the same request goes out on a new socket, where
\* nothing has been before.
LEMMA ClientRetriesInv ==
    ASSUME IInv, NEW c \in Clients, cstate[c] = "waiting",
           Reconnects(c, Request(sequence[c])),
           UNCHANGED <<qstate, queue, sequence, cstate, wstate, request, executed, crashes>>
    PROVE  IInv'
<1>1. Types /\ ClientStates /\ Hands /\ Flow(toQueue, fromQueue, queue)
  BY DEF IInv
<1>2. PICK x, new : x = Id(c) /\ new = Identity(c, session[c] + 1)
  OBVIOUS
<1>3. c \in Peers /\ session[c] < MaxSockets(c)
      /\ connected' = (connected \ {x}) \union {new}
  BY <1>2 DEF Peers, Reconnects
<1>4. /\ Queues(toQueue, fromQueue) /\ Lists(queue)
      /\ WorkersInv(toQueue, fromQueue, Members(queue))
      /\ Unique(Tokens(toQueue, fromQueue, request))
      /\ \A t \in Tokens(toQueue, fromQueue, request) : Legal(t)
  BY <1>1 DEF Flow
<1>5. x \in ClientIds /\ x.of = c /\ x.n = session[c] /\ session[c] \in Nat
  BY <1>1, <1>2, <1>3, OwnIdentity DEF Types
<1>6. /\ new \in Ids /\ new # x /\ new.of = c /\ new.n = session[c] + 1
      /\ new \in ClientIds /\ new \notin WorkerIds
  BY <1>1, <1>2, <1>3, NextIdentity, Identities
<1>7. PICK n : n = sequence[c]
  OBVIOUS
<1>8. n \in Numbers
  <2>1. n \in 0 .. MaxCalls /\ n > 0
    BY <1>1, <1>7 DEF Types, ClientStates
  <2>2. QED
    BY <2>1, PirateAssumption DEF Numbers
<1>9. /\ Queues(toQueue, fromQueue)'
      /\ Load(toQueue'[new]) = {Request(n)} /\ Load(fromQueue'[new]) = {}
      /\ \A id \in Ids :
             /\ id # new => Load(toQueue'[id]) \subseteq Load(toQueue[id])
             /\ Load(fromQueue'[id]) \subseteq Load(fromQueue[id])
  <2>1. Request(n) \in Gives(new) /\ Request(n) # Beat
    BY <1>6, <1>8, Distinct DEF Gives, Calls
  <2>2. Reconnects(c, Request(n))
    BY <1>7
  <2>3. QED
    BY <1>1, <1>2, <1>3, <1>4, <2>1, <2>2, ReconnectsQueues
<1>10. /\ session' \in [Peers -> Nat] /\ session'[c] = session[c] + 1
       /\ \A q \in Peers : q # c => session'[q] = session[q]
       /\ \A v \in Workers : session'[v] <= MaxWorkerSockets
       /\ \A d \in Clients : session'[d] \in 1 .. MaxClientSockets + crashes
       /\ connected' \subseteq {Identity(q, session'[q]) : q \in Peers}
  BY <1>1, <1>3, ReconnectsTypes
<1>11. \A t \in Tokens(toQueue', fromQueue', request') :
           t = Called(new, n) \/ t \in Tokens(toQueue, fromQueue, request)
  <2>1. Load(toQueue'[new]) \subseteq Load(toQueue[new]) \union {Request(n)}
    BY <1>9
  <2>2. \A t \in Tokens(toQueue', fromQueue', request) :
            t = Called(new, n) \/ t \in Tokens(toQueue, fromQueue, request)
    BY <1>6, <1>8, <1>9, <2>1, CallAdds
  <2>3. QED
    BY <2>2
<1>12. \A t \in Tokens(toQueue, fromQueue, request) :
           /\ t.of # new
           /\ t.of.of = c => t.of.n # session'[c]
  <2>1. ASSUME NEW t \in Tokens(toQueue, fromQueue, request), t.of.of = c
        PROVE  t.of.n # session[c] + 1
    <3>1. t.of.n \in 1 .. session[c]
      BY <1>4, <2>1 DEF Legal
    <3>2. QED
      BY <1>5, <3>1
  <2>2. QED
    BY <1>6, <1>10, <2>1
<1>13. Unique(Tokens(toQueue', fromQueue', request'))
  <2>1. Called(new, n).of = new
    BY DEF Called
  <2>2. QED
    BY <1>4, <1>11, <1>12, <2>1 DEF Unique
<1>14. \A t \in Tokens(toQueue', fromQueue', request') : Legal(t)'
  <2>1. Legal(Called(new, n))'
    <3>1. session'[c] \in 1 .. session'[c] /\ n <= n
      BY <1>5, <1>8, <1>10, PirateAssumption DEF Numbers
    <3>2. QED
      BY <1>6, <1>7, <1>10, <3>1 DEF Legal, Called
  <2>2. ASSUME NEW t \in Tokens(toQueue, fromQueue, request) PROVE Legal(t)'
    <3>1. Legal(t) /\ t.of.of \in Clients /\ t.of.of \in Peers
      BY <1>4, TokenOf DEF Peers
    <3>2. CASE t.of.of = c
      <4>1. t.of.n \in 1 .. session'[c]
        BY <1>5, <1>10, <3>1, <3>2 DEF Legal
      <4>2. QED
        BY <1>12, <3>1, <3>2, <4>1 DEF Legal
    <3>3. CASE t.of.of # c
      BY <1>10, <3>1, <3>3, LegalOf
    <3>4. QED
      BY <3>2, <3>3
  <2>3. QED
    BY <1>11, <2>1, <2>2
<1>15. WorkersInv(toQueue, fromQueue, Members(queue))'
  <2>1. ASSUME NEW id \in WorkerIds
        PROVE  /\ Load(toQueue'[id]) \subseteq Load(toQueue[id])
               /\ Load(fromQueue'[id]) \subseteq Load(fromQueue[id])
               /\ session'[id.of] = session[id.of]
               /\ Working(id)' <=> Working(id)
    <3>1. id \in Ids /\ id # new /\ id.of \in Peers /\ id.of # c
      BY <1>6, Identities, PirateAssumption DEF Ids, Peers
    <3>2. session'[id.of] = session[id.of]
      BY <1>10, <3>1
    <3>3. Working(id)' <=> Working(id)
      BY <3>2 DEF Working, Id
    <3>4. QED
      BY <1>9, <3>1, <3>2, <3>3
  <2>2. Members(queue)' = Members(queue)
    BY DEF Members
  <2>3. ASSUME NEW id \in WorkerIds
        PROVE  /\ id \in Members(queue) =>
                      Load(toQueue'[id]) = {} /\ Load(fromQueue'[id]) = {} /\ ~Working(id)'
               /\ Load(toQueue'[id]) # {} => Load(fromQueue'[id]) = {} /\ ~Working(id)'
               /\ Load(fromQueue'[id]) # {} => ~Working(id)'
               /\ id.n > session'[id.of] =>
                      id \notin Members(queue) /\ Load(toQueue'[id]) = {}
    BY <1>4, <2>1 DEF WorkersInv
  <2>4. QED
    BY <2>2, <2>3, Zenon DEF WorkersInv
<1>16. Flow(toQueue, fromQueue, queue)'
  <2>1. Lists(queue)'
    BY <1>4 DEF Lists
  <2>2. QED
    BY <1>9, <1>13, <1>14, <1>15, <2>1, FlowNext
<1>17. Types'
  BY <1>1, <1>10 DEF Types, Id
<1>18. ClientStates'
  <2>1. ASSUME NEW d \in Clients, cstate[d] = "abandoned" PROVE Id(d)' \notin connected'
    <3>1. d \in Peers /\ d # c /\ Id(d).of = d
      BY <1>1, <2>1, OwnIdentity DEF Peers
    <3>2. Id(d)' = Id(d)
      BY <1>10, <3>1 DEF Id
    <3>3. Id(d) \notin connected /\ Id(d) # new
      BY <1>1, <1>6, <2>1, <3>1 DEF ClientStates
    <3>4. QED
      BY <1>3, <3>2, <3>3
  <2>2. QED
    BY <1>1, <2>1 DEF ClientStates
<1>19. Hands'
  BY <1>1 DEF Hands
<1>20. QED
  BY <1>16, <1>17, <1>18, <1>19 DEF IInv

\* A client asks again on another socket, or gives up.
LEMMA ClientTimesOutInv ==
    ASSUME IInv, NEW c \in Clients, ClientTimesOut(c), UNCHANGED workerAndQueue
    PROVE  IInv'
<1>1. /\ cstate[c] = "waiting"
      /\ UNCHANGED <<qstate, queue, sequence, wstate, request, executed, crashes>>
  BY DEF ClientTimesOut, jobs, workerAndQueue
<1>2. \/ Reconnects(c, Request(sequence[c])) /\ cstate' = cstate
      \/ Closes(c) /\ cstate' = [cstate EXCEPT ![c] = "abandoned"]
  BY DEF ClientTimesOut
<1>3. CASE Reconnects(c, Request(sequence[c])) /\ cstate' = cstate
  BY <1>1, <1>3, ClientRetriesInv
<1>4. CASE Closes(c) /\ cstate' = [cstate EXCEPT ![c] = "abandoned"]
  BY <1>1, <1>4, ClientAbandonsInv
<1>5. QED
  BY <1>2, <1>3, <1>4

-----------------------------------------------------------------------------
(* The queue is killed.                                                    *)

\* How many messages get through.
LEMMA SparedRange ==
    ASSUME NEW qs, \A id \in Ids : \E S : Queued(qs[id], S), NEW n \in Spared(qs)
    PROVE  \A i \in DOMAIN n : i \in Ids /\ n[i] \in Nat /\ n[i] <= Len(qs[i])
<1>1. PICK used : used = {id \in Ids : qs[id] # <<>>}
  OBVIOUS
<1>2. /\ n \in [used -> UNION {0 .. Len(qs[id]) : id \in used}]
      /\ \A id \in used : n[id] <= Len(qs[id])
  BY <1>1 DEF Spared
<1>3. ASSUME NEW i \in used PROVE i \in Ids /\ n[i] \in Nat
  <2>1. PICK j \in used : n[i] \in 0 .. Len(qs[j])
    BY <1>2, <1>3
  <2>2. Len(qs[j]) \in Nat
    BY <1>1, LenProperties DEF Queued
  <2>3. QED
    BY <1>1, <1>3, <2>1, <2>2
<1>4. QED
  BY <1>2, <1>3

\* Each connected peer has what got through of its messages, on its new identity
\* if it has one, and there is nothing else.
Survives(qs, qs2) ==
    /\ DOMAIN qs2 = Ids /\ qs2 = [id \in Ids |-> qs2[id]]
    /\ \A id \in Ids :
           \/ qs2[id] = <<>>
           \/ /\ Id(id.of) \in connected /\ id = Id(id.of)'
              /\ Load(qs2[id]) \subseteq Load(qs[Id(id.of)])
              /\ \A S : Queued(qs[Id(id.of)], S) => Queued(qs2[id], S)

\* What a death of the queue does to the sockets of its peers.
LEMMA QueueDiesMoves ==
    ASSUME Types, Queues(toQueue, fromQueue), SocketsLoseQueue
    PROVE  /\ session' \in [Peers -> Nat]
           /\ \A p \in Peers : session'[p] = session[p] + IF p \in Anonymous THEN 1 ELSE 0
           /\ connected' = {Id(p)' : p \in {p \in Peers : Id(p) \in connected}}
           /\ Survives(toQueue, toQueue') /\ Survives(fromQueue, fromQueue')
<1>1. session' = [p \in Peers |-> session[p] + IF p \in Anonymous THEN 1 ELSE 0]
  BY DEF SocketsLoseQueue
<1>2. session \in [Peers -> Nat]
  BY DEF Types
<1>3. /\ session' \in [Peers -> Nat]
      /\ \A p \in Peers : session'[p] = session[p] + IF p \in Anonymous THEN 1 ELSE 0
  BY <1>1, <1>2
<1>4. \A p \in Peers :
          Id(p)' = Identity(p, session[p] + IF p \in Anonymous THEN 1 ELSE 0)
  BY <1>3 DEF Id
<1>5. connected' = {Id(p)' : p \in {p \in Peers : Id(p) \in connected}}
  <2>1. connected' = {Identity(p, session[p] + IF p \in Anonymous THEN 1 ELSE 0) :
                          p \in {p \in Peers : Id(p) \in connected}}
    BY DEF SocketsLoseQueue
  <2>2. QED
    BY <1>4, <2>1
<1>6. \A id \in Ids : id.of \in Peers
  BY Identities DEF Ids, Peers
<1>7. \A id \in Ids : (\E S : Queued(toQueue[id], S)) /\ (\E S : Queued(fromQueue[id], S))
  BY EachQueued
<1>8. \A p \in Peers : Id(p) \in Ids
  BY OwnIdentity DEF Peers
<1>9. Survives(toQueue, toQueue')
  <2>1. PICK n \in Spared(toQueue) :
            toQueue' = [id \in Ids |->
                IF /\ Id(id.of) \in connected
                   /\ id.n = session[id.of] + IF id.of \in Anonymous THEN 1 ELSE 0
                THEN [i \in Ids |-> IF i \in DOMAIN n
                                    THEN SubSeq(toQueue[i], Len(toQueue[i]) - n[i] + 1,
                                                Len(toQueue[i]))
                                    ELSE <<>>][Id(id.of)]
                ELSE <<>>]
    BY DEF SocketsLoseQueue
  <2>2. \A i \in DOMAIN n : i \in Ids /\ n[i] \in Nat /\ n[i] <= Len(toQueue[i])
    BY <1>7, SparedRange
  <2>3. ASSUME NEW id \in Ids
        PROVE  \/ toQueue'[id] = <<>>
               \/ /\ Id(id.of) \in connected /\ id = Id(id.of)'
                  /\ Load(toQueue'[id]) \subseteq Load(toQueue[Id(id.of)])
                  /\ \A S : Queued(toQueue[Id(id.of)], S) => Queued(toQueue'[id], S)
    <3>1. PICK i : i = Id(id.of) /\ i \in Ids
      BY <1>6, <1>8
    <3>2. CASE /\ i \in connected /\ i \in DOMAIN n
               /\ id.n = session[id.of] + IF id.of \in Anonymous THEN 1 ELSE 0
      <4>1. PICK q, m, k : q = toQueue[i] /\ k = Len(q) /\ m = k - n[i] + 1
        OBVIOUS
      <4>2. toQueue'[id] = SubSeq(q, m, k)
        BY <2>1, <3>1, <3>2, <4>1
      <4>3. k \in Nat /\ m \in Nat \ {0} /\ k <= Len(q)
        <5>1. k \in Nat /\ n[i] \in Nat /\ n[i] <= k
          BY <1>7, <2>2, <3>1, <3>2, <4>1, LenProperties DEF Queued
        <5>2. QED
          BY <4>1, <5>1
      <4>4. \A S : Queued(q, S) => Queued(toQueue'[id], S)
                                   /\ Load(toQueue'[id]) \subseteq Load(q)
        BY <4>2, <4>3, CutLoad
      <4>5. Load(toQueue'[id]) \subseteq Load(q)
        BY <1>7, <3>1, <4>1, <4>4
      <4>6. id = Id(id.of)'
        <5>1. id = Identity(id.of, id.n)
          BY Identities
        <5>2. QED
          BY <1>4, <1>6, <3>2, <5>1
      <4>7. QED
        BY <3>1, <3>2, <4>1, <4>4, <4>5, <4>6
    <3>3. CASE ~ /\ i \in connected /\ i \in DOMAIN n
                 /\ id.n = session[id.of] + IF id.of \in Anonymous THEN 1 ELSE 0
      BY <2>1, <3>1, <3>3
    <3>4. QED
      BY <3>2, <3>3
  <2>4. DOMAIN toQueue' = Ids /\ toQueue' = [id \in Ids |-> toQueue'[id]]
    BY <2>1
  <2>5. QED
    BY <2>3, <2>4, Zenon DEF Survives
<1>10. Survives(fromQueue, fromQueue')
  <2>1. PICK n \in Spared(fromQueue) :
            fromQueue' = [id \in Ids |->
                IF /\ Id(id.of) \in connected
                   /\ id.n = session[id.of] + IF id.of \in Anonymous THEN 1 ELSE 0
                THEN [i \in Ids |-> IF i \in DOMAIN n THEN SubSeq(fromQueue[i], 1, n[i])
                                    ELSE <<>>][Id(id.of)]
                ELSE <<>>]
    BY DEF SocketsLoseQueue
  <2>2. \A i \in DOMAIN n : i \in Ids /\ n[i] \in Nat /\ n[i] <= Len(fromQueue[i])
    BY <1>7, SparedRange
  <2>3. ASSUME NEW id \in Ids
        PROVE  \/ fromQueue'[id] = <<>>
               \/ /\ Id(id.of) \in connected /\ id = Id(id.of)'
                  /\ Load(fromQueue'[id]) \subseteq Load(fromQueue[Id(id.of)])
                  /\ \A S : Queued(fromQueue[Id(id.of)], S) => Queued(fromQueue'[id], S)
    <3>1. PICK i : i = Id(id.of) /\ i \in Ids
      BY <1>6, <1>8
    <3>2. CASE /\ i \in connected /\ i \in DOMAIN n
               /\ id.n = session[id.of] + IF id.of \in Anonymous THEN 1 ELSE 0
      <4>1. PICK q, k : q = fromQueue[i] /\ k = n[i]
        OBVIOUS
      <4>2. fromQueue'[id] = SubSeq(q, 1, k)
        BY <2>1, <3>1, <3>2, <4>1
      <4>3. k \in Nat /\ 1 \in Nat \ {0} /\ k <= Len(q)
        BY <2>2, <3>2, <4>1
      <4>4. \A S : Queued(q, S) => Queued(fromQueue'[id], S)
                                   /\ Load(fromQueue'[id]) \subseteq Load(q)
        BY <4>2, <4>3, CutLoad
      <4>5. Load(fromQueue'[id]) \subseteq Load(q)
        BY <1>7, <3>1, <4>1, <4>4
      <4>6. id = Id(id.of)'
        <5>1. id = Identity(id.of, id.n)
          BY Identities
        <5>2. QED
          BY <1>4, <1>6, <3>2, <5>1
      <4>7. QED
        BY <3>1, <3>2, <4>1, <4>4, <4>5, <4>6
    <3>3. CASE ~ /\ i \in connected /\ i \in DOMAIN n
                 /\ id.n = session[id.of] + IF id.of \in Anonymous THEN 1 ELSE 0
      BY <2>1, <3>1, <3>3
    <3>4. QED
      BY <3>2, <3>3
  <2>4. DOMAIN fromQueue' = Ids /\ fromQueue' = [id \in Ids |-> fromQueue'[id]]
    BY <2>1
  <2>5. QED
    BY <2>3, <2>4, Zenon DEF Survives
<1>11. QED
  BY <1>3, <1>5, <1>9, <1>10

\* Where a token that gets through was before: what is on the socket of a
\* client was on the identity that was its own.
Before(t) ==
    IF t.kind \in {"called", "answered"}
    THEN [kind |-> t.kind, place |-> Id(t.of.of), of |-> Id(t.of.of), n |-> t.n]
    ELSE t

\* A death of the queue loses its list and frames under way.
LEMMA QueueDiesInv == ASSUME IInv, QueueDies PROVE IInv'
<1>1. Types /\ ClientStates /\ Hands /\ Flow(toQueue, fromQueue, queue)
  BY DEF IInv
<1>2. /\ qstate' = "down" /\ crashes < MaxCrashes /\ crashes' = crashes + 1
      /\ queue' = <<>>
      /\ UNCHANGED <<cstate, sequence, wstate, request, executed>>
  BY DEF QueueDies, SocketsLoseQueue, clientVars, workerVars
<1>3. crashes \in Nat /\ crashes' \in 0 .. MaxCrashes
  BY <1>1, <1>2, PirateAssumption DEF Types
<1>4. /\ Queues(toQueue, fromQueue)
      /\ WorkersInv(toQueue, fromQueue, Members(queue))
      /\ Unique(Tokens(toQueue, fromQueue, request))
      /\ \A t \in Tokens(toQueue, fromQueue, request) : Legal(t)
  BY <1>1 DEF Flow
<1>5. /\ session' \in [Peers -> Nat]
      /\ \A p \in Peers : session'[p] = session[p] + IF p \in Anonymous THEN 1 ELSE 0
      /\ connected' = {Id(p)' : p \in {p \in Peers : Id(p) \in connected}}
      /\ Survives(toQueue, toQueue') /\ Survives(fromQueue, fromQueue')
  BY <1>1, <1>4, QueueDiesMoves DEF QueueDies
<1>6. \A p \in Peers : session[p] \in Nat
  BY <1>1 DEF Types
<1>7. /\ \A w \in Workers : session'[w] = session[w] /\ Id(w)' = Id(w)
      /\ \A c \in Clients : \/ session'[c] = session[c] /\ Id(c)' = Id(c)
                            \/ session'[c] = session[c] + 1
  <2>1. /\ \A w \in Workers : w \notin Anonymous /\ w \in Peers
        /\ \A c \in Clients : c \in Peers
    BY PirateAssumption DEF Peers
  <2>2. \A w \in Workers : session'[w] = session[w]
    BY <1>5, <1>6, <2>1
  <2>3. \A c \in Clients : session'[c] \in {session[c], session[c] + 1}
    BY <1>5, <1>6, <2>1
  <2>4. QED
    BY <2>2, <2>3 DEF Id
<1>8. Types'
  <2>1. connected' \subseteq {Id(p)' : p \in Peers}
    BY <1>5
  <2>2. \A w \in Workers : session'[w] <= MaxWorkerSockets
    BY <1>1, <1>7 DEF Types
  <2>3. \A c \in Clients : session'[c] \in 1 .. MaxClientSockets + crashes'
    <3>1. /\ \A c \in Clients : session[c] \in 1 .. MaxClientSockets + crashes
          /\ MaxClientSockets \in Nat
      BY <1>1, PirateAssumption DEF Types
    <3>2. QED
      BY <1>2, <1>3, <1>7, <3>1
  <2>4. QED
    BY <1>1, <1>2, <1>3, <1>5, <2>1, <2>2, <2>3 DEF Types
<1>9. /\ \A p \in Peers : Id(p)'.of = p /\ Id(p)'.n = session'[p]
      /\ \A p \in Peers : Id(p).of = p /\ Id(p).n = session[p] /\ Id(p) \in Ids
      /\ \A c \in Clients : Id(c) \in ClientIds
  <2>1. \A p \in Peers : Id(p)'.of = p /\ Id(p)'.n = session'[p]
    BY Identities DEF Id
  <2>2. QED
    BY <1>1, <2>1, OwnIdentity
<1>10. ASSUME NEW id \in Ids
       PROVE  /\ id.of \in Peers
              /\ Id(id.of) \in Ids /\ Gives(id) = Gives(Id(id.of)) /\ Takes(id) = Takes(Id(id.of))
              /\ id \in WorkerIds => id.of \in Workers /\ Id(id.of)' = Id(id.of)
              /\ id \in ClientIds => id.of \in Clients
  <2>1. CASE id \in WorkerIds
    <3>1. id.of \in Workers /\ Id(id.of) \in WorkerIds /\ Id(id.of)' = Id(id.of)
      BY <1>1, <1>7, <2>1, Identities, OwnIdentity
    <3>2. id \notin ClientIds
      BY <2>1, Identities
    <3>3. QED
      BY <2>1, <3>1, <3>2 DEF Gives, Takes, Ids, Peers
  <2>2. CASE id \in ClientIds
    <3>1. id.of \in Clients /\ Id(id.of) \in ClientIds
      BY <1>9, <2>2, Identities
    <3>2. id \notin WorkerIds /\ Id(id.of) \notin WorkerIds
      BY <2>2, <3>1, Identities
    <3>3. QED
      BY <2>2, <3>1, <3>2 DEF Gives, Takes, Ids, Peers
  <2>3. QED
    BY <2>1, <2>2 DEF Ids
<1>11. ASSUME NEW id \in Ids
       PROVE  /\ Queued(toQueue'[id], Gives(id)) /\ Queued(fromQueue'[id], Takes(id))
              /\ Load(fromQueue'[id]) # {} => id \in connected'
              /\ Load(toQueue'[id]) # {} =>
                    /\ id = Id(id.of)'
                    /\ Load(toQueue'[id]) \subseteq Load(toQueue[Id(id.of)])
              /\ Load(fromQueue'[id]) # {} =>
                    /\ id = Id(id.of)'
                    /\ Load(fromQueue'[id]) \subseteq Load(fromQueue[Id(id.of)])
  <2>1. /\ \/ toQueue'[id] = <<>>
           \/ /\ Id(id.of) \in connected /\ id = Id(id.of)'
              /\ Load(toQueue'[id]) \subseteq Load(toQueue[Id(id.of)])
              /\ \A S : Queued(toQueue[Id(id.of)], S) => Queued(toQueue'[id], S)
        /\ \/ fromQueue'[id] = <<>>
           \/ /\ Id(id.of) \in connected /\ id = Id(id.of)'
              /\ Load(fromQueue'[id]) \subseteq Load(fromQueue[Id(id.of)])
              /\ \A S : Queued(fromQueue[Id(id.of)], S) => Queued(fromQueue'[id], S)
    BY <1>5 DEF Survives
  <2>2. Queued(toQueue[Id(id.of)], Gives(id)) /\ Queued(fromQueue[Id(id.of)], Takes(id))
    BY <1>4, <1>10, EachQueued
  <2>3. Queued(toQueue'[id], Gives(id)) /\ Queued(fromQueue'[id], Takes(id))
    BY <2>1, <2>2, NoFrames
  <2>4. Load(<<>>) = {}
    BY NewLoad
  <2>5. Id(id.of) \in connected /\ id = Id(id.of)' => id \in connected'
    BY <1>5, <1>10
  <2>6. QED
    BY <2>1, <2>3, <2>4, <2>5
<1>12. Queues(toQueue, fromQueue)'
  <2>1. /\ DOMAIN toQueue' = Ids /\ toQueue' = [id \in Ids |-> toQueue'[id]]
        /\ DOMAIN fromQueue' = Ids /\ fromQueue' = [id \in Ids |-> fromQueue'[id]]
    BY <1>5 DEF Survives
  <2>2. /\ \A i \in WorkerIds : Queued(toQueue'[i], Offers) /\ Queued(fromQueue'[i], Tasks)
        /\ \A i \in ClientIds : Queued(toQueue'[i], Calls) /\ Queued(fromQueue'[i], Calls)
    BY <1>11, Identities DEF Ids, Gives, Takes
  <2>3. QED
    BY <1>11, <2>1, <2>2 DEF Queues
<1>13. ASSUME NEW id \in WorkerIds
       PROVE  /\ Load(toQueue'[id]) \subseteq Load(toQueue[id])
              /\ Load(fromQueue'[id]) \subseteq Load(fromQueue[id])
              /\ Working(id)' <=> Working(id)
              /\ session'[id.of] = session[id.of]
  <2>1. id \in Ids
    BY DEF Ids
  <2>2. id.of \in Workers /\ Id(id.of)' = Id(id.of)
    BY <1>10, <2>1
  <2>3. /\ Load(toQueue'[id]) \subseteq Load(toQueue[id])
        /\ Load(fromQueue'[id]) \subseteq Load(fromQueue[id])
    BY <1>11, <2>1, <2>2
  <2>4. Working(id)' <=> Working(id)
    BY <1>2, <2>2 DEF Working
  <2>5. QED
    BY <1>7, <2>2, <2>3, <2>4
<1>14. WorkersInv(toQueue, fromQueue, Members(queue))'
  <2>1. Members(queue)' = {}
    BY <1>2 DEF Members
  <2>2. QED
    BY <1>4, <1>13, <2>1 DEF WorkersInv
<1>15. ASSUME NEW t \in Tokens(toQueue', fromQueue', request')
       PROVE  /\ Before(t) \in Tokens(toQueue, fromQueue, request)
              /\ t.kind \in {"called", "answered"} => t.place = t.of /\ t.of = Id(t.of.of)'
  <2>1. t \in AllTokens /\ There(t, toQueue', fromQueue', request)
    BY <1>2 DEF Tokens
  <2>2. t.of \in ClientIds /\ t.of \in Ids /\ t.of.of \in Clients /\ t.n \in Numbers
    BY TokenOf
  <2>3. CASE t.kind \in {"called", "answered"}
    <3>1. PICK x, id : x = t.of /\ id = Id(x.of)
      OBVIOUS
    <3>2. id \in ClientIds /\ id \in Ids /\ t.place = x
      BY <1>9, <2>1, <2>2, <2>3, <3>1 DEF Ids, There
    <3>3. Before(t) = [kind |-> t.kind, place |-> id, of |-> id, n |-> t.n]
      BY <2>3, <3>1 DEF Before
    <3>4. Before(t) \in AllTokens
      BY <2>2, <2>3, <3>2, <3>3 DEF AllTokens
    <3>5. CASE t.kind = "called"
      <4>1. Request(t.n) \in Load(toQueue'[x])
        BY <2>1, <3>1, <3>5 DEF There
      <4>2. x = Id(x.of)' /\ Request(t.n) \in Load(toQueue[id])
        BY <1>11, <2>2, <3>1, <4>1
      <4>3. There(Before(t), toQueue, fromQueue, request)
        BY <3>3, <3>5, <4>2 DEF There
      <4>4. QED
        BY <3>1, <3>2, <3>4, <4>2, <4>3 DEF Tokens
    <3>6. CASE t.kind = "answered"
      <4>1. Request(t.n) \in Load(fromQueue'[x])
        BY <2>1, <3>1, <3>6 DEF There
      <4>2. x = Id(x.of)' /\ Request(t.n) \in Load(fromQueue[id])
        BY <1>11, <2>2, <3>1, <4>1
      <4>3. There(Before(t), toQueue, fromQueue, request)
        BY <3>3, <3>6, <4>2 DEF There
      <4>4. QED
        BY <3>1, <3>2, <3>4, <4>2, <4>3 DEF Tokens
    <3>7. QED
      BY <2>3, <3>5, <3>6
  <2>4. CASE t.kind \notin {"called", "answered"}
    <3>1. Before(t) = t
      BY <2>4 DEF Before
    <3>2. There(t, toQueue, fromQueue, request)
      BY <1>13, <2>1, <2>4 DEF There
    <3>3. QED
      BY <2>1, <2>4, <3>1, <3>2 DEF Tokens
  <2>5. QED
    BY <2>3, <2>4
<1>16. ASSUME NEW s \in Tokens(toQueue', fromQueue', request'),
              NEW t \in Tokens(toQueue', fromQueue', request'), s.of = t.of
       PROVE  Before(s).of = Before(t).of
  <2>1. /\ s.of.of \in Clients /\ t.of.of = s.of.of
        /\ session[s.of.of] \in Nat
    BY <1>6, <1>16, TokenOf DEF Peers
  <2>2. PICK c : c = s.of.of
    OBVIOUS
  <2>3. ASSUME NEW u \in Tokens(toQueue', fromQueue', request'), u.of.of = c,
               u.kind \notin {"called", "answered"}, u.of = Id(c)'
        PROVE  Id(c)' = Id(c)
    <3>1. Before(u) = u
      BY <2>3 DEF Before
    <3>2. u.of.n \in 1 .. session[c]
      BY <1>4, <1>15, <2>3, <3>1 DEF Legal
    <3>3. u.of.n = session'[c]
      BY <1>9, <2>1, <2>2, <2>3 DEF Peers
    <3>4. session'[c] # session[c] + 1
      BY <2>1, <2>2, <3>2, <3>3
    <3>5. QED
      BY <1>7, <2>1, <2>2, <3>4
  <2>4. QED
    BY <1>15, <1>16, <2>1, <2>2, <2>3 DEF Before
<1>17. Unique(Tokens(toQueue', fromQueue', request'))
  <2>1. ASSUME NEW s \in Tokens(toQueue', fromQueue', request'),
               NEW t \in Tokens(toQueue', fromQueue', request'), s.of = t.of
        PROVE  s = t
    <3>1. Before(s) = Before(t)
      BY <1>4, <1>15, <1>16, <2>1 DEF Unique
    <3>2. s.kind = t.kind /\ s.n = t.n
      BY <3>1 DEF Before
    <3>3. CASE s.kind \in {"called", "answered"}
      <4>1. s.place = t.place
        BY <1>15, <2>1, <3>2, <3>3
      <4>2. s \in AllTokens /\ t \in AllTokens
        BY DEF Tokens
      <4>3. QED
        BY <2>1, <3>2, <4>1, <4>2 DEF AllTokens
    <3>4. CASE s.kind \notin {"called", "answered"}
      BY <3>1, <3>2, <3>4 DEF Before
    <3>5. QED
      BY <3>3, <3>4
  <2>2. QED
    BY <2>1 DEF Unique
<1>18. ASSUME NEW t \in Tokens(toQueue', fromQueue', request') PROVE Legal(t)'
  <2>1. PICK c : c = t.of.of /\ c \in Clients /\ c \in Peers
    BY TokenOf DEF Peers
  <2>2. Legal(Before(t)) /\ session[c] \in Nat /\ session'[c] \in Nat
    BY <1>4, <1>5, <1>6, <1>15, <2>1
  <2>3. CASE t.kind \in {"called", "answered"}
    <3>1. PICK id : id = Id(c)
      OBVIOUS
    <3>2. Before(t) = [kind |-> t.kind, place |-> id, of |-> id, n |-> t.n]
      BY <2>1, <2>3, <3>1 DEF Before
    <3>3. id.of = c /\ id.n = session[c] /\ t.of.n = session'[c]
      BY <1>9, <1>15, <2>1, <2>3, <3>1
    <3>4. /\ t.n <= sequence[c] /\ t.n = sequence[c] /\ cstate[c] # "ready"
          /\ t.kind = "answered" => <<c, t.n>> \in executed
      BY <2>2, <3>2, <3>3 DEF Legal
    <3>5. session'[c] \in 1 .. session'[c]
      <4>1. session'[c] \in 1 .. MaxClientSockets + crashes'
        BY <1>8, <2>1 DEF Types
      <4>2. QED
        BY <2>2, <4>1
    <3>6. QED
      BY <1>2, <2>1, <2>3, <3>3, <3>4, <3>5 DEF Legal
  <2>4. CASE t.kind \notin {"called", "answered"}
    <3>1. Legal(t)
      BY <2>2, <2>4 DEF Before
    <3>2. t.of.n \in 1 .. session[c]
      BY <2>1, <3>1 DEF Legal
    <3>3. t.of.n \in 1 .. session'[c] /\ (t.of.n = session'[c] => t.of.n = session[c])
      BY <1>7, <2>1, <2>2, <3>2
    <3>4. QED
      BY <1>2, <2>1, <3>1, <3>3 DEF Legal
  <2>5. QED
    BY <2>3, <2>4
<1>19. Flow(toQueue, fromQueue, queue)'
  <2>1. Lists(queue)'
    BY <1>2 DEF Lists
  <2>2. QED
    BY <1>12, <1>14, <1>17, <1>18, <2>1, FlowNext
<1>20. ClientStates'
  <2>1. ASSUME NEW c \in Clients, cstate[c] = "abandoned" PROVE Id(c)' \notin connected'
    <3>1. ASSUME NEW p \in Peers, Id(p) \in connected, Id(p)' = Id(c)' PROVE FALSE
      <4>1. p = c
        BY <1>9, <3>1 DEF Peers
      <4>2. QED
        BY <1>1, <2>1, <3>1, <4>1 DEF ClientStates
    <3>2. QED
      BY <1>5, <3>1
  <2>2. QED
    BY <1>1, <1>2, <2>1 DEF ClientStates
<1>21. Hands'
  BY <1>1, <1>2 DEF Hands
<1>22. QED
  BY <1>8, <1>19, <1>20, <1>21 DEF IInv

-----------------------------------------------------------------------------
(* The invariant.                                                          *)

\* Nothing is under way when the programs start, and nobody is listed.
LEMMA InitInv == ASSUME Init PROVE IInv
<1>1. /\ qstate = "running"
      /\ session = [p \in Peers |-> IF p \in Clients THEN 1 ELSE 0]
      /\ connected = {Identity(c, 1) : c \in Clients}
      /\ toQueue = [id \in Ids |-> <<>>] /\ fromQueue = [id \in Ids |-> <<>>]
      /\ cstate = [c \in Clients |-> "ready"]
      /\ sequence = [c \in Clients |-> 0]
      /\ wstate = [w \in Workers |-> "off"]
      /\ request = [w \in Workers |-> <<>>]
      /\ executed = {} /\ crashes = 0 /\ queue = <<>>
  BY DEF Init, PirateInit
<1>2. /\ \A w \in Workers : session[w] = 0 /\ w \in Peers
      /\ \A c \in Clients : session[c] = 1 /\ c \in Peers
      /\ session \in [Peers -> Nat]
  BY <1>1, PirateAssumption DEF Peers
<1>3. Types
  <2>1. connected \subseteq {Id(p) : p \in Peers}
    BY <1>1, <1>2 DEF Id
  <2>2. /\ \A w \in Workers : session[w] <= MaxWorkerSockets
        /\ \A c \in Clients : session[c] \in 1 .. MaxClientSockets + crashes
        /\ sequence \in [Clients -> 0 .. MaxCalls] /\ crashes \in 0 .. MaxCrashes
    BY <1>1, <1>2, PirateAssumption
  <2>3. QED
    BY <1>1, <1>2, <2>1, <2>2 DEF Types
<1>4. ClientStates /\ Hands
  BY <1>1 DEF ClientStates, Hands
<1>5. \A id \in Ids : toQueue[id] = <<>> /\ fromQueue[id] = <<>>
                      /\ Load(toQueue[id]) = {} /\ Load(fromQueue[id]) = {}
  BY <1>1, NewLoad
<1>6. Queues(toQueue, fromQueue)
  BY <1>1, <1>5, NoFrames, EachQueued
<1>7. Lists(queue) /\ Members(queue) = {}
  BY <1>1 DEF Lists, Members
<1>8. WorkersInv(toQueue, fromQueue, Members(queue))
  <2>1. \A id \in WorkerIds : id \in Ids /\ id.of \in Workers
    BY Identities DEF Ids
  <2>2. QED
    BY <1>1, <1>5, <1>7, <2>1 DEF WorkersInv, Working
<1>9. Tokens(toQueue, fromQueue, request) = {}
  <2>1. ASSUME NEW t \in AllTokens, There(t, toQueue, fromQueue, request) PROVE FALSE
    <3>1. t.of \in Ids /\ (t.place \in WorkerIds => t.place \in Ids)
      BY <2>1 DEF AllTokens, Ids
    <3>2. \A w \in Workers : Enveloped(t.of, t.n) # request[w]
      BY <1>1, Distinct
    <3>3. QED
      BY <1>5, <2>1, <3>1, <3>2 DEF There
  <2>2. QED
    BY <2>1 DEF Tokens
<1>10. Flow(toQueue, fromQueue, queue)
  BY <1>6, <1>7, <1>8, <1>9 DEF Flow, Unique
<1>11. QED
  BY <1>3, <1>4, <1>10 DEF IInv

\* Every step keeps the invariant.
LEMMA NextInv == ASSUME IInv, [Next]_vars PROVE IInv'
<1>1. CASE QueueStep
  <2>1. Nobody \in WorkerIds \union {Nobody} /\ Nobody \in ClientIds \union {Nobody}
        /\ WorkerIds \subseteq WorkerIds \union {Nobody}
        /\ ClientIds \subseteq ClientIds \union {Nobody}
    OBVIOUS
  <2>2. CASE Tick
    BY <2>2, TickInv
  <2>3. CASE QueueIdles
    BY <2>1, <2>3, IteratesInv DEF QueueIdles
  <2>4. CASE \E b \in WorkerIds, beat \in BOOLEAN : Iterates(b, Nobody, beat)
    BY <2>1, <2>4, IteratesInv
  <2>5. CASE \E f \in ClientIds, beat \in BOOLEAN : Iterates(Nobody, f, beat)
    BY <2>1, <2>5, IteratesInv
  <2>6. CASE \E b \in WorkerIds, f \in ClientIds, beat \in BOOLEAN : Iterates(b, f, beat)
    BY <2>1, <2>6, IteratesInv
  <2>7. QED
    BY <1>1, <2>2, <2>3, <2>4, <2>5, <2>6 DEF QueueStep
<1>2. CASE QueueFails
  BY <1>2, QueueDiesInv, QueueRestartsInv DEF QueueFails
<1>3. ASSUME NEW w \in Workers, WorkerStep(w) PROVE IInv'
  BY <1>3, WorkerStartsInv, WorkerTakesInv, WorkerRepliesInv, WorkerTimesOutInv,
     WorkerReconnectsInv, WorkerBeatsInv, WorkerDiesInv DEF WorkerStep
<1>4. ASSUME NEW c \in Clients, ClientStep(c), UNCHANGED workerAndQueue PROVE IInv'
  BY <1>4, ClientCallsInv, ClientTakesInv, ClientTimesOutInv DEF ClientStep
<1>5. CASE UNCHANGED vars
  BY <1>5, QuietInv DEF vars, queueVars, sockets, workerVars, clientVars
<1>6. QED
  BY <1>1, <1>2, <1>3, <1>4, <1>5 DEF Next

\* The state of ppqueue, its workers and clients is as the invariant says in
\* every reachable state: the table of workers and the frames under way agree.
THEOREM ParanoidInvariant == Spec => []IInv
<1>1. Init => IInv
  BY InitInv
<1>2. IInv /\ [Next]_vars => IInv'
  BY NextInv
<1>3. QED
  BY <1>1, <1>2, PTL DEF Spec

-----------------------------------------------------------------------------
(* What follows.                                                           *)

\* A request or reply that is under way, wrapped or not, is the load.
LEMMA HasLoad ==
    ASSUME NEW S, S \subseteq {Beat, Greeting} \union Requests, NEW q, Queued(q, S),
           NEW r \in Requests, Has(q, r)
    PROVE  r \in Load(q)
<1>1. PICK i \in DOMAIN q : q[i] \in {r, <<Empty>> \o r}
  BY DEF Has
<1>2. q[i] \in {Beat, Greeting} \union Requests
  BY <1>1, LenProperties, ElementOfSeq DEF Queued
<1>3. PICK x \in ClientIds, n \in Numbers : r = Enveloped(x, n)
  BY MessageKinds
<1>4. q[i] = r
  <2>1. <<Empty>> \o r \notin {Beat, Greeting}
    BY <1>3, Distinct
  <2>2. <<Empty>> \o r \notin Requests
    <3>1. ASSUME NEW y \in ClientIds, NEW m \in Numbers
          PROVE  Enveloped(y, m) # <<Empty>> \o r
      BY <1>3, Distinct
    <3>2. QED
      BY <3>1, MessageKinds
  <2>3. QED
    BY <1>1, <1>2, <2>1, <2>2
<1>5. r # Beat
  BY MessageKinds
<1>6. QED
  BY <1>4, <1>5 DEF Load, Members

\* A request a worker has on its way is the load of that queue.
LEMMA WorkerHas ==
    ASSUME Queues(toQueue, fromQueue), NEW id \in WorkerIds, NEW r \in Requests
    PROVE  /\ Has(toQueue[id], r) => r \in Load(toQueue[id])
           /\ Has(fromQueue[id], r) => r \in Load(fromQueue[id])
<1>1. Queued(toQueue[id], Offers) /\ Queued(fromQueue[id], Tasks)
  BY DEF Queues
<1>2. /\ Offers \subseteq {Beat, Greeting} \union Requests
      /\ Tasks \subseteq {Beat, Greeting} \union Requests
  BY DEF Offers, Tasks
<1>3. QED
  BY <1>1, <1>2, HasLoad

\* A worker the vector of ppqueue holds is in it once, and neither has a request
\* nor a reply on its way (s_worker_append: "Worker must not already be in
\* queue"), for any number of workers, clients and crashes, whatever expires.
THEOREM AvailableAreIdle == Spec => []AvailableIsIdle
<1>1. ASSUME IInv PROVE AvailableIsIdle
  <2>1. /\ Hands /\ Queues(toQueue, fromQueue) /\ Lists(queue)
        /\ WorkersInv(toQueue, fromQueue, Members(queue))
    BY <1>1 DEF IInv, Flow
  <2>2. Listed = Members(queue)
    BY DEF Listed, Members
  <2>3. ASSUME NEW id \in Listed PROVE ~Engaged(id)
    <3>1. id \in WorkerIds /\ id.of \in Workers
      BY <2>1, <2>2, <2>3, QueueLength, Identities DEF Lists
    <3>2. Load(toQueue[id]) = {} /\ Load(fromQueue[id]) = {} /\ ~Working(id)
      BY <2>1, <2>2, <2>3, <3>1 DEF WorkersInv
    <3>3. ASSUME NEW r \in Requests PROVE ~Has(fromQueue[id], r) /\ ~Has(toQueue[id], r)
      BY <2>1, <3>1, <3>2, WorkerHas
    <3>4. ASSUME NEW r \in Requests PROVE ~(id = Id(id.of) /\ request[id.of] = r)
      BY <3>2, MessageKinds DEF Working
    <3>5. QED
      BY <3>3, <3>4 DEF Engaged
  <2>4. Cardinality(Listed) = Len(queue)
    BY <2>1, <2>2, QueueLength DEF Lists
  <2>5. QED
    BY <2>3, <2>4 DEF AvailableIsIdle
<1>2. QED
  BY <1>1, ParanoidInvariant, PTL

\* When ppqueue takes a request of a client there is a worker for it: no message
\* of a worker empties the vector (the assertion of s_worker_dequeue).
THEOREM RequestsFindWorkers == Spec => []DequeueFindsWorker
<1>1. IInv => DequeueFindsWorker
  BY DEF IInv, Types, DequeueFindsWorker
<1>2. QED
  BY <1>1, ParanoidInvariant, PTL

\* Where a request of a socket is, there is a token of it.
LEMMA PlacesAreTokens ==
    ASSUME Queues(toQueue, fromQueue), NEW x \in ClientIds, NEW n \in Numbers,
           NEW e \in Whereabouts(x, n)
    PROVE  \E t \in Tokens(toQueue, fromQueue, request) :
               /\ t.of = x
               /\ \/ /\ t.kind = "called"
                     /\ \E i \in DOMAIN toQueue[x] :
                            e = <<"called", i>> /\ toQueue[x][i] = Request(n)
                  \/ /\ t.kind = "answered"
                     /\ \E i \in DOMAIN fromQueue[x] :
                            e = <<"answered", i>> /\ fromQueue[x][i] = Request(n)
                  \/ /\ t.kind \in {"sent", "held", "replied"}
                     /\ e = <<t.kind, t.place>>
<1>1. x \in Ids /\ Enveloped(x, n) \in Requests /\ Request(n) # Beat
  BY MessageKinds, Distinct DEF Ids
<1>2. CASE \E i \in DOMAIN toQueue[x] : e = <<"called", i>> /\ toQueue[x][i] = Request(n)
  <2>1. Request(n) \in Load(toQueue[x])
    BY <1>1, <1>2 DEF Load, Members
  <2>2. Called(x, n) \in Tokens(toQueue, fromQueue, request)
    BY <1>1, <2>1 DEF Tokens, AllTokens, There, Called
  <2>3. Called(x, n).of = x /\ Called(x, n).kind = "called"
    BY DEF Called
  <2>4. QED
    BY <1>2, <2>2, <2>3
<1>3. CASE \E i \in DOMAIN fromQueue[x] :
               e = <<"answered", i>> /\ fromQueue[x][i] = Request(n)
  <2>1. Request(n) \in Load(fromQueue[x])
    BY <1>1, <1>3 DEF Load, Members
  <2>2. Answer(x, n) \in Tokens(toQueue, fromQueue, request)
    BY <1>1, <2>1 DEF Tokens, AllTokens, There, Answer
  <2>3. Answer(x, n).of = x /\ Answer(x, n).kind = "answered"
    BY DEF Answer
  <2>4. QED
    BY <1>3, <2>2, <2>3
<1>4. ASSUME NEW w \in WorkerIds, e = <<"sent", w>>, Has(fromQueue[w], Enveloped(x, n))
      PROVE  /\ Sent(w, x, n) \in Tokens(toQueue, fromQueue, request)
             /\ Sent(w, x, n).of = x /\ Sent(w, x, n).kind = "sent"
             /\ Sent(w, x, n).place = w
  <2>1. Enveloped(x, n) \in Load(fromQueue[w])
    BY <1>1, <1>4, WorkerHas
  <2>2. QED
    BY <1>1, <2>1 DEF Tokens, AllTokens, There, Sent, Ids
<1>5. ASSUME NEW w \in WorkerIds, e = <<"replied", w>>, Has(toQueue[w], Enveloped(x, n))
      PROVE  /\ Reply(w, x, n) \in Tokens(toQueue, fromQueue, request)
             /\ Reply(w, x, n).of = x /\ Reply(w, x, n).kind = "replied"
             /\ Reply(w, x, n).place = w
  <2>1. Enveloped(x, n) \in Load(toQueue[w])
    BY <1>1, <1>5, WorkerHas
  <2>2. QED
    BY <1>1, <2>1 DEF Tokens, AllTokens, There, Reply, Ids
<1>6. ASSUME NEW w \in Workers, e = <<"held", w>>, request[w] = Enveloped(x, n)
      PROVE  /\ Held(w, x, n) \in Tokens(toQueue, fromQueue, request)
             /\ Held(w, x, n).of = x /\ Held(w, x, n).kind = "held"
             /\ Held(w, x, n).place = w
  BY <1>6 DEF Tokens, AllTokens, There, Held
<1>7. \/ \E i \in DOMAIN toQueue[x] : e = <<"called", i>> /\ toQueue[x][i] = Request(n)
      \/ \E w \in WorkerIds : e = <<"sent", w>> /\ Has(fromQueue[w], Enveloped(x, n))
      \/ \E w \in Workers : e = <<"held", w>> /\ request[w] = Enveloped(x, n)
      \/ \E w \in WorkerIds : e = <<"replied", w>> /\ Has(toQueue[w], Enveloped(x, n))
      \/ \E i \in DOMAIN fromQueue[x] : e = <<"answered", i>> /\ fromQueue[x][i] = Request(n)
  BY DEF Whereabouts
<1>8. QED
  BY <1>2, <1>3, <1>4, <1>5, <1>6, <1>7

\* The request of a socket is in one place at most: neither ppqueue nor a worker
\* multiplies it, whatever is killed, expires or is tried again.
THEOREM PiratesNeverMultiply == Spec => []NeverMultiplied
<1>1. ASSUME IInv, NEW x \in ClientIds, NEW n \in 1 .. MaxCalls
      PROVE  Cardinality(Whereabouts(x, n)) <= 1
  <2>1. /\ Queues(toQueue, fromQueue) /\ n \in Numbers
        /\ \A s, t \in Tokens(toQueue, fromQueue, request) : s.of = t.of => s = t
    BY <1>1 DEF IInv, Flow, Unique, Numbers
  <2>2. /\ \A i, j \in DOMAIN toQueue[x] :
               toQueue[x][i] = Request(n) /\ toQueue[x][j] = Request(n) => i = j
        /\ \A i, j \in DOMAIN fromQueue[x] :
               fromQueue[x][i] = Request(n) /\ fromQueue[x][j] = Request(n) => i = j
    <3>1. Request(n) # Beat
      BY Distinct
    <3>2. Single(toQueue[x]) /\ Single(fromQueue[x])
      BY <2>1, Zenon DEF Queues, Queued
    <3>3. QED
      BY <3>1, <3>2 DEF Single
  <2>3. ASSUME NEW d \in Whereabouts(x, n), NEW e \in Whereabouts(x, n) PROVE d = e
    <3>1. PICK s \in Tokens(toQueue, fromQueue, request) :
               /\ s.of = x
               /\ \/ /\ s.kind = "called"
                     /\ \E i \in DOMAIN toQueue[x] :
                            d = <<"called", i>> /\ toQueue[x][i] = Request(n)
                  \/ /\ s.kind = "answered"
                     /\ \E i \in DOMAIN fromQueue[x] :
                            d = <<"answered", i>> /\ fromQueue[x][i] = Request(n)
                  \/ /\ s.kind \in {"sent", "held", "replied"}
                     /\ d = <<s.kind, s.place>>
      BY <2>1, PlacesAreTokens
    <3>2. PICK t \in Tokens(toQueue, fromQueue, request) :
               /\ t.of = x
               /\ \/ /\ t.kind = "called"
                     /\ \E i \in DOMAIN toQueue[x] :
                            e = <<"called", i>> /\ toQueue[x][i] = Request(n)
                  \/ /\ t.kind = "answered"
                     /\ \E i \in DOMAIN fromQueue[x] :
                            e = <<"answered", i>> /\ fromQueue[x][i] = Request(n)
                  \/ /\ t.kind \in {"sent", "held", "replied"}
                     /\ e = <<t.kind, t.place>>
      BY <2>1, PlacesAreTokens
    <3>3. s = t
      BY <2>1, <3>1, <3>2
    <3>4. CASE s.kind = "called"
      <4>1. PICK i \in DOMAIN toQueue[x] : d = <<"called", i>> /\ toQueue[x][i] = Request(n)
        BY <3>1, <3>4
      <4>2. PICK j \in DOMAIN toQueue[x] : e = <<"called", j>> /\ toQueue[x][j] = Request(n)
        BY <3>2, <3>3, <3>4
      <4>3. QED
        BY <2>2, <4>1, <4>2
    <3>5. CASE s.kind = "answered"
      <4>1. PICK i \in DOMAIN fromQueue[x] : d = <<"answered", i>> /\ fromQueue[x][i] = Request(n)
        BY <3>1, <3>5
      <4>2. PICK j \in DOMAIN fromQueue[x] : e = <<"answered", j>> /\ fromQueue[x][j] = Request(n)
        BY <3>2, <3>3, <3>5
      <4>3. QED
        BY <2>2, <4>1, <4>2
    <3>6. CASE s.kind \notin {"called", "answered"}
      BY <3>1, <3>2, <3>3, <3>6
    <3>7. QED
      BY <3>4, <3>5, <3>6
  <2>4. CASE Whereabouts(x, n) = {}
    BY <2>4, FS_EmptySet
  <2>5. CASE Whereabouts(x, n) # {}
    <3>1. PICK e : Whereabouts(x, n) = {e}
      BY <2>3, <2>5
    <3>2. QED
      BY <3>1, FS_Singleton
  <2>6. QED
    BY <2>4, <2>5
<1>2. IInv => NeverMultiplied
  BY <1>1 DEF NeverMultiplied
<1>3. QED
  BY <1>2, ParanoidInvariant, PTL

\* The only message for a client is the reply it waits for.
LEMMA ReplyAwaited ==
    ASSUME IInv, NEW c \in Clients, NEW i \in DOMAIN fromQueue[Id(c)]
    PROVE  /\ fromQueue[Id(c)][i] = Request(sequence[c]) /\ cstate[c] = "waiting"
           /\ <<c, sequence[c]>> \in executed
<1>1. /\ Types /\ ClientStates /\ Queues(toQueue, fromQueue)
      /\ \A t \in Tokens(toQueue, fromQueue, request) : Legal(t)
  BY DEF IInv, Flow
<1>2. PICK x : x = Id(c)
  OBVIOUS
<1>3. x \in ClientIds /\ x \in Ids /\ x.of = c /\ x.n = session[c]
  BY <1>1, <1>2, OwnIdentity DEF Peers
<1>4. fromQueue[x][i] \in Calls /\ Beat \notin Calls
  <2>1. Queued(fromQueue[x], Calls)
    BY <1>1, <1>3 DEF Queues
  <2>2. QED
    BY <1>2, <2>1, LenProperties, ElementOfSeq, MessageKinds DEF Queued
<1>5. fromQueue[x][i] \in Load(fromQueue[x])
  BY <1>2, <1>4 DEF Load, Members
<1>6. PICK n \in Numbers : fromQueue[x][i] = Request(n)
                           /\ Answer(x, n) \in Tokens(toQueue, fromQueue, request)
  BY <1>1, <1>3, <1>5, ClientLoads
<1>7. n = sequence[c] /\ cstate[c] # "ready" /\ <<c, n>> \in executed
  <2>1. Legal(Answer(x, n))
    BY <1>1, <1>6
  <2>2. QED
    BY <1>3, <2>1 DEF Legal, Answer
<1>8. cstate[c] # "abandoned"
  BY <1>1, <1>2, <1>3, <1>5 DEF Queues, ClientStates
<1>9. QED
  BY <1>1, <1>2, <1>6, <1>7, <1>8 DEF Types

\* No client of ppqueue takes a reply to anything but the request it waits for:
\* lpclient never reports a malformed reply, whatever becomes of earlier tries.
THEOREM ParanoidRepliesMatch == Spec => []RepliesMatchSequence
<1>1. ASSUME IInv, NEW c \in Clients
      PROVE  /\ Len(fromQueue[Id(c)]) <= 1
             /\ \A i \in DOMAIN fromQueue[Id(c)] :
                    cstate[c] = "waiting" /\ fromQueue[Id(c)][i] = Request(sequence[c])
  <2>1. PICK q : q = fromQueue[Id(c)]
    OBVIOUS
  <2>2. \A i \in DOMAIN q : q[i] = Request(sequence[c]) /\ q[i] # Beat
                            /\ cstate[c] = "waiting"
    <3>1. \A i \in DOMAIN q : q[i] = Request(sequence[c]) /\ cstate[c] = "waiting"
      BY <1>1, <2>1, ReplyAwaited
    <3>2. Request(sequence[c]) # Beat
      BY Distinct
    <3>3. QED
      BY <3>1, <3>2
  <2>3. Queued(q, Calls)
    BY <1>1, <2>1, OwnIdentity DEF IInv, Flow, Queues
  <2>4. Len(q) \in Nat /\ DOMAIN q = 1 .. Len(q) /\ \A i, j \in DOMAIN q : i = j
    BY <2>2, <2>3, LenProperties DEF Queued, Single
  <2>5. Len(q) <= 1
    <3>1. ASSUME Len(q) > 1 PROVE FALSE
      <4>1. 1 \in DOMAIN q /\ 2 \in DOMAIN q
        BY <2>4, <3>1
      <4>2. QED
        BY <2>4, <4>1
    <3>2. QED
      BY <2>4, <3>1
  <2>6. QED
    BY <2>1, <2>2, <2>5
<1>2. IInv => RepliesMatchSequence
  BY <1>1 DEF RepliesMatchSequence
<1>3. QED
  BY <1>2, ParanoidInvariant, PTL

-----------------------------------------------------------------------------
(* The service.                                                            *)

\* Every step of the programs is a step of the service, or none.
LEMMA Simulates == ASSUME IInv, [Next]_vars PROVE [Service!Next]_(Service!vars)
<1>1. Types /\ Hands
  BY DEF IInv
<1>2. cstate \in [Clients -> {"ready", "waiting", "abandoned"}]
  BY <1>1 DEF Types
<1>3. ASSUME UNCHANGED <<sequence, cstate, executed>> PROVE [Service!Next]_(Service!vars)
  BY <1>3 DEF Service!vars
<1>4. CASE QueueStep
  <2>1. UNCHANGED <<sequence, cstate, executed>>
    BY <1>4 DEF QueueStep, QueueIdles, Iterates, Tick, clientVars
  <2>2. QED
    BY <1>3, <2>1
<1>5. CASE QueueFails
  <2>1. UNCHANGED <<sequence, cstate, executed>>
    BY <1>5 DEF QueueFails, QueueDies, QueueRestarts, clientVars, jobs
  <2>2. QED
    BY <1>3, <2>1
<1>6. ASSUME NEW w \in Workers, WorkerStep(w), ~WorkerReplies(w)
      PROVE  [Service!Next]_(Service!vars)
  <2>1. UNCHANGED <<sequence, cstate, executed>>
    BY <1>6 DEF WorkerStep, WorkerStarts, WorkerTakes, WorkerTimesOut,
       WorkerReconnects, WorkerBeats, WorkerDies, JobDies, clientVars
  <2>2. QED
    BY <1>3, <2>1
<1>7. ASSUME NEW w \in Workers, WorkerReplies(w) PROVE [Service!Next]_(Service!vars)
  <2>1. /\ wstate[w] = "working" /\ UNCHANGED <<sequence, cstate>>
        /\ executed' = executed \union {<<request[w][1].of, request[w][3].n>>}
    BY <1>7 DEF WorkerReplies, JobDone, clientVars
  <2>2. PICK x \in ClientIds, n \in Numbers : request[w] = Enveloped(x, n)
    BY <1>1, <2>1, MessageKinds DEF Hands
  <2>3. PICK c \in Clients : c = x.of
    BY Identities
  <2>4. request[w][1] = x /\ request[w][3].n = n
    BY <2>2, WorkerHandles
  <2>5. n \in 1 .. sequence[c]
    <3>1. Held(w, x, n) \in Tokens(toQueue, fromQueue, request)
      BY <2>2 DEF Tokens, AllTokens, There, Held
    <3>2. Legal(Held(w, x, n))
      BY <3>1 DEF IInv, Flow
    <3>3. n <= sequence[c]
      BY <2>3, <3>2 DEF Legal, Held
    <3>4. n \in Nat /\ n >= 1 /\ sequence[c] \in Nat
      BY <1>1, PirateAssumption DEF Types, Numbers
    <3>5. QED
      BY <3>3, <3>4
  <2>6. executed' = executed \union {<<c, n>>}
    BY <2>1, <2>3, <2>4
  <2>7. Service!Execute(c)
    BY <2>1, <2>5, <2>6 DEF Service!Execute
  <2>8. QED
    BY <2>7 DEF Service!Next
<1>8. ASSUME NEW c \in Clients, ClientCalls(c) PROVE [Service!Next]_(Service!vars)
  <2>1. /\ cstate[c] = "ready" /\ cstate' = [cstate EXCEPT ![c] = "waiting"]
        /\ sequence' = [sequence EXCEPT ![c] = @ + 1] /\ executed' = executed
    BY <1>8 DEF ClientCalls, jobs
  <2>2. Service!Ask(c)
    BY <1>2, <2>1 DEF Service!Ask
  <2>3. QED
    BY <2>2 DEF Service!Next
<1>9. ASSUME NEW c \in Clients, ClientTakes(c) PROVE [Service!Next]_(Service!vars)
  <2>1. cstate[c] = "waiting" /\ fromQueue[Id(c)] # <<>>
    BY <1>9 DEF ClientTakes
  <2>2. PICK q : q = fromQueue[Id(c)]
    OBVIOUS
  <2>3. Queued(q, Calls)
    BY <1>1, <2>2, OwnIdentity DEF IInv, Flow, Queues
  <2>4. 1 \in DOMAIN q /\ Head(q) = q[1]
    BY <2>1, <2>2, <2>3, HeadTailProperties, LenProperties, EmptySeq DEF Queued
  <2>5. Head(fromQueue[Id(c)]) = Request(sequence[c]) /\ <<c, sequence[c]>> \in executed
    BY <2>2, <2>4, ReplyAwaited
  <2>6. /\ cstate' = [cstate EXCEPT ![c] = "ready"]
        /\ sequence' = sequence /\ executed' = executed
    BY <1>9, <2>5 DEF ClientTakes, jobs
  <2>7. Service!Answer(c)
    BY <1>2, <2>1, <2>5, <2>6 DEF Service!Answer
  <2>8. QED
    BY <2>7 DEF Service!Next
<1>10. ASSUME NEW c \in Clients, ClientTimesOut(c) PROVE [Service!Next]_(Service!vars)
  <2>1. /\ cstate[c] = "waiting" /\ sequence' = sequence /\ executed' = executed
        /\ cstate' = cstate \/ cstate' = [cstate EXCEPT ![c] = "abandoned"]
    BY <1>10 DEF ClientTimesOut, jobs
  <2>2. CASE cstate' = cstate
    BY <1>3, <2>1, <2>2
  <2>3. CASE cstate' = [cstate EXCEPT ![c] = "abandoned"]
    <3>1. Service!Abandon(c)
      BY <1>2, <2>1, <2>3 DEF Service!Abandon
    <3>2. QED
      BY <3>1 DEF Service!Next
  <2>4. QED
    BY <2>1, <2>2, <2>3
<1>11. CASE UNCHANGED vars
  BY <1>3, <1>11 DEF vars, clientVars
<1>12. QED
  BY <1>4, <1>5, <1>6, <1>7, <1>8, <1>9, <1>10, <1>11 DEF Next, ClientStep

\* The Paranoid Pirate implements the service: a client gets an answer only if
\* some worker has executed that very call, or it gives the call up, whatever
\* dies, expires, restarts and is executed twice.
THEOREM ParanoidService == Spec => ImplementsService
<1>1. Init => Service!Init
  BY DEF Init, PirateInit, Service!Init
<1>2. IInv /\ [Next]_vars => [Service!Next]_(Service!vars)
  BY Simulates
<1>3. QED
  BY <1>1, <1>2, ParanoidInvariant, PTL
     DEF Spec, ImplementsService, Service!Spec

-----------------------------------------------------------------------------
(* Replies.                                                                *)

\* A reply to a client with an identity of its own is passed on to it.
LEMMA ReplyOut ==
    ASSUME NEW b \in WorkerIds, NEW x \in ClientIds, NEW n,
           Head(toQueue[b]) = Enveloped(x, n), ~StartsWithNul(x),
           x \in connected, DOMAIN fromQueue = Ids,
           NEW q, q = Backend(Now, b)
    PROVE  q.out[x] = Append(fromQueue[x], Request(n))
<1>1. PICK msg : msg = unwrap(FromPeer(b))
  OBVIOUS
<1>2. msg = Enveloped(x, n)
  BY <1>1, BackendReads
<1>3. msg # Beat /\ msg # Greeting /\ Len(msg) # 1
  <2>1. Enveloped(x, n) \notin {Beat, Greeting} /\ Len(Enveloped(x, n)) = 3
    BY Distinct, Shapes
  <2>2. QED
    BY <1>2, <2>1
<1>4. q = s_worker_append([Now EXCEPT !.out = Routed(@, msg)], b)
  BY <1>1, <1>3 DEF Backend, Beat, Greeting
<1>5. PICK out : out = Routed(fromQueue, msg)
  OBVIOUS
<1>6. PICK r : r = [queue |-> queue, expiry |-> expiry, out |-> out]
  OBVIOUS
<1>7. q = s_worker_append(r, b)
  BY <1>4, <1>5, <1>6 DEF Now
<1>8. q.out = out
  <2>1. CASE In(r, b)
    BY <1>6, <1>7, <2>1 DEF s_worker_append
  <2>2. CASE ~In(r, b)
    <3>1. q = Fresh([r EXCEPT !.queue = Append(@, b)], b)
      BY <1>7, <2>2 DEF s_worker_append
    <3>2. QED
      BY <1>6, <3>1 DEF Fresh
  <2>3. QED
    BY <2>1, <2>2
<1>9. Head(send(msg)) = x /\ Tail(send(msg)) = Request(n)
  BY <1>2, ReplySends
<1>10. out = [fromQueue EXCEPT ![x] = Append(@, Request(n))]
  BY <1>5, <1>9 DEF Routed
<1>11. x \in Ids
  BY DEF Ids
<1>12. QED
  BY <1>8, <1>10, <1>11

\* A request that is passed on leaves the messages to clients alone.
LEMMA FrontendOut ==
    ASSUME NEW q, q = [queue |-> q.queue, expiry |-> q.expiry, out |-> q.out],
           DOMAIN q.out = Ids, Lists(q.queue), q.queue # <<>>,
           NEW y \in ClientIds, NEW n, Head(toQueue[y]) = Request(n),
           NEW x \in ClientIds
    PROVE  Frontend(q, y).out[x] = q.out[x]
<1>1. PICK list : list = q.queue
  OBVIOUS
<1>2. PICK h : h = Head(list)
  OBVIOUS
<1>3. PICK from : from = q.out
  OBVIOUS
<1>4. h \in WorkerIds
  BY <1>1, <1>2, TailMembers DEF Lists
<1>5. PICK msg : msg = push_front(FromPeer(y), h)
  OBVIOUS
<1>6. PICK out : out = Routed(from, msg)
  OBVIOUS
<1>7. Frontend(q, y).out = out
  BY <1>1, <1>2, <1>3, <1>5, <1>6 DEF Frontend
<1>8. Head(send(msg)) = h
  BY <1>4, <1>5, FrontendSends
<1>9. x # h /\ x \in Ids
  BY <1>4, Identities DEF Ids
<1>10. out[x] = from[x]
  BY <1>3, <1>6, <1>8, <1>9 DEF Routed
<1>11. QED
  BY <1>3, <1>7, <1>10

\* So do heartbeats.
LEMMA HeartbeatsOut ==
    ASSUME NEW q, q = [queue |-> q.queue, expiry |-> q.expiry, out |-> q.out],
           Lists(q.queue), NEW x \in ClientIds
    PROVE  Heartbeats(q).out[x] = q.out[x]
<1>1. x \in Ids /\ x \notin WorkerIds
  BY Identities DEF Ids
<1>2. ~In(q, x)
  <2>1. \A i \in DOMAIN q.queue : q.queue[i] \in WorkerIds
    BY ElementOfSeq, LenProperties DEF Lists
  <2>2. QED
    BY <1>1, <2>1 DEF In
<1>3. PICK from : from = q.out
  OBVIOUS
<1>4. Heartbeats(q).out = [id \in Ids |->
          IF In(q, id) /\ id \in connected /\ from[id] = <<>>
          THEN <<Beat>> ELSE from[id]]
  BY <1>3 DEF Heartbeats, Beat
<1>5. QED
  BY <1>1, <1>2, <1>3, <1>4

\* An iteration that takes such a reply has it on its way to the client at the
\* end, whatever else it takes, sends and purges.
LEMMA IterationPassesOn ==
    ASSUME Types, Flow(toQueue, fromQueue, queue),
           NEW b \in WorkerIds, NEW f \in ClientIds \union {Nobody},
           NEW beat \in BOOLEAN, Iterates(b, f, beat),
           NEW x \in ClientIds, NEW n,
           Head(toQueue[b]) = Enveloped(x, n), ~StartsWithNul(x), x \in connected
    PROVE  fromQueue'[x] = Append(fromQueue[x], Request(n))
<1>1. PICK q1 : q1 = Backend(Now, b)
  OBVIOUS
<1>2. b # Nobody /\ b \in Ids /\ Nobody \notin Ids
  BY NobodyIsNobody DEF Ids
<1>3. /\ toQueue[b] # <<>>
      /\ f # Nobody => toQueue[f] # <<>> /\ queue # <<>>
  BY <1>2 DEF Iterates
<1>4. Queues(toQueue, fromQueue) /\ DOMAIN fromQueue = Ids
  BY DEF Flow, Queues
<1>5. q1.out[x] = Append(fromQueue[x], Request(n))
  BY <1>1, <1>4, ReplyOut
<1>6. PICK to1 : to1 = [toQueue EXCEPT ![b] = Tail(@)]
  OBVIOUS
<1>7. /\ Tables(q1) /\ Flow(to1, q1.out, q1.queue)
      /\ queue # <<>> => q1.queue # <<>>
  BY <1>1, <1>3, <1>6, BackendKeeps, BackendTables
<1>8. DOMAIN q1.out = Ids /\ Lists(q1.queue)
  BY <1>7 DEF Flow, Queues
<1>9. ~(f # Nobody /\ q1.queue = <<>>)
  BY <1>3, <1>7
<1>10. PICK q2 : q2 = IF f = Nobody THEN q1 ELSE Frontend(q1, f)
  OBVIOUS
<1>11. PICK q3 : q3 = IF beat THEN Heartbeats(q2) ELSE q2
  OBVIOUS
<1>12. PICK q4 : q4 = s_queue_purge(q3)
  OBVIOUS
<1>13. fromQueue' = q4.out
  BY <1>1, <1>2, <1>9, <1>10, <1>11, <1>12 DEF Iterates
<1>14. Tables(q2) /\ Lists(q2.queue) /\ q2.out[x] = q1.out[x]
  <2>1. CASE f = Nobody
    BY <1>7, <1>8, <1>10, <2>1
  <2>2. CASE f # Nobody
    <3>1. q2 = Frontend(q1, f) /\ f \in ClientIds /\ q1.queue # <<>>
      BY <1>9, <1>10, <2>2
    <3>2. Head(toQueue[f]) \in Calls
      <4>1. Queued(toQueue[f], Calls) /\ toQueue[f] # <<>>
        BY <1>3, <1>4, <2>2, <3>1 DEF Queues
      <4>2. QED
        BY <4>1, TailLoad
    <3>3. PICK k \in Numbers : Head(toQueue[f]) = Request(k)
      BY <3>2, MessageKinds
    <3>4. q1 = [queue |-> q1.queue, expiry |-> q1.expiry, out |-> q1.out]
      BY <1>7 DEF Tables
    <3>5. q2.out[x] = q1.out[x]
      BY <1>8, <3>1, <3>3, <3>4, FrontendOut
    <3>6. Tables(q2)
      BY <1>7, <3>1, LaterTables
    <3>7. q2.queue = Tail(q1.queue)
      <4>1. PICK msg : msg = push_front(FromPeer(f), Head(q1.queue))
        OBVIOUS
      <4>2. PICK out : out = Routed(q1.out, msg)
        OBVIOUS
      <4>3. PICK tail : tail = Tail(q1.queue)
        OBVIOUS
      <4>4. q2 = [queue |-> tail, expiry |-> q1.expiry, out |-> out]
        BY <3>1, <3>4, <4>1, <4>2, <4>3 DEF Frontend
      <4>5. QED
        BY <4>3, <4>4
    <3>8. Lists(Tail(q1.queue))
      BY <1>8, <3>1, TailMembers DEF Lists
    <3>9. QED
      BY <3>5, <3>6, <3>7, <3>8
  <2>3. QED
    BY <2>1, <2>2
<1>15. q3.out[x] = q2.out[x]
  <2>1. CASE beat
    <3>1. q2 = [queue |-> q2.queue, expiry |-> q2.expiry, out |-> q2.out]
      BY <1>14 DEF Tables
    <3>2. Heartbeats(q2).out[x] = q2.out[x]
      BY <1>14, <3>1, HeartbeatsOut
    <3>3. QED
      BY <1>11, <2>1, <3>2
  <2>2. CASE ~beat
    BY <1>11, <2>2
  <2>3. QED
    BY <2>1, <2>2
<1>16. q4.out = q3.out
  <2>1. Tables(q3)
    BY <1>11, <1>14, LaterTables
  <2>2. PICK a, e, o : q3 = [queue |-> a, expiry |-> e, out |-> o]
    BY <2>1 DEF Tables
  <2>3. QED
    BY <1>12, <2>2 DEF s_queue_purge
<1>17. QED
  BY <1>5, <1>13, <1>14, <1>15, <1>16

\* A worker that runs has its socket open: a worker closes it only to open
\* another one, or to die.
Open == \A w \in Workers : wstate[w] # "off" => Id(w) \in connected

\* What a peer does to its own socket leaves those of the others open.
LEMMA OthersOpen ==
    ASSUME Types, Open, NEW p \in Peers,
           \/ UNCHANGED <<session, connected>>
           \/ Closes(p) \/ \E first : Reconnects(p, first)
    PROVE  \A w \in Workers : w # p /\ wstate[w] # "off" => Id(w)' \in connected'
<1>1. \A w \in Workers : w \in Peers
  BY DEF Peers
<1>2. \A w \in Workers : w # p => session'[w] = session[w]
  BY <1>1, ReconnectsTypes DEF Closes
<1>3. \A id \in connected : id # Id(p) => id \in connected'
  BY DEF Closes, Reconnects
<1>4. \A w \in Workers : w # p => Id(w) # Id(p)
  BY <1>1, OwnIdentity
<1>5. \A w \in Workers : w # p => Id(w)' = Id(w)
  BY <1>2 DEF Id
<1>6. QED
  BY <1>3, <1>4, <1>5 DEF Open

\* A new socket is open.
LEMMA NewSocket ==
    ASSUME Types, NEW p \in Peers, NEW first, Reconnects(p, first)
    PROVE  Id(p)' \in connected'
<1>1. session'[p] = session[p] + 1
  BY ReconnectsTypes
<1>2. Identity(p, session[p] + 1) \in connected'
  BY DEF Reconnects
<1>3. QED
  BY <1>1, <1>2 DEF Id

\* Every step keeps the sockets of the workers that run open.
LEMMA OpenNext == ASSUME IInv, Open, [Next]_vars PROVE Open'
<1>1. /\ Types /\ Queues(toQueue, fromQueue)
      /\ wstate \in [Workers -> {"off", "polling", "working", "sleeping"}]
      /\ \A w \in Workers : w \in Peers
      /\ \A c \in Clients : c \in Peers /\ c \notin Workers
  BY PirateAssumption DEF IInv, Flow, Types, Peers
<1>2. ASSUME UNCHANGED <<session, connected>>,
             \A w \in Workers : wstate'[w] # "off" => wstate[w] # "off"
      PROVE  Open'
  BY <1>2 DEF Open, Id
<1>3. ASSUME NEW w \in Workers, NEW first, Reconnects(w, first),
             \A v \in Workers : v # w => wstate'[v] = wstate[v]
      PROVE  Open'
  BY <1>1, <1>3, OthersOpen, NewSocket DEF Open
<1>4. ASSUME NEW c \in Clients, wstate' = wstate,
             Closes(c) \/ \E first : Reconnects(c, first)
      PROVE  Open'
  BY <1>1, <1>4, OthersOpen DEF Open
<1>5. CASE QueueStep
  <2>1. UNCHANGED <<session, connected, wstate>>
    BY <1>5 DEF QueueStep, QueueIdles, Iterates, Tick, sockets, workerVars
  <2>2. QED
    BY <1>2, <2>1
<1>6. CASE QueueDies
  <2>1. wstate' = wstate
    BY <1>6 DEF QueueDies, workerVars
  <2>2. connected' = {Id(p)' : p \in {p \in Peers : Id(p) \in connected}}
    BY <1>1, <1>6, QueueDiesMoves DEF QueueDies
  <2>3. QED
    BY <1>1, <2>1, <2>2 DEF Open
<1>7. CASE QueueRestarts
  BY <1>2, <1>7 DEF QueueRestarts, sockets, jobs
<1>8. ASSUME NEW w \in Workers, WorkerStep(w) PROVE Open'
  <2>1. CASE WorkerStarts(w) \/ WorkerReconnects(w)
    <3>1. /\ Reconnects(w, Word("READY"))
          /\ wstate' = [wstate EXCEPT ![w] = "polling"]
      BY <2>1 DEF WorkerStarts, WorkerReconnects
    <3>2. QED
      BY <1>1, <1>3, <3>1
  <2>2. CASE WorkerTakes(w) \/ WorkerReplies(w) \/ WorkerTimesOut(w) \/ WorkerBeats(w)
    <3>1. UNCHANGED <<session, connected>> /\ wstate[w] # "off"
      BY <2>2 DEF WorkerTakes, WorkerReplies, WorkerTimesOut, WorkerBeats, JobDone,
                  Sends, sockets
    <3>2. wstate' = wstate \/ \E s : wstate' = [wstate EXCEPT ![w] = s]
      BY <2>2 DEF WorkerTakes, WorkerReplies, WorkerTimesOut, WorkerBeats, JobDone,
                  workerVars
    <3>3. QED
      BY <1>1, <1>2, <3>1, <3>2
  <2>3. CASE WorkerDies(w)
    <3>1. Closes(w) /\ wstate' = [wstate EXCEPT ![w] = "off"]
      BY <2>3 DEF WorkerDies, JobDies
    <3>2. \A v \in Workers : v # w /\ wstate[v] # "off" => Id(v)' \in connected'
      BY <1>1, <3>1, OthersOpen
    <3>3. QED
      BY <1>1, <3>1, <3>2 DEF Open
  <2>4. QED
    BY <1>8, <2>1, <2>2, <2>3 DEF WorkerStep
<1>9. ASSUME NEW c \in Clients, ClientStep(c) PROVE Open'
  <2>1. wstate' = wstate
    BY <1>9 DEF ClientStep, ClientCalls, ClientTakes, ClientTimesOut, jobs
  <2>2. CASE ClientTimesOut(c)
    BY <1>4, <2>1, <2>2 DEF ClientTimesOut
  <2>3. CASE ClientCalls(c) \/ ClientTakes(c)
    BY <1>2, <2>1, <2>3 DEF ClientCalls, ClientTakes, Sends
  <2>4. QED
    BY <1>9, <2>2, <2>3 DEF ClientStep
<1>10. CASE UNCHANGED vars
  BY <1>2, <1>10 DEF vars, sockets, workerVars
<1>11. QED
  BY <1>5, <1>6, <1>7, <1>8, <1>9, <1>10 DEF Next, QueueFails

\* Only an iteration with the message of worker id takes that message and leaves
\* the connections alone.
LEMMA OnlyIterations ==
    ASSUME IInv, Open, Next, NEW id \in WorkerIds, toQueue[id] # <<>>,
           toQueue'[id] = Tail(toQueue[id]), qstate = "running",
           qstate' = "running", connected' = connected
    PROVE  \E f \in ClientIds \union {Nobody}, beat \in BOOLEAN : Iterates(id, f, beat)
<1>1. /\ Types /\ Queues(toQueue, fromQueue)
      /\ id \in Ids /\ id \notin ClientIds /\ DOMAIN toQueue = Ids
      /\ \A w \in Workers : w \in Peers
      /\ \A c \in Clients : c \in Peers
  BY Identities DEF IInv, Flow, Queues, Ids, Peers
<1>2. PICK old : old = toQueue[id]
  OBVIOUS
<1>3. Queued(old, Offers) /\ old # <<>>
  BY <1>1, <1>2 DEF Queues
<1>4. Tail(old) # old /\ \A m \in Offers : Append(old, m) # Tail(old)
  <2>1. old \in Seq(Offers)
    BY <1>3 DEF Queued
  <2>2. Len(Tail(old)) = Len(old) - 1 /\ Len(old) \in Nat
    BY <1>3, <2>1, HeadTailProperties, LenProperties
  <2>3. Len(Tail(old)) # Len(old)
    BY <2>2
  <2>4. ASSUME NEW m \in Offers PROVE Append(old, m) # Tail(old)
    <3>1. Len(Append(old, m)) = Len(old) + 1
      BY <2>1, AppendProperties
    <3>2. Len(Append(old, m)) # Len(Tail(old))
      BY <2>2, <3>1
    <3>3. QED
      BY <3>2, Zenon
  <2>5. Tail(old) # old
    BY <2>3, Zenon
  <2>6. QED
    BY <2>4, <2>5
<1>5. toQueue'[id] = Tail(old) /\ toQueue'[id] # toQueue[id]
  BY <1>2, <1>4
<1>6. ASSUME UNCHANGED toQueue PROVE FALSE
  BY <1>5, <1>6
<1>7. ASSUME NEW p \in Peers, NEW frames, Sends(p, frames),
             p \in Workers => frames \in Offers
      PROVE  FALSE
  <2>1. toQueue' = [toQueue EXCEPT ![Id(p)] = Append(@, frames)]
    BY <1>7 DEF Sends
  <2>2. CASE id = Id(p)
    <3>1. toQueue'[id] = Append(old, frames)
      BY <1>1, <1>2, <2>1, <2>2
    <3>2. p \in Workers
      BY <1>1, <2>2, OwnIdentity DEF Peers
    <3>3. QED
      BY <1>4, <1>5, <1>7, <3>1, <3>2
  <2>3. CASE id # Id(p)
    BY <1>1, <1>5, <2>1, <2>3
  <2>4. QED
    BY <2>2, <2>3
<1>8. ASSUME NEW p \in Peers, NEW frames, Reconnects(p, frames) PROVE FALSE
  <2>1. PICK new : new = Identity(p, session[p] + 1)
    OBVIOUS
  <2>2. new \in connected'
    BY <1>8, <2>1 DEF Reconnects
  <2>3. session[p] < MaxSockets(p)
    BY <1>8 DEF Reconnects
  <2>4. new \notin connected
    BY <1>1, <2>1, <2>3, NextIdentity
  <2>5. QED
    BY <2>2, <2>4
<1>9. ASSUME NEW p \in Peers, Id(p) \in connected, Closes(p) PROVE FALSE
  BY <1>9 DEF Closes
<1>10. ASSUME NEW c \in Clients, Closes(c) PROVE FALSE
  <2>1. Id(c) # id
    BY <1>1, OwnIdentity
  <2>2. PICK s : toQueue' = [toQueue EXCEPT ![Id(c)] = s]
    BY <1>10 DEF Closes
  <2>3. QED
    BY <1>1, <1>5, <2>1, <2>2
<1>11. ASSUME NEW b \in WorkerIds \union {Nobody}, NEW f \in ClientIds \union {Nobody},
              NEW beat \in BOOLEAN, Iterates(b, f, beat)
       PROVE  b = id
  <2>1. \/ UNCHANGED toQueue
        \/ toQueue' = [i \in Ids |-> IF i \in {b, f} THEN Tail(toQueue[i]) ELSE toQueue[i]]
    BY <1>11 DEF Iterates
  <2>2. id # f
    BY <1>1, NobodyIsNobody
  <2>3. QED
    BY <1>1, <1>5, <2>1, <2>2
<1>12. CASE QueueStep
  <2>1. ~Tick
    BY <1>6 DEF Tick, sockets
  <2>2. \E b \in WorkerIds \union {Nobody}, f \in ClientIds \union {Nobody},
           beat \in BOOLEAN : Iterates(b, f, beat)
    BY <1>12, <2>1 DEF QueueStep, QueueIdles
  <2>3. QED
    BY <1>11, <2>2
<1>13. CASE QueueFails
  BY <1>13 DEF QueueFails, QueueDies, SocketsLoseQueue, QueueRestarts
<1>14. ASSUME NEW w \in Workers, WorkerStep(w) PROVE FALSE
  <2>1. CASE WorkerStarts(w) \/ WorkerReconnects(w)
    BY <1>1, <1>8, <2>1 DEF WorkerStarts, WorkerReconnects
  <2>2. CASE WorkerTakes(w) \/ WorkerTimesOut(w)
    BY <1>6, <2>2 DEF WorkerTakes, WorkerTimesOut, sockets
  <2>3. CASE WorkerBeats(w)
    <3>1. Sends(w, Beat)
      BY <2>3 DEF WorkerBeats, Beat
    <3>2. QED
      BY <1>1, <1>7, <3>1 DEF Offers
  <2>4. CASE WorkerReplies(w)
    <3>1. Sends(w, send(request[w])) /\ wstate[w] = "working"
      BY <2>4 DEF WorkerReplies, JobDone
    <3>2. request[w] \in Requests
      BY <3>1 DEF IInv, Hands
    <3>3. PICK x \in ClientIds, n \in Numbers : request[w] = Enveloped(x, n)
      BY <3>2, MessageKinds
    <3>4. send(request[w]) \in Offers
      BY <3>2, <3>3, WorkerHandles DEF Offers
    <3>5. QED
      BY <1>1, <1>7, <3>1, <3>4
  <2>5. CASE WorkerDies(w)
    <3>1. wstate[w] # "off" /\ Closes(w)
      BY <2>5 DEF WorkerDies, JobDies
    <3>2. Id(w) \in connected
      BY <3>1 DEF Open
    <3>3. QED
      BY <1>1, <1>9, <3>1, <3>2
  <2>6. QED
    BY <1>14, <2>1, <2>2, <2>3, <2>4, <2>5 DEF WorkerStep
<1>15. ASSUME NEW c \in Clients, ClientStep(c) PROVE FALSE
  <2>1. CASE ClientCalls(c)
    <3>1. Sends(c, Request(sequence[c] + 1)) /\ c \notin Workers
      BY <2>1, PirateAssumption DEF ClientCalls
    <3>2. QED
      BY <1>1, <1>7, <3>1
  <2>2. CASE ClientTakes(c)
    BY <1>6, <2>2 DEF ClientTakes
  <2>3. CASE ClientTimesOut(c)
    BY <1>1, <1>8, <1>10, <2>3 DEF ClientTimesOut
  <2>4. QED
    BY <1>15, <2>1, <2>2, <2>3 DEF ClientStep
<1>16. QED
  BY <1>12, <1>13, <1>14, <1>15 DEF Next

\* A reply ppqueue takes from a worker goes to the client (ppqueue.cpp:144), if
\* that still has its socket and its identity is its own: not one ZeroMQ made
\* up, which unwrap takes for the empty frame of the envelope.
THEOREM NamedClientsAnswered ==
    Spec => [][\A w \in WorkerIds, r \in Requests :
                  address(r).of \notin Anonymous => PassesOn(w, r)]_pirateVars
<1>1. ASSUME IInv, Open, Next, NEW w \in WorkerIds, NEW r \in Requests,
             address(r).of \notin Anonymous
      PROVE  PassesOn(w, r)
  <2> SUFFICES ASSUME {qstate, qstate'} = {"running"}, connected' = connected,
                      toQueue[w] # <<>>, Head(toQueue[w]) \in {r, <<Empty>> \o r},
                      toQueue'[w] = Tail(toQueue[w]), address(r) \in connected
               PROVE  fromQueue'[address(r)] = Append(fromQueue[address(r)], Tail(r))
    BY DEF PassesOn
  <2>1. Types /\ Flow(toQueue, fromQueue, queue)
    BY <1>1 DEF IInv
  <2>2. qstate = "running" /\ qstate' = "running"
    OBVIOUS
  <2>3. PICK x \in ClientIds, n \in Numbers : r = Enveloped(x, n)
    BY MessageKinds
  <2>4. address(r) = x /\ Tail(r) = Request(n)
    <3>1. r = <<x, Empty, Number(n)>>
      BY <2>3, Shapes
    <3>2. Head(r) = x
      BY <3>1, Frames3
    <3>3. QED
      BY <2>3, <3>2, Shapes DEF address
  <2>5. Head(toQueue[w]) = Enveloped(x, n)
    <3>1. Head(toQueue[w]) \in Offers
      <4>1. Queued(toQueue[w], Offers)
        BY <2>1 DEF Flow, Queues
      <4>2. QED
        BY <4>1, TailLoad
    <3>2. PICK double : double = <<Empty>> \o r
      OBVIOUS
    <3>3. double \notin {Beat, Greeting}
      BY <2>3, <3>2, Distinct, Zenon
    <3>4. double \notin Requests
      <4>1. \A y, k : Enveloped(y, k) # <<Empty>> \o Enveloped(x, n)
        BY Distinct
      <4>2. \A y, k : Enveloped(y, k) # double
        BY <2>3, <3>2, <4>1, Zenon
      <4>3. QED
        BY <4>2, MessageKinds, Zenon
    <3>5. double \notin Offers
      BY <3>3, <3>4 DEF Offers
    <3>6. QED
      BY <2>3, <3>1, <3>2, <3>5
  <2>6. ~StartsWithNul(x)
    <3>1. x = Identity(x.of, x.n) /\ x.of \notin Anonymous
      BY <1>1, <2>4, Identities DEF Ids
    <3>2. QED
      BY <3>1 DEF Identity, StartsWithNul
  <2>7. PICK f \in ClientIds \union {Nobody}, beat \in BOOLEAN : Iterates(w, f, beat)
    BY <1>1, <2>2, OnlyIterations
  <2>8. fromQueue'[x] = Append(fromQueue[x], Request(n))
    BY <2>1, <2>4, <2>5, <2>6, <2>7, IterationPassesOn
  <2>9. QED
    BY <2>4, <2>8
<1>2. Init => Open
  BY DEF Init, PirateInit, Open
<1>3. IInv /\ Open /\ [Next]_vars => Open'
  BY OpenNext
<1>4. IInv /\ Open /\ [Next]_vars =>
          [\A w \in WorkerIds, r \in Requests :
              address(r).of \notin Anonymous => PassesOn(w, r)]_pirateVars
  <2>1. UNCHANGED vars => UNCHANGED pirateVars
    BY DEF vars, pirateVars, queueVars, sockets, workerVars, clientVars, jobs
  <2>2. QED
    BY <1>1, <2>1
<1>5. QED
  BY <1>2, <1>3, <1>4, ParanoidInvariant, PTL DEF Spec
=============================================================================
