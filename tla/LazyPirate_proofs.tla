-------------------------- MODULE LazyPirate_proofs --------------------------
(***************************************************************************)
(* What a message has gone through unchanged: the envelope functions and   *)
(* the identity conversions of zmsg.hpp, for messages of any length; and   *)
(* what the proofs about either Pirate queue need of identities, messages  *)
(* and lists of workers.                                                   *)
(***************************************************************************)
EXTENDS LazyPirate, SequenceTheorems, FiniteSetTheorems, TLAPS

Messages == Seq(Part)

\* A string taken from a frame is a frame.
LEMMA CStrType ==
    ASSUME NEW part \in Part, Empty \in Part
    PROVE  CStr(part) \in Part
BY DEF CStr

\* push_front leaves a message of frames, and one with a frame.
LEMMA PushFront ==
    ASSUME NEW msg \in Messages, NEW part \in Part, Empty \in Part
    PROVE  /\ push_front(msg, part) \in Messages
           /\ push_front(msg, part) # <<>>
           /\ Head(push_front(msg, part)) = CStr(part)
           /\ Tail(push_front(msg, part)) = msg
<1> DEFINE p == CStr(part)
<1>1. p \in Part
  BY CStrType
<1> HIDE DEF p
<1>2. /\ <<p>> \o msg \in Seq(Part) /\ <<p>> \o msg # <<>>
      /\ Head(<<p>> \o msg) = p /\ Tail(<<p>> \o msg) = msg
  BY <1>1 DEF Messages
<1>3. QED
  BY <1>2 DEF push_front, Messages, p

\* unwrap undoes wrap: the delimiter goes and the body stays as it was, an
\* empty first part of it included (zmsg.hpp:230-246).
THEOREM UnwrapWrap ==
    ASSUME NEW msg \in Messages, NEW addr \in Part, Empty \in Part
    PROVE  /\ unwrap(wrap(msg, addr)) = msg
           /\ unwrapped(wrap(msg, addr)) = CStr(addr)
<1> DEFINE inner == push_front(msg, Empty)
<1>1. /\ inner \in Messages /\ inner # <<>>
      /\ Head(inner) = CStr(Empty) /\ Tail(inner) = msg
  BY PushFront
<1>2. StartsWithNul(CStr(Empty)) /\ CStr(CStr(addr)) = CStr(addr)
  BY DEF CStr, StartsWithNul, Empty
<1> HIDE DEF inner
<1>3. Head(push_front(inner, addr)) = CStr(addr) /\ Tail(push_front(inner, addr)) = inner
  BY <1>1, PushFront
<1>4. wrap(msg, addr) = push_front(inner, addr)
  BY DEF wrap, inner
<1>5. QED
  BY <1>1, <1>2, <1>3, <1>4 DEF unwrap, unwrapped, address

\* After wrap with no delimiter, as ppqueue and mdbroker address a message,
\* unwrap takes a part too many off exactly if what was wrapped begins with a
\* zero byte (zmsg.hpp:242): a delimiter, or a binary identity.
THEOREM UnwrapBare ==
    ASSUME NEW msg \in Messages, NEW addr \in Part, Empty \in Part
    PROVE  unwrap(wrap_bare(msg, addr)) =
               IF msg # <<>> /\ StartsWithNul(Head(msg)) THEN Tail(msg) ELSE msg
<1>1. Tail(push_front(msg, addr)) = msg
  BY PushFront
<1>2. QED
  BY <1>1 DEF unwrap, wrap_bare, address

\* What recv took from a socket send gives back, frame by frame, if no peer has
\* the printed form of an identity for its own (zmsg.hpp:78, :95).
THEOREM SendReceived ==
    ASSUME NEW frames \in Messages,
           \A i \in DOMAIN frames : frames[i].kind # "printed"
    PROVE  send(recv(frames)) = frames
<1>1. DOMAIN frames = 1 .. Len(frames) /\ \A i \in DOMAIN frames : frames[i] \in Part
  BY LenProperties, ElementOfSeq DEF Messages
<1>2. ASSUME NEW part \in Part, part.kind # "printed"
      PROVE  decode_uuid(encode_uuid(part)) = part
  BY <1>2 DEF decode_uuid, encode_uuid, Part
<1>3. DOMAIN recv(frames) = DOMAIN frames
      /\ \A i \in DOMAIN frames : recv(frames)[i] = encode_uuid(frames[i])
  BY DEF recv
<1>4. send(recv(frames)) = [i \in DOMAIN frames |-> decode_uuid(recv(frames)[i])]
  BY <1>3 DEF send
<1>5. \A i \in DOMAIN frames : decode_uuid(recv(frames)[i]) = frames[i]
  BY <1>1, <1>2, <1>3
<1>6. frames = [i \in DOMAIN frames |-> frames[i]]
  BY <1>1 DEF Messages
<1>7. QED
  BY <1>4, <1>5, <1>6

-----------------------------------------------------------------------------
(* Messages of the Pirates, frame by frame.                                *)

\* A frame before others, as recv of a ROUTER and push_front put it there.
LEMMA FrameBefore ==
    ASSUME NEW a, NEW S, a \in S, NEW s \in Seq(S), NEW t \in Seq(S),
           Len(t) = Len(s) + 1, t[1] = a, \A i \in 1 .. Len(s) : t[i + 1] = s[i]
    PROVE  <<a>> \o s = t
<1>1. /\ <<a>> \in Seq(S) /\ Len(<<a>>) = 1 /\ <<a>>[1] = a
      /\ Len(s) \in Nat
  BY LenProperties
<1>2. /\ <<a>> \o s \in Seq(S)
      /\ Len(<<a>> \o s) = 1 + Len(s)
      /\ \A i \in 1 .. 1 + Len(s) :
             (<<a>> \o s)[i] = IF i <= 1 THEN <<a>>[i] ELSE s[i - 1]
  BY <1>1, ConcatProperties
<1>3. \A i \in 1 .. 1 + Len(s) : i = 1 \/ (i - 1 \in 1 .. Len(s) /\ ~(i <= 1))
  BY <1>1
<1>4. \A i \in 1 .. 1 + Len(s) : i # 1 => t[i] = s[i - 1]
  BY <1>1, <1>3
<1>5. \A i \in 1 .. Len(<<a>> \o s) : (<<a>> \o s)[i] = t[i]
  BY <1>1, <1>2, <1>3, <1>4
<1>6. QED
  BY <1>1, <1>2, <1>5, SeqEqual

\* Heads and tails of messages of one to five frames.
LEMMA Frames1 == ASSUME NEW a PROVE Head(<<a>>) = a /\ Tail(<<a>>) = <<>>
  OBVIOUS

\* The same with a frame put before another.
LEMMA Frames2 ==
    ASSUME NEW a, NEW b
    PROVE  /\ <<a>> \o <<b>> = <<a, b>>
           /\ Head(<<a, b>>) = a /\ Tail(<<a, b>>) = <<b>>
<1>1. PICK S : S = {a, b}
  OBVIOUS
<1>2. <<b>> \in Seq(S) /\ <<a, b>> \in Seq(S) /\ a \in S
  BY <1>1
<1>3. /\ Len(<<b>>) = 1 /\ Len(<<a, b>>) = 2
      /\ Len(<<a, b>>) = Len(<<b>>) + 1 /\ <<a, b>>[1] = a
  OBVIOUS
<1>4. <<a, b>>[2] = <<b>>[1]
  OBVIOUS
<1>5. \A i \in 1 .. 1 : i = 1
  OBVIOUS
<1>6. \A i \in 1 .. Len(<<b>>) : <<a, b>>[i + 1] = <<b>>[i]
  BY <1>3, <1>4, <1>5
<1>7. <<a>> \o <<b>> = <<a, b>>
  BY <1>2, <1>3, <1>6, FrameBefore, Zenon
<1>8. Head(<<a, b>>) = a /\ Tail(<<a, b>>) = <<b>>
  OBVIOUS
<1>9. QED
  BY <1>7, <1>8

\* Putting a frame in front of two, and taking it off.
LEMMA Frames3 ==
    ASSUME NEW a, NEW b, NEW c
    PROVE  /\ <<a>> \o <<b, c>> = <<a, b, c>>
           /\ Head(<<a, b, c>>) = a /\ Tail(<<a, b, c>>) = <<b, c>>
<1>1. PICK S : S = {a, b, c}
  OBVIOUS
<1>2. <<b, c>> \in Seq(S) /\ <<a, b, c>> \in Seq(S) /\ a \in S
  BY <1>1
<1>3. /\ Len(<<b, c>>) = 2 /\ Len(<<a, b, c>>) = 3
      /\ Len(<<a, b, c>>) = Len(<<b, c>>) + 1 /\ <<a, b, c>>[1] = a
  OBVIOUS
<1>4. /\ <<a, b, c>>[2] = <<b, c>>[1]
      /\ <<a, b, c>>[3] = <<b, c>>[2]
  OBVIOUS
<1>5. \A i \in 1 .. 2 : i = 1 \/ i = 2
  OBVIOUS
<1>6. \A i \in 1 .. Len(<<b, c>>) : <<a, b, c>>[i + 1] = <<b, c>>[i]
  BY <1>3, <1>4, <1>5
<1>7. <<a>> \o <<b, c>> = <<a, b, c>>
  BY <1>2, <1>3, <1>6, FrameBefore, Zenon
<1>8. Head(<<a, b, c>>) = a /\ Tail(<<a, b, c>>) = <<b, c>>
  OBVIOUS
<1>9. QED
  BY <1>7, <1>8

\* Putting a frame in front of three, and taking it off.
LEMMA Frames4 ==
    ASSUME NEW a, NEW b, NEW c, NEW d
    PROVE  /\ <<a>> \o <<b, c, d>> = <<a, b, c, d>>
           /\ Head(<<a, b, c, d>>) = a /\ Tail(<<a, b, c, d>>) = <<b, c, d>>
<1>1. PICK S : S = {a, b, c, d}
  OBVIOUS
<1>2. <<b, c, d>> \in Seq(S) /\ <<a, b, c, d>> \in Seq(S) /\ a \in S
  BY <1>1
<1>3. /\ Len(<<b, c, d>>) = 3 /\ Len(<<a, b, c, d>>) = 4
      /\ Len(<<a, b, c, d>>) = Len(<<b, c, d>>) + 1 /\ <<a, b, c, d>>[1] = a
  OBVIOUS
<1>4. /\ <<a, b, c, d>>[2] = <<b, c, d>>[1]
      /\ <<a, b, c, d>>[3] = <<b, c, d>>[2]
      /\ <<a, b, c, d>>[4] = <<b, c, d>>[3]
  OBVIOUS
<1>5. \A i \in 1 .. 3 : i = 1 \/ i = 2 \/ i = 3
  OBVIOUS
<1>6. \A i \in 1 .. Len(<<b, c, d>>) : <<a, b, c, d>>[i + 1] = <<b, c, d>>[i]
  BY <1>3, <1>4, <1>5
<1>7. <<a>> \o <<b, c, d>> = <<a, b, c, d>>
  BY <1>2, <1>3, <1>6, FrameBefore, Zenon
<1>8. Head(<<a, b, c, d>>) = a /\ Tail(<<a, b, c, d>>) = <<b, c, d>>
  OBVIOUS
<1>9. QED
  BY <1>7, <1>8

\* Putting a frame in front of four, and taking it off.
LEMMA Frames5 ==
    ASSUME NEW a, NEW b, NEW c, NEW d, NEW e
    PROVE  /\ <<a>> \o <<b, c, d, e>> = <<a, b, c, d, e>>
           /\ Head(<<a, b, c, d, e>>) = a /\ Tail(<<a, b, c, d, e>>) = <<b, c, d, e>>
<1>1. PICK S : S = {a, b, c, d, e}
  OBVIOUS
<1>2. <<b, c, d, e>> \in Seq(S) /\ <<a, b, c, d, e>> \in Seq(S) /\ a \in S
  BY <1>1
<1>3. /\ Len(<<b, c, d, e>>) = 4 /\ Len(<<a, b, c, d, e>>) = 5
      /\ Len(<<a, b, c, d, e>>) = Len(<<b, c, d, e>>) + 1 /\ <<a, b, c, d, e>>[1] = a
  OBVIOUS
<1>4. /\ <<a, b, c, d, e>>[2] = <<b, c, d, e>>[1]
      /\ <<a, b, c, d, e>>[3] = <<b, c, d, e>>[2]
      /\ <<a, b, c, d, e>>[4] = <<b, c, d, e>>[3]
      /\ <<a, b, c, d, e>>[5] = <<b, c, d, e>>[4]
  OBVIOUS
<1>5. \A i \in 1 .. 4 : i = 1 \/ i = 2 \/ i = 3 \/ i = 4
  OBVIOUS
<1>6. \A i \in 1 .. Len(<<b, c, d, e>>) : <<a, b, c, d, e>>[i + 1] = <<b, c, d, e>>[i]
  BY <1>3, <1>4, <1>5
<1>7. <<a>> \o <<b, c, d, e>> = <<a, b, c, d, e>>
  BY <1>2, <1>3, <1>6, FrameBefore, Zenon
<1>8. Head(<<a, b, c, d, e>>) = a /\ Tail(<<a, b, c, d, e>>) = <<b, c, d, e>>
  OBVIOUS
<1>9. QED
  BY <1>7, <1>8

\* A part that is no uuid, printed or not, is sent and received as it is.
Plain(part) == encode_uuid(part) = part /\ decode_uuid(part) = part

\* recv and send (zmsg.hpp) leave frames alone that are no binary identities.
LEMMA PlainMessages ==
    ASSUME NEW msg, DOMAIN msg \subseteq Nat, msg = [i \in DOMAIN msg |-> msg[i]],
           \A i \in DOMAIN msg : Plain(msg[i])
    PROVE  recv(msg) = msg /\ send(msg) = msg
  BY DEF recv, send, Plain

\* Messages of three frames, as the REQ socket of a worker has them without the empty one.
LEMMA Plain3 ==
    ASSUME NEW a, NEW b, NEW c,
           Plain(a), Plain(b), Plain(c)
    PROVE  recv(<<a, b, c>>) = <<a, b, c>> /\ send(<<a, b, c>>) = <<a, b, c>>
  BY PlainMessages

\* Messages of five frames.
LEMMA Plain5 ==
    ASSUME NEW a, NEW b, NEW c, NEW d, NEW e,
           Plain(a), Plain(b), Plain(c), Plain(d), Plain(e)
    PROVE  recv(<<a, b, c, d, e>>) = <<a, b, c, d, e>> /\ send(<<a, b, c, d, e>>) = <<a, b, c, d, e>>
  BY PlainMessages

\* Identities are of one peer and one session, and no others are used.
LEMMA Identities ==
    /\ WorkerIds \intersect ClientIds = {}
    /\ \A p \in Peers : \A k : Plain(Identity(p, k)) /\ Identity(p, k).of = p
                           /\ Identity(p, k).n = k
    /\ \A id \in Ids : Plain(id) /\ id = Identity(id.of, id.n) /\ id.n \in Nat
    /\ \A id \in WorkerIds : CStr(id) = id /\ id.of \in Workers
                             /\ id.n \in 0 .. MaxWorkerSockets
    /\ \A x \in ClientIds : x.of \in Clients
                            /\ x.n \in 0 .. MaxClientSockets + MaxCrashes
    /\ \A w \in Workers, k \in 0 .. MaxWorkerSockets : Identity(w, k) \in WorkerIds
    /\ \A c \in Clients, k \in 0 .. MaxClientSockets + MaxCrashes :
           Identity(c, k) \in ClientIds
<1>1. \A p, k : /\ Plain(Identity(p, k)) /\ Identity(p, k).of = p
                /\ Identity(p, k).n = k
  BY DEF Identity, Plain, encode_uuid, decode_uuid
<1>2. \A w \in Workers : \A k : CStr(Identity(w, k)) = Identity(w, k)
  BY PirateAssumption DEF Identity, CStr, StartsWithNul
<1>3. ASSUME NEW id \in WorkerIds
      PROVE  /\ id = Identity(id.of, id.n) /\ CStr(id) = id /\ Plain(id)
             /\ id.of \in Workers /\ id.n \in 0 .. MaxWorkerSockets
  <2>1. PICK w \in Workers, k \in 0 .. MaxWorkerSockets : id = Identity(w, k)
    BY DEF WorkerIds
  <2>2. QED
    BY <1>1, <1>2, <2>1
<1>4. ASSUME NEW id \in ClientIds
      PROVE  /\ id = Identity(id.of, id.n) /\ Plain(id)
             /\ id.of \in Clients /\ id.n \in 0 .. MaxClientSockets + MaxCrashes
  <2>1. PICK c \in Clients, k \in 0 .. MaxClientSockets + MaxCrashes :
            id = Identity(c, k)
    BY DEF ClientIds
  <2>2. QED
    BY <1>1, <2>1
<1>5. WorkerIds \intersect ClientIds = {}
  BY <1>3, <1>4, PirateAssumption
<1>6. /\ 0 .. MaxWorkerSockets \subseteq Nat
      /\ 0 .. MaxClientSockets + MaxCrashes \subseteq Nat
  BY PirateAssumption
<1>7. \A id \in Ids : Plain(id) /\ id = Identity(id.of, id.n) /\ id.n \in Nat
  BY <1>3, <1>4, <1>6 DEF Ids
<1>8. /\ \A w \in Workers, k \in 0 .. MaxWorkerSockets : Identity(w, k) \in WorkerIds
      /\ \A c \in Clients, k \in 0 .. MaxClientSockets + MaxCrashes :
             Identity(c, k) \in ClientIds
  BY DEF WorkerIds, ClientIds
<1>9. QED
  BY <1>1, <1>3, <1>4, <1>5, <1>7, <1>8

\* The other frames of a message are texts or empty.
LEMMA PlainTexts ==
    /\ Plain(Empty) /\ \A word, n : Plain(Text(word, n))
    /\ StartsWithNul(Empty) /\ CStr(Empty) = Empty
  BY DEF Plain, Empty, Text, encode_uuid, decode_uuid, StartsWithNul, CStr

-----------------------------------------------------------------------------
(* Lists of workers.                                                       *)

Members(q) == {q[i] : i \in DOMAIN q}

\* The worker queue.
LEMMA AppendMembers ==
    ASSUME NEW S, NEW q \in Seq(S), NEW e \in S
    PROVE  /\ Append(q, e) \in Seq(S)
           /\ Members(Append(q, e)) = Members(q) \union {e}
           /\ (\A i, j \in DOMAIN q : q[i] = q[j] => i = j) /\ e \notin Members(q)
              => \A i, j \in DOMAIN Append(q, e) :
                     Append(q, e)[i] = Append(q, e)[j] => i = j
<1>1. PICK new : new = Append(q, e)
  OBVIOUS
<1>2. /\ Len(q) \in Nat /\ DOMAIN q = 1 .. Len(q)
      /\ new \in Seq(S) /\ DOMAIN new = 1 .. Len(q) + 1
      /\ \A i \in 1 .. Len(q) : new[i] = q[i]
      /\ new[Len(q) + 1] = e
  BY <1>1, AppendProperties, LenProperties
<1>3. PICK last : last = Len(q) + 1
  OBVIOUS
<1>4. /\ DOMAIN new = DOMAIN q \union {last} /\ last \notin DOMAIN q
      /\ \A i \in DOMAIN q : new[i] = q[i]
      /\ new[last] = e
  BY <1>2, <1>3
<1>5. Members(new) = Members(q) \union {e}
  BY <1>4 DEF Members
<1>6. ASSUME \A i, j \in DOMAIN q : q[i] = q[j] => i = j, e \notin Members(q)
      PROVE  \A i, j \in DOMAIN new : new[i] = new[j] => i = j
  BY <1>4, <1>6 DEF Members
<1>7. QED
  BY <1>1, <1>2, <1>5, <1>6

\* Dequeuing takes the first entry out of the list (pop_front in spqueue.cpp).
LEMMA TailMembers ==
    ASSUME NEW S, NEW q \in Seq(S), q # <<>>,
           \A i, j \in DOMAIN q : q[i] = q[j] => i = j
    PROVE  /\ Tail(q) \in Seq(S) /\ Head(q) \in S /\ Head(q) \in Members(q)
           /\ Members(Tail(q)) = Members(q) \ {Head(q)}
           /\ \A i, j \in DOMAIN Tail(q) : Tail(q)[i] = Tail(q)[j] => i = j
<1>1. PICK rest : rest = Tail(q)
  OBVIOUS
<1>2. /\ Len(q) \in Nat \ {0} /\ DOMAIN q = 1 .. Len(q) /\ Head(q) = q[1]
      /\ rest \in Seq(S) /\ DOMAIN rest = 1 .. Len(q) - 1 /\ Head(q) \in S
      /\ \A i \in 1 .. Len(q) - 1 : rest[i] = q[i + 1]
  BY <1>1, HeadTailProperties, LenProperties, EmptySeq
<1>3. /\ 1 \in DOMAIN q
      /\ \A i \in DOMAIN rest : i + 1 \in DOMAIN q /\ i + 1 # 1
      /\ \A i \in DOMAIN q : i = 1 \/ (i - 1 \in DOMAIN rest /\ rest[i - 1] = q[i])
      /\ \A i, j \in DOMAIN rest : i + 1 = j + 1 => i = j
  BY <1>2
<1>4. \A i \in DOMAIN rest : rest[i] = q[i + 1]
  BY <1>2
<1>5. \A i, j \in DOMAIN rest : rest[i] = rest[j] => i = j
  BY <1>3, <1>4
<1>6. Head(q) \in Members(q)
  BY <1>2, <1>3 DEF Members
<1>7. Members(rest) = Members(q) \ {Head(q)}
  <2>1. ASSUME NEW e \in Members(rest) PROVE e \in Members(q) /\ e # Head(q)
    <3>1. PICK i \in DOMAIN rest : e = rest[i]
      BY DEF Members
    <3>2. i + 1 \in DOMAIN q /\ i + 1 # 1 /\ e = q[i + 1]
      BY <1>3, <1>4, <3>1
    <3>3. QED
      BY <1>2, <1>3, <3>2 DEF Members
  <2>2. ASSUME NEW e \in Members(q), e # Head(q) PROVE e \in Members(rest)
    <3>1. PICK i \in DOMAIN q : e = q[i]
      BY DEF Members
    <3>2. i - 1 \in DOMAIN rest /\ rest[i - 1] = e
      BY <1>2, <1>3, <2>2, <3>1
    <3>3. QED
      BY <3>2 DEF Members
  <2>3. QED
    BY <2>1, <2>2
<1>8. QED
  BY <1>1, <1>2, <1>5, <1>6, <1>7

\* The list has as many entries as workers in it.
LEMMA QueueLength ==
    ASSUME NEW q \in Seq(WorkerIds), \A i, j \in DOMAIN q : q[i] = q[j] => i = j
    PROVE  /\ IsFiniteSet(Members(q)) /\ Cardinality(Members(q)) = Len(q)
           /\ Members(q) \subseteq WorkerIds
<1>1. Len(q) \in Nat /\ DOMAIN q = 1 .. Len(q) /\ \A i \in 1 .. Len(q) : q[i] \in WorkerIds
  BY LenProperties, ElementOfSeq
<1>2. PICK f : f = [i \in 1 .. Len(q) |-> q[i]]
  OBVIOUS
<1>3. f \in [1 .. Len(q) -> Members(q)]
  BY <1>1, <1>2 DEF Members
<1>4. \A i, j \in 1 .. Len(q) : f[i] = f[j] => i = j
  BY <1>1, <1>2
<1>5. \A e \in Members(q) : \E i \in 1 .. Len(q) : f[i] = e
  BY <1>1, <1>2 DEF Members
<1>6. f \in Bijection(1 .. Len(q), Members(q))
  BY <1>3, <1>4, <1>5 DEF Bijection, Injection, Surjection, IsInjective
<1>7. ExistsBijection(1 .. Len(q), Members(q))
  BY <1>6 DEF ExistsBijection
<1>8. IsFiniteSet(1 .. Len(q)) /\ Cardinality(1 .. Len(q)) = Len(q)
  BY <1>1, FS_Interval
<1>9. IsFiniteSet(Members(q)) /\ Cardinality(Members(q)) = Len(q)
  BY <1>7, <1>8, FS_Bijection
<1>10. QED
  BY <1>1, <1>9 DEF Members
=============================================================================
