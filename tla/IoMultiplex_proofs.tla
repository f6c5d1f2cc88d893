------------------------- MODULE IoMultiplex_proofs -------------------------
(***************************************************************************)
(* The two vectors of IoMultiplex stay parallel and hold the open          *)
(* descriptors once each, and an entry that poll(2) filled in is readable  *)
(* when its callback runs: proofs for any descriptors and whatever the     *)
(* callbacks register, deregister and replace while the vectors are walked.*)
(***************************************************************************)
EXTENDS IoMultiplex, PollList_proofs

\* The vectors and the owners of the descriptors agree.
Agree(items, cbs, own) ==
    /\ items \in Seq(Entry(Fds)) /\ cbs \in Seq(Callbacks)
    /\ Len(cbs) = Len(items)
    /\ own \in [Fds -> 0 .. MaxGen]
    /\ \A k \in 1 .. Len(items) :
          /\ cbs[k] = <<items[k].fd, own[items[k].fd]>>
          /\ own[items[k].fd] # 0
    /\ \A j, k \in 1 .. Len(items) : items[j].fd = items[k].fd => j = k
    /\ \A f \in Fds : own[f] # 0 => \E k \in 1 .. Len(items) : items[k].fd = f

\* The callbacks still to run are those of descriptors in R.
FiresOnly(items, n, R) ==
    \A k \in 1 .. Len(items) : k >= n /\ items[k].pollin => items[k].fd \in R

Inv ==
    /\ TypeOK
    /\ Agree(poll_items, cb_lists, owner)
    /\ i # 0 => FiresOnly(poll_items, i, readable \union new)

LEMMA EntryFields ==
    ASSUME NEW items \in Seq(Entry(Fds)), NEW k \in 1 .. Len(items)
    PROVE  items[k].fd \in Fds /\ items[k].pollin \in BOOLEAN
<1>1. items[k] \in Entry(Fds)
  BY ElementOfSeq
<1>2. QED
  BY <1>1 DEF Entry

-----------------------------------------------------------------------------
(* The operations keep the vectors in agreement.                           *)

LEMMA RegisterAgrees ==
    ASSUME NEW items, NEW cbs, NEW own, Agree(items, cbs, own),
           NEW f \in Fds, own[f] = 0, NEW n \in 1 .. MaxGen,
           NEW g \in BOOLEAN
    PROVE  Agree(register_fd(items, f, g), Append(cbs, <<f, n>>),
                 [own EXCEPT ![f] = n])
<1> DEFINE grown == register_fd(items, f, g)
           cbs2  == Append(cbs, <<f, n>>)
           own2  == [own EXCEPT ![f] = n]
           L     == Len(items)
<1>1. /\ items \in Seq(Entry(Fds)) /\ cbs \in Seq(Callbacks)
      /\ L \in Nat /\ Len(cbs) = L /\ own \in [Fds -> 0 .. MaxGen]
  BY LenProperties DEF Agree
<1>2. /\ grown \in Seq(Entry(Fds)) /\ Len(grown) = L + 1
      /\ \A k \in 1 .. L : grown[k] = items[k]
      /\ grown[L + 1].fd = f
  BY <1>1, RegisterProperties
<1>3. <<f, n>> \in Callbacks
  BY IoMultiplexAssumption DEF Callbacks
<1>4. /\ cbs2 \in Seq(Callbacks) /\ Len(cbs2) = L + 1
      /\ \A k \in 1 .. L : cbs2[k] = cbs[k]
      /\ cbs2[L + 1] = <<f, n>>
  <2> DEFINE cb == <<f, n>>
  <2>1. cb \in Callbacks
    BY <1>3
  <2> HIDE DEF cb
  <2>2. /\ Append(cbs, cb) \in Seq(Callbacks)
        /\ Len(Append(cbs, cb)) = Len(cbs) + 1
        /\ \A k \in 1 .. Len(cbs) : Append(cbs, cb)[k] = cbs[k]
        /\ Append(cbs, cb)[Len(cbs) + 1] = cb
    BY <1>1, <2>1, AppendProperties
  <2>3. QED
    BY <1>1, <2>2 DEF cb
<1>5. \A k \in 1 .. L : items[k].fd \in Fds
  BY <1>1, EntryFields
<1>6. \A k \in 1 .. L : items[k].fd # f
  BY DEF Agree
<1>7. /\ own2 \in [Fds -> 0 .. MaxGen] /\ own2[f] = n /\ n # 0
      /\ \A x \in Fds : x # f => own2[x] = own[x]
  <2>1. n \in 0 .. MaxGen /\ n # 0
    <3>1. MaxGen \in Nat /\ n \in 1 .. MaxGen
      BY IoMultiplexAssumption
    <3>2. QED
      BY <3>1
  <2>2. QED
    BY <1>1, <2>1
<1> HIDE DEF grown, cbs2, own2, L
<1>8. \A k \in 1 .. L + 1 :
         /\ cbs2[k] = <<grown[k].fd, own2[grown[k].fd]>>
         /\ own2[grown[k].fd] # 0
  <2> SUFFICES ASSUME NEW k \in 1 .. L + 1
               PROVE  /\ cbs2[k] = <<grown[k].fd, own2[grown[k].fd]>>
                      /\ own2[grown[k].fd] # 0
    OBVIOUS
  <2>1. CASE k \in 1 .. L
    <3>1. cbs[k] = <<items[k].fd, own[items[k].fd]>> /\ own[items[k].fd] # 0
      BY <2>1 DEF Agree, L
    <3>2. QED
      BY <1>2, <1>4, <1>5, <1>6, <1>7, <2>1, <3>1
  <2>2. CASE k = L + 1
    BY <1>2, <1>4, <1>7, <2>2
  <2>3. QED
    BY <1>1, <2>1, <2>2
<1>9. \A j, k \in 1 .. L + 1 : grown[j].fd = grown[k].fd => j = k
  <2>1. \A j, k \in 1 .. L : items[j].fd = items[k].fd => j = k
    BY DEF Agree, L
  <2>2. \A k \in 1 .. L + 1 : k \in 1 .. L \/ k = L + 1
    BY <1>1
  <2>3. QED
    BY <1>2, <1>6, <2>1, <2>2
<1>10. \A x \in Fds : own2[x] # 0 => \E k \in 1 .. L + 1 : grown[k].fd = x
  <2> SUFFICES ASSUME NEW x \in Fds, own2[x] # 0
               PROVE  \E k \in 1 .. L + 1 : grown[k].fd = x
    OBVIOUS
  <2>1. CASE x = f
    <3>1. L + 1 \in 1 .. L + 1
      BY <1>1
    <3>2. QED
      BY <1>2, <2>1, <3>1
  <2>2. CASE x # f
    <3>1. PICK k \in 1 .. L : items[k].fd = x
      BY <1>7, <2>2 DEF Agree, L
    <3>2. k \in 1 .. L + 1
      BY <1>1
    <3>3. QED
      BY <1>2, <3>1, <3>2
  <2>3. QED
    BY <2>1, <2>2
<1>11. QED
  BY <1>2, <1>4, <1>7, <1>8, <1>9, <1>10 DEF Agree, grown, cbs2, own2

\* deregister_fd of an open descriptor removes its only entry.
LEMMA OnlyEntry ==
    ASSUME NEW items, NEW cbs, NEW own, Agree(items, cbs, own),
           NEW f \in Fds, own[f] # 0
    PROVE  \E k \in 1 .. Len(items) :
              /\ items[k].fd = f
              /\ deregister_fd(items, f) = RemoveAt(items, k)
              /\ EraseCallback(cbs, items, f) = RemoveAt(cbs, k)
<1>1. items \in Seq(Entry(Fds)) /\ DOMAIN items = 1 .. Len(items)
  BY LenProperties DEF Agree
<1>2. PICK k \in 1 .. Len(items) : items[k].fd = f
  BY DEF Agree
<1>3. EntriesOf(items, f) # {} /\ EntriesOf(items, f) \in SUBSET Nat
  BY <1>1, <1>2 DEF EntriesOf
<1>4. Min(EntriesOf(items, f)) \in EntriesOf(items, f)
  BY <1>3, MinInSet
<1>5. Min(EntriesOf(items, f)) = k
  BY <1>1, <1>2, <1>4 DEF EntriesOf, Agree
<1>6. f \in FdsOf(items)
  BY <1>1, <1>2 DEF FdsOf
<1>7. QED
  BY <1>2, <1>3, <1>5, <1>6 DEF deregister_fd, EraseCallback

LEMMA DeregisterAgrees ==
    ASSUME NEW items, NEW cbs, NEW own, Agree(items, cbs, own),
           NEW f \in Fds, own[f] # 0
    PROVE  Agree(deregister_fd(items, f), EraseCallback(cbs, items, f),
                 [own EXCEPT ![f] = 0])
<1> DEFINE rest == deregister_fd(items, f)
           cbs2 == EraseCallback(cbs, items, f)
           own2 == [own EXCEPT ![f] = 0]
           L    == Len(items)
<1>1. /\ items \in Seq(Entry(Fds)) /\ cbs \in Seq(Callbacks)
      /\ L \in Nat /\ Len(cbs) = L /\ own \in [Fds -> 0 .. MaxGen]
  BY LenProperties DEF Agree
<1>2. PICK k \in 1 .. L : /\ items[k].fd = f
                          /\ rest = RemoveAt(items, k)
                          /\ cbs2 = RemoveAt(cbs, k)
  BY OnlyEntry
<1>3. /\ rest \in Seq(Entry(Fds)) /\ Len(rest) = L - 1
      /\ \A j \in 1 .. L - 1 : rest[j] = IF j < k THEN items[j] ELSE items[j + 1]
  BY <1>1, <1>2, RemoveAtProperties
<1>4. /\ cbs2 \in Seq(Callbacks) /\ Len(cbs2) = L - 1
      /\ \A j \in 1 .. L - 1 : cbs2[j] = IF j < k THEN cbs[j] ELSE cbs[j + 1]
  BY <1>1, <1>2, RemoveAtProperties
<1>5. /\ own2 \in [Fds -> 0 .. MaxGen] /\ own2[f] = 0
      /\ \A x \in Fds : x # f => own2[x] = own[x]
  BY <1>1, IoMultiplexAssumption
<1>6. \A j \in 1 .. L : items[j].fd \in Fds
  BY <1>1, EntryFields
<1>7. \A j, m \in 1 .. L : items[j].fd = items[m].fd => j = m
  BY DEF Agree
<1>8. \A j \in 1 .. L :
         cbs[j] = <<items[j].fd, own[items[j].fd]>> /\ own[items[j].fd] # 0
  BY DEF Agree
<1>9. \A x \in Fds : own[x] # 0 => \E j \in 1 .. L : items[j].fd = x
  BY DEF Agree
<1> HIDE DEF rest, cbs2, own2, L
<1> DEFINE at(j) == IF j < k THEN j ELSE j + 1
<1>10. \A j \in 1 .. L - 1 :
          /\ at(j) \in 1 .. L /\ at(j) # k
          /\ rest[j] = items[at(j)] /\ cbs2[j] = cbs[at(j)]
  BY <1>1, <1>2, <1>3, <1>4
<1>11. \A j, m \in 1 .. L - 1 : at(j) = at(m) => j = m
  BY <1>1, <1>2
<1>12. \A j \in 1 .. L : j # k => \E m \in 1 .. L - 1 : at(m) = j
  <2> SUFFICES ASSUME NEW j \in 1 .. L, j # k
               PROVE  \E m \in 1 .. L - 1 : at(m) = j
    OBVIOUS
  <2>1. CASE j < k
    <3>1. j \in 1 .. L - 1 /\ at(j) = j
      BY <1>1, <1>2, <2>1
    <3>2. QED
      BY <3>1
  <2>2. CASE j > k
    <3>1. j - 1 \in 1 .. L - 1 /\ at(j - 1) = j
      BY <1>1, <1>2, <2>2
    <3>2. QED
      BY <3>1
  <2>3. QED
    BY <1>1, <1>2, <2>1, <2>2
<1> HIDE DEF at
<1>13. \A j \in 1 .. L - 1 :
          /\ cbs2[j] = <<rest[j].fd, own2[rest[j].fd]>>
          /\ own2[rest[j].fd] # 0
  BY <1>2, <1>5, <1>6, <1>7, <1>8, <1>10
<1>14. \A j, m \in 1 .. L - 1 : rest[j].fd = rest[m].fd => j = m
  BY <1>7, <1>10, <1>11
<1>15. \A x \in Fds : own2[x] # 0 => \E j \in 1 .. L - 1 : rest[j].fd = x
  <2> SUFFICES ASSUME NEW x \in Fds, own2[x] # 0
               PROVE  \E j \in 1 .. L - 1 : rest[j].fd = x
    OBVIOUS
  <2>1. PICK j \in 1 .. L : items[j].fd = x
    BY <1>5, <1>9
  <2>2. j # k
    BY <1>2, <1>5, <2>1
  <2>3. PICK m \in 1 .. L - 1 : at(m) = j
    BY <1>12, <2>2
  <2>4. QED
    BY <1>10, <2>1, <2>3
<1>16. QED
  BY <1>3, <1>4, <1>5, <1>13, <1>14, <1>15 DEF Agree, rest, cbs2, own2

LEMMA PolledAgrees ==
    ASSUME NEW items, NEW cbs, NEW own, NEW R, Agree(items, cbs, own)
    PROVE  /\ Agree(Polled(items, R), cbs, own)
           /\ FiresOnly(Polled(items, R), 1, R)
<1>1. items \in Seq(Entry(Fds)) /\ DOMAIN items = 1 .. Len(items)
  BY LenProperties DEF Agree
<1>2. /\ Polled(items, R) \in Seq(Entry(Fds))
      /\ Len(Polled(items, R)) = Len(items)
      /\ \A k \in 1 .. Len(items) : Polled(items, R)[k].fd = items[k].fd
  BY <1>1, PolledProperties
<1>3. \A k \in 1 .. Len(items) :
         Polled(items, R)[k].pollin => items[k].fd \in R
  BY <1>1 DEF Polled
<1>4. FiresOnly(Polled(items, R), 1, R)
  BY <1>2, <1>3 DEF FiresOnly
<1>5. Agree(Polled(items, R), cbs, own)
  BY <1>2 DEF Agree
<1>6. QED
  BY <1>4, <1>5

-----------------------------------------------------------------------------
(* What is left of a pass.                                                 *)

\* A new descriptor may be served in the same pass.
LEMMA RegisterFires ==
    ASSUME NEW items \in Seq(Entry(Fds)), NEW n, NEW R,
           FiresOnly(items, n, R), NEW f \in Fds, NEW g \in BOOLEAN
    PROVE  FiresOnly(register_fd(items, f, g), n, R \union {f})
<1>1. /\ Len(items) \in Nat
      /\ Len(register_fd(items, f, g)) = Len(items) + 1
      /\ \A k \in 1 .. Len(items) : register_fd(items, f, g)[k] = items[k]
      /\ register_fd(items, f, g)[Len(items) + 1].fd = f
  BY RegisterProperties, LenProperties
<1>2. QED
  BY <1>1 DEF FiresOnly

\* An erase moves entries forward, out of what is left of the pass at most.
LEMMA DeregisterFires ==
    ASSUME NEW items, NEW cbs, NEW own, Agree(items, cbs, own),
           NEW n \in Nat, NEW R, FiresOnly(items, n, R),
           NEW f \in Fds, own[f] # 0
    PROVE  FiresOnly(deregister_fd(items, f), n, R)
<1> DEFINE rest == deregister_fd(items, f)
           L    == Len(items)
<1>1. items \in Seq(Entry(Fds)) /\ L \in Nat
  BY LenProperties DEF Agree
<1>2. PICK k \in 1 .. L : rest = RemoveAt(items, k)
  BY OnlyEntry
<1>3. /\ Len(rest) = L - 1
      /\ \A j \in 1 .. L - 1 : rest[j] = IF j < k THEN items[j] ELSE items[j + 1]
  BY <1>1, <1>2, RemoveAtProperties
<1>4. \A j \in 1 .. L : j >= n /\ items[j].pollin => items[j].fd \in R
  BY DEF FiresOnly
<1> HIDE DEF rest, L
<1>5. ASSUME NEW j \in 1 .. L - 1, j >= n, rest[j].pollin
      PROVE  rest[j].fd \in R
  <2>1. CASE j < k
    <3>1. rest[j] = items[j] /\ j \in 1 .. L
      BY <1>1, <1>3, <2>1
    <3>2. QED
      BY <1>4, <1>5, <3>1
  <2>2. CASE ~(j < k)
    <3>1. rest[j] = items[j + 1] /\ j + 1 \in 1 .. L /\ j + 1 >= n
      BY <1>1, <1>3, <1>5, <2>2
    <3>2. QED
      BY <1>4, <1>5, <3>1
  <2>3. QED
    BY <2>1, <2>2
<1>6. QED
  BY <1>3, <1>5 DEF FiresOnly, rest

\* The callback that runs reads its descriptor, which has no other entry.
LEMMA OneServed ==
    ASSUME NEW items, NEW cbs, NEW own, Agree(items, cbs, own),
           NEW n \in Nat, NEW R, FiresOnly(items, n, R),
           NEW k \in 1 .. Len(items), k >= n
    PROVE  FiresOnly(items, k + 1, R \ {items[k].fd})
<1> SUFFICES ASSUME NEW j \in 1 .. Len(items), j >= k + 1, items[j].pollin
             PROVE  items[j].fd \in R \ {items[k].fd}
  BY DEF FiresOnly
<1>1. Len(items) \in Nat
  BY LenProperties DEF Agree
<1>2. j >= n /\ j # k
  BY <1>1
<1>3. items[j].fd # items[k].fd
  BY <1>2 DEF Agree
<1>4. QED
  BY <1>2, <1>3 DEF FiresOnly

\* Every entry is of an open descriptor.
LEMMA AgreeOpen ==
    ASSUME NEW items, NEW cbs, NEW own, Agree(items, cbs, own),
           NEW n, NEW R, FiresOnly(items, n, R)
    PROVE  FiresOnly(items, n, R \intersect {x \in Fds : own[x] # 0})
<1>1. \A k \in 1 .. Len(items) : items[k].fd \in Fds /\ own[items[k].fd] # 0
  BY EntryFields DEF Agree
<1>2. QED
  BY <1>1 DEF FiresOnly

-----------------------------------------------------------------------------
(* The invariant.                                                          *)

LEMMA InvInit == Init => Inv
<1> SUFFICES ASSUME Init PROVE Inv
  OBVIOUS
<1>1. PICK f \in Fds, garbage \in Garbage :
         /\ poll_items = <<[fd |-> f, pollin |-> garbage]>>
         /\ cb_lists = << <<f, 1>> >>
         /\ owner = [x \in Fds |-> IF x = f THEN 1 ELSE 0]
         /\ gen = owner
  BY DEF Init
<1>2. 0 \in 0 .. MaxGen /\ 1 \in 0 .. MaxGen /\ garbage \in BOOLEAN
  BY IoMultiplexAssumption
<1>3. /\ poll_items \in Seq(Entry(Fds)) /\ Len(poll_items) = 1
      /\ poll_items[1].fd = f
  BY <1>1, <1>2 DEF Entry
<1>4. <<f, 1>> \in Callbacks
  BY <1>2 DEF Callbacks
<1>5. cb_lists \in Seq(Callbacks) /\ Len(cb_lists) = 1 /\ cb_lists[1] = <<f, 1>>
  BY <1>1, <1>4
<1>6. /\ owner \in [Fds -> 0 .. MaxGen] /\ owner[f] = 1
      /\ \A x \in Fds : owner[x] # 0 => x = f
  BY <1>1, <1>2
<1>7. \A k \in 1 .. Len(poll_items) : k = 1
  BY <1>3
<1>8. Agree(poll_items, cb_lists, owner)
  BY <1>3, <1>5, <1>6, <1>7 DEF Agree
<1>9. TypeOK
  BY <1>1, <1>3, <1>5, <1>6 DEF Init, TypeOK
<1>10. QED
  BY <1>8, <1>9 DEF Init, Inv

LEMMA EffectAgrees ==
    ASSUME Inv, NEW f \in Fds, CallbackEffect(f),
           NEW n \in Nat, NEW R, FiresOnly(poll_items, n, R)
    PROVE  /\ Agree(poll_items', cb_lists', owner')
           /\ FiresOnly(poll_items', n,
                        R \union {x \in Fds : gen'[x] # gen[x]})
           /\ gen' \in [Fds -> 0 .. MaxGen]
<1> DEFINE changed == {x \in Fds : gen'[x] # gen[x]}
<1>1. /\ Agree(poll_items, cb_lists, owner)
      /\ gen \in [Fds -> 0 .. MaxGen] /\ owner \in [Fds -> 0 .. MaxGen]
      /\ poll_items \in Seq(Entry(Fds))
  BY DEF Inv, TypeOK
<1>2. ASSUME NEW x \in Fresh
      PROVE  /\ x \in Fds /\ owner[x] = 0
             /\ gen[x] + 1 \in 1 .. MaxGen
             /\ [gen EXCEPT ![x] = @ + 1] \in [Fds -> 0 .. MaxGen]
             /\ [gen EXCEPT ![x] = @ + 1][x] # gen[x]
  <2>1. x \in Fds /\ owner[x] = 0 /\ gen[x] < MaxGen
    BY <1>2 DEF Fresh, Open
  <2>2. gen[x] \in Nat /\ MaxGen \in Nat
    BY <1>1, <2>1, IoMultiplexAssumption
  <2>3. gen[x] + 1 \in 1 .. MaxGen /\ gen[x] + 1 \in 0 .. MaxGen
    BY <2>1, <2>2
  <2>4. [gen EXCEPT ![x] = gen[x] + 1] \in [Fds -> 0 .. MaxGen]
    BY <1>1, <2>3
  <2>5. [gen EXCEPT ![x] = gen[x] + 1][x] = gen[x] + 1
    BY <1>1, <2>1
  <2>6. gen[x] + 1 # gen[x]
    BY <2>2
  <2>7. QED
    BY <2>1, <2>3, <2>4, <2>5, <2>6
<1>3. CASE UNCHANGED <<poll_items, cb_lists, owner, gen>>
  BY <1>1, <1>3 DEF FiresOnly
<1>4. ASSUME NEW x \in Fresh, NEW garbage \in Garbage, Register(x, garbage)
      PROVE  /\ Agree(poll_items', cb_lists', owner')
             /\ FiresOnly(poll_items', n, R \union changed)
             /\ gen' \in [Fds -> 0 .. MaxGen]
  <2>1. garbage \in BOOLEAN
    BY IoMultiplexAssumption
  <2>2. Agree(poll_items', cb_lists', owner')
    BY <1>1, <1>2, <1>4, <2>1, RegisterAgrees DEF Register
  <2>3. FiresOnly(poll_items', n, R \union {x})
    BY <1>1, <1>2, <1>4, <2>1, RegisterFires DEF Register
  <2>4. x \in changed
    BY <1>2, <1>4 DEF Register
  <2>5. QED
    BY <1>2, <1>4, <2>2, <2>3, <2>4 DEF FiresOnly, Register
<1>5. ASSUME NEW x \in Open, Deregister(x)
      PROVE  /\ Agree(poll_items', cb_lists', owner')
             /\ FiresOnly(poll_items', n, R \union changed)
             /\ gen' \in [Fds -> 0 .. MaxGen]
  <2>1. x \in Fds /\ owner[x] # 0
    BY DEF Open
  <2>2. Agree(poll_items', cb_lists', owner')
    BY <1>1, <1>5, <2>1, DeregisterAgrees DEF Deregister
  <2>3. FiresOnly(poll_items', n, R)
    BY <1>1, <1>5, <2>1, DeregisterFires DEF Deregister
  <2>4. QED
    BY <1>1, <1>5, <2>2, <2>3 DEF FiresOnly, Deregister
<1>6. ASSUME NEW old \in Open \ {f}, NEW x \in Fresh, NEW garbage \in Garbage,
             Replace(old, x, garbage)
      PROVE  /\ Agree(poll_items', cb_lists', owner')
             /\ FiresOnly(poll_items', n, R \union changed)
             /\ gen' \in [Fds -> 0 .. MaxGen]
  <2> DEFINE grown == register_fd(poll_items, x, garbage)
             cbs   == Append(cb_lists, <<x, gen[x] + 1>>)
             own   == [owner EXCEPT ![x] = gen[x] + 1]
  <2>1. garbage \in BOOLEAN /\ old \in Fds /\ owner[old] # 0 /\ old # x
    BY IoMultiplexAssumption DEF Open, Fresh
  <2>2. Agree(grown, cbs, own)
    BY <1>1, <1>2, <2>1, RegisterAgrees
  <2>3. FiresOnly(grown, n, R \union {x})
    BY <1>1, <1>2, <2>1, RegisterFires
  <2>4. own[old] # 0
    BY <1>1, <2>1
  <2>5. /\ poll_items' = deregister_fd(grown, old)
        /\ cb_lists' = EraseCallback(cbs, grown, old)
        /\ owner' = [own EXCEPT ![old] = 0]
        /\ gen' = [gen EXCEPT ![x] = @ + 1]
    BY <1>6 DEF Replace
  <2> HIDE DEF grown, cbs, own
  <2>6. Agree(poll_items', cb_lists', owner')
    BY <2>1, <2>2, <2>4, <2>5, DeregisterAgrees
  <2>7. FiresOnly(poll_items', n, R \union {x})
    BY <2>1, <2>2, <2>3, <2>4, <2>5, DeregisterFires
  <2>8. x \in changed
    BY <1>2, <2>5
  <2>9. QED
    BY <1>2, <2>5, <2>6, <2>7, <2>8 DEF FiresOnly
<1>7. QED
  BY <1>3, <1>4, <1>5, <1>6 DEF CallbackEffect

LEMMA InvNext == Inv /\ [Next]_vars => Inv'
<1> SUFFICES ASSUME Inv, [Next]_vars PROVE Inv'
  OBVIOUS
<1>1. /\ TypeOK /\ Agree(poll_items, cb_lists, owner)
      /\ i # 0 => FiresOnly(poll_items, i, readable \union new)
  BY DEF Inv
<1>2. CASE Poll
  <2>1. /\ Agree(poll_items', cb_lists', owner')
        /\ FiresOnly(poll_items', 1, readable)
    BY <1>1, <1>2, PolledAgrees DEF Poll
  <2>2. FiresOnly(poll_items', i', readable' \union new')
    BY <1>2, <2>1 DEF Poll, FiresOnly
  <2>3. TypeOK'
    BY <1>1, <1>2, <2>1 DEF Poll, TypeOK, Agree
  <2>4. QED
    BY <2>1, <2>2, <2>3 DEF Inv
<1>3. CASE RunCallback
  <2> DEFINE k == NextFired(poll_items, i)
             f == poll_items[k].fd
             R == (readable \union new) \ {f}
             changed == {x \in Fds : gen'[x] # gen[x]}
  <2>1. /\ i # 0 /\ k # 0 /\ i' = k + 1
        /\ CallbackEffect(f)
        /\ readable' = (readable \ {f}) \intersect {x \in Fds : owner'[x] # 0}
        /\ new' = new \union changed
    BY <1>3 DEF RunCallback
  <2>2. i \in Nat /\ poll_items \in Seq(Entry(Fds))
    BY <1>1 DEF TypeOK
  <2>3. k \in 1 .. Len(poll_items) /\ k >= i /\ k + 1 \in Nat
    <3>1. k \in 1 .. Len(poll_items) /\ k >= i
      BY <2>1, <2>2, NextFiredProperties
    <3>2. QED
      BY <3>1
  <2>4. f \in Fds
    BY <2>2, <2>3, EntryFields
  <2> HIDE DEF k
  <2>5. FiresOnly(poll_items, k + 1, R)
    BY <1>1, <2>1, <2>2, <2>3, OneServed
  <2> HIDE DEF f, R
  <2>6. /\ Agree(poll_items', cb_lists', owner')
        /\ FiresOnly(poll_items', k + 1, R \union changed)
        /\ gen' \in [Fds -> 0 .. MaxGen]
    BY <2>1, <2>3, <2>4, <2>5, EffectAgrees
  <2>7. FiresOnly(poll_items', k + 1,
                  (R \union changed) \intersect {x \in Fds : owner'[x] # 0})
    BY <2>6, AgreeOpen
  <2>8. (R \union changed) \intersect {x \in Fds : owner'[x] # 0}
            \subseteq readable' \union new'
    BY <2>1 DEF R
  <2>9. FiresOnly(poll_items', i', readable' \union new')
    BY <2>1, <2>7, <2>8 DEF FiresOnly
  <2>10. readable' \subseteq Fds /\ new' \subseteq Fds
    BY <1>1, <2>1 DEF TypeOK
  <2>11. TypeOK'
    BY <2>1, <2>3, <2>6, <2>10 DEF TypeOK, Agree
  <2>12. QED
    BY <2>6, <2>9, <2>11 DEF Inv
<1>4. CASE EndPass
  BY <1>1, <1>4 DEF EndPass, Inv, TypeOK
<1>5. ASSUME NEW f \in Fds, Arrive(f)
      PROVE  Inv'
  BY <1>1, <1>5 DEF Arrive, Inv, TypeOK, FiresOnly
<1>6. CASE UNCHANGED vars
  BY <1>1, <1>6 DEF vars, Inv, TypeOK
<1>7. QED
  BY <1>2, <1>3, <1>4, <1>5, <1>6 DEF Next

LEMMA InvHolds == Spec => []Inv
BY InvInit, InvNext, PTL DEF Spec

-----------------------------------------------------------------------------

LEMMA InvImplies ==
    ASSUME Inv
    PROVE  VectorsParallel /\ OneEntryPerOpenFd /\ BlocksOnlyOnNew
<1>1. /\ Agree(poll_items, cb_lists, owner)
      /\ i # 0 => FiresOnly(poll_items, i, readable \union new)
      /\ i \in Nat
      /\ poll_items \in Seq(Entry(Fds)) /\ DOMAIN poll_items = 1 .. Len(poll_items)
  BY LenProperties DEF Inv, TypeOK
<1>2. VectorsParallel
  BY <1>1 DEF VectorsParallel, Agree
<1>3. OneEntryPerOpenFd
  <2> SUFFICES ASSUME NEW f \in Fds
               PROVE  Cardinality({k \in DOMAIN poll_items :
                                      poll_items[k].fd = f})
                          = IF f \in Open THEN 1 ELSE 0
    BY DEF OneEntryPerOpenFd
  <2>1. CASE f \in Open
    <3>1. PICK k \in 1 .. Len(poll_items) : poll_items[k].fd = f
      BY <1>1, <2>1 DEF Agree, Open
    <3>2. {j \in DOMAIN poll_items : poll_items[j].fd = f} = {k}
      BY <1>1, <3>1 DEF Agree
    <3>3. QED
      BY <2>1, <3>2, FS_Singleton
  <2>2. CASE f \notin Open
    <3>1. {j \in DOMAIN poll_items : poll_items[j].fd = f} = {}
      BY <1>1, <2>2 DEF Agree, Open
    <3>2. QED
      BY <2>2, <3>1, FS_EmptySet
  <2>3. QED
    BY <2>1, <2>2
<1>4. BlocksOnlyOnNew
  <2> SUFFICES ASSUME Blocked
               PROVE  poll_items[NextFired(poll_items, i)].fd \in new
    BY DEF BlocksOnlyOnNew
  <2> DEFINE k == NextFired(poll_items, i)
  <2>1. i # 0 /\ k # 0 /\ poll_items[k].fd \notin readable
    BY DEF Blocked
  <2>2. k \in 1 .. Len(poll_items) /\ k >= i /\ poll_items[k].pollin
    BY <1>1, <2>1, NextFiredProperties
  <2>3. QED
    BY <1>1, <2>1, <2>2 DEF FiresOnly
<1>5. QED
  BY <1>2, <1>3, <1>4

\* poll_items and cb_lists name the same descriptor and its present owner at
\* every index, whatever runs while PollEventHandler walks them.
THEOREM ParallelVectors == Spec => []VectorsParallel
<1>1. Inv => VectorsParallel
  BY InvImplies
<1>2. QED
  BY <1>1, InvHolds, PTL

\* register_fd and deregister_fd leave one entry per open descriptor and none
\* of a closed one.
THEOREM OneEntryEach == Spec => []OneEntryPerOpenFd
<1>1. Inv => OneEntryPerOpenFd
  BY InvImplies
<1>2. QED
  BY <1>1, InvHolds, PTL

\* A callback blocks only through the revents that register_fd leaves
\* unassigned: what poll(2) reported is still there when the loop comes to it.
THEOREM BlockedByGarbageOnly == Spec => []BlocksOnlyOnNew
<1>1. Inv => BlocksOnlyOnNew
  BY InvImplies
<1>2. QED
  BY <1>1, InvHolds, PTL
=============================================================================
