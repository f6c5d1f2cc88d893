--------------------------- MODULE PollList_proofs ---------------------------
(***************************************************************************)
(* What the operations of PollList return, for every poll list.            *)
(***************************************************************************)
EXTENDS PollList, SequenceTheorems, FiniteSetTheorems, WellFoundedInduction,
        TLAPS

\* A non-empty set of naturals contains its minimum (Min of FiniteSetsExt).
\* The strict subset ordering is well-founded on the intervals 1 .. n, so one
\* of those that end in S is minimal, and it ends in the minimum of S.
LEMMA MinInSet ==
    ASSUME NEW S \in SUBSET Nat, S # {}
    PROVE  Min(S) \in S /\ \A y \in S : Min(S) <= y
<1> DEFINE T == {1 .. n : n \in S}
<1>1. T \subseteq FiniteSubsetsOf(Nat)
  <2>1. ASSUME NEW n \in S PROVE 1 .. n \in FiniteSubsetsOf(Nat)
    <3>1. IsFiniteSet(1 .. n)
      BY FS_Interval
    <3>2. 1 .. n \in SUBSET Nat
      OBVIOUS
    <3>3. QED
      BY <3>1, <3>2 DEF FiniteSubsetsOf
  <2>2. QED
    BY <2>1
<1>2. IsWellFoundedOn(StrictSubsetOrdering(Nat), FiniteSubsetsOf(Nat))
  BY FS_StrictSubsetOrderingWellFounded
<1>3. T # {}
  OBVIOUS
<1>4. PICK t \in T : \A u \in T : ~(<<u, t>> \in StrictSubsetOrdering(Nat))
  <2> HIDE DEF T
  <2> QED
    BY <1>1, <1>2, <1>3, WFMin
<1>5. PICK x \in S : t = 1 .. x
  OBVIOUS
<1>6. ASSUME NEW y \in S PROVE x <= y
  <2> SUFFICES ASSUME y < x PROVE FALSE
    OBVIOUS
  <2>1. /\ 1 .. y \subseteq 1 .. x
        /\ x \in 1 .. x /\ x \notin 1 .. y
    OBVIOUS
  <2>2. 1 .. y # 1 .. x
    BY <2>1
  <2>3. 1 .. y \in SUBSET Nat /\ 1 .. x \in SUBSET Nat
    OBVIOUS
  <2>4. <<1 .. y, 1 .. x>> \in StrictSubsetOrdering(Nat)
    BY <2>1, <2>2, <2>3 DEF StrictSubsetOrdering
  <2>5. 1 .. y \in T
    OBVIOUS
  <2>6. QED
    BY <1>4, <1>5, <2>4, <2>5
<1>7. QED
  BY <1>6 DEF Min

\* Removing an index keeps a sequence over the same set and adds no element.
LEMMA RemoveAtProperties ==
    ASSUME NEW S, NEW s \in Seq(S), NEW k \in 1 .. Len(s)
    PROVE  /\ RemoveAt(s, k) \in Seq(S)
           /\ Len(RemoveAt(s, k)) = Len(s) - 1
           /\ \A j \in 1 .. Len(s) - 1 :
                  RemoveAt(s, k)[j] = IF j < k THEN s[j] ELSE s[j + 1]
<1> DEFINE a == SubSeq(s, 1, k - 1)
           b == SubSeq(s, k + 1, Len(s))
<1>0. Len(s) \in Nat /\ k \in Int
  BY LenProperties
<1>1. /\ a \in Seq(S) /\ Len(a) = k - 1
      /\ \A j \in 1 .. k - 1 : a[j] = s[j]
  <2>1. \A j \in 1 .. k - 1 : s[j] \in S
    BY <1>0, ElementOfSeq
  <2>2. QED
    BY <1>0, <2>1, SubSeqProperties
<1>2. /\ b \in Seq(S) /\ Len(b) = Len(s) - k
      /\ \A j \in 1 .. Len(s) - k : b[j] = s[j + k]
  <2>1. \A j \in k + 1 .. Len(s) : s[j] \in S
    BY <1>0, ElementOfSeq
  <2>2. /\ b \in Seq(S)
        /\ Len(b) = IF k + 1 <= Len(s) THEN Len(s) - (k + 1) + 1 ELSE 0
        /\ \A j \in 1 .. Len(s) - (k + 1) + 1 : b[j] = s[(k + 1) + j - 1]
    BY <1>0, <2>1, SubSeqProperties
  <2>3. QED
    BY <1>0, <2>2
<1>3. /\ a \o b \in Seq(S)
      /\ Len(a \o b) = Len(a) + Len(b)
      /\ \A j \in 1 .. Len(a) + Len(b) :
             (a \o b)[j] = IF j <= Len(a) THEN a[j] ELSE b[j - Len(a)]
  BY <1>1, <1>2, ConcatProperties
<1>4. RemoveAt(s, k) = a \o b
  BY DEF RemoveAt
<1> HIDE DEF a, b
<1>5. ASSUME NEW j \in 1 .. Len(s) - 1
      PROVE  (a \o b)[j] = IF j < k THEN s[j] ELSE s[j + 1]
  <2>1. CASE j < k
    BY <1>0, <1>1, <1>2, <1>3, <2>1
  <2>2. CASE ~(j < k)
    <3>1. (a \o b)[j] = b[j - (k - 1)]
      BY <1>0, <1>1, <1>2, <1>3, <2>2
    <3>2. j - (k - 1) \in 1 .. Len(s) - k
      BY <1>0, <2>2
    <3>3. b[j - (k - 1)] = s[(j - (k - 1)) + k]
      BY <1>2, <3>2
    <3>4. QED
      BY <1>0, <2>2, <3>1, <3>3
  <2>3. QED
    BY <2>1, <2>2
<1>6. QED
  BY <1>0, <1>1, <1>2, <1>3, <1>4, <1>5

\* register_fd adds one entry at the end.
LEMMA RegisterProperties ==
    ASSUME NEW Fds, NEW items \in Seq(Entry(Fds)),
           NEW f \in Fds, NEW g \in BOOLEAN
    PROVE  /\ register_fd(items, f, g) \in Seq(Entry(Fds))
           /\ Len(register_fd(items, f, g)) = Len(items) + 1
           /\ \A k \in 1 .. Len(items) : register_fd(items, f, g)[k] = items[k]
           /\ register_fd(items, f, g)[Len(items) + 1].fd = f
           /\ FdsOf(register_fd(items, f, g)) = FdsOf(items) \union {f}
  BY DEF register_fd, Entry, FdsOf

\* poll fills in revents and changes nothing else.
LEMMA PolledProperties ==
    ASSUME NEW Fds, NEW items \in Seq(Entry(Fds)), NEW R
    PROVE  /\ Polled(items, R) \in Seq(Entry(Fds))
           /\ Len(Polled(items, R)) = Len(items)
           /\ \A k \in 1 .. Len(items) : Polled(items, R)[k].fd = items[k].fd
           /\ FdsOf(Polled(items, R)) = FdsOf(items)
<1>1. DOMAIN items = 1 .. Len(items) /\ Len(items) \in Nat
  BY LenProperties
<1>2. \A k \in 1 .. Len(items) : items[k].fd \in Fds
  <2>1. \A k \in 1 .. Len(items) : items[k] \in Entry(Fds)
    BY ElementOfSeq
  <2>2. QED
    BY <2>1 DEF Entry
<1>3. Polled(items, R) \in [1 .. Len(items) -> Entry(Fds)]
  BY <1>1, <1>2 DEF Polled, Entry
<1>4. Polled(items, R) \in Seq(Entry(Fds))
  BY <1>1, <1>3, SeqDef
<1>5. Len(Polled(items, R)) = Len(items)
  BY <1>1, <1>3, <1>4, LenProperties
<1>6. QED
  BY <1>1, <1>4, <1>5 DEF Polled, FdsOf

\* deregister_fd takes one entry of that descriptor out and keeps the others,
\* in their order: no descriptor is added, and none but f can disappear.
LEMMA DeregisterProperties ==
    ASSUME NEW Fds, NEW items \in Seq(Entry(Fds)), NEW f
    PROVE  /\ deregister_fd(items, f) \in Seq(Entry(Fds))
           /\ FdsOf(deregister_fd(items, f)) \subseteq FdsOf(items)
           /\ FdsOf(items) \ {f} \subseteq FdsOf(deregister_fd(items, f))
<1>0. DOMAIN items = 1 .. Len(items) /\ Len(items) \in Nat
  BY LenProperties
<1>1. CASE EntriesOf(items, f) = {}
  BY <1>1 DEF deregister_fd
<1>2. CASE EntriesOf(items, f) # {}
  <2> DEFINE k == Min(EntriesOf(items, f))
             rest == RemoveAt(items, k)
  <2>1. deregister_fd(items, f) = rest
    BY <1>2 DEF deregister_fd
  <2>2. k \in 1 .. Len(items) /\ items[k].fd = f
    <3>1. EntriesOf(items, f) \in SUBSET Nat
      BY <1>0 DEF EntriesOf
    <3>2. k \in EntriesOf(items, f)
      BY <1>2, <3>1, MinInSet
    <3>3. QED
      BY <1>0, <3>2 DEF EntriesOf
  <2> HIDE DEF k, rest
  <2>3. /\ rest \in Seq(Entry(Fds))
        /\ Len(rest) = Len(items) - 1
        /\ \A j \in 1 .. Len(items) - 1 :
               rest[j] = IF j < k THEN items[j] ELSE items[j + 1]
    BY <2>2, RemoveAtProperties DEF rest
  <2>4. DOMAIN rest = 1 .. Len(items) - 1
    BY <2>3, LenProperties
  <2>5. ASSUME NEW j \in DOMAIN rest
        PROVE  rest[j].fd \in FdsOf(items)
    BY <1>0, <2>2, <2>3, <2>4 DEF FdsOf
  <2>6. ASSUME NEW j \in DOMAIN items, items[j].fd # f
        PROVE  items[j].fd \in FdsOf(rest)
    <3>1. CASE j < k
      <4>1. j \in 1 .. Len(items) - 1 /\ rest[j] = items[j]
        BY <1>0, <2>2, <2>3, <3>1
      <4>2. QED
        BY <2>4, <4>1 DEF FdsOf
    <3>2. CASE j > k
      <4>1. j - 1 \in 1 .. Len(items) - 1 /\ rest[j - 1] = items[j]
        BY <1>0, <2>2, <2>3, <3>2
      <4>2. QED
        BY <2>4, <4>1 DEF FdsOf
    <3>3. QED
      BY <1>0, <2>2, <2>6, <3>1, <3>2
  <2>7. FdsOf(rest) \subseteq FdsOf(items)
    BY <2>5 DEF FdsOf
  <2>8. FdsOf(items) \ {f} \subseteq FdsOf(rest)
    <3> SUFFICES ASSUME NEW x \in FdsOf(items), x # f
                 PROVE  x \in FdsOf(rest)
      OBVIOUS
    <3>1. PICK j \in DOMAIN items : x = items[j].fd
      BY DEF FdsOf
    <3>2. QED
      BY <2>6, <3>1
  <2>9. QED
    BY <2>1, <2>3, <2>7, <2>8
<1>3. QED
  BY <1>1, <1>2

\* The next callback to run is at an index of the list, at or after i, whose
\* entry is marked.
LEMMA NextFiredProperties ==
    ASSUME NEW Fds, NEW items \in Seq(Entry(Fds)), NEW i \in Nat
    PROVE  /\ NextFired(items, i) \in Nat
           /\ NextFired(items, i) # 0 =>
                  /\ NextFired(items, i) \in 1 .. Len(items)
                  /\ NextFired(items, i) >= i
                  /\ items[NextFired(items, i)].pollin
<1> DEFINE fired == {k \in DOMAIN items : k >= i /\ items[k].pollin}
<1>0. DOMAIN items = 1 .. Len(items) /\ Len(items) \in Nat
  BY LenProperties
<1>1. CASE fired = {}
  BY <1>1 DEF NextFired
<1>2. CASE fired # {}
  <2>1. fired \in SUBSET Nat
    BY <1>0
  <2>2. Min(fired) \in fired
    <3> HIDE DEF fired
    <3> QED
      BY <1>2, <2>1, MinInSet
  <2>3. NextFired(items, i) = Min(fired)
    BY <1>2 DEF NextFired
  <2>4. QED
    BY <1>0, <2>2, <2>3
<1>3. QED
  BY <1>1, <1>2
=============================================================================
