---------------------------- MODULE IoMultiplex -----------------------------
(***************************************************************************)
(* Class IoMultiplex (comm/IoMultiplex.cpp) and the clients that register  *)
(* descriptors with it.                                                    *)
(*                                                                         *)
(* The two vectors poll_items and cb_lists are kept apart, as in the       *)
(* class, and a callback is named by the descriptor and the object that    *)
(* registered it.  Callbacks run to completion one after the other, but    *)
(* each of them may register and deregister descriptors while              *)
(* PollEventHandler is walking the very vectors it changes.                *)
(***************************************************************************)
EXTENDS PollList, FiniteSets

CONSTANTS Fds,      \* descriptor numbers the process can get
          Garbage,  \* values an unassigned POLLIN bit may have
          MaxGen    \* bound: objects that may own one descriptor number

ASSUME IoMultiplexAssumption ==
    /\ Garbage \subseteq BOOLEAN /\ Garbage # {}
    /\ MaxGen \in Nat \ {0}

VARIABLES
    poll_items,  \* the vector of pollfd, as a poll list
    cb_lists,    \* the vector of callbacks, each named <<fd, gen>>
    i,           \* loop index of PollEventHandler; 0 outside it
    owner,       \* gen of the object that has the descriptor open, or 0
    gen,         \* objects that have ever owned the descriptor
    readable,    \* open descriptors with something to read
    new          \* history: descriptors registered since the last poll(2)

vars == <<poll_items, cb_lists, i, owner, gen, readable, new>>

Callbacks == Fds \X (0 .. MaxGen)
Open      == {f \in Fds : owner[f] # 0}

TypeOK ==
    /\ poll_items \in Seq(Entry(Fds))
    /\ cb_lists \in Seq(Callbacks)
    /\ i \in Nat
    /\ Len(cb_lists) = Len(poll_items)
    /\ owner \in [Fds -> 0 .. MaxGen]
    /\ gen \in [Fds -> 0 .. MaxGen]
    /\ readable \subseteq Fds
    /\ new \subseteq Fds

\* Erasing from cb_lists at the index deregister_fd found in poll_items.
\* (Mutant: the last callback goes instead.)
EraseCallback_last(cbs, items, f) ==
    IF f \in FdsOf(items) THEN Front(cbs) ELSE cbs
EraseCallback(cbs, items, f) ==
    IF f \in FdsOf(items)
    THEN RemoveAt(cbs, Min(EntriesOf(items, f)))
    ELSE cbs

Register(f, garbage) ==
    /\ poll_items' = register_fd(poll_items, f, garbage)
    /\ cb_lists' = Append(cb_lists, <<f, gen[f] + 1>>)
    /\ owner' = [owner EXCEPT ![f] = gen[f] + 1]
    /\ gen' = [gen EXCEPT ![f] = @ + 1]

\* Every client closes the descriptor right after deregister_fd
\* (SctpClientEndpoint::~SctpClientEndpoint, sctp_socket being destroyed
\* after the destructor's body), except that a closed peer's descriptor is
\* only deregistered; it is never read again either way.
Deregister(f) ==
    /\ poll_items' = deregister_fd(poll_items, f)
    /\ cb_lists' = EraseCallback(cb_lists, poll_items, f)
    /\ owner' = [owner EXCEPT ![f] = 0]
    /\ gen' = gen

\* worker::msg_handler: the new endpoint registers before the old one, which
\* unique_ptr destroys afterwards, deregisters.
\* (The first form forgets the destructor's deregister_fd.)
Replace_keeps_old(old, f, garbage) ==
    /\ poll_items' = register_fd(poll_items, f, garbage)
    /\ cb_lists' = Append(cb_lists, <<f, gen[f] + 1>>)
    /\ owner' = [owner EXCEPT ![f] = gen[f] + 1, ![old] = 0]
    /\ gen' = [gen EXCEPT ![f] = @ + 1]
Replace(old, f, garbage) ==
    LET grown == register_fd(poll_items, f, garbage)
        cbs   == Append(cb_lists, <<f, gen[f] + 1>>)
    IN /\ poll_items' = deregister_fd(grown, old)
       /\ cb_lists' = EraseCallback(cbs, grown, old)
       /\ owner' = [owner EXCEPT ![f] = gen[f] + 1, ![old] = 0]
       /\ gen' = [gen EXCEPT ![f] = @ + 1]

Fresh == {f \in Fds \ Open : gen[f] < MaxGen}

-----------------------------------------------------------------------------

\* The constructors register the first descriptor before the first Poll.
Init ==
    /\ \E f \in Fds, garbage \in Garbage :
        /\ poll_items = <<[fd |-> f, pollin |-> garbage]>>
        /\ cb_lists = << <<f, 1>> >>
        /\ owner = [x \in Fds |-> IF x = f THEN 1 ELSE 0]
        /\ gen = owner
    /\ i = 0
    /\ readable = {} /\ new = {}

\* Something arrives on an open descriptor.
Arrive(f) ==
    /\ f \in Open \ readable
    /\ readable' = readable \union {f}
    /\ UNCHANGED <<poll_items, cb_lists, i, owner, gen, new>>

\* poll(2) with no timeout: it returns when an entry is readable.
Poll ==
    /\ i = 0
    /\ FdsOf(poll_items) \intersect readable # {}
    /\ poll_items' = Polled(poll_items, readable)
    /\ i' = 1
    /\ new' = {}
    /\ UNCHANGED <<cb_lists, owner, gen, readable>>

\* What a callback may do to the multiplexer besides reading its descriptor.
CallbackEffect(f) ==
    \/ UNCHANGED <<poll_items, cb_lists, owner, gen>>
    \/ \E x \in Fresh, garbage \in Garbage : Register(x, garbage)
    \/ \E x \in Open : Deregister(x)
    \/ \E old \in Open \ {f}, x \in Fresh, garbage \in Garbage :
           Replace(old, x, garbage)

\* One iteration of PollEventHandler that runs a callback.  The callback
\* reads its descriptor with a blocking call: there is no step while there is
\* nothing to read.
RunCallback ==
    LET k == NextFired(poll_items, i)
    IN /\ i # 0
       /\ k # 0
       /\ poll_items[k].fd \in readable
       /\ CallbackEffect(poll_items[k].fd)
       /\ readable' = (readable \ {poll_items[k].fd})
                        \intersect {x \in Fds : owner'[x] # 0}
       /\ new' = new \union {x \in Fds : gen'[x] # gen[x]}
       /\ i' = k + 1

\* The loop reaches the end of the vector; Poll is called again.
EndPass ==
    /\ i # 0
    /\ NextFired(poll_items, i) = 0
    /\ i' = 0
    /\ UNCHANGED <<poll_items, cb_lists, owner, gen, readable, new>>

Next == Poll \/ RunCallback \/ EndPass \/ (\E f \in Fds : Arrive(f))

\* The owning process calls Poll in a loop and nothing else, so its steps are
\* taken when they can be; nothing obliges a peer to send.
Spec == Init /\ [][Next]_vars /\ WF_vars(Poll \/ RunCallback \/ EndPass)

-----------------------------------------------------------------------------

\* The two vectors stay parallel: the callback at each index was registered
\* for the descriptor at that index, by the object that has it open now, so
\* no callback of a destroyed endpoint can be reached (PollEventHandler and
\* deregister_fd index both vectors with one i).
VectorsParallel ==
    \A k \in DOMAIN poll_items :
        cb_lists[k] = <<poll_items[k].fd, owner[poll_items[k].fd]>>

\* A descriptor has one entry while it is open and none once it was
\* deregistered: erase and the order "register the new endpoint, then destroy
\* the old one" never leave an entry of a closed descriptor behind.
OneEntryPerOpenFd ==
    \A f \in Fds :
        Cardinality({k \in DOMAIN poll_items : poll_items[k].fd = f})
            = IF f \in Open THEN 1 ELSE 0

\* The process is inside a callback whose blocking read has nothing to read.
Blocked ==
    /\ i # 0
    /\ LET k == NextFired(poll_items, i)
       IN k # 0 /\ poll_items[k].fd \notin readable

\* An entry that poll(2) filled in is still readable when the loop reaches
\* it, whatever the callbacks before it registered and erased: the process
\* blocks only on a descriptor registered during the pass, through the revents
\* that register_fd leaves unassigned.
BlocksOnlyOnNew ==
    Blocked => poll_items[NextFired(poll_items, i)].fd \in new

\* A descriptor that can be read is served, or the process is stuck in a
\* callback that an unassigned revents triggered: an entry that an erase made
\* the pass skip is found again by the next poll.
ReadableIsServed ==
    \A f \in Fds :
        f \in readable ~> (f \notin readable \/ Blocked)
=============================================================================
