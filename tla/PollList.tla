------------------------------ MODULE PollList ------------------------------
(***************************************************************************)
(* The poll list of class IoMultiplex (comm/IoMultiplex.cpp) as a value.   *)
(*                                                                         *)
(* A list is a sequence of entries [fd, pollin]: the pollfd of one file    *)
(* descriptor, of which only the POLLIN bit of revents decides whether a   *)
(* callback runs; the other bits are only printed.                         *)
(*                                                                         *)
(* IoMultiplex.tla checks the class by itself under an arbitrary client,   *)
(* ThunderingHerd.tla gives one such list to each of its processes.        *)
(***************************************************************************)
EXTENDS Naturals, Sequences, SequencesExt

Entry(Fds) == [fd : Fds, pollin : BOOLEAN]

FdsOf(items) == {items[k].fd : k \in DOMAIN items}

\* register_fd: revents of the new pollfd is never assigned, so its POLLIN
\* bit is whatever the stack held (garbage).
register_fd(items, f, garbage) ==
    Append(items, [fd |-> f, pollin |-> garbage])

\* deregister_fd erases the first entry of that fd, if there is one.
EntriesOf(items, f) == {k \in DOMAIN items : items[k].fd = f}
deregister_fd(items, f) ==
    IF EntriesOf(items, f) = {}
    THEN items
    ELSE RemoveAt(items, Min(EntriesOf(items, f)))

\* poll(2) overwrites revents of every entry it is given.  (The first two
\* forms leave the old values, or mark every entry.)
Polled_stale(items, readable) == items
Polled_all(items, readable) ==
    [k \in DOMAIN items |-> [fd |-> items[k].fd, pollin |-> TRUE]]
Polled(items, readable) ==
    [k \in DOMAIN items |->
        [fd |-> items[k].fd, pollin |-> items[k].fd \in readable]]

\* The index of the next entry at or after i whose callback PollEventHandler
\* runs; 0 when the pass is over.
NextFired(items, i) ==
    LET fired == {k \in DOMAIN items : k >= i /\ items[k].pollin}
    IN IF fired = {} THEN 0 ELSE Min(fired)
=============================================================================
