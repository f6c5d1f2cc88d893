--------------------------- MODULE GroupLifecycle ---------------------------
(***************************************************************************)
(* What the server of thundering_herd promises to whoever starts it, with  *)
(* no sockets, poll lists or messages: the service opens once and only     *)
(* with all its workers, and the master returns in order only when none of *)
(* them is left.  ThunderingHerd implements this specification.            *)
(***************************************************************************)
CONSTANT Workers

VARIABLES
    up,      \* workers that have not ended
    ready,   \* workers that have announced themselves
    open,    \* the service accepts connections
    closed   \* the master has returned from run()

vars == <<up, ready, open, closed>>

Init ==
    /\ up = Workers
    /\ ready = {}
    /\ open = FALSE
    /\ closed = FALSE

Announce(w) ==
    /\ w \in up \ ready
    /\ ready' = ready \union {w}
    /\ UNCHANGED <<up, open, closed>>

\* A worker may end at any moment, in order or not.
Leave(w) ==
    /\ w \in up
    /\ up' = up \ {w}
    /\ UNCHANGED <<ready, open, closed>>

\* The service opens for all the workers that were started, or not at all.
Open ==
    /\ ~open /\ ~closed
    /\ ready = Workers
    /\ open' = TRUE
    /\ UNCHANGED <<up, ready, closed>>

Close ==
    /\ ~closed
    /\ up = {}
    /\ closed' = TRUE
    /\ UNCHANGED <<up, ready, open>>

Next ==
    \/ \E w \in Workers : Announce(w) \/ Leave(w)
    \/ Open
    \/ Close

Spec == Init /\ [][Next]_vars
=============================================================================
