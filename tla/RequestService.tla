--------------------------- MODULE RequestService ---------------------------
(***************************************************************************)
(* What the Majordomo and the Pirate programs promise a client, with no    *)
(* broker and no messages: a call ends with an answer, which exists only   *)
(* if some worker has executed that very call, or it is abandoned.  A call *)
(* may be executed more than once, and after it was abandoned.             *)
(***************************************************************************)
EXTENDS Naturals

CONSTANT Clients

VARIABLES
    asked,     \* calls each client has made
    cstate,    \* "ready", "waiting" or "failed"
    executed   \* calls some worker has executed, <<client, number>>

vars == <<asked, cstate, executed>>

Init ==
    /\ asked = [c \in Clients |-> 0]
    /\ cstate = [c \in Clients |-> "ready"]
    /\ executed = {}

Ask(c) ==
    /\ cstate[c] = "ready"
    /\ cstate' = [cstate EXCEPT ![c] = "waiting"]
    /\ asked' = [asked EXCEPT ![c] = @ + 1]
    /\ UNCHANGED executed

Execute(c) ==
    /\ \E n \in 1 .. asked[c] : executed' = executed \union {<<c, n>>}
    /\ UNCHANGED <<asked, cstate>>

Answer(c) ==
    /\ cstate[c] = "waiting"
    /\ <<c, asked[c]>> \in executed
    /\ cstate' = [cstate EXCEPT ![c] = "ready"]
    /\ UNCHANGED <<asked, executed>>

Abandon(c) ==
    /\ cstate[c] = "waiting"
    /\ cstate' = [cstate EXCEPT ![c] = "failed"]
    /\ UNCHANGED <<asked, executed>>

Next == \E c \in Clients : Ask(c) \/ Execute(c) \/ Answer(c) \/ Abandon(c)

Spec == Init /\ [][Next]_vars
=============================================================================
