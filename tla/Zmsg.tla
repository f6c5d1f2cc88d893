-------------------------------- MODULE Zmsg --------------------------------
(***************************************************************************)
(* Class zmsg (Common/zmq/example/zmsg.hpp) as values: a message is the    *)
(* sequence m_part_data, and a member function is an operator on it.       *)
(*                                                                         *)
(* Of a part only what the functions look at is kept: whether its first    *)
(* byte is zero, which makes it empty as a C string, and whether it is an  *)
(* identity of 17 bytes or the printed form of one.  `of' and `n' tell     *)
(* parts of one kind apart.                                                *)
(*                                                                         *)
(*   "text"     neither empty nor an identity made up by ZeroMQ            *)
(*   "empty"    no bytes: the delimiter of an envelope, or an empty body   *)
(*   "uuid"     17 bytes, the first zero: an identity ZeroMQ 2 makes up    *)
(*   "printed"  33 characters, the first '@': such an identity, encoded    *)
(*   "binary"   5 bytes, the first zero: an identity ZeroMQ 4 makes up     *)
(***************************************************************************)
EXTENDS Naturals, Sequences

CONSTANT Names   \* what parts may be about

Part == [kind : {"text", "empty", "uuid", "printed", "binary"}, of : Names,
         n : Nat]
Text(of, n) == [kind |-> "text", of |-> of, n |-> n]
Empty       == [kind |-> "empty", of |-> "", n |-> 0]

\* *part.c_str () == 0.
StartsWithNul(part) == part.kind \in {"empty", "uuid", "binary"}

\* A part taken for a C string ends at its first zero byte.
CStr(part) == IF StartsWithNul(part) THEN Empty ELSE part

\* encode_uuid and decode_uuid, applied where recv and send apply them.
encode_uuid(part) ==
    IF part.kind = "uuid" THEN [part EXCEPT !.kind = "printed"] ELSE part
decode_uuid(part) ==
    IF part.kind = "printed" THEN [part EXCEPT !.kind = "uuid"] ELSE part

\* What recv makes of the frames of a message, and the frames send writes.
recv(frames) == [i \in DOMAIN frames |-> encode_uuid(frames[i])]
send(msg)    == [i \in DOMAIN msg |-> decode_uuid(msg[i])]

body_set(msg, body) ==
    Append(IF msg = <<>> THEN msg ELSE SubSeq(msg, 1, Len(msg) - 1), CStr(body))
push_front(msg, part) == <<CStr(part)>> \o msg
push_back(msg, part)  == Append(msg, CStr(part))

address(msg) == Head(msg)
body(msg)    == msg[Len(msg)]

\* wrap with the delimiter "", and with none (NULL).
wrap(msg, addr)      == push_front(push_front(msg, Empty), addr)
wrap_bare(msg, addr) == push_front(msg, addr)

\* Mutant: what follows the address stays on.
unwrap_address_only(msg) == Tail(msg)

\* unwrap takes the address off, and what follows if that is empty as a C
\* string; it returns the address, and no caller gives it an empty message.
unwrap(msg) ==
    LET rest == Tail(msg)
    IN IF rest # <<>> /\ StartsWithNul(address(rest)) THEN Tail(rest) ELSE rest
unwrapped(msg) == CStr(address(msg))

\* The assertions of zmsg::test on what ROUTER `input' reads from the DEALER
\* `output', to which it gives the identity id.
test(id) ==
    LET hello   == body_set(<<>>, Text("Hello", 0))
        first   == recv(<<id>> \o send(hello))
        wrapped == wrap_bare(wrap(hello, Text("address1", 0)),
                             Text("address2", 0))
        second  == recv(<<id>> \o send(wrapped))
        world   == body_set(unwrap(second), Text("World", 0))
        third   == unwrap(recv(<<id>> \o send(world)))
        fourth  == unwrap(unwrap(third))
        two     == push_back(push_back(Tail(fourth), Text("Hello", 0)),
                             Text("World!", 0))
    IN /\ body(hello) = Text("Hello", 0)
       /\ Len(first) = 2 /\ body(first) = Text("Hello", 0)
       /\ Len(wrapped) = 4
       /\ Len(second) = 5 /\ address(second).kind = "printed"
       /\ address(unwrap(second)) = Text("address2", 0)
       /\ Len(third) = 4 /\ body(third) = Text("World", 0)
       /\ unwrapped(third) = Text("address2", 0)
       /\ unwrapped(unwrap(third)) = Text("address1", 0)
       /\ Len(fourth) = 1 /\ Head(fourth) = Text("World", 0)
       /\ Tail(fourth) = <<>>
       /\ Len(two) = 2 /\ body(two) = Text("World!", 0)
=============================================================================
