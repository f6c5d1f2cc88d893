------------------------------ MODULE MCPirate ------------------------------
(***************************************************************************)
(* Instances of ParanoidPirate for TLC.                                    *)
(***************************************************************************)
EXTENDS ParanoidPirate

CONSTANTS w1, w2, c1, c2

\* What parts may be about: peers, the words of the protocol, the delimiter.
PirateNames == Peers \union {"", "READY", "HEARTBEAT", "sequence"}

\* The test of class zmsg, with the identity its ROUTER socket gives to a peer.
ASSUME ZmsgTest == test([kind |-> "uuid", of |-> "output", n |-> 0])
=============================================================================
