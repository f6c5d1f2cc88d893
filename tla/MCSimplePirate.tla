--------------------------- MODULE MCSimplePirate ---------------------------
(***************************************************************************)
(* Instances of SimplePirate for TLC.                                      *)
(***************************************************************************)
EXTENDS SimplePirate

CONSTANTS w1, w2, c1, c2

\* What parts may be about: peers, the words of the protocol, the delimiter.
PirateNames == Peers \union {"", "READY", "sequence"}
=============================================================================
