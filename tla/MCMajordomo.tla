---------------------------- MODULE MCMajordomo -----------------------------
(***************************************************************************)
(* Instances of Majordomo for TLC: who serves and who wants what.          *)
(***************************************************************************)
EXTENDS Majordomo, TLC

CONSTANTS w1, w2, w3, c1, c2, s1, s2

\* One service; everybody serves and wants it.
AllServe1 == [w \in Workers |-> s1]
AllWant1  == [c \in Clients |-> s1]

\* Two services: two workers for the first, one for the second, a client each.
TwoAndOne == [w \in Workers |-> IF w = w3 THEN s2 ELSE s1]
WantEach  == [c \in Clients |-> IF c = c2 THEN s2 ELSE s1]

\* The workers of the first service are interchangeable.
WorkerSymmetry == Permutations(Workers \ {w3})
=============================================================================
