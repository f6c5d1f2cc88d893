---------------------- MODULE MCTerminateAssociation ------------------------
(***************************************************************************)
(* Instances of TerminateAssociation for TLC.                              *)
(***************************************************************************)
EXTENDS TerminateAssociation

CONSTANTS c1, c2

\* Enough for c1 to send a message and leave, or to go on after its std::cin
\* has failed, for c2 to send a message, and for the server to answer.
FewLines == [p \in Procs |-> IF p = c1 THEN 4 ELSE IF p = c2 THEN 3 ELSE 2]
=============================================================================
