--------------------------- MODULE MCIoMultiplex ----------------------------
(* A client with three descriptor numbers, each owned at most twice.       *)
EXTENDS IoMultiplex
=============================================================================
