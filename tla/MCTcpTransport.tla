--------------------------- MODULE MCTcpTransport ---------------------------
(***************************************************************************)
(* Names for the threads and requests of the instances TLC checks.         *)
(***************************************************************************)
EXTENDS TcpProperties

CONSTANTS t1, t2, r1, n1
=============================================================================
