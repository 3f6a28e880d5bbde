------------------------------- MODULE MCTls -------------------------------
(***************************************************************************)
(* An instance of TlsTransport for TLC.                                    *)
(***************************************************************************)
EXTENDS TlsTransport, TLC

CONSTANTS r1, r2

MCRequests == {r1, r2}
MCTimed == {r1}
=============================================================================
