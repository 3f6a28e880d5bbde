------------------------------ MODULE MCClient ------------------------------
(***************************************************************************)
(* An instance of ClientApi for TLC.                                       *)
(***************************************************************************)
EXTENDS ClientProperties

CONSTANTS t1, t2, c1, c2, h1

\* Two requests, or a request and a notification
KINDS == {[c \in {c1, c2} |-> IF c = c1 THEN "resp" ELSE k] :
            k \in {"resp", "sent"}}
=============================================================================
