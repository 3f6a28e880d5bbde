----------------------------- MODULE MCPkgParser -----------------------------
(***************************************************************************)
(* Packages for the instances of PkgParser: one without a body, one whose  *)
(* body looks like a head, one whose length needs two bytes, and a kick.   *)
(***************************************************************************)
EXTENDS PkgParser

PACKAGES ==
  {[type |-> 3, body |-> <<>>],
   [type |-> 4, body |-> <<4, 0, 0, 1>>],
   [type |-> 4, body |-> <<5, 0, 1, 0, 2, 3, 4>>],
   [type |-> 5, body |-> <<>>]}
=============================================================================
