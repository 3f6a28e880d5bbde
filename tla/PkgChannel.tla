----------------------------- MODULE PkgChannel -----------------------------
(***************************************************************************)
(* What the package layer promises the transport: on each connection the   *)
(* packages of the server arrive whole, in order and without gaps.         *)
(***************************************************************************)
EXTENDS Naturals, Sequences

CONSTANTS
  Packages,  \* the packages the server may send
  MaxSent    \* bound on the packages of one connection

VARIABLES
  sent,      \* the packages the server has sent on this connection
  delivered  \* the packages the transport's handler was called for

chanVars == <<sent, delivered>>

Init == sent = <<>> /\ delivered = <<>>

Send(p) ==
  /\ Len(sent) < MaxSent
  /\ sent' = Append(sent, p)
  /\ UNCHANGED delivered

Deliver ==
  /\ Len(delivered) < Len(sent)
  /\ delivered' = Append(delivered, sent[Len(delivered) + 1])
  /\ UNCHANGED sent

\* The connection is reset; what comes next belongs to another one.
Reset == sent' = <<>> /\ delivered' = <<>>

Next == (\E p \in Packages : Send(p)) \/ Deliver \/ Reset

\* What may happen, and that what was sent arrives unless there is a reset
Safety == Init /\ [][Next]_chanVars

Spec == Safety /\ WF_chanVars(Deliver)
=============================================================================
