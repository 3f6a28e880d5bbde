------------------------------ MODULE PkgParser ------------------------------
(***************************************************************************)
(* The package parser (src/tr/uv/pr_pkg.c) between the reads of the socket *)
(* and the transport's package handler.  A package is                      *)
(*                                                                         *)
(*    type (1 byte)   body length (3 bytes, big-endian)   body             *)
(*                                                                         *)
(* and a read may cut the stream anywhere.  tcp__reset resets the parser,  *)
(* also from inside the handler, while pc_pkg_parser_feed still has the    *)
(* rest of the chunk.                                                      *)
(***************************************************************************)
EXTENDS Integers, Sequences, SequencesExt

CONSTANTS
  ByteBase,        \* the number of values of a byte (256)
  Packages,        \* the packages the server may send
  MaxSent,         \* bound on the packages of one connection
  MaxRead,         \* bound on the bytes of one read (tcp_read_buf)
  QuietAfterKick   \* the server sends nothing after it has kicked

Byte == 0..(ByteBase - 1)

PC_PKG_KICK == 5

PC_PKG_HEAD_BYTES == 4

ASSUME ParserAssumption ==
  /\ ByteBase \in Nat /\ ByteBase > PC_PKG_KICK
  /\ Packages \subseteq [type : 1..PC_PKG_KICK, body : Seq(Byte)]
  /\ \A p \in Packages : Len(p.body) < ByteBase * ByteBase * ByteBase
  /\ MaxSent \in Nat
  /\ MaxRead \in Nat \ {0}
  /\ QuietAfterKick \in BOOLEAN

VARIABLES
  parser,     \* tt->pkg_parser
  chunk,      \* what pc_pkg_parser_feed has left to parse
  up,         \* the connection is up
  wire,       \* the bytes sent by the server and not read yet
  sent,       \* the packages the server has sent on this connection
  delivered   \* the packages the handler was called for on this connection

vars == <<parser, chunk, up, wire, sent, delivered>>

\* A package as pc_pkg_encode lays it out
Encoded(p) ==
  LET n == Len(p.body)
  IN <<p.type, n \div (ByteBase * ByteBase), (n \div ByteBase) % ByteBase,
       n % ByteBase>> \o p.body

\* The loop over the bytes of the head after the type
BodyLength(head) ==
  head[4] + ByteBase * head[3] + ByteBase * ByteBase * head[2]

\* pc_pkg_parser_reset: nothing buffered, a head to come
Fresh == [state |-> "HEAD", head_buf |-> <<>>, pkg_buf |-> <<>>, pkg_size |-> 0]

TypeOK ==
  /\ parser.state \in {"HEAD", "BODY"}
  /\ Len(parser.head_buf) <= PC_PKG_HEAD_BYTES
  /\ parser.pkg_size \in 0..(ByteBase * ByteBase * ByteBase - 1)
  /\ Len(parser.pkg_buf) <= parser.pkg_size
  /\ up \in BOOLEAN
  /\ sent \in Seq(Packages)
  /\ Len(chunk) <= MaxRead
  /\ delivered \in Seq(Packages)

Init ==
  /\ parser = Fresh
  /\ chunk = <<>>
  /\ up = FALSE
  /\ wire = <<>>
  /\ sent = <<>>
  /\ delivered = <<>>

\* The first n of data, or what there is, and what comes after them
First(n, data) == SubSeq(data, 1, IF n < Len(data) THEN n ELSE Len(data))
Rest(n, data)  == SubSeq(data, n + 1, Len(data))

\* Faulty: what is buffered already is asked for again
Needed_whole(p) == IF p.state = "HEAD" THEN PC_PKG_HEAD_BYTES ELSE p.pkg_size

\* need_len: how many bytes the head or the body of p lacks
Needed(p) ==
  IF p.state = "HEAD" THEN PC_PKG_HEAD_BYTES - Len(p.head_buf)
                      ELSE p.pkg_size - Len(p.pkg_buf)

ParseHead(p, data) ==
  LET head == p.head_buf \o First(Needed(p), data)
  IN IF Len(head) = PC_PKG_HEAD_BYTES
       THEN [state |-> "BODY", head_buf |-> head,
             pkg_buf |-> <<>>, pkg_size |-> BodyLength(head)]
       ELSE [p EXCEPT !.head_buf = head]

ParseBody(p, data) == [p EXCEPT !.pkg_buf = @ \o First(Needed(p), data)]

\* pc__parse_pkg_body finds the package complete.
Complete(p) == Len(p.pkg_buf) = p.pkg_size

\* What a turn leaves in the parser and of the chunk, and whether it ends a
\* package, after it parsed a head or a body from data
HeadTurn(p, data) ==
  [next |-> ParseHead(p, data), left |-> Rest(Needed(p), data), ends |-> FALSE]

BodyTurn(p, data) ==
  [next |-> ParseBody(p, data), left |-> Rest(Needed(p), data),
   ends |-> Complete(ParseBody(p, data))]

\* Faulty: the body is left to the next turn
Turn_elseBody(p, data) ==
  IF p.state = "HEAD" THEN HeadTurn(p, data) ELSE BodyTurn(p, data)

\* One turn of pc_pkg_parser_feed's loop: the head if it is not complete,
\* and then, if it is, as much of the body as there is, be it of length 0.
Turn(p, data) ==
  LET head == HeadTurn(p, data)
  IN IF p.state = "BODY" THEN BodyTurn(p, data)
     ELSE IF head.next.state = "BODY" THEN BodyTurn(head.next, head.left)
     ELSE head

\* A package whose handler resets the connection: the one of a kick calls
\* tcp__reset (tcp__on_kick_recieved).
Resets(type) == type = PC_PKG_KICK

\* Faulty: the parser keeps what it has
AfterReset_kept == parser

\* tcp__reset resets the parser together with the connection.
AfterReset == Fresh

\* One turn of pc_pkg_parser_feed.  A complete package goes to the handler,
\* and the parser is reset.
Feed ==
  LET t == Turn(parser, chunk)
      type == t.next.head_buf[1]
      package == [type |-> type, body |-> t.next.pkg_buf]
  IN
  /\ chunk # <<>>
  /\ chunk' = t.left
  /\ IF ~t.ends
       THEN parser' = t.next /\ UNCHANGED <<up, wire, sent, delivered>>
     ELSE IF ~up
       THEN parser' = Fresh /\ UNCHANGED <<up, wire, sent, delivered>>
     ELSE IF Resets(type)
       THEN /\ parser' = Fresh
            /\ up' = FALSE
            /\ wire' = <<>> /\ sent' = <<>> /\ delivered' = <<>>
     ELSE /\ parser' = Fresh
          /\ delivered' = Append(delivered, package)
          /\ UNCHANGED <<up, wire, sent>>

\* tcp__on_tcp_read_cb with nread > 0
Read ==
  /\ up /\ chunk = <<>>
  /\ \E n \in 1..MaxRead :
       /\ n <= Len(wire)
       /\ chunk' = SubSeq(wire, 1, n)
       /\ wire' = Rest(n, wire)
  /\ UNCHANGED <<parser, up, sent, delivered>>

\* tcp__reset from a callback other than the read: a timer, a disconnect, a
\* read error
ResetConnection ==
  /\ up /\ chunk = <<>>
  /\ parser' = AfterReset
  /\ up' = FALSE
  /\ wire' = <<>> /\ sent' = <<>> /\ delivered' = <<>>
  /\ UNCHANGED chunk

\* tcp__conn_done_cb starts to read; it leaves the parser as it is.
Connect ==
  /\ ~up /\ chunk = <<>>
  /\ up' = TRUE
  /\ UNCHANGED <<parser, chunk, wire, sent, delivered>>

\* The server
Send(p) ==
  /\ up
  /\ Len(sent) < MaxSent
  /\ QuietAfterKick => \A i \in DOMAIN sent : sent[i].type # PC_PKG_KICK
  /\ sent' = Append(sent, p)
  /\ wire' = wire \o Encoded(p)
  /\ UNCHANGED <<parser, chunk, up, delivered>>

Next ==
  \/ Feed \/ Read \/ ResetConnection \/ Connect
  \/ \E p \in Packages : Send(p)

\* The loop reads what has arrived, and a feed runs to its end.
Spec == Init /\ [][Next]_vars /\ WF_vars(Feed) /\ WF_vars(Read)

(***************************************************************************)
(* Properties                                                              *)
(***************************************************************************)

\* Nothing but packages the server sent on this connection reaches the
\* handler, whole and in order.  After a kick the code does not keep
\* it (README, section 3), so it is in no cfg.
InOrder == IsPrefix(delivered, sent)

\* When all that was sent has been read and parsed, every package has been
\* handed over: one that is complete never waits for the next byte, not even
\* one without a body whose head ends a chunk.
Prompt == up /\ wire = <<>> /\ chunk = <<>> => delivered = sent

\* The parser implements the promise of PkgChannel.
Channel == INSTANCE PkgChannel
ImplementsChannel == Channel!Spec
=============================================================================
