---------------------------- MODULE TlsTransport ----------------------------
(***************************************************************************)
(* The TLS transport (src/tr/uv/tr_uv_tls_aux.c, tr_uv_tls_i.c): the       *)
(* callbacks it puts in the place of the TCP transport's, with what they   *)
(* call of the TCP transport.  A write item goes through SSL_write into    *)
(* the memory BIO out, and the BIO's memory is handed to uv_write.         *)
(*                                                                         *)
(* The callbacks of the one worker call each other in sequence, so the     *)
(* transport is one record, tls, and a function of the code is an operator *)
(* from a record to the set of records it may leave; Then composes them.   *)
(* Events act at once (no polling).  The timers of heartbeat, connection   *)
(* and handshake are the TCP transport's own and are left to TcpTransport, *)
(* as are the number of retries and the steps of a call of the API.        *)
(***************************************************************************)
EXTENDS PcEvents, Integers, Sequences, SequencesExt

CONSTANTS
  Requests,       \* requests the application may issue
  Timed,          \* those of them issued with a timeout
  PartialWrites,  \* a write may stop before all bytes are out (EAGAIN)
  MaxConns,       \* bound on the number of connection attempts
  None            \* no write item, no data, no fault

\* What SSL itself puts on the wire, and bytes that BIO_reset has cleared
Records == {"hello", "finished", "alert", "close"}
Zero == "zero"

Items == Requests \cup {"handshake", "ack"}

\* What a read of the socket may bring: the server's part of a TLS
\* handshake, its alerts, or a package.
Packages == {"handshakeOk", "handshakeRefused", "kick", "badData"} \cup Requests
Handshakes ==
  {"serverHello", "serverFinished", "renegotiate", "renegotiated",
   "tlsError", "closeNotify"}
Incoming == Handshakes \cup Packages

\* Assertions that fail, and steps from which the code cannot go on
Faults == {"writeToTcp", "uvClose", "nullSsl", "finishClose", "reinit"}

ASSUME TlsAssumption ==
  /\ Timed \subseteq Requests
  /\ PartialWrites \in BOOLEAN
  /\ MaxConns \in Nat
  /\ Requests \cap ({"handshake", "ack", Zero} \cup Records) = {}
  /\ Requests \cap Handshakes = {}
  /\ None \notin Items \cup Incoming \cup NetEvents \cup Faults

VARIABLES
  tls,    \* tr_uv_tls_transport_t with its base, the SSL and the two BIOs
  queued  \* the requests sent so far, in order, and whether each found DONE

vars == <<tls, queued>>

Asyncs == {"conn", "write", "disconnect", "cleanup"}
Rank == [a \in Asyncs |-> CASE a = "conn" -> 1 [] a = "write" -> 2
                            [] a = "disconnect" -> 3 [] a = "cleanup" -> 4]

\* tr_uv_tls_init
Init ==
  /\ queued = <<>>
  /\ tls = [client |-> "INITED", state |-> "NOT_CONN", sock |-> "none",
            is_connecting |-> FALSE, is_writing |-> FALSE,
            conn_pending |-> <<>>, write_wait |-> <<>>, writing |-> <<>>,
            resp_pending |-> {}, when_tcp_is_writing |-> <<>>,
            should_retry |-> None, retry_wb |-> None,
            is_handshake_completed |-> FALSE,
            ssl |-> "before",     \* the SSL object; "none" once it is freed
            in |-> None,          \* the BIO in
            mem |-> <<>>,         \* the memory of the BIO out
            out |-> 0,            \* BIO_pending(out)
            left |-> <<1, 0>>,    \* the part of mem uv_write has yet to write
            made |-> <<>>,        \* what SSL has produced for this connection
            wire |-> <<>>,        \* what the server has received of it
            replied |-> {},       \* what it has answered
            timers |-> {}, async |-> {}, pos |-> 0, conns |-> 0,
            closed |-> FALSE, done |-> {}, fault |-> None]

(***************************************************************************)
(* Composition                                                             *)
(***************************************************************************)

\* A failed assertion or a fatal signal ends the process.
Crash(s, label) == {[s EXCEPT !.fault = label]}

\* Op after any of the outcomes S
Then(S, Op(_)) == UNION {IF s.fault = None THEN Op(s) ELSE {s} : s \in S}

\* pc_trans_fire_event without polling
Fire(s, e) ==
  IF s.client \in LegalIn(e) THEN {[s EXCEPT !.client = AfterEvent(e, @)]}
                             ELSE Crash(s, e)

\* pc_trans_resp for the requests in R
Answer(s, R) == [s EXCEPT !.done = @ \cup (R \cap Requests)]

Wake(s, a) == IF s.closed THEN s ELSE [s EXCEPT !.async = @ \cup {a}]

(***************************************************************************)
(* OpenSSL, as the transport uses it                                       *)
(***************************************************************************)

\* SSL appends what it produces to out.
Emit(s, recs) ==
  [s EXCEPT !.mem = SubSeq(@, 1, s.out) \o recs
                      \o SubSeq(@, s.out + Len(recs) + 1, Len(@)),
            !.out = @ + Len(recs),
            !.made = @ \o recs]

\* Faulty: the memory is cleared and its length is not
BioReset_keepsLength(s) == [s EXCEPT !.mem = <<>>]

\* BIO_reset clears the memory, which matters as far as a write refers to it.
BioReset(s) ==
  [s EXCEPT !.mem = [i \in 1..(IF s.left[1] > s.left[2] THEN 0 ELSE Len(@))
                       |-> Zero],
            !.out = 0]

\* What a handshake does with what has come in
Shake(s) ==
  CASE s.in = "serverHello" -> Emit([s EXCEPT !.in = None], <<"finished">>)
    [] s.in \in {"serverFinished", "renegotiated"}
         -> [s EXCEPT !.in = None, !.ssl = "up"]
    [] s.in \in {"tlsError", "closeNotify"}
         -> Emit([s EXCEPT !.in = None, !.ssl = "failed"], <<"alert">>)
    [] OTHER -> s

\* The handshake, which SSL_write and SSL_read drive while it lasts
Drive(s) ==
  LET t == IF s.ssl = "before"
             THEN Emit([s EXCEPT !.ssl = "shaking"], <<"hello">>) ELSE s
  IN IF t.ssl = "shaking" THEN Shake(t) ELSE t

(***************************************************************************)
(* Writing to TCP and resetting                                            *)
(***************************************************************************)

\* uv_write: what the socket takes at once is written, the rest is read from
\* the same memory later.
UvWrite(s) ==
  {[s EXCEPT !.is_writing = TRUE,
             !.wire = @ \o SubSeq(s.mem, 1, k),
             !.left = <<k + 1, s.out>>]
     : k \in IF s.sock = "open" THEN {0}
             ELSE IF PartialWrites THEN 0..s.out ELSE {s.out}}

\* Faulty: out is flushed without the items whose bytes it holds
tls__write_to_tcp_keeps(s) ==
  IF s.is_writing THEN {s}
  ELSE IF s.out = 0
    THEN IF s.when_tcp_is_writing # <<>> THEN Crash(s, "writeToTcp")
                                         ELSE {Wake(s, "write")}
  ELSE {BioReset(t) : t \in
          IF s.sock \in {"open", "reading", "stopped"} THEN UvWrite(s)
                                                       ELSE {s}}

\* Faulty: what was handed to uv_write stays in out
tls__write_to_tcp_resends(s) ==
  IF s.is_writing THEN {s}
  ELSE IF s.out = 0
    THEN IF s.when_tcp_is_writing # <<>> THEN Crash(s, "writeToTcp")
                                         ELSE {Wake(s, "write")}
  ELSE LET t == [s EXCEPT !.writing = @ \o s.when_tcp_is_writing,
                          !.when_tcp_is_writing = <<>>]
       IN IF s.sock \in {"open", "reading", "stopped"} THEN UvWrite(t) ELSE {t}

\* An error of uv_write, which a closed socket gives, is ignored.
tls__write_to_tcp(s) ==
  IF s.is_writing THEN {s}
  ELSE IF s.out = 0
    THEN IF s.when_tcp_is_writing # <<>> THEN Crash(s, "writeToTcp")
                                         ELSE {Wake(s, "write")}
  ELSE LET t == [s EXCEPT !.writing = @ \o s.when_tcp_is_writing,
                          !.when_tcp_is_writing = <<>>]
       IN {BioReset(u) : u \in
             IF s.sock \in {"open", "reading", "stopped"} THEN UvWrite(t)
                                                          ELSE {t}}

\* tcp__reset.  It knows neither should_retry nor when_tcp_is_writing_queue.
tcp__reset(s) ==
  LET closes == s.client # "INITED" /\ s.sock \notin {"closing", "closed"} IN
  IF closes /\ s.sock = "none" THEN Crash(s, "uvClose")
  ELSE {[Answer(s, Range(s.conn_pending) \cup Range(s.write_wait)
                     \cup Range(s.writing) \cup s.resp_pending)
           EXCEPT !.state = "NOT_CONN",
                  !.timers = {},
                  !.sock = IF closes THEN "closing"
                           ELSE IF @ = "reading" THEN "stopped" ELSE @,
                  !.conn_pending = <<>>, !.write_wait = <<>>,
                  !.writing = <<>>, !.resp_pending = {},
                  !.made = <<>>, !.wire = <<>>, !.replied = {}]}

\* tls__reset up to the items it hands to tcp__reset: a close_notify, or the
\* alert that SSL left, is written; then SSL and the BIOs start afresh.
Cleared(s) ==
  Then(tls__write_to_tcp(IF s.ssl = "up" THEN Emit(s, <<"close">>) ELSE s),
       LAMBDA t : {[BioReset(t) EXCEPT !.is_handshake_completed = FALSE,
                                       !.ssl = "before",
                                       !.in = None]})

\* Faulty: the item of a pending retry is not handed over
tls__reset_forgets(s) ==
  IF s.ssl = "none" THEN Crash(s, "nullSsl")
  ELSE Then(Cleared(s),
    LAMBDA t : tcp__reset(
      [t EXCEPT !.writing = @ \o t.when_tcp_is_writing,
                !.should_retry = None, !.retry_wb = None,
                !.when_tcp_is_writing = <<>>]))

\* SSL_shutdown reads the SSL object, which is gone after a cleanup.
tls__reset(s) ==
  IF s.ssl = "none" THEN Crash(s, "nullSsl")
  ELSE Then(Cleared(s),
    LAMBDA t : tcp__reset(
      [t EXCEPT !.writing = @ \o (IF t.should_retry = None THEN <<>>
                                  ELSE <<t.should_retry>>)
                              \o t.when_tcp_is_writing,
                !.should_retry = None, !.retry_wb = None,
                !.when_tcp_is_writing = <<>>]))

\* tcp__reconn: after the reset another attempt, or it gives up.
tcp__reconn(s) ==
  Then(tls__reset(s), LAMBDA t :
    {[t EXCEPT !.state = "CONNECTING",
               !.timers = IF t.closed THEN @ ELSE @ \cup {"reconn_delay"}]}
    \cup {[u EXCEPT !.state = IF u.fault = None THEN "NOT_CONN" ELSE @]
            : u \in Fire(t, "CONNECT_FAILED")})

tls__emit_error_event(s) ==
  IF s.is_handshake_completed
    THEN Then(Fire(s, "UNEXPECTED_DISCONNECT"), tcp__reconn)
    ELSE Then(Fire(s, "CONNECT_FAILED"), tls__reset)

(***************************************************************************)
(* tls__write_to_bio                                                       *)
(***************************************************************************)

\* Items whose bytes are in out: they belong to the next uv_write, which is
\* not the one in progress.
ToHead(s, items) ==
  IF s.is_writing THEN [s EXCEPT !.when_tcp_is_writing = @ \o items]
                  ELSE [s EXCEPT !.writing = @ \o items]

\* What SSL_write asked to repeat is repeated.  should_retry may be gone, by
\* a timeout; its bytes are written all the same.
Retried(s) ==
  ToHead([Emit(s, <<s.retry_wb>>) EXCEPT
            !.retry_wb = None, !.should_retry = None,
            !.is_handshake_completed = TRUE],
         IF s.should_retry = None THEN <<>> ELSE <<s.should_retry>>)

\* The loop over write_wait_queue: with the handshake over SSL_write takes
\* every item, during it the first has to be repeated.
AllWritten(s) ==
  ToHead([Emit(s, s.write_wait) EXCEPT !.write_wait = <<>>,
                                       !.is_handshake_completed = TRUE],
         s.write_wait)

\* Faulty: the item to repeat goes to the end of the queue
FirstKept_atEnd(s) ==
  [s EXCEPT !.write_wait = Append(Tail(@), Head(@))]

FirstKept(s) ==
  [s EXCEPT !.should_retry = Head(s.write_wait),
            !.retry_wb = Head(s.write_wait),
            !.write_wait = Tail(@)]

tls__write_to_bio(s) ==
  LET ready == IF s.state = "DONE"
                 THEN [s EXCEPT !.write_wait = @ \o s.conn_pending,
                                !.conn_pending = <<>>]
                 ELSE s
      r == IF s.retry_wb = None THEN ready ELSE Drive(ready)
      repeated == r.retry_wb # None /\ r.ssl = "up"
      t == IF repeated THEN Retried(r) ELSE r
      tried == t.retry_wb = None /\ t.write_wait # <<>>
      u == IF tried THEN Drive(t) ELSE t
      w == IF ~tried THEN u
           ELSE IF u.ssl = "up" THEN AllWritten(u) ELSE FirstKept(u)
      checking == [w EXCEPT !.timers = @ \cup {"check"}]
  IN
  IF s.state = "NOT_CONN" THEN {s}
  ELSE IF r.retry_wb # None /\ r.ssl = "failed"
    THEN tls__emit_error_event([r EXCEPT !.retry_wb = None])
  ELSE IF tried /\ u.ssl = "failed"
    THEN tls__emit_error_event(
           [u EXCEPT !.should_retry = Head(u.write_wait),
                     !.write_wait = Tail(@)])
  ELSE IF repeated \/ (tried /\ u.ssl = "up")
    THEN tls__write_to_tcp(checking)
  ELSE {checking}

(***************************************************************************)
(* tls__read_from_bio                                                      *)
(***************************************************************************)

\* The handler of a package (tcp__on_handshake_resp, tcp__on_data_recieved,
\* tcp__on_kick_recieved)
Handle(s, p) ==
  CASE p = "handshakeOk" ->
         Fire(Wake([s EXCEPT !.state = "DONE",
                             !.write_wait = <<"ack">> \o @], "write"),
              "CONNECTED")
    [] p = "handshakeRefused" -> Then(Fire(s, "CONNECT_FAILED"), tls__reset)
    [] p = "kick" -> Then(Fire(s, "KICKED_BY_SERVER"), tls__reset)
    [] p = "badData" -> Then(Fire(s, "PROTO_ERROR"), tcp__reconn)
    [] OTHER -> {[Answer(s, {p}) EXCEPT !.resp_pending = @ \ {p}]}

\* SSL_read is called until it has nothing to give.  After a reset in a
\* handler this starts the handshake of the SSL object that was cleared.
tls__read_from_bio(s) ==
  LET t == Drive(s) IN
  IF t.ssl = "failed" THEN tls__emit_error_event(t)
  ELSE IF t.ssl # "up" \/ t.in = None THEN {t}
  ELSE CASE t.in = "closeNotify" -> tls__emit_error_event([t EXCEPT !.in = None])
         [] t.in = "tlsError" ->
              tls__emit_error_event(
                Emit([t EXCEPT !.in = None, !.ssl = "failed"], <<"alert">>))
         [] t.in = "renegotiate" ->
              {Emit([t EXCEPT !.in = None, !.ssl = "shaking"], <<"hello">>)}
         [] OTHER ->
              Then(Handle([t EXCEPT !.in = None,
                                    !.is_handshake_completed = TRUE], t.in),
                   LAMBDA u : {Drive(u)})

tls__cycle(s) ==
  Then(Then(tls__write_to_bio(s), tls__read_from_bio), tls__write_to_tcp)

(***************************************************************************)
(* The application.  The steps of a call are those of TcpTransport.        *)
(***************************************************************************)

Running == tls.fault = None
CleaningUp == "cleanup" \in tls.async \/ tls.closed

Connect ==
  /\ Running /\ ~CleaningUp
  /\ tls.client = "INITED" /\ tls.conns < MaxConns
  /\ tls' = Wake([tls EXCEPT !.client = "CONNECTING"], "conn")
  /\ UNCHANGED queued

Disconnect ==
  /\ Running /\ ~CleaningUp
  /\ tls.client \in {"CONNECTING", "CONNECTED"}
  /\ tls' = Wake([tls EXCEPT !.client = "DISCONNECTING"], "disconnect")
  /\ UNCHANGED queued

Cleanup ==
  /\ Running /\ ~CleaningUp
  /\ tls' = Wake(tls, "cleanup")
  /\ UNCHANGED queued

\* The section of tr_uv_tcp_send under wq_mutex
Queue(s, r) ==
  IF s.state = "DONE" THEN [s EXCEPT !.write_wait = Append(@, r)]
                      ELSE [s EXCEPT !.conn_pending = Append(@, r)]

Send(r) ==
  /\ Running /\ ~CleaningUp
  /\ tls.client \in {"CONNECTING", "CONNECTED"}
  /\ tls.state # "NOT_CONN"
  /\ \A i \in DOMAIN queued : queued[i].req # r
  /\ tls' = Wake(Queue(tls, r), "write")
  /\ queued' = Append(queued, [req |-> r, ready |-> tls.state = "DONE"])

(***************************************************************************)
(* The worker.  As in TcpTransport, a scan serves the async handles in the *)
(* order of Rank, and the closing phase comes before the next scan.        *)
(***************************************************************************)

Becomes(S) ==
  /\ tls' \in S
  /\ UNCHANGED queued

Ahead == {a \in tls.async : Rank[a] > tls.pos}
Candidates ==
  IF Ahead # {} THEN Ahead ELSE IF tls.sock = "closing" THEN {} ELSE tls.async

\* Serves handle a; what is left is the transport with the wake-up taken.
Serves(a) ==
  /\ Running /\ ~tls.closed
  /\ a \in Candidates /\ \A b \in Candidates : Rank[a] <= Rank[b]

Served(a) == [tls EXCEPT !.async = @ \ {a}, !.pos = Rank[a]]

\* A callback of the socket or a timer
Polls(S) ==
  /\ Running
  /\ tls.pos = 0 \/ Ahead = {}
  /\ tls.sock \in S

Polled == [tls EXCEPT !.pos = 0]

\* tcp__conn_async_cb
ConnAsync ==
  /\ Serves("conn")
  /\ LET s == Served("conn")
         t == [s EXCEPT !.state = "CONNECTING", !.sock = "open"]
     IN Becomes(
       IF s.is_connecting THEN {s}
       ELSE IF s.sock = "closing" THEN Crash(s, "finishClose")
       ELSE IF s.sock = "reading" \/ s.is_writing THEN Crash(s, "reinit")
       ELSE {[t EXCEPT !.is_connecting = TRUE, !.conns = @ + 1]}
            \cup Then(Fire(t, "CONNECT_ERROR"), tcp__reconn))

\* tls__conn_done_cb with status 0: tcp__conn_done_cb queues the handshake of
\* Pomelo, and reading from SSL makes it produce its own.
ConnDone ==
  /\ Polls({"open"}) /\ tls.is_connecting
  /\ LET s == Wake([Polled EXCEPT !.is_connecting = FALSE,
                                  !.state = "HANDSHAKEING",
                                  !.sock = "reading",
                                  !.write_wait = <<"handshake">> \o @,
                                  !.ssl = "before",
                                  !.made = <<>>, !.wire = <<>>,
                                  !.replied = {}], "write")
     IN Becomes(Then(tls__read_from_bio(s), tls__write_to_tcp))

\* tcp__conn_done_cb with an error
ConnRefused(s) ==
  Then(Fire([s EXCEPT !.is_connecting = FALSE], "CONNECT_ERROR"), tcp__reconn)

ConnFailed ==
  /\ Polls({"open"}) /\ tls.is_connecting
  /\ Becomes(ConnRefused(Polled))

WriteAsync ==
  /\ Serves("write")
  /\ Becomes(tls__write_to_bio(Served("write")))

\* What the socket had still to take when the write ends
Rest(s) == SubSeq(s.mem, s.left[1], s.left[2])

\* tls__write_done_cb before it looks for more to write; what was left of the
\* write is on the wire now.
Finished(s, ok) ==
  LET kept == IF ok THEN Range(s.writing) \cap Requests ELSE {} IN
  [Answer(s, Range(s.writing) \ kept)
     EXCEPT !.is_writing = FALSE, !.writing = <<>>,
            !.resp_pending = @ \cup kept,
            !.left = <<1, 0>>,
            !.wire = IF ok THEN @ \o Rest(s) ELSE @]

\* Faulty: the bytes produced during the write wait for another write
tls__write_done_cb_noFlush(s, ok) == {Finished(s, ok)}

tls__write_done_cb(s, ok) == tls__write_to_tcp(Finished(s, ok))

WriteDone(ok) ==
  /\ Polls({"reading", "stopped"}) /\ tls.is_writing
  /\ Becomes(tls__write_done_cb(Polled, ok))

\* The server answers what it has received, each thing once, and sends no
\* packages while it renegotiates.
Answers(m) ==
  /\ m \notin tls.replied
  /\ m \in Packages => {"renegotiate", "renegotiated"} \cap tls.replied
                         # {"renegotiate"}
  /\ CASE m = "serverHello" -> "hello" \in Range(tls.wire)
       [] m = "serverFinished" -> "finished" \in Range(tls.wire)
       [] m = "handshakeOk" \/ m = "handshakeRefused"
            -> /\ "handshake" \in Range(tls.wire)
               /\ tls.replied \cap {"handshakeOk", "handshakeRefused"} = {}
       [] m = "renegotiate" -> "serverFinished" \in tls.replied
       [] m = "renegotiated" -> "renegotiate" \in tls.replied
                                /\ Last(tls.wire) = "hello"
       [] m \in {"kick", "badData"} -> "ack" \in Range(tls.wire)
       [] m \in Requests -> "ack" \in Range(tls.wire) /\ m \in Range(tls.wire)
       [] OTHER -> TRUE

\* tls__on_tcp_read_cb with data
Read(m) ==
  /\ Polls({"reading"})
  /\ Answers(m)
  /\ Becomes(tls__cycle([Polled EXCEPT !.in = m, !.replied = @ \cup {m}]))

\* tcp__on_tcp_read_cb with an error or the end of the stream
ReadFailed ==
  /\ Polls({"reading"})
  /\ Becomes(Then(Fire(Polled, "UNEXPECTED_DISCONNECT"), tcp__reconn))

DisconnectAsync ==
  /\ Serves("disconnect")
  /\ Becomes(Then(tls__reset(Served("disconnect")),
                  LAMBDA s : Fire(s, "DISCONNECT")))

\* tls__cleanup_async_cb closes every handle and frees SSL with its BIOs.
CleanupAsync ==
  /\ Serves("cleanup")
  /\ Becomes(Then(tls__reset(Served("cleanup")),
                  LAMBDA s : {[s EXCEPT !.closed = TRUE, !.async = {},
                                        !.timers = {}, !.ssl = "none"]}))

\* The closing phase of the loop, which cancels what was pending
ClosingPhase ==
  /\ Polls({"closing"})
  /\ LET s == [Polled EXCEPT !.sock = "closed"] IN
     Becomes(IF s.is_connecting THEN ConnRefused(s)
             ELSE IF s.is_writing THEN tls__write_done_cb(s, FALSE)
             ELSE {s})

ReconnDelayTimer ==
  /\ Polls({"none", "stopped", "closed"})
  /\ "reconn_delay" \in tls.timers /\ tls.conns < MaxConns
  /\ tls' = Wake([Polled EXCEPT !.timers = @ \ {"reconn_delay"}], "conn")
  /\ UNCHANGED queued

\* The items of q that are not late, in their order
Keep(q, late) ==
  LET kept[n \in 0..Len(q)] ==
        IF n = 0 THEN <<>>
        ELSE IF q[n] \in late THEN kept[n-1] ELSE Append(kept[n-1], q[n])
  IN kept[Len(q)]

\* tls__write_timeout_check_cb: the item that waits for its repetition, then
\* all queues but writing_queue; any of the items that have a timeout may be
\* late.  The item to be repeated does not keep the timer running.
CheckTimer ==
  LET checked == Timed \cap (Range(tls.when_tcp_is_writing)
                   \cup Range(tls.conn_pending) \cup Range(tls.write_wait)
                   \cup tls.resp_pending)
  IN
  /\ Polls({"open", "reading", "stopped", "closed"})
  /\ "check" \in tls.timers
  /\ \E late \in SUBSET (checked \cup ({tls.should_retry} \cap Timed)) :
       tls' = [Answer(Polled, late) EXCEPT
                 !.should_retry = IF @ \in late THEN None ELSE @,
                 !.when_tcp_is_writing = Keep(@, late),
                 !.conn_pending = Keep(@, late),
                 !.write_wait = Keep(@, late),
                 !.resp_pending = @ \ late,
                 !.timers = IF checked \subseteq late THEN @ \ {"check"} ELSE @]
  /\ UNCHANGED queued

Ended == (tls.fault # None \/ tls.closed) /\ UNCHANGED vars

Next ==
  \/ Connect \/ Disconnect \/ Cleanup
  \/ \E r \in Requests : Send(r)
  \/ ConnAsync \/ WriteAsync \/ DisconnectAsync \/ CleanupAsync
  \/ ConnDone \/ ConnFailed \/ ReadFailed \/ ClosingPhase
  \/ \E ok \in BOOLEAN : WriteDone(ok)
  \/ \E m \in Incoming : Read(m)
  \/ ReconnDelayTimer \/ CheckTimer
  \/ Ended

Spec == Init /\ [][Next]_vars

(***************************************************************************)
(* Properties                                                              *)
(***************************************************************************)

\* The record and the ghost have their types.
TypeOK ==
  /\ queued \in Seq([req : Requests, ready : BOOLEAN])
  /\ tls.state \in {"NOT_CONN", "CONNECTING", "HANDSHAKEING", "DONE"}
  /\ tls.sock \in {"none", "open", "reading", "stopped", "closing", "closed"}
  /\ tls.ssl \in {"before", "shaking", "up", "failed", "none"}
  /\ tls.should_retry \in Items \cup {None}
  /\ tls.retry_wb \in Items \cup {None}
  /\ {tls.conn_pending, tls.write_wait, tls.writing, tls.when_tcp_is_writing}
       \subseteq Seq(Items)
  /\ tls.resp_pending \subseteq Requests
  /\ tls.mem \in Seq(Items \cup Records \cup {Zero})
  /\ tls.out \in 0..Len(tls.mem)
  /\ tls.async \subseteq Asyncs

\* The assertion of tls__write_to_tcp: with nothing to write in BIO out no
\* item waits for the write in progress to end.
WriteAssert == tls.fault # "writeToTcp"

\* What the server has received of the connection is what SSL produced for
\* it, in that order: nothing is sent twice, skipped, overwritten or left
\* over from the connection before.
WireFaithful ==
  tls.state \in {"HANDSHAKEING", "DONE"} => IsPrefix(tls.wire, tls.made)

\* A request that was queued and is not answered is held in one place, where
\* a write, a timeout or a reset finds it.
ItemsHeld ==
  LET Places == [conn_pending |-> Range(tls.conn_pending),
                 write_wait |-> Range(tls.write_wait),
                 writing |-> Range(tls.writing),
                 when_tcp_is_writing |-> Range(tls.when_tcp_is_writing),
                 should_retry |-> {tls.should_retry},
                 resp_pending |-> tls.resp_pending]
  IN \A i \in DOMAIN queued :
       LET r == queued[i].req
       IN r \notin tls.done
            => \E p \in DOMAIN Places :
                 {o \in DOMAIN Places : r \in Places[o]} = {p}

\* Requests queued while the transport was in the same phase, connecting or
\* connected, reach the server in the order in which they were queued, also
\* over a renegotiation in which SSL_write has to be repeated.
OrderKept ==
  \A i, j \in DOMAIN queued :
    i < j /\ queued[i].ready = queued[j].ready
      => \A p, q \in DOMAIN tls.wire :
           tls.wire[p] = queued[i].req /\ tls.wire[q] = queued[j].req => p < q

\* What SSL has produced waits in BIO out only for a write in progress, the
\* end of which hands it on: a callback that ends leaves no bytes behind that
\* nothing would write (a handshake or a request would hang).
NothingStuck == tls.out > 0 => tls.is_writing \/ ~Running

\* SSL is not used after tls__cleanup_async_cb has freed it.  Fails when a
\* connect is cancelled (README, section 3), so it is in no cfg.
NoNullSsl == tls.fault # "nullSsl"
=============================================================================
