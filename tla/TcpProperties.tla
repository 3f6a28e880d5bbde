---------------------------- MODULE TcpProperties ----------------------------
(***************************************************************************)
(* What the TCP transport and the client state it drives must satisfy.     *)
(***************************************************************************)
EXTENDS TcpTransport

(***************************************************************************)
(* Safety                                                                  *)
(***************************************************************************)

\* A thread is inside pc_request or pc_notify with r, before wq_mutex.
InSend(r) ==
  \E t \in Threads : call[t] \in {"sendCheck", "sendQueue"} /\ arg[t] = r

\* The response or the end of r waits in pending_ev_queue.
Answered(r) == \E i \in DOMAIN pending_ev : r \in pending_ev[i].done

\* No request is forgotten: one the client still holds in req_queue or
\* notify_queue is on its way into the transport, in one of the transport's
\* queues, or answered and waiting to be polled.  Each path out of the
\* queues (response, timeout, reset, failed write) must answer it.
RequestsHeld ==
  \A r \in Reqs : status[r] = "open" => InSend(r) \/ r \in Held \/ Answered(r)

\* A write item is a member of one intrusive queue at a time, and of none
\* before tr_uv_tcp_send has queued it: QUEUE_INSERT of an item that is
\* still linked would tie two queues together.
OneQueue ==
  /\ conn_pending \cap (write_wait \cup writing \cup resp_pending) = {}
  /\ write_wait \cap (writing \cup resp_pending) \cap Reqs = {}
  /\ writing \cap resp_pending = {}
  /\ \A r \in Reqs :
       InSend(r) \/ status[r] \in {"unused", "rejected"} => r \notin Held

\* On every connection the server receives the handshake, then the ack, then
\* the rest, however requests, heartbeats and reconnections interleave
\* (uv_write does not fail at once).
HandshakeFirst == srv # "misordered"

\* What the queues hold belongs to the connection that is up: nothing that
\* was written for an earlier one survives tcp__reset.
NothingStale ==
  /\ writing # {} => is_writing
  /\ write_wait \cup writing # {} =>
       sock = "reading" /\ tstate \in {"HANDSHAKEING", "DONE"}
  /\ resp_pending # {} => sock = "reading" /\ tstate = "DONE"

\* The assertions of the worker's own callbacks hold: no timer and no
\* package of the server meets the transport in a state that the code rules
\* out (tcp__conn_timeout_cb, tcp__heartbeat_timer_cb,
\* tcp__heartbeat_timeout_cb, tcp__on_heartbeat, tcp__on_handshake_resp).
NoTimerAssert ==
  fault \notin {"connTimeoutAssert", "hbTimerAssert", "hbTimeoutAssert",
                "onHeartbeatAssert", "handshakeAssert"}

\* tcp__reset never calls uv_close on a socket that uv_tcp_init has not
\* made, whatever order the wake-ups of the worker are served in.
NoUninit == fault # "uvClose"

\* When tr_uv_tcp_cleanup has joined the worker and the last events are
\* polled, no request is left: the assertions of pc_client_cleanup hold.
NothingLeft == fault # "reqQueue"

\* tcp__reconn makes at most reconn_max_retry attempts in a row.
RetriesBounded ==
  ReconnMaxRetry # PC_ALWAYS_RETRY =>
    reconn_times <= ReconnMaxRetry + (IF tail = "giveUp" THEN 1 ELSE 0)

\* A client in state CONNECTED has a transport that finished its handshake,
\* once the worker is between two callbacks and all events are delivered.
ConnectedIsDone ==
  /\ state = "CONNECTED" /\ tail = "idle" /\ pending_ev = <<>>
  /\ ~CleaningUp /\ fault = None
  => tstate = "DONE"

\* A client does not stay in DISCONNECTING by an oversight: the wake-up that
\* ends it, or the event that does, is still to come.
DisconnectServed ==
  state = "DISCONNECTING" /\ ~closed /\ fault = None =>
    \/ "disconnect" \in async
    \/ \E i \in DOMAIN pending_ev : pending_ev[i].net = "DISCONNECT"

\* A request with a timeout that waits to be written is watched: the check
\* timer runs, or a wake-up or a finished write is to come that starts it.
WaitingIsWatched ==
  Timed \cap (conn_pending \cup write_wait) # {} =>
    \/ "check" \in timers \/ "write" \in async \/ is_writing
    \/ tstate \in {"NOT_CONN", "CONNECTING"}
    \/ \E t \in Threads : call[t] = "sendWake"

\* PC_EV_CONNECTED arrives in the state that pc__trans_fire_event asserts,
\* even if another thread disconnects meanwhile.
ConnectedInState == fault # "CONNECTED"

(***************************************************************************)
(* Why NoTimerAssert holds: an invariant of every step                     *)
(* (TcpTransportProofs)                                                    *)
(***************************************************************************)

\* A connection attempt has a socket, and the timer that limits it runs only
\* during the attempt.
AttemptInv ==
  /\ "conn_timeout" \in timers => is_connecting
  /\ is_connecting => sock \in {"open", "closing"}

\* The socket is read exactly while the transport shakes hands or is done;
\* tcp__reconn leaves the states in between as it found them.
ReadingInv ==
  /\ sock = "reading" <=> tstate \in {"HANDSHAKEING", "DONE"}
  /\ tail = "delay" => tstate = "NOT_CONN"
  /\ tail = "giveUp" => tstate = "CONNECTING"

\* At most one of the two heartbeat timers runs, the one that fits
\* is_waiting_hb, and neither outlives the connection.
HeartbeatInv ==
  /\ "hb" \in timers => ~is_waiting_hb /\ tstate = "DONE"
  /\ "hb_timeout" \in timers => is_waiting_hb /\ tstate = "DONE"
  /\ is_waiting_hb =>
       tstate = "DONE" /\ ("hb_timeout" \in timers \/ tail = "reconn")

\* The server answers the handshake while the transport shakes hands: the
\* handshake is written once for each connection.
HandshakeInv ==
  /\ "handshake" \in owed /\ sock = "reading" => tstate = "HANDSHAKEING"
  /\ "handshake" \in write_wait =>
       tstate = "HANDSHAKEING" /\ "handshake" \notin owed

\* No timer and no package finds the transport in a state that an assertion
\* of its callbacks rules out, and this is why.
AssertInv ==
  NoTimerAssert /\ AttemptInv /\ ReadingInv /\ HeartbeatInv /\ HandshakeInv

(***************************************************************************)
(* Why the other safety properties hold: what each of them needs to be an  *)
(* invariant of every step (TcpTransportProofs and TcpConnectionProofs)    *)
(***************************************************************************)

\* A request has one thread that brings it to the transport, and is in use
\* as long as it does.
SendInv ==
  /\ \A r \in Reqs : InSend(r) => status[r] \notin {"unused", "rejected"}
  /\ \A t, u \in Threads :
       /\ call[t] \in {"sendCheck", "sendQueue"}
       /\ call[u] \in {"sendCheck", "sendQueue"}
       /\ arg[t] = arg[u]
       => t = u

\* Once the worker closes its handles the application is in
\* pc_client_cleanup and nowhere else, and no request is queued any more.
CleanupInv ==
  /\ Running /\ ("cleanup" \in async \/ closed) => CleaningUp
  /\ \A t, u \in Threads : call[t] = "cleanup" /\ t # u => call[u] = "idle"
  /\ closed => Held \cap Reqs = {}

\* Requests are handed to the socket only after the handshake; until then
\* there is nothing but the handshake to write.
ShakeInv ==
  /\ tstate # "DONE" => (write_wait \cup writing) \cap Reqs = {}
  /\ tstate # "DONE" => write_wait \subseteq {"handshake"}

\* Where the connection is in the opening of the protocol: what the server
\* has received and what is next in write_wait_queue.
OpeningInv ==
  /\ tstate = "HANDSHAKEING" =>
       \/ srv = "nothing" /\ write_wait = {"handshake"}
       \/ srv = "handshake" /\ write_wait = {}
  /\ tstate = "DONE" =>
       /\ "handshake" \notin write_wait
       /\ \/ srv = "handshake" /\ "ack" \in write_wait
          \/ srv = "ack" /\ "ack" \notin write_wait
  /\ "handshake" \in owed => srv # "nothing"

\* Before the first connection the worker has only been woken to make it,
\* and it serves that wake-up before any that needs the socket.
FirstConnInv ==
  sock = "none" =>
    /\ tstate = "NOT_CONN" /\ tail = "idle" /\ timers = {}
    /\ ~is_connecting /\ ~is_writing
    /\ pos = 0 \/ closed
    /\ pending_ev = <<>> /\ Held = {}
    /\ \A t \in Threads : call[t] # "sendQueue"
    /\ "write" \notin async
    /\ \/ state \notin {"INITED", "NOT_INITED"}
       \/ "disconnect" \in async
       \/ \E t \in Threads : call[t] = "disconnect"
       => "conn" \in async

\* Without polling pending_ev_queue stays empty.
PollingInv == ~EnablePolling => pending_ev = <<>>

\* The event at i ends a connection, or an attempt to make one.
Ending(i) == pending_ev[i].net \notin {None, "CONNECTED"}

\* An end of the connection is the last that the client has been told, or
\* will be when it has polled all events.
EndTold ==
  /\ state = "CONNECTED" => \E i \in DOMAIN pending_ev : Ending(i)
  /\ \A i \in DOMAIN pending_ev :
       pending_ev[i].net = "CONNECTED" =>
         \E j \in DOMAIN pending_ev : j > i /\ Ending(j)

\* The client is told whenever the transport is not done, or is about to be
\* reset.
ToldInv ==
  /\ tstate # "DONE" \/ tail # "idle"
  /\ ~CleaningUp /\ Running
  => EndTold

(***************************************************************************)
(* Liveness                                                                *)
(***************************************************************************)

\* pc_client_disconnect is carried out.
DisconnectEnds == state = "DISCONNECTING" ~> state # "DISCONNECTING" \/ ~Running

\* pc_client_cleanup returns: the worker's loop runs out of handles and its
\* thread can be joined, whatever the connection was doing.  Fails when a late
\* wake-up of conn_async connects (README, section 3), so it is in no cfg.
CleanupEnds == CleaningUp ~> ~Running

\* Once tcp__cleanup_async_cb has run and left no connection attempt open,
\* the loop runs out of handles and pc_client_cleanup returns: the cancelled
\* requests of libuv, the reconnection they start and the timers that are
\* started on closed handles all come to an end.
LoopEnds == closed /\ sock \notin {"open", "reading"} ~> ~Running

\* The attempt to connect or to reconnect ends: with a connection to shake
\* hands on, or given up.
AttemptEnds ==
  tstate = "CONNECTING" ~>
    \/ tstate = "HANDSHAKEING"
    \/ tstate = "NOT_CONN" /\ tail = "idle"
    \/ ~Running

\* The timeout of a handshake is that of the handshake in progress.  Fails: the
\* timer outlives tcp__reset (README, section 3), so it is in no cfg.
HandshakeTimerIsCurrent == [][HandshakeTimer => tstate = "HANDSHAKEING"]_vars

\* A request that was written is answered once its timeout has passed.  Fails
\* when the check timer runs during the write (README, section 3), so it is in
\* no cfg.
ResponseTimesOut ==
  \A r \in Timed :
    r \in late \cap resp_pending ~> r \notin resp_pending \/ ~Running
=============================================================================
