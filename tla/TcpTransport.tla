---------------------------- MODULE TcpTransport ----------------------------
(***************************************************************************)
(* The TCP transport of libpomelo2 (src/tr/uv/tr_uv_tcp_i.c and            *)
(* tr_uv_tcp_aux.c) together with the client state it drives               *)
(* (src/pc_pomelo.c, src/pc_trans.c).                                      *)
(*                                                                         *)
(* Application threads call the API of pc_client_t.  One worker thread     *)
(* runs a libuv loop whose callbacks own the connection; the threads       *)
(* signal it with uv_async_send.  A worker callback is cut into two steps  *)
(* where it fires a network event, because the application's handlers run  *)
(* there and the other threads see the new client state; an API call is    *)
(* cut where it drops a lock or acts on a value it read without one.       *)
(*                                                                         *)
(* A failed assertion, or another step from which the program cannot go    *)
(* on, is recorded in fault and stops the system.                          *)
(***************************************************************************)
EXTENDS PcEvents, Backoff, Sequences, FiniteSets

CONSTANTS
  Threads,        \* application threads
  Requests,       \* requests the application may issue (pc_request)
  Notifies,       \* notifications the application may issue (pc_notify)
  Timed,          \* those of them issued with a timeout
  EnablePolling,  \* config->enable_polling
  EnableReconn,   \* config->enable_reconn
  ReconnMaxRetry, \* config->reconn_max_retry
  BadOpts,        \* the application may pass handshake_opts that are not JSON
  ConnTimeout,    \* config->conn_timeout # PC_WITHOUT_TIMEOUT
  WriteInline,    \* buffers uv_write takes without allocating (4 in libuv)
  MaxPending,     \* bound on the number of events queued for polling
  None            \* no thread, no request, no event, no fault

PC_ALWAYS_RETRY == -1

Reqs == Requests \cup Notifies

\* The write items the transport makes for itself (TR_UV_WI_TYPE_INTERNAL).
Internal == {"handshake", "ack", "heartbeat"}

\* What can stop the process: the assertion on a network event, or one of
\* these.
Faults == NetEvents \cup
  {"finishClose", "reinit", "uvClose", "divByZero", "nullJson", "reqQueue",
   "connTimeoutAssert", "hbTimerAssert", "hbTimeoutAssert",
   "onHeartbeatAssert", "handshakeAssert"}

ASSUME TransportAssumption ==
  /\ Requests \cap Notifies = {}
  /\ Reqs \cap Internal = {}
  /\ Timed \subseteq Reqs
  /\ EnablePolling \in BOOLEAN
  /\ EnableReconn \in BOOLEAN
  /\ ReconnMaxRetry \in Nat \cup {PC_ALWAYS_RETRY}
  /\ BadOpts \in BOOLEAN
  /\ ConnTimeout \in BOOLEAN
  /\ WriteInline \in Nat \ {0}
  /\ MaxPending \in Nat
  /\ None \notin Threads \cup Reqs \cup Faults

VARIABLES
  state,          \* client->state
  pending_ev,     \* client->pending_ev_queue, used when polling
  poller,         \* the thread inside pc_client_poll, holding event_mutex
  call,           \* per thread: where it is inside an API call
  arg,            \* per thread: the request that call is about
  status,         \* per request: its entry in req_queue or notify_queue
  late,           \* the requests whose timeout has passed
  tstate,         \* tt->state
  is_connecting,  \* conn_req is in use: tcp__conn_done_cb is still to come
  is_writing,     \* write_req is in use: tcp__write_done_cb is still to come
  reconn_times, is_waiting_hb,
  conn_pending, write_wait, writing, resp_pending, \* queues of write items
  timers,         \* the active libuv timers
  async,          \* the async handles with a wake-up pending
  sock,           \* tt->socket as libuv sees it
  pos,            \* where the loop is in its iteration
  closed,         \* tcp__cleanup_async_cb has closed the handles
  tail,           \* what is left to do in the running worker callback
  srv,            \* what the server has received on this connection
  owed,           \* what the server has received and not answered yet
  fault           \* the failed assertion that stopped the process

clientVars == <<state, pending_ev, status>>
appVars    == <<call, arg, poller>>
queueVars  == <<conn_pending, write_wait, writing, resp_pending>>
loopVars   == <<pos, closed>>
connVars   == <<tstate, is_connecting, reconn_times, is_waiting_hb, sock>>
serverVars == <<srv, owed>>

vars == <<clientVars, appVars, queueVars, is_writing, loopVars, connVars,
          serverVars, timers, async, late, tail, fault>>

TransportStates == {"NOT_CONN", "CONNECTING", "HANDSHAKEING", "DONE"}

\* tt->socket: "none" before the first uv_tcp_init; "open" initialised and
\* perhaps connecting; "reading" after uv_read_start; "stopped" after a
\* uv_read_stop that no uv_close followed; "closing" until the loop runs its
\* closing phase; then "closed".
SocketStates == {"none", "open", "reading", "stopped", "closing", "closed"}

Timers == {"conn_timeout", "reconn_delay", "handshake", "check", "hb",
           "hb_timeout"}

\* The order in which tr_uv_tcp_init makes the async handles, which is the
\* order in which libuv scans them.
Asyncs == {"conn", "write", "disconnect", "cleanup"}

\* Faulty: the handle for disconnecting made first
Rank_disconnectFirst ==
  [a \in Asyncs |-> CASE a = "disconnect" -> 1 [] a = "write" -> 2
                      [] a = "conn" -> 3 [] a = "cleanup" -> 4]

Rank == [a \in Asyncs |-> CASE a = "conn" -> 1 [] a = "write" -> 2
                            [] a = "disconnect" -> 3 [] a = "cleanup" -> 4]

\* call[t]: between reading the state and setting it in pc_client_connect
\* and pc_client_disconnect; after a failed trans->connect; at the three
\* steps of tr_uv_tcp_send; in the thread join of tr_uv_tcp_cleanup.
Calls == {"idle", "connect", "connectFailed", "disconnect",
          "sendCheck", "sendQueue", "sendWake", "cleanup"}

\* What is left of the running callback: nothing; a reset; a reset and then
\* the rest of tcp__on_handshake_resp; that rest; a tcp__reconn; what follows
\* the reset in tcp__reconn; what follows its CONNECT_FAILED.
Tails ==
  {"idle", "reset", "resetHandshake", "handshake", "reconn", "delay", "giveUp"}

TypeOK ==
  /\ state \in ClientStates
  /\ pending_ev \in Seq([net : NetEvents \cup {None}, done : SUBSET Reqs])
  /\ poller \in Threads \cup {None}
  /\ call \in [Threads -> Calls]
  /\ arg \in [Threads -> Reqs \cup {None}]
  /\ status \in [Reqs -> {"unused", "open", "done", "rejected"}]
  /\ late \subseteq Timed
  /\ tstate \in TransportStates
  /\ is_connecting \in BOOLEAN
  /\ is_writing \in BOOLEAN
  /\ reconn_times \in Nat
  /\ is_waiting_hb \in BOOLEAN
  /\ conn_pending \subseteq Reqs
  /\ write_wait \subseteq Reqs \cup Internal
  /\ writing \subseteq Reqs \cup Internal
  /\ resp_pending \subseteq Requests
  /\ timers \subseteq Timers
  /\ async \subseteq Asyncs
  /\ sock \in SocketStates
  /\ pos \in -1..4
  /\ closed \in BOOLEAN
  /\ tail \in Tails
  /\ srv \in {"nothing", "handshake", "ack", "misordered"}
  /\ owed \subseteq Requests \cup {"handshake", "heartbeat"}
  /\ fault \in Faults \cup {None}

\* pc_client_init and tr_uv_tcp_init
Init ==
  /\ state = "INITED"
  /\ pending_ev = <<>>
  /\ poller = None
  /\ call = [t \in Threads |-> "idle"]
  /\ arg = [t \in Threads |-> None]
  /\ status = [r \in Reqs |-> "unused"]
  /\ late = {}
  /\ tstate = "NOT_CONN"
  /\ is_connecting = FALSE
  /\ is_writing = FALSE
  /\ reconn_times = 0
  /\ is_waiting_hb = FALSE
  /\ conn_pending = {}
  /\ write_wait = {}
  /\ writing = {}
  /\ resp_pending = {}
  /\ timers = {}
  /\ async = {}
  /\ sock = "none"
  /\ pos = 0
  /\ closed = FALSE
  /\ tail = "idle"
  /\ srv = "nothing"
  /\ owed = {}
  /\ fault = None

(***************************************************************************)
(* Telling the client (src/pc_trans.c)                                     *)
(***************************************************************************)

\* pc__trans_resp and pc__trans_sent: a request is looked up in req_queue or
\* notify_queue; one that is not there is only logged.
Complete(done) ==
  [r \in Reqs |-> IF r \in done /\ status[r] = "open" THEN "done"
                                                       ELSE status[r]]

\* pc__trans_fire_event.  A failed assertion aborts before the assignment.
Fire(e) ==
  IF e = None THEN UNCHANGED <<state, fault>>
  ELSE IF state \in LegalIn(e)
         THEN state' = AfterEvent(e, state) /\ UNCHANGED fault
         ELSE fault' = e /\ UNCHANGED state

\* Once pc_client_cleanup is called the application makes no other call: it
\* is about to free the client.
CleaningUp == \E t \in Threads : call[t] = "cleanup"

\* pc_trans_resp / pc_trans_sent for the requests in done, then
\* pc_trans_fire_event for e.  With polling they are queued under
\* event_mutex, which a thread inside pc_client_poll holds.
Tell(done, e) ==
  IF EnablePolling
    THEN /\ IF done = {} /\ e = None
              THEN UNCHANGED pending_ev
              ELSE /\ poller = None
                   /\ Len(pending_ev) < MaxPending \/ CleaningUp
                   /\ pending_ev' =
                        Append(pending_ev, [net |-> e, done |-> done])
         /\ UNCHANGED <<state, status, fault>>
    ELSE /\ status' = Complete(done)
         /\ Fire(e)
         /\ UNCHANGED pending_ev

\* abort() or a fatal signal at a point where the client is told nothing
Crash(label) ==
  /\ fault' = label
  /\ UNCHANGED clientVars

(***************************************************************************)
(* The application threads (src/pc_pomelo.c, tr_uv_tcp_i.c)                *)
(***************************************************************************)

Running == fault = None /\ state # "NOT_INITED"

\* pc_client_connect and pc_client_disconnect begin with pc_client_poll,
\* which does nothing when the thread is already in it.
Polled(t) ==
  \/ ~EnablePolling
  \/ poller = t
  \/ poller = None /\ pending_ev = <<>>

Goto(t, c, r) ==
  /\ call' = [call EXCEPT ![t] = c]
  /\ arg' = [arg EXCEPT ![t] = r]

\* uv_async_send; nothing comes of it once the handle is closed
Wake(A) == async' = IF closed THEN async ELSE async \cup A

\* Only a client in state INITED goes on: the others return at once.
ConnectCall(t) ==
  /\ Running /\ ~CleaningUp
  /\ call[t] = "idle" /\ Polled(t)
  /\ state = "INITED"
  /\ Goto(t, "connect", None)
  /\ UNCHANGED <<clientVars, poller, late, connVars, queueVars, is_writing,
                 loopVars, serverVars, timers, async, tail, fault>>

\* trans->connect fails when handshake_opts is not JSON, otherwise it wakes
\* the worker.
ConnectStart(t) ==
  /\ Running
  /\ call[t] = "connect"
  /\ state' = "CONNECTING"
  /\ \/ Goto(t, "idle", None) /\ Wake({"conn"})
     \/ BadOpts /\ Goto(t, "connectFailed", None) /\ UNCHANGED async
  /\ UNCHANGED <<pending_ev, status, poller, late, connVars, queueVars,
                 is_writing, loopVars, serverVars, timers, tail, fault>>

ConnectUndo(t) ==
  /\ Running
  /\ call[t] = "connectFailed"
  /\ state' = "INITED"
  /\ Goto(t, "idle", None)
  /\ UNCHANGED <<pending_ev, status, poller, late, connVars, queueVars,
                 is_writing, loopVars, serverVars, timers, async, tail, fault>>

DisconnectCall(t) ==
  /\ Running /\ ~CleaningUp
  /\ call[t] = "idle" /\ Polled(t)
  /\ state \in {"CONNECTING", "CONNECTED"}
  /\ Goto(t, "disconnect", None)
  /\ UNCHANGED <<clientVars, poller, late, connVars, queueVars, is_writing,
                 loopVars, serverVars, timers, async, tail, fault>>

DisconnectStart(t) ==
  /\ Running
  /\ call[t] = "disconnect"
  /\ state' = "DISCONNECTING"
  /\ Goto(t, "idle", None)
  /\ Wake({"disconnect"})
  /\ UNCHANGED <<pending_ev, status, poller, late, connVars, queueVars,
                 is_writing, loopVars, serverVars, timers, tail, fault>>

\* pc_request_with_timeout and pc_notify_with_timeout up to trans->send
SendCall(t, r) ==
  /\ Running /\ ~CleaningUp
  /\ call[t] = "idle"
  /\ status[r] = "unused"
  /\ state \in {"CONNECTED", "CONNECTING"}
  /\ status' = [status EXCEPT ![r] = "open"]
  /\ Goto(t, "sendCheck", r)
  /\ UNCHANGED <<state, pending_ev, poller, late, connVars, queueVars,
                 is_writing, loopVars, serverVars, timers, async, tail, fault>>

\* tr_uv_tcp_send reads tt->state without wq_mutex and encodes the message,
\* which may fail; on an error the caller takes the request out of its queue
\* again.
SendCheck(t) ==
  /\ Running
  /\ call[t] = "sendCheck"
  /\ \/ /\ tstate # "NOT_CONN"
        /\ Goto(t, "sendQueue", arg[t])
        /\ UNCHANGED status
     \/ /\ status' = [status EXCEPT ![arg[t]] = "rejected"]
        /\ Goto(t, "idle", None)
  /\ UNCHANGED <<state, pending_ev, poller, late, connVars, queueVars,
                 is_writing, loopVars, serverVars, timers, async, tail, fault>>

\* Faulty: once the connection is up
Ready_early == tstate \in {"HANDSHAKEING", "DONE"}

\* Requests may be written: not before the handshake is done.
Ready == tstate = "DONE"

\* The section under wq_mutex.  The request waits in conn_pending_queue
\* until the handshake is done.
SendQueue(t) ==
  /\ Running
  /\ call[t] = "sendQueue"
  /\ IF Ready
       THEN /\ write_wait' = write_wait \cup {arg[t]}
            /\ UNCHANGED conn_pending
       ELSE /\ conn_pending' = conn_pending \cup {arg[t]}
            /\ UNCHANGED write_wait
  /\ Goto(t, "sendWake", None)
  /\ UNCHANGED <<clientVars, poller, late, connVars, writing, resp_pending,
                 is_writing, loopVars, serverVars, timers, async, tail, fault>>

SendWake(t) ==
  /\ Running
  /\ call[t] = "sendWake"
  /\ IF tstate = "NOT_CONN" THEN UNCHANGED async ELSE Wake({"write"})
  /\ Goto(t, "idle", None)
  /\ UNCHANGED <<clientVars, poller, late, connVars, queueVars, is_writing,
                 loopVars, serverVars, timers, tail, fault>>

\* uv_run returns when no handle is active and none is closing.
LoopDone ==
  /\ closed
  /\ tail = "idle"
  /\ timers = {}
  /\ sock \notin {"reading", "closing"}
  /\ ~is_connecting /\ ~is_writing

\* One turn of the loop of pc_client_poll, which holds event_mutex
\* throughout; pc_client_cleanup polls once the worker is joined.
PollEvent(t) ==
  /\ Running
  /\ poller \in {None, t}
  /\ call[t] = "idle" \/ (call[t] = "cleanup" /\ LoopDone)
  /\ pending_ev # <<>>
  /\ poller' = t
  /\ pending_ev' = Tail(pending_ev)
  /\ status' = Complete(Head(pending_ev).done)
  /\ Fire(Head(pending_ev).net)
  /\ UNCHANGED <<call, arg, late, connVars, queueVars, is_writing, loopVars,
                 serverVars, timers, async, tail>>

PollEnd(t) ==
  /\ Running
  /\ poller = t
  /\ call[t] \in {"idle", "cleanup"}
  /\ pending_ev = <<>>
  /\ poller' = None
  /\ UNCHANGED <<clientVars, call, arg, late, connVars, queueVars, is_writing,
                 loopVars, serverVars, timers, async, tail, fault>>

\* pc_client_cleanup up to the join in tr_uv_tcp_cleanup
CleanupCall(t) ==
  /\ Running
  /\ \A u \in Threads : call[u] = "idle"
  /\ poller = None
  /\ Goto(t, "cleanup", None)
  /\ Wake({"cleanup"})
  /\ UNCHANGED <<clientVars, poller, late, connVars, queueVars, is_writing,
                 loopVars, serverVars, timers, tail, fault>>

\* The rest of pc_client_cleanup, with its assertions that nothing is left
CleanupFinish(t) ==
  /\ Running
  /\ call[t] = "cleanup"
  /\ LoopDone
  /\ poller = None /\ pending_ev = <<>>
  /\ IF \E r \in Reqs : status[r] = "open"
       THEN fault' = "reqQueue" /\ UNCHANGED <<state, call, arg>>
       ELSE /\ state' = "NOT_INITED"
            /\ Goto(t, "idle", None)
            /\ UNCHANGED fault
  /\ UNCHANGED <<pending_ev, status, poller, late, connVars, queueVars,
                 is_writing, loopVars, serverVars, timers, async, tail>>

\* Faulty: conn_pending_queue forgotten
Held_notPending == write_wait \cup writing \cup resp_pending

\* The write items that are in a queue of the transport
Held == conn_pending \cup write_wait \cup writing \cup resp_pending

\* The timeout of a request passes (time(NULL) > wi->ts + wi->timeout); it
\* runs from the moment the write item is queued.
Expire(r) ==
  /\ Running
  /\ r \in (Timed \ late) \cap Held
  /\ status[r] = "open"
  /\ late' = late \cup {r}
  /\ UNCHANGED <<clientVars, appVars, connVars, queueVars, is_writing,
                 loopVars, serverVars, timers, async, tail, fault>>

(***************************************************************************)
(* The worker thread: the libuv loop.  An iteration runs the timers that   *)
(* are due, polls (socket events and, in the order of Rank, the async      *)
(* handles with a wake-up pending) and last finishes closing the handles   *)
(* uv_close was called on.  Where the loop is matters while tt->socket is  *)
(* closing and inside a scan of the async handles; pos is then             *)
(*   -1    in the timer phase,                                             *)
(*    0    polling,                                                        *)
(*    1..4 the rank of the async handle served last.                       *)
(***************************************************************************)

Idle == Running /\ tail = "idle"

\* Of the handles with a wake-up pending, libuv serves next the first one
\* the scan has not passed; with none left it starts a new scan, but not
\* before the closing phase.
Ahead == {a \in async : Rank[a] > pos}
Candidates ==
  IF Ahead # {} THEN Ahead ELSE IF sock = "closing" THEN {} ELSE async
Next_in_scan(a) ==
  a \in Candidates /\ \A b \in Candidates : Rank[a] <= Rank[b]

AsyncRuns(a) ==
  /\ Idle /\ ~closed
  /\ Next_in_scan(a)
  /\ pos' = Rank[a]

\* A scan that has begun is finished before any other callback runs.
ScanOver == pos < 1 \/ Ahead = {}

SocketRuns(S) ==
  /\ Idle /\ ScanOver
  /\ sock \in S
  /\ pos' = 0

\* With the socket closing, the closing phase comes before the next timer
\* phase; but a delay of zero started by a timer ends in the same phase.
ZeroDelay == reconn_times > 0 /\ BaseDelay(reconn_times) = 1

TimerRuns(t) ==
  /\ Idle /\ ScanOver
  /\ t \in timers
  /\ sock = "closing" => pos = -1 /\ (t = "reconn_delay" => ZeroDelay)
  /\ pos' = -1

(***************************************************************************)
(* tcp__reset.  Afterwards the transport holds no write item: all of them  *)
(* are answered with PC_RC_RESET.  uv_close is skipped when the client is  *)
(* already in state INITED.                                                *)
(***************************************************************************)

\* Faulty: the heartbeat timer goes on
Stopped_notHb == {"hb_timeout", "check", "reconn_delay", "conn_timeout"}

\* The timers that tcp__reset stops.  The handshake timer is not among them.
Stopped == {"hb_timeout", "hb", "check", "reconn_delay", "conn_timeout"}

MustClose == state # "INITED" /\ sock \notin {"closing", "closed"}

\* Faulty: requests that wait for a response survive
Reset_keepsSent ==
  /\ is_waiting_hb' = FALSE
  /\ sock' = IF MustClose THEN "closing"
             ELSE IF sock = "reading" THEN "stopped" ELSE sock
  /\ conn_pending' = {}
  /\ write_wait' = {}
  /\ writing' = {}
  /\ UNCHANGED resp_pending

Reset ==
  /\ is_waiting_hb' = FALSE
  /\ sock' = IF MustClose THEN "closing"
             ELSE IF sock = "reading" THEN "stopped" ELSE sock
  /\ conn_pending' = {}
  /\ write_wait' = {}
  /\ writing' = {}
  /\ resp_pending' = {}

\* uv_close on a handle that was never initialised
ResetCrashes == MustClose /\ sock = "none"

\* The reset that follows an event in tcp__on_kick_recieved, in a failed
\* handshake and in tcp__reconn
ResetTail ==
  /\ Running
  /\ tail \in {"reset", "resetHandshake", "reconn"}
  /\ IF ResetCrashes
       THEN Crash("uvClose") /\ UNCHANGED <<connVars, queueVars, timers, tail>>
       ELSE /\ Reset
            /\ tstate' = "NOT_CONN"
            /\ timers' = timers \ Stopped
            /\ tail' = CASE tail = "reset" -> "idle"
                         [] tail = "resetHandshake" -> "handshake"
                         [] tail = "reconn" -> "delay"
            /\ Tell(Held \cap Reqs, None)
            /\ UNCHANGED <<is_connecting, reconn_times>>
  /\ UNCHANGED <<appVars, late, is_writing, loopVars, serverVars, async>>

\* For a handshake response that is not JSON, tcp__on_handshake_resp does
\* not return after the reset but goes on with the null document.
NullTail ==
  /\ Running
  /\ tail = "handshake"
  /\ Crash("nullJson")
  /\ UNCHANGED <<appVars, late, connVars, queueVars, is_writing, loopVars,
                 serverVars, timers, async, tail>>

\* Faulty: tested before the attempt is counted
GivesUp_oneMore ==
  \/ ~EnableReconn
  \/ ReconnMaxRetry # PC_ALWAYS_RETRY /\ ReconnMaxRetry < reconn_times

\* It gives up: reconnecting is disabled, or this was the last attempt.
GivesUp ==
  \/ ~EnableReconn
  \/ ReconnMaxRetry # PC_ALWAYS_RETRY /\ ReconnMaxRetry < reconn_times + 1

\* tcp__reconn after its reset
DelayTail ==
  /\ Running
  /\ tail = "delay"
  /\ IF ~GivesUp /\ BaseDelay(reconn_times + 1) = 0
       THEN Crash("divByZero") /\ UNCHANGED <<tstate, reconn_times, timers, tail>>
       ELSE /\ tstate' = "CONNECTING"
            /\ reconn_times' = IF EnableReconn THEN reconn_times + 1
                                               ELSE reconn_times
            /\ timers' = IF GivesUp THEN timers ELSE timers \cup {"reconn_delay"}
            /\ tail' = IF GivesUp THEN "giveUp" ELSE "idle"
            /\ Tell({}, IF GivesUp THEN "CONNECT_FAILED" ELSE None)
  /\ UNCHANGED <<appVars, late, is_connecting, is_waiting_hb, sock, queueVars,
                 is_writing, loopVars, serverVars, async>>

\* What follows CONNECT_FAILED in tcp__reconn
GiveUpTail ==
  /\ Running
  /\ tail = "giveUp"
  /\ reconn_times' = 0
  /\ tstate' = "NOT_CONN"
  /\ tail' = "idle"
  /\ UNCHANGED <<clientVars, appVars, late, is_connecting, is_waiting_hb, sock,
                 queueVars, is_writing, loopVars, serverVars, timers, async,
                 fault>>

(***************************************************************************)
(* The callbacks of the async handles                                      *)
(***************************************************************************)

\* tcp__conn_async_cb.  uv_tcp_init makes tt->socket anew whatever it was.
\* On a handle that is still closing it clears the closing flag, and
\* uv__finish_close aborts at the end of the iteration; on one that is
\* reading or writing it leaves a watcher and a request dangling.
ConnAsync ==
  /\ AsyncRuns("conn")
  /\ async' = async \ {"conn"}
  /\ IF is_connecting
       THEN UNCHANGED <<clientVars, connVars, timers, tail, fault>>
     ELSE IF sock = "closing" \/ sock = "reading" \/ is_writing
       THEN /\ Crash(IF sock = "closing" THEN "finishClose" ELSE "reinit")
            /\ UNCHANGED <<connVars, timers, tail>>
     ELSE /\ tstate' = "CONNECTING"
          /\ sock' = "open"
          /\ \/ /\ is_connecting' = TRUE
                /\ timers' = timers \cup
                               (IF ConnTimeout THEN {"conn_timeout"} ELSE {})
                /\ UNCHANGED <<clientVars, tail, fault>>
             \* no address, or uv_tcp_connect fails
             \/ /\ Tell({}, "CONNECT_ERROR")
                /\ tail' = "reconn"
                /\ UNCHANGED <<is_connecting, timers>>
          /\ UNCHANGED <<reconn_times, is_waiting_hb>>
  /\ UNCHANGED <<appVars, late, queueVars, is_writing, closed, serverVars>>

\* What a write of the items in B puts on the connection, seen from the
\* server.  tcp__send_handshake and tcp__send_handshake_ack insert their
\* item at the head of write_wait_queue, so it goes first.
ServerAfter(B) ==
  IF "handshake" \in B
    THEN IF srv = "nothing" /\ B = {"handshake"} THEN "handshake"
                                                  ELSE "misordered"
  ELSE IF "ack" \in B
    THEN IF srv = "handshake" THEN "ack" ELSE "misordered"
  ELSE IF srv = "ack" THEN "ack" ELSE "misordered"

\* tcp__write_async_cb
WriteAsync ==
  LET moved == IF Ready THEN conn_pending ELSE {}
      batch == write_wait \cup moved
      check == \/ ~Ready /\ conn_pending # {}
               \/ batch \cap Timed # {}
      checking == timers \cup (IF check THEN {"check"} ELSE {})
  IN
  /\ AsyncRuns("write")
  /\ async' = async \ {"write"}
  /\ IF tstate = "NOT_CONN" \/ is_writing
       THEN UNCHANGED <<clientVars, queueVars, is_writing, serverVars, timers,
                        fault>>
     ELSE IF batch = {}
       THEN /\ timers' = checking
            /\ UNCHANGED <<clientVars, queueVars, is_writing, serverVars, fault>>
     ELSE /\ conn_pending' = conn_pending \ moved
          /\ write_wait' = {}
          /\ UNCHANGED resp_pending
          /\ \/ /\ writing' = writing \cup batch
                /\ is_writing' = TRUE
                /\ srv' = ServerAfter(batch)
                /\ owed' = owed \cup
                     (batch \cap (Requests \cup {"handshake", "heartbeat"}))
                /\ timers' = checking
                /\ UNCHANGED <<clientVars, fault>>
             \* uv_write fails at once, out of memory
             \/ /\ Cardinality(batch) > WriteInline
                /\ writing' = {}
                /\ Tell((writing \cup batch) \cap Reqs, None)
                /\ UNCHANGED <<is_writing, serverVars, timers>>
  /\ UNCHANGED <<appVars, late, connVars, closed, tail>>

\* tcp__disconnect_async_cb
DisconnectAsync ==
  /\ AsyncRuns("disconnect")
  /\ async' = async \ {"disconnect"}
  /\ IF ResetCrashes
       THEN Crash("uvClose") /\ UNCHANGED <<connVars, queueVars, timers>>
       ELSE /\ Reset
            /\ tstate' = "NOT_CONN"
            /\ timers' = timers \ Stopped
            /\ reconn_times' = 0
            /\ Tell(Held \cap Reqs, "DISCONNECT")
            /\ UNCHANGED is_connecting
  /\ UNCHANGED <<appVars, late, is_writing, closed, serverVars, tail>>

\* tcp__cleanup_async_cb: closes every timer and async handle
CleanupAsync ==
  /\ AsyncRuns("cleanup")
  /\ IF ResetCrashes
       THEN /\ Crash("uvClose")
            /\ UNCHANGED <<connVars, queueVars, timers, async, closed>>
       ELSE /\ Reset
            /\ tstate' = "NOT_CONN"
            /\ reconn_times' = 0
            /\ timers' = {}
            /\ async' = {}
            /\ closed' = TRUE
            /\ Tell(Held \cap Reqs, None)
            /\ UNCHANGED is_connecting
  /\ UNCHANGED <<appVars, late, is_writing, serverVars, tail>>

(***************************************************************************)
(* The callbacks of the socket                                             *)
(***************************************************************************)

\* tcp__conn_done_cb with status 0, and tcp__send_handshake.  uv_read_start
\* cannot fail on a connected socket.  The handshake gets what is left of
\* conn_timeout; when that is overdue already the negative rest is a huge
\* unsigned timeout, which never ends.
ConnDone ==
  /\ SocketRuns({"open"})
  /\ is_connecting
  /\ is_connecting' = FALSE
  /\ tstate' = "HANDSHAKEING"
  /\ sock' = "reading"
  /\ write_wait' = write_wait \cup {"handshake"}
  /\ Wake({"write"})
  /\ \E T \in IF ConnTimeout THEN {{"handshake"}, {}} ELSE {{}} :
       timers' = (timers \ {"conn_timeout", "handshake"}) \cup T
  /\ srv' = "nothing"
  /\ owed' = {}
  /\ UNCHANGED <<clientVars, appVars, late, reconn_times, is_waiting_hb,
                 conn_pending, writing, resp_pending, is_writing, closed, tail,
                 fault>>

\* Faulty: the callback returns when it was cancelled
ConnRefused_cancelled ==
  /\ is_connecting
  /\ is_connecting' = FALSE
  /\ timers' = timers \ {"conn_timeout"}
  /\ Tell({}, "CONNECT_ERROR")
  /\ tail' = IF sock = "closing" THEN tail ELSE "reconn"
  /\ UNCHANGED <<tstate, reconn_times, is_waiting_hb, queueVars, is_writing>>

\* tcp__conn_done_cb with an error
ConnRefused ==
  /\ is_connecting
  /\ is_connecting' = FALSE
  /\ timers' = timers \ {"conn_timeout"}
  /\ Tell({}, "CONNECT_ERROR")
  /\ tail' = "reconn"
  /\ UNCHANGED <<tstate, reconn_times, is_waiting_hb, queueVars, is_writing>>

ConnFailed ==
  /\ SocketRuns({"open"})
  /\ ConnRefused
  /\ UNCHANGED <<appVars, late, sock, closed, serverVars, async>>

\* The shape of tcp__write_done_cb: kept goes to resp_pending_queue, done is
\* answered, left stays in writing_queue, busy is the new is_writing, and
\* woken is the async handle that is sent.
WrittenAs(kept, done, left, busy, woken) ==
  /\ is_writing
  /\ is_writing' = busy
  /\ resp_pending' = resp_pending \cup kept
  /\ writing' = left
  /\ Tell(done, None)
  /\ Wake(woken)
  /\ UNCHANGED <<tstate, is_connecting, reconn_times, is_waiting_hb,
                 conn_pending, write_wait, timers, tail>>

\* A request that was sent waits for its response.
Kept(ok) == IF ok THEN writing \cap Requests ELSE {}

\* Faulty: the type of the write item is not looked at
Written_anyType(ok) ==
  LET kept == IF ok THEN writing ELSE {} IN
  WrittenAs(kept, (writing \ kept) \cap Reqs, {}, FALSE, {"write"})

\* Faulty: a request whose write failed is dropped
Written_drops(ok) ==
  WrittenAs(Kept(ok), writing \cap Notifies, {}, FALSE, {"write"})

\* Faulty: write_async is not sent again
Written_noWake(ok) ==
  WrittenAs(Kept(ok), (writing \ Kept(ok)) \cap Reqs, {}, FALSE, {})

\* Faulty: is_writing stays set
Written_stuck(ok) ==
  WrittenAs(Kept(ok), (writing \ Kept(ok)) \cap Reqs, {}, TRUE, {"write"})

\* Faulty: the items that are kept are not taken out of writing_queue
Written_linked(ok) ==
  WrittenAs(Kept(ok), (writing \ Kept(ok)) \cap Reqs, Kept(ok), FALSE, {"write"})

\* tcp__write_done_cb
Written(ok) ==
  WrittenAs(Kept(ok), (writing \ Kept(ok)) \cap Reqs, {}, FALSE, {"write"})

WriteDone(ok) ==
  /\ SocketRuns({"reading", "stopped"})
  /\ Written(ok)
  /\ UNCHANGED <<appVars, late, sock, closed, serverVars>>

\* The closing phase: uv__stream_destroy cancels what was pending on the
\* socket, which runs the callback with UV_ECANCELED.
ClosingPhase ==
  /\ SocketRuns({"closing"})
  /\ sock' = "closed"
  /\ UNCHANGED <<appVars, late, closed, serverVars>>

CancelConnect == ClosingPhase /\ ConnRefused /\ UNCHANGED async
CancelWrite == ClosingPhase /\ ~is_connecting /\ Written(FALSE)
CloseSocket ==
  /\ ClosingPhase
  /\ ~is_connecting /\ ~is_writing
  /\ UNCHANGED <<clientVars, tstate, is_connecting, reconn_times,
                 is_waiting_hb, queueVars, is_writing, timers, async, tail,
                 fault>>

\* tcp__on_tcp_read_cb with an error or the end of the stream
ReadFailed ==
  /\ SocketRuns({"reading"})
  /\ Tell({}, "UNEXPECTED_DISCONNECT")
  /\ tail' = "reconn"
  /\ UNCHANGED <<appVars, late, connVars, queueVars, is_writing, closed,
                 serverVars, timers, async>>

(***************************************************************************)
(* Packages from the server.  Each is the whole of what a read delivers.   *)
(* The server follows the protocol: it answers the handshake once, answers *)
(* a heartbeat and a request it got at most once, and sends data once it   *)
(* has the handshake ack.  A push changes nothing and is left out.         *)
(***************************************************************************)

\* tcp__on_handshake_resp.  The answer is good and asks for heartbeats or
\* not, or it is refused, or it is not JSON.
OnHandshake(answer) ==
  /\ SocketRuns({"reading"})
  /\ "handshake" \in owed
  /\ owed' = owed \ {"handshake"}
  /\ IF tstate # "HANDSHAKEING"
       THEN /\ Crash("handshakeAssert")
            /\ UNCHANGED <<connVars, write_wait, timers, async, tail>>
     ELSE /\ reconn_times' = 0
          /\ IF answer \in {"refused", "garbage"}
               THEN /\ timers' = timers \ {"handshake"}
                    /\ Tell({}, "CONNECT_FAILED")
                    /\ tail' = IF answer = "refused" THEN "reset"
                                                     ELSE "resetHandshake"
                    /\ UNCHANGED <<tstate, write_wait, async>>
               ELSE /\ timers' = (timers \ {"handshake"})
                         \cup (IF answer = "heartbeat" THEN {"hb"} ELSE {})
                    /\ write_wait' = write_wait \cup {"ack"}
                    /\ Wake({"write"})
                    /\ tstate' = "DONE"
                    /\ Tell({}, "CONNECTED")
                    /\ UNCHANGED tail
          /\ UNCHANGED <<is_connecting, is_waiting_hb, sock>>
  /\ UNCHANGED <<appVars, late, conn_pending, writing, resp_pending, is_writing,
                 closed, srv>>

\* tcp__on_heartbeat
OnHeartbeat ==
  /\ SocketRuns({"reading"})
  /\ "heartbeat" \in owed
  /\ owed' = owed \ {"heartbeat"}
  /\ IF ~is_waiting_hb
       THEN UNCHANGED <<clientVars, is_waiting_hb, timers, fault>>
     ELSE IF tstate # "DONE" \/ "hb_timeout" \notin timers
       THEN Crash("onHeartbeatAssert") /\ UNCHANGED <<is_waiting_hb, timers>>
     ELSE /\ is_waiting_hb' = FALSE
          /\ timers' = (timers \ {"hb_timeout"}) \cup {"hb"}
          /\ UNCHANGED <<clientVars, fault>>
  /\ UNCHANGED <<appVars, late, tstate, is_connecting, reconn_times, sock,
                 queueVars, is_writing, closed, srv, async, tail>>

\* tcp__on_data_recieved with the response to r
OnResponse(r) ==
  /\ SocketRuns({"reading"})
  /\ srv = "ack" /\ r \in owed
  /\ owed' = owed \ {r}
  /\ resp_pending' = resp_pending \ {r}
  /\ Tell({r}, None)
  /\ UNCHANGED <<appVars, late, connVars, conn_pending, write_wait, writing,
                 is_writing, closed, srv, timers, async, tail>>

\* tcp__on_data_recieved with a message that cannot be decoded
OnBadData ==
  /\ SocketRuns({"reading"})
  /\ srv = "ack"
  /\ Tell({}, "PROTO_ERROR")
  /\ tail' = "reconn"
  /\ UNCHANGED <<appVars, late, connVars, queueVars, is_writing, closed,
                 serverVars, timers, async>>

\* tcp__on_kick_recieved; the server kicks only a session it has accepted
OnKick ==
  /\ SocketRuns({"reading"})
  /\ srv = "ack"
  /\ Tell({}, "KICKED_BY_SERVER")
  /\ tail' = "reset"
  /\ UNCHANGED <<appVars, late, connVars, queueVars, is_writing, closed,
                 serverVars, timers, async>>

(***************************************************************************)
(* The callbacks of the timers; each is stopped when it runs               *)
(***************************************************************************)

\* tcp__reconn_delay_timer_cb
ReconnDelayTimer ==
  /\ TimerRuns("reconn_delay")
  /\ timers' = timers \ {"reconn_delay"}
  /\ Wake({"conn"})
  /\ UNCHANGED <<clientVars, appVars, late, connVars, queueVars, is_writing,
                 closed, serverVars, tail, fault>>

\* tcp__conn_timeout_cb
ConnTimeoutTimer ==
  /\ TimerRuns("conn_timeout")
  /\ IF ~is_connecting
       THEN /\ Crash("connTimeoutAssert")
            /\ UNCHANGED <<timers, sock>>
       ELSE /\ timers' = timers \ {"conn_timeout"}
            /\ sock' = IF sock = "closed" THEN sock ELSE "closing"
            /\ UNCHANGED <<clientVars, fault>>
  /\ UNCHANGED <<appVars, late, tstate, is_connecting, reconn_times,
                 is_waiting_hb, queueVars, is_writing, closed, serverVars,
                 async, tail>>

\* tcp__handshake_timer_cb
HandshakeTimer ==
  /\ TimerRuns("handshake")
  /\ timers' = timers \ {"handshake"}
  /\ Tell({}, "CONNECT_ERROR")
  /\ tail' = "reconn"
  /\ UNCHANGED <<appVars, late, connVars, queueVars, is_writing, closed,
                 serverVars, async>>

\* tcp__heartbeat_timer_cb and tcp__send_heartbeat
HeartbeatTimer ==
  /\ TimerRuns("hb")
  /\ IF is_waiting_hb \/ tstate # "DONE"
       THEN /\ Crash("hbTimerAssert")
            /\ UNCHANGED <<timers, is_waiting_hb, write_wait, async>>
       ELSE /\ timers' = (timers \ {"hb"}) \cup {"hb_timeout"}
            /\ is_waiting_hb' = TRUE
            /\ write_wait' = write_wait \cup {"heartbeat"}
            /\ Wake({"write"})
            /\ UNCHANGED <<clientVars, fault>>
  /\ UNCHANGED <<appVars, late, tstate, is_connecting, reconn_times, sock,
                 conn_pending, writing, resp_pending, is_writing, closed,
                 serverVars, tail>>

\* tcp__heartbeat_timeout_cb
HeartbeatTimeout ==
  /\ TimerRuns("hb_timeout")
  /\ IF ~is_waiting_hb
       THEN Crash("hbTimeoutAssert") /\ UNCHANGED <<timers, tail>>
       ELSE /\ timers' = timers \ {"hb_timeout"}
            /\ Tell({}, "UNEXPECTED_DISCONNECT")
            /\ tail' = "reconn"
  /\ UNCHANGED <<appVars, late, connVars, queueVars, is_writing, closed,
                 serverVars, async>>

\* tcp__write_check_timeout_cb and tcp__check_queue_timeout, for all queues
\* but writing_queue
CheckTimer ==
  LET checked == Timed \cap (conn_pending \cup write_wait \cup resp_pending)
      expired == checked \cap late
  IN
  /\ TimerRuns("check")
  /\ conn_pending' = conn_pending \ expired
  /\ write_wait' = write_wait \ expired
  /\ resp_pending' = resp_pending \ expired
  /\ timers' = IF checked = expired THEN timers \ {"check"} ELSE timers
  /\ Tell(expired, None)
  /\ UNCHANGED <<appVars, late, connVars, writing, is_writing, closed,
                 serverVars, async, tail>>

-----------------------------------------------------------------------------

AppStep(t) ==
  \/ ConnectCall(t) \/ ConnectStart(t) \/ ConnectUndo(t)
  \/ DisconnectCall(t) \/ DisconnectStart(t)
  \/ SendCheck(t) \/ SendQueue(t) \/ SendWake(t)
  \/ PollEvent(t) \/ PollEnd(t)
  \/ CleanupCall(t) \/ CleanupFinish(t)
  \/ \E r \in Reqs : SendCall(t, r)

TailStep == ResetTail \/ NullTail \/ DelayTail \/ GiveUpTail

AsyncStep == ConnAsync \/ WriteAsync \/ DisconnectAsync \/ CleanupAsync

ClosingStep == CancelConnect \/ CancelWrite \/ CloseSocket

SocketStep ==
  \/ ConnDone \/ ConnFailed
  \/ \E ok \in BOOLEAN : WriteDone(ok)
  \/ ReadFailed
  \/ \E a \in {"plain", "heartbeat", "refused", "garbage"} : OnHandshake(a)
  \/ OnHeartbeat \/ OnBadData \/ OnKick
  \/ \E r \in Requests : OnResponse(r)

TimerStep ==
  \/ ReconnDelayTimer \/ ConnTimeoutTimer \/ HandshakeTimer
  \/ HeartbeatTimer \/ HeartbeatTimeout \/ CheckTimer

WorkerStep == TailStep \/ AsyncStep \/ ClosingStep \/ SocketStep \/ TimerStep

\* The process was aborted, or the client cleaned up.
Ended == ~Running /\ UNCHANGED vars

Next ==
  \/ \E t \in Threads : AppStep(t)
  \/ WorkerStep
  \/ \E r \in Reqs : Expire(r)
  \/ Ended

Spec == Init /\ [][Next]_vars

(***************************************************************************)
(* Fairness.  A thread goes on with a call it has made, and with polling   *)
(* the application keeps polling.  The loop finishes the callback it is    *)
(* in, serves the async handles in the scans of its iterations, and runs   *)
(* its closing phase; a timer that stays active comes due; a write on an   *)
(* open socket ends.  Nothing is assumed of the server, of the network     *)
(* while connecting, nor of the calls the application chooses to make.     *)
(***************************************************************************)
GoesOn(t) ==
  \/ ConnectStart(t) \/ ConnectUndo(t) \/ DisconnectStart(t)
  \/ SendCheck(t) \/ SendQueue(t) \/ SendWake(t)
  \/ PollEvent(t) \/ PollEnd(t) \/ CleanupFinish(t)

Fairness ==
  /\ \A t \in Threads : WF_vars(GoesOn(t))
  /\ \A r \in Timed : WF_vars(Expire(r))
  /\ WF_vars(TailStep)
  /\ SF_vars(AsyncStep)
  /\ SF_vars(ClosingStep)
  /\ SF_vars(\E ok \in BOOLEAN : WriteDone(ok))
  /\ SF_vars(ReconnDelayTimer)
  /\ SF_vars(ConnTimeoutTimer)
  /\ SF_vars(HandshakeTimer)
  /\ SF_vars(CheckTimer)

FairSpec == Spec /\ Fairness
=============================================================================
