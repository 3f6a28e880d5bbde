-------------------------- MODULE TcpConnectionProofs --------------------------
(***************************************************************************)
(* The connections of TcpTransport: what is held for the one that is up,   *)
(* in which order the server receives it, and that a request which waits   *)
(* is watched; the retries are bounded, the socket is closed only when it  *)
(* was made, a disconnect is not forgotten, and a client that is told it   *)
(* is connected is.                                                        *)
(***************************************************************************)
EXTENDS TcpTransportProofs, FiniteSetTheorems

(***************************************************************************)
(* Nothing stale in the queues                                             *)
(***************************************************************************)

\* The invariant of every step
StaleInv == NothingStale /\ ShakeInv

\* A step that leaves the queues, the connection and the write alone
LEMMA SameStale ==
  ASSUME StaleInv,
         UNCHANGED <<write_wait, writing, resp_pending, is_writing, sock, tstate>>
  PROVE  StaleInv'
  BY DEF StaleInv, NothingStale, ShakeInv

\* tcp__reset leaves nothing.
LEMMA ResetStale ==
  ASSUME Reset
  PROVE  StaleInv'
  BY DEF Reset, StaleInv, NothingStale, ShakeInv

\* The application queues a request to be written only when the handshake is
\* done.
LEMMA AppStale ==
  ASSUME TypeInv, AssertInv, StaleInv, NEW t \in Threads, AppStep(t)
  PROVE  StaleInv'
  <1>1. CASE SendQueue(t)
    BY <1>1 DEF SendQueue, Ready, connVars, StaleInv, NothingStale, ShakeInv,
       AssertInv, ReadingInv
  <1>2. CASE UNCHANGED <<queueVars, is_writing, connVars>>
    BY <1>2, SameStale DEF queueVars, connVars
  <1> QED
    BY <1>1, <1>2 DEF AppStep, ConnectCall, ConnectStart, ConnectUndo,
       DisconnectCall, DisconnectStart, SendCall, SendCheck, SendWake,
       PollEvent, PollEnd, CleanupCall, CleanupFinish

\* The ends of the callbacks
LEMMA TailStale ==
  ASSUME TypeInv, AssertInv, StaleInv, TailStep
  PROVE  StaleInv'
  <1>1. CASE ResetTail
    BY <1>1, ResetStale, SameStale DEF ResetTail, queueVars, connVars
  <1>2. CASE NullTail
    BY <1>2, SameStale DEF NullTail, queueVars, connVars
  <1>3. CASE DelayTail
    BY <1>3 DEF DelayTail, queueVars, AssertInv, ReadingInv, StaleInv,
       NothingStale, ShakeInv
  <1>4. CASE GiveUpTail
    BY <1>4 DEF GiveUpTail, queueVars, AssertInv, ReadingInv, StaleInv,
       NothingStale, ShakeInv
  <1> QED BY <1>1, <1>2, <1>3, <1>4 DEF TailStep

\* The callbacks of the async handles
LEMMA AsyncStale ==
  ASSUME TypeInv, AssertInv, StaleInv, AsyncStep
  PROVE  StaleInv'
  <1>1. CASE ConnAsync
    BY <1>1 DEF ConnAsync, queueVars, connVars, AssertInv, ReadingInv, StaleInv,
       NothingStale, ShakeInv
  <1>2. CASE WriteAsync
    <2> USE <1>2 DEF WriteAsync, connVars
    <2>1. CASE UNCHANGED <<queueVars, is_writing>>
      BY <2>1, SameStale DEF queueVars
    <2>2. CASE /\ write_wait' = {} /\ UNCHANGED resp_pending
               /\ writing' = writing \cup write_wait
                               \cup (IF Ready THEN conn_pending ELSE {})
               /\ is_writing' = TRUE
      <3>1. tstate = "DONE" => sock = "reading"
        BY DEF AssertInv, ReadingInv
      <3> QED BY <2>2, <3>1 DEF Ready, StaleInv, NothingStale, ShakeInv
    <2>3. CASE /\ write_wait' = {} /\ UNCHANGED resp_pending
               /\ writing' = {}
      BY <2>3 DEF StaleInv, NothingStale, ShakeInv
    <2> QED BY <2>1, <2>2, <2>3
  <1>3. CASE DisconnectAsync
    BY <1>3, ResetStale, SameStale DEF DisconnectAsync, queueVars, connVars
  <1>4. CASE CleanupAsync
    BY <1>4, ResetStale, SameStale DEF CleanupAsync, queueVars, connVars
  <1> QED BY <1>1, <1>2, <1>3, <1>4 DEF AsyncStep

\* The end of a write: what is kept for its response are requests, which
\* were written when the handshake was done.
LEMMA WrittenStale ==
  ASSUME TypeInv, StaleInv, NEW ok \in BOOLEAN, Written(ok),
         sock' = sock \/ sock = "closing"
  PROVE  StaleInv'
  BY DEF Written, WrittenAs, Kept, StaleInv, NothingStale, ShakeInv, Reqs

\* The closing phase
LEMMA ClosingStale ==
  ASSUME TypeInv, StaleInv, ClosingStep
  PROVE  StaleInv'
  <1>1. CASE CancelConnect
    BY <1>1 DEF CancelConnect, ClosingPhase, SocketRuns, ConnRefused, queueVars,
       StaleInv, NothingStale, ShakeInv
  <1>2. CASE CancelWrite
    BY <1>2, WrittenStale DEF CancelWrite, ClosingPhase, SocketRuns
  <1>3. CASE CloseSocket
    BY <1>3 DEF CloseSocket, ClosingPhase, SocketRuns, queueVars,
       StaleInv, NothingStale, ShakeInv
  <1> QED BY <1>1, <1>2, <1>3 DEF ClosingStep

\* The callbacks of the socket
LEMMA SocketStale ==
  ASSUME TypeInv, AssertInv, StaleInv, SocketStep
  PROVE  StaleInv'
  <1>1. CASE ConnDone
    BY <1>1, TransportAssumption DEF ConnDone, SocketRuns, StaleInv,
       NothingStale, ShakeInv, Internal
  <1>2. CASE ConnFailed
    BY <1>2, SameStale DEF ConnFailed, ConnRefused, queueVars
  <1>3. ASSUME NEW ok \in BOOLEAN, WriteDone(ok) PROVE StaleInv'
    BY <1>3, WrittenStale DEF WriteDone
  <1>4. ASSUME NEW a \in {"plain", "heartbeat", "refused", "garbage"}, OnHandshake(a)
        PROVE  StaleInv'
    BY <1>4 DEF OnHandshake, SocketRuns, connVars, StaleInv, NothingStale, ShakeInv
  <1>5. CASE OnHeartbeat
    BY <1>5, SameStale DEF OnHeartbeat, queueVars
  <1>6. ASSUME NEW r \in Requests, OnResponse(r) PROVE StaleInv'
    BY <1>6 DEF OnResponse, connVars, StaleInv, NothingStale, ShakeInv
  <1>7. CASE ReadFailed \/ OnBadData \/ OnKick
    BY <1>7, SameStale DEF ReadFailed, OnBadData, OnKick, queueVars, connVars
  <1> QED BY <1>1, <1>2, <1>3, <1>4, <1>5, <1>6, <1>7 DEF SocketStep

\* The callbacks of the timers
LEMMA TimerStale ==
  ASSUME TypeInv, AssertInv, StaleInv, TimerStep
  PROVE  StaleInv'
  <1>1. CASE ReconnDelayTimer \/ HandshakeTimer \/ HeartbeatTimeout
    BY <1>1, SameStale DEF ReconnDelayTimer, HandshakeTimer, HeartbeatTimeout,
       queueVars, connVars
  <1>2. CASE ConnTimeoutTimer
    BY <1>2 DEF ConnTimeoutTimer, queueVars, AssertInv, AttemptInv, StaleInv,
       NothingStale, ShakeInv
  <1>3. CASE HeartbeatTimer
    BY <1>3 DEF HeartbeatTimer, AssertInv, ReadingInv, StaleInv, NothingStale,
       ShakeInv
  <1>4. CASE CheckTimer
    BY <1>4 DEF CheckTimer, connVars, StaleInv, NothingStale, ShakeInv
  <1> QED BY <1>1, <1>2, <1>3, <1>4 DEF TimerStep

\* Every step of the system keeps the invariant.
LEMMA NextStale ==
  ASSUME TypeInv, AssertInv, StaleInv, [Next]_vars
  PROVE  StaleInv'
  <1>1. CASE (\E r \in Reqs : Expire(r)) \/ UNCHANGED vars
    BY <1>1, SameStale DEF Expire, vars, queueVars, connVars
  <1> QED
    BY <1>1, AppStale, TailStale, AsyncStale, ClosingStale, SocketStale,
       TimerStale DEF Next, WorkerStep, Ended

\* What the transport holds to be written, is writing or waits to have
\* answered belongs to the connection that is up: a reset, a timeout or a
\* lost connection leaves nothing behind for the next one.
THEOREM QueuesNotStale == Spec => []NothingStale
  <1>1. Init => TypeInv /\ AssertInv /\ StaleInv
    <2>1. Init => StaleInv
      BY DEF Init, StaleInv, NothingStale, ShakeInv
    <2> QED BY <2>1, InitType, InitAssert
  <1>2. TypeInv /\ AssertInv /\ StaleInv /\ [Next]_vars
          => (TypeInv /\ AssertInv /\ StaleInv)'
    BY NextType, NextAssert, NextStale
  <1>3. StaleInv => NothingStale
    BY DEF StaleInv
  <1> QED BY <1>1, <1>2, <1>3, PTL DEF Spec

(***************************************************************************)
(* The order in which the server receives the opening of the protocol      *)
(***************************************************************************)

\* uv_write has room for all write items there can be, and does not fail.
WritesFit ==
  IsFiniteSet(Reqs) /\ Cardinality(Reqs) + 3 <= WriteInline

\* The invariant of every step
OrderInv == HandshakeFirst /\ OpeningInv

\* Then a batch is never too large.
LEMMA BatchFits ==
  ASSUME WritesFit, NEW B \in SUBSET (Reqs \cup Internal)
  PROVE  ~(Cardinality(B) > WriteInline)
  <1>1. IsFiniteSet(Internal) /\ Cardinality(Internal) = 3
    <2>1. Internal = (({} \cup {"handshake"}) \cup {"ack"}) \cup {"heartbeat"}
      BY DEF Internal
    <2>2. /\ IsFiniteSet({} \cup {"handshake"})
          /\ Cardinality({} \cup {"handshake"}) = 1
      BY FS_EmptySet, FS_AddElement
    <2>3. /\ IsFiniteSet(({} \cup {"handshake"}) \cup {"ack"})
          /\ Cardinality(({} \cup {"handshake"}) \cup {"ack"}) = 2
      BY <2>2, FS_AddElement
    <2> QED BY <2>1, <2>3, FS_AddElement
  <1>2. Reqs \cap Internal = {} /\ Cardinality({}) = 0
    BY TransportAssumption, FS_EmptySet
  <1>3. /\ IsFiniteSet(Reqs \cup Internal)
        /\ Cardinality(Reqs \cup Internal) =
             Cardinality(Reqs) + Cardinality(Internal) - Cardinality(Reqs \cap Internal)
    BY <1>1, FS_Union DEF WritesFit
  <1>4. IsFiniteSet(B) /\ Cardinality(B) <= Cardinality(Reqs \cup Internal)
    BY <1>3, FS_Subset
  <1>5. /\ Cardinality(B) \in Nat /\ Cardinality(Reqs) \in Nat
        /\ WriteInline \in Nat
    BY <1>4, FS_CardinalityType, TransportAssumption DEF WritesFit
  <1>6. Cardinality(Reqs \cup Internal) = Cardinality(Reqs) + 3
    BY <1>1, <1>2, <1>3, <1>5
  <1> QED BY <1>4, <1>5, <1>6 DEF WritesFit

\* A step that writes nothing, makes no item of the transport's own, and
\* stays in the state of the transport or leaves the connection
LEMMA SameOrder ==
  ASSUME TypeInv, OrderInv, ShakeInv, UNCHANGED srv, owed' \subseteq owed,
         tstate' \in {tstate, "NOT_CONN", "CONNECTING"},
         \/ tstate' \in {"NOT_CONN", "CONNECTING"}
         \/ UNCHANGED write_wait
         \/ tstate = "DONE" /\ \A i \in {"handshake", "ack"} :
              i \in write_wait' <=> i \in write_wait
  PROVE  OrderInv'
  BY DEF OrderInv, HandshakeFirst, OpeningInv

\* What the application queues is a request.
LEMMA AppOrder ==
  ASSUME TypeInv, ShakeInv, OrderInv, NEW t \in Threads, AppStep(t)
  PROVE  OrderInv'
  <1>1. CASE SendQueue(t)
    <2>1. arg[t] \notin {"handshake", "ack"}
      BY <1>1, TransportAssumption DEF SendQueue, TypeInv, AppOK, Internal
    <2> QED BY <1>1, <2>1, SameOrder
            DEF SendQueue, Ready, connVars, serverVars
  <1>2. CASE UNCHANGED <<queueVars, serverVars, connVars>>
    BY <1>2, SameOrder DEF queueVars, connVars, serverVars
  <1> QED
    BY <1>1, <1>2 DEF AppStep, ConnectCall, ConnectStart, ConnectUndo,
       DisconnectCall, DisconnectStart, SendCall, SendCheck, SendWake,
       PollEvent, PollEnd, CleanupCall, CleanupFinish

\* The ends of the callbacks
LEMMA TailOrder ==
  ASSUME TypeInv, ShakeInv, OrderInv, TailStep
  PROVE  OrderInv'
  BY SameOrder DEF TailStep, ResetTail, NullTail, DelayTail, GiveUpTail,
     queueVars, connVars, serverVars

\* tcp__write_async_cb: the handshake is written alone, the ack goes before
\* the requests that have waited for it.
LEMMA WriteAsyncOrder ==
  ASSUME WritesFit, TypeInv, AssertInv, StaleInv, OrderInv, WriteAsync
  PROVE  OrderInv'
  <1> DEFINE moved == IF Ready THEN conn_pending ELSE {}
             batch == write_wait \cup moved
  <1>1. UNCHANGED tstate
    BY DEF WriteAsync, connVars
  <1>2. CASE UNCHANGED <<queueVars, serverVars>>
    BY <1>1, <1>2, SameOrder DEF queueVars, serverVars, StaleInv
  <1>3. CASE Cardinality(batch) > WriteInline
    BY <1>3, BatchFits DEF TypeInv, QueueOK
  <1>4. CASE /\ tstate # "NOT_CONN" /\ batch # {}
             /\ write_wait' = {}
             /\ srv' = ServerAfter(batch)
             /\ owed' = owed \cup
                  (batch \cap (Requests \cup {"handshake", "heartbeat"}))
    <2>1. tstate \in {"HANDSHAKEING", "DONE"}
      BY <1>4 DEF StaleInv, NothingStale, Ready
    <2>2. CASE tstate = "HANDSHAKEING"
      <3>1. batch = {"handshake"} /\ srv = "nothing"
        BY <1>4, <2>2 DEF Ready, OrderInv, OpeningInv
      <3>2. srv' = "handshake"
        BY <1>4, <3>1 DEF ServerAfter
      <3> QED BY <1>1, <1>4, <2>2, <3>2
              DEF OrderInv, OpeningInv, HandshakeFirst
    <2>3. CASE tstate = "DONE"
      <3>1. \A i \in {"handshake", "ack"} : i \in batch <=> i \in write_wait
        BY TransportAssumption DEF TypeInv, QueueOK, Internal
      <3>2. "handshake" \notin batch /\ srv' = "ack"
        BY <1>4, <2>3, <3>1 DEF ServerAfter, OrderInv, OpeningInv
      <3> QED BY <1>1, <1>4, <2>3, <3>2
              DEF OrderInv, OpeningInv, HandshakeFirst
    <2> QED BY <2>1, <2>2, <2>3
  <1> QED BY <1>2, <1>3, <1>4 DEF WriteAsync

\* The other async handles do not write.
LEMMA AsyncOrder ==
  ASSUME WritesFit, TypeInv, AssertInv, StaleInv, OrderInv, AsyncStep
  PROVE  OrderInv'
  <1>1. CASE ConnAsync \/ DisconnectAsync \/ CleanupAsync
    BY <1>1, SameOrder DEF ConnAsync, DisconnectAsync, CleanupAsync, StaleInv,
       queueVars, connVars, serverVars
  <1> QED BY <1>1, WriteAsyncOrder DEF AsyncStep

\* The closing phase
LEMMA ClosingOrder ==
  ASSUME TypeInv, ShakeInv, OrderInv, ClosingStep
  PROVE  OrderInv'
  BY SameOrder DEF ClosingStep, CancelConnect, CancelWrite, CloseSocket,
     ClosingPhase, ConnRefused, Written, WrittenAs, queueVars, serverVars

\* The callbacks of the socket: a connection opens with the handshake, and
\* its answer with the ack.
LEMMA SocketOrder ==
  ASSUME TypeInv, AssertInv, StaleInv, OrderInv, SocketStep
  PROVE  OrderInv'
  <1> USE DEF StaleInv
  <1>1. CASE ConnDone
    <2>1. write_wait = {}
      BY <1>1 DEF ConnDone, SocketRuns, NothingStale
    <2> QED BY <1>1, <2>1 DEF ConnDone, OrderInv, HandshakeFirst, OpeningInv
  <1>2. ASSUME NEW a \in {"plain", "heartbeat", "refused", "garbage"}, OnHandshake(a)
        PROVE  OrderInv'
    <2>1. CASE UNCHANGED <<write_wait, tstate>>
      BY <1>2, <2>1, SameOrder DEF OnHandshake
    <2>2. CASE ~UNCHANGED <<write_wait, tstate>>
      <3>1. /\ tstate = "HANDSHAKEING" /\ tstate' = "DONE"
            /\ write_wait' = write_wait \cup {"ack"}
            /\ "handshake" \in owed /\ UNCHANGED srv
            /\ owed' \subseteq owed
        BY <1>2, <2>2 DEF OnHandshake, connVars
      <3>2. srv = "handshake" /\ write_wait = {}
        BY <3>1 DEF OrderInv, OpeningInv
      <3> QED BY <3>1, <3>2 DEF OrderInv, HandshakeFirst, OpeningInv
    <2> QED BY <2>1, <2>2
  <1>3. ASSUME NEW ok \in BOOLEAN, WriteDone(ok) PROVE OrderInv'
    BY <1>3, SameOrder DEF WriteDone, Written, WrittenAs, serverVars
  <1>4. CASE ConnFailed
    BY <1>4, SameOrder DEF ConnFailed, ConnRefused, queueVars, serverVars
  <1>5. CASE OnHeartbeat
    BY <1>5, SameOrder DEF OnHeartbeat, queueVars
  <1>6. ASSUME NEW r \in Requests, OnResponse(r) PROVE OrderInv'
    BY <1>6, SameOrder DEF OnResponse, connVars
  <1>7. CASE ReadFailed \/ OnBadData \/ OnKick
    BY <1>7, SameOrder DEF ReadFailed, OnBadData, OnKick, queueVars, connVars,
       serverVars
  <1> QED BY <1>1, <1>2, <1>3, <1>4, <1>5, <1>6, <1>7 DEF SocketStep

\* The callbacks of the timers; what times out is a request.
LEMMA TimerOrder ==
  ASSUME TypeInv, AssertInv, ShakeInv, OrderInv, TimerStep
  PROVE  OrderInv'
  <1>1. CASE ReconnDelayTimer \/ HandshakeTimer \/ HeartbeatTimeout
             \/ ConnTimeoutTimer
    BY <1>1, SameOrder DEF ReconnDelayTimer, HandshakeTimer, HeartbeatTimeout,
       ConnTimeoutTimer, queueVars, connVars, serverVars
  <1>2. CASE HeartbeatTimer
    BY <1>2, SameOrder DEF HeartbeatTimer, serverVars
  <1>3. CASE CheckTimer
    <2>1. CASE tstate = "DONE"
      BY <1>3, <2>1, SameOrder, TransportAssumption DEF CheckTimer, connVars,
         serverVars, Internal
    <2>2. CASE tstate # "DONE"
      <3>1. UNCHANGED write_wait
        BY <1>3, <2>2, TransportAssumption DEF CheckTimer, ShakeInv
      <3> QED BY <1>3, <3>1, SameOrder DEF CheckTimer, connVars, serverVars
    <2> QED BY <2>1, <2>2
  <1> QED BY <1>1, <1>2, <1>3 DEF TimerStep

\* Every step of the system keeps the invariant.
LEMMA NextOrder ==
  ASSUME WritesFit, TypeInv, AssertInv, StaleInv, OrderInv, [Next]_vars
  PROVE  OrderInv'
  <1> USE DEF StaleInv
  <1>1. CASE (\E r \in Reqs : Expire(r)) \/ UNCHANGED vars
    BY <1>1, SameOrder DEF Expire, vars, queueVars, connVars, serverVars
  <1> QED
    BY <1>1, AppOrder, TailOrder, AsyncOrder, ClosingOrder, SocketOrder,
       TimerOrder DEF Next, WorkerStep, Ended

\* On every connection the server receives the handshake first, then its
\* ack, then all the rest, as long as uv_write does not run out of memory.
THEOREM HandshakeComesFirst ==
  ASSUME WritesFit
  PROVE  Spec => []HandshakeFirst
  <1>1. Init => TypeInv /\ AssertInv /\ StaleInv /\ OrderInv
    <2>1. Init => StaleInv /\ OrderInv
      BY DEF Init, StaleInv, NothingStale, ShakeInv, OrderInv, HandshakeFirst,
         OpeningInv
    <2> QED BY <2>1, InitType, InitAssert
  <1>2. TypeInv /\ AssertInv /\ StaleInv /\ OrderInv /\ [Next]_vars
          => (TypeInv /\ AssertInv /\ StaleInv /\ OrderInv)'
    BY NextType, NextAssert, NextStale, NextOrder
  <1>3. OrderInv => HandshakeFirst
    BY DEF OrderInv
  <1> QED BY <1>1, <1>2, <1>3, PTL DEF Spec

(***************************************************************************)
(* A request with a timeout that waits to be written is watched            *)
(***************************************************************************)

\* A step that queues no request and takes no watch away
LEMMA SameWatch ==
  ASSUME WaitingIsWatched,
         (conn_pending' \cup write_wait') \cap Timed
           \subseteq conn_pending \cup write_wait,
         "check" \in timers => "check" \in timers',
         "write" \in async => "write" \in async',
         UNCHANGED is_writing,
         tstate' \in {tstate, "NOT_CONN", "CONNECTING"},
         \A t \in Threads : call[t] = "sendWake" => call'[t] = "sendWake"
  PROVE  WaitingIsWatched'
  BY DEF WaitingIsWatched

\* tcp__reset leaves nothing to be watched.
LEMMA ResetWatch ==
  ASSUME Reset
  PROVE  WaitingIsWatched'
  BY DEF Reset, WaitingIsWatched

\* A step that wakes the worker to write is a watch, as long as the worker
\* has not closed its handles; then no request waits.
LEMMA WakeWatch ==
  ASSUME QueueInv, Wake({"write"}), UNCHANGED conn_pending,
         write_wait' \cap Timed \subseteq write_wait
  PROVE  WaitingIsWatched'
  <1>1. CASE ~closed
    BY <1>1 DEF Wake, WaitingIsWatched
  <1>2. CASE closed
    <2>1. Held \cap Timed = {}
      BY <1>2, TransportAssumption DEF QueueInv, CleanupInv
    <2> QED BY <2>1 DEF Held, WaitingIsWatched
  <1> QED BY <1>1, <1>2

\* tr_uv_tcp_send queues a request and then wakes the worker.
LEMMA AppWatch ==
  ASSUME TypeInv, QueueInv, WaitingIsWatched, NEW t \in Threads, AppStep(t)
  PROVE  WaitingIsWatched'
  <1> USE DEF TypeInv, AppOK
  <1>1. CASE SendQueue(t)
    BY <1>1 DEF SendQueue, Goto, WaitingIsWatched
  <1>2. CASE SendWake(t)
    <2>1. CASE tstate = "NOT_CONN"
      BY <1>2, <2>1 DEF SendWake, connVars, WaitingIsWatched
    <2>2. CASE tstate # "NOT_CONN"
      BY <1>2, <2>2, WakeWatch DEF SendWake, queueVars
    <2> QED BY <2>1, <2>2
  <1>3. CASE /\ UNCHANGED <<queueVars, connVars, is_writing, timers>>
             /\ call[t] # "sendWake"
             /\ \A u \in Threads \ {t} : call'[u] = call[u]
             /\ async \subseteq async'
    BY <1>3, SameWatch DEF queueVars, connVars
  <1>4. CASE ConnectCall(t) \/ ConnectStart(t) \/ ConnectUndo(t)
             \/ DisconnectCall(t) \/ DisconnectStart(t)
    BY <1>3, <1>4 DEF ConnectCall, ConnectStart, ConnectUndo, DisconnectCall,
       DisconnectStart, Goto, Wake
  <1>5. CASE SendCheck(t) \/ \E r \in Reqs : SendCall(t, r)
    BY <1>3, <1>5 DEF SendCheck, SendCall, Goto
  <1>6. CASE PollEvent(t) \/ PollEnd(t) \/ CleanupCall(t) \/ CleanupFinish(t)
    BY <1>3, <1>6 DEF PollEvent, PollEnd, CleanupCall, CleanupFinish, Goto, Wake
  <1> QED BY <1>1, <1>2, <1>4, <1>5, <1>6 DEF AppStep

\* The ends of the callbacks
LEMMA TailWatch ==
  ASSUME WaitingIsWatched, TailStep
  PROVE  WaitingIsWatched'
  <1>1. CASE ResetTail
    BY <1>1, ResetWatch, SameWatch DEF ResetTail, queueVars, connVars, appVars
  <1>2. CASE NullTail \/ DelayTail \/ GiveUpTail
    BY <1>2, SameWatch DEF NullTail, DelayTail, GiveUpTail, queueVars, connVars,
       appVars
  <1> QED BY <1>1, <1>2 DEF TailStep

\* tcp__write_async_cb takes its wake-up away.  It returns early when a write
\* is in progress; otherwise it writes, or starts the check timer for what
\* has to wait for the handshake.
LEMMA WriteAsyncWatch ==
  ASSUME TypeInv, QueueInv, ShakeInv, WaitingIsWatched, WriteAsync
  PROVE  WaitingIsWatched'
  <1> DEFINE moved == IF Ready THEN conn_pending ELSE {}
             batch == write_wait \cup moved
             check == \/ ~Ready /\ conn_pending # {}
                      \/ batch \cap Timed # {}
             checking == timers \cup (IF check THEN {"check"} ELSE {})
  <1>1. UNCHANGED tstate
    BY DEF WriteAsync, connVars
  <1>2. CASE tstate = "NOT_CONN" \/ is_writing
    BY <1>1, <1>2 DEF WriteAsync, WaitingIsWatched
  <1>3. CASE batch = {} /\ timers' = checking /\ UNCHANGED queueVars
    <2>1. ~Ready \/ conn_pending \cup write_wait = {}
      BY <1>3
    <2> QED BY <1>3, <2>1 DEF WaitingIsWatched, queueVars
  <1>4. CASE is_writing'
    BY <1>4 DEF WaitingIsWatched
  <1>5. CASE /\ conn_pending' = conn_pending \ moved
             /\ write_wait' = {}
             /\ Cardinality(batch) > WriteInline
    <2>1. CASE Ready
      BY <1>5, <2>1 DEF WaitingIsWatched
    <2>2. CASE ~Ready
      <3>1. batch = {} \/ batch = {"handshake"}
        BY <2>2 DEF ShakeInv, Ready
      <3>2. Cardinality(batch) \in {0, 1}
        <4> HIDE DEF batch
        <4> QED BY <3>1, FS_EmptySet, FS_Singleton
      <3> QED BY <1>5, <3>2, TransportAssumption
    <2> QED BY <2>1, <2>2
  <1> QED BY <1>2, <1>3, <1>4, <1>5 DEF WriteAsync

\* The callbacks of the async handles
LEMMA AsyncWatch ==
  ASSUME TypeInv, QueueInv, ShakeInv, WaitingIsWatched, AsyncStep
  PROVE  WaitingIsWatched'
  <1>1. CASE ConnAsync
    BY <1>1, SameWatch DEF ConnAsync, queueVars, connVars, appVars
  <1>2. CASE DisconnectAsync
    BY <1>2, ResetWatch, SameWatch DEF DisconnectAsync, queueVars, connVars,
       appVars
  <1>3. CASE CleanupAsync
    BY <1>3, ResetWatch, SameWatch DEF CleanupAsync, queueVars, connVars,
       appVars
  <1> QED BY <1>1, <1>2, <1>3, WriteAsyncWatch DEF AsyncStep

\* The closing phase
LEMMA ClosingWatch ==
  ASSUME QueueInv, WaitingIsWatched, ClosingStep
  PROVE  WaitingIsWatched'
  <1>1. CASE CancelConnect
    BY <1>1, SameWatch DEF CancelConnect, ClosingPhase, ConnRefused, queueVars,
       appVars
  <1>2. CASE CancelWrite
    BY <1>2, WakeWatch DEF CancelWrite, Written, WrittenAs
  <1>3. CASE CloseSocket
    BY <1>3, SameWatch DEF CloseSocket, ClosingPhase, queueVars, appVars
  <1> QED BY <1>1, <1>2, <1>3 DEF ClosingStep

\* The callbacks of the socket; those that end a write or a phase of the
\* handshake wake the worker to write.
LEMMA SocketWatch ==
  ASSUME QueueInv, WaitingIsWatched, SocketStep
  PROVE  WaitingIsWatched'
  <1>1. "handshake" \notin Timed /\ "ack" \notin Timed
    BY TransportAssumption DEF Internal
  <1>2. CASE ConnDone
    BY <1>1, <1>2, WakeWatch DEF ConnDone
  <1>3. CASE ConnFailed
    BY <1>3, SameWatch DEF ConnFailed, ConnRefused, queueVars, appVars
  <1>4. ASSUME NEW ok \in BOOLEAN, WriteDone(ok) PROVE WaitingIsWatched'
    BY <1>4, WakeWatch DEF WriteDone, Written, WrittenAs
  <1>5. ASSUME NEW a \in {"plain", "heartbeat", "refused", "garbage"}, OnHandshake(a)
        PROVE  WaitingIsWatched'
    <2>1. CASE Wake({"write"}) /\ write_wait' = write_wait \cup {"ack"}
      BY <1>1, <1>5, <2>1, WakeWatch DEF OnHandshake
    <2>2. CASE UNCHANGED <<tstate, write_wait, async>>
      BY <1>5, <2>2, SameWatch DEF OnHandshake, appVars
    <2> QED BY <1>5, <2>1, <2>2 DEF OnHandshake, connVars
  <1>6. CASE OnHeartbeat
    BY <1>6, SameWatch DEF OnHeartbeat, queueVars, appVars
  <1>7. CASE ReadFailed \/ OnBadData \/ OnKick
    BY <1>7, SameWatch DEF ReadFailed, OnBadData, OnKick, queueVars, connVars,
       appVars
  <1>8. ASSUME NEW r \in Requests, OnResponse(r) PROVE WaitingIsWatched'
    BY <1>8, SameWatch DEF OnResponse, connVars, appVars
  <1> QED
    BY <1>2, <1>3, <1>4, <1>5, <1>6, <1>7, <1>8 DEF SocketStep

\* The callbacks of the timers; the check timer ends when all that it
\* watches has expired.
LEMMA TimerWatch ==
  ASSUME WaitingIsWatched, TimerStep
  PROVE  WaitingIsWatched'
  <1>1. CASE CheckTimer
    <2>1. CASE "check" \in timers'
      BY <2>1 DEF WaitingIsWatched
    <2>2. CASE "check" \notin timers'
      <3>1. (conn_pending' \cup write_wait') \cap Timed = {}
        BY <1>1, <2>2 DEF CheckTimer, TimerRuns
      <3> QED BY <3>1 DEF WaitingIsWatched
    <2> QED BY <2>1, <2>2
  <1>2. CASE HeartbeatTimer
    <2>1. "heartbeat" \notin Timed
      BY TransportAssumption DEF Internal
    <2> QED BY <1>2, <2>1, SameWatch DEF HeartbeatTimer, Wake, appVars
  <1>3. CASE ReconnDelayTimer \/ ConnTimeoutTimer \/ HandshakeTimer
             \/ HeartbeatTimeout
    BY <1>3, SameWatch DEF ReconnDelayTimer, ConnTimeoutTimer, HandshakeTimer,
       HeartbeatTimeout, Wake, queueVars, connVars, appVars
  <1> QED BY <1>1, <1>2, <1>3 DEF TimerStep

\* Every step of the system keeps the watch.
LEMMA NextWatch ==
  ASSUME TypeInv, QueueInv, ShakeInv, WaitingIsWatched, [Next]_vars
  PROVE  WaitingIsWatched'
  <1>1. CASE (\E r \in Reqs : Expire(r)) \/ UNCHANGED vars
    BY <1>1, SameWatch DEF Expire, vars, queueVars, connVars, appVars
  <1> QED
    BY <1>1, AppWatch, TailWatch, AsyncWatch, ClosingWatch, SocketWatch,
       TimerWatch DEF Next, WorkerStep, Ended

\* A request with a timeout that waits to be written does not wait
\* unwatched: the check timer runs or is about to be started.
THEOREM WaitingWatched == Spec => []WaitingIsWatched
  <1>1. Init => TypeInv /\ AssertInv /\ StaleInv /\ WaitingIsWatched
    <2>1. Init => StaleInv /\ WaitingIsWatched
      BY DEF Init, StaleInv, NothingStale, ShakeInv, WaitingIsWatched
    <2> QED BY <2>1, InitType, InitAssert
  <1>2. /\ TypeInv /\ AssertInv /\ StaleInv /\ WaitingIsWatched
        /\ QueueInv /\ [Next]_vars
        => (TypeInv /\ AssertInv /\ StaleInv /\ WaitingIsWatched)'
    BY NextType, NextAssert, NextStale, NextWatch DEF StaleInv
  <1> QED BY <1>1, <1>2, QueuesHold, PTL DEF Spec

(***************************************************************************)
(* The number of retries                                                   *)
(***************************************************************************)

\* A step that counts no attempt and does not end a tcp__reconn
LEMMA SameRetries ==
  ASSUME TypeInv, RetriesBounded, reconn_times' \in {reconn_times, 0},
         tail = "giveUp" => tail' = "giveUp" \/ reconn_times' = 0
  PROVE  RetriesBounded'
  BY TransportAssumption
     DEF RetriesBounded, TypeInv, ConnOK, PC_ALWAYS_RETRY

\* tcp__reconn counts the attempt, and gives up after the last one.
LEMMA DelayTailRetries ==
  ASSUME TypeInv, RetriesBounded, DelayTail
  PROVE  RetriesBounded'
  <1>1. CASE UNCHANGED <<reconn_times, tail>>
    BY <1>1, SameRetries
  <1>2. CASE /\ reconn_times' = IF EnableReconn THEN reconn_times + 1
                                                ELSE reconn_times
             /\ tail' = IF GivesUp THEN "giveUp" ELSE "idle"
    BY <1>2, TransportAssumption
       DEF DelayTail, GivesUp, RetriesBounded, TypeInv, ConnOK, PC_ALWAYS_RETRY
  <1> QED BY <1>1, <1>2 DEF DelayTail

\* Every step keeps the bound.
LEMMA NextRetries ==
  ASSUME TypeInv, RetriesBounded, [Next]_vars
  PROVE  RetriesBounded'
  <1>1. ASSUME NEW t \in Threads, AppStep(t) PROVE RetriesBounded'
    BY <1>1, SameRetries DEF AppStep, ConnectCall, ConnectStart, ConnectUndo,
       DisconnectCall, DisconnectStart, SendCheck, SendQueue, SendWake,
       PollEvent, PollEnd, CleanupCall, CleanupFinish, SendCall, connVars
  <1>2. CASE TailStep
    <2>1. CASE ResetTail \/ NullTail \/ GiveUpTail
      BY <2>1, SameRetries DEF ResetTail, NullTail, GiveUpTail, connVars
    <2> QED BY <1>2, <2>1, DelayTailRetries DEF TailStep
  <1>3. CASE AsyncStep
    BY <1>3, SameRetries DEF AsyncStep, ConnAsync, WriteAsync, DisconnectAsync,
       CleanupAsync, AsyncRuns, Idle, connVars
  <1>4. CASE ClosingStep
    BY <1>4, SameRetries DEF ClosingStep, CancelConnect, CancelWrite,
       CloseSocket, ClosingPhase, SocketRuns, Idle, ConnRefused, Written,
       WrittenAs
  <1>5. CASE SocketStep
    BY <1>5, SameRetries DEF SocketStep, ConnDone, ConnFailed, WriteDone,
       ReadFailed, OnHandshake, OnHeartbeat, OnBadData, OnKick, OnResponse,
       SocketRuns, Idle, ConnRefused, Written, WrittenAs, connVars
  <1>6. CASE TimerStep
    BY <1>6, SameRetries DEF TimerStep, ReconnDelayTimer, ConnTimeoutTimer,
       HandshakeTimer, HeartbeatTimer, HeartbeatTimeout, CheckTimer, TimerRuns,
       Idle, connVars
  <1>7. CASE (\E r \in Reqs : Expire(r)) \/ UNCHANGED vars
    BY <1>7, SameRetries DEF Expire, vars, connVars
  <1> QED
    BY <1>1, <1>2, <1>3, <1>4, <1>5, <1>6, <1>7 DEF Next, WorkerStep, Ended

\* tcp__reconn makes at most reconn_max_retry attempts in a row, however
\* connections fail: refused, timed out, lost or broken.
THEOREM RetriesAreBounded == Spec => []RetriesBounded
  <1>1. Init => TypeInv /\ RetriesBounded
    <2>1. Init => RetriesBounded
      BY TransportAssumption DEF Init, RetriesBounded, PC_ALWAYS_RETRY
    <2> QED BY <2>1, InitType
  <1>2. TypeInv /\ RetriesBounded /\ [Next]_vars => (TypeInv /\ RetriesBounded)'
    BY NextType, NextRetries
  <1> QED BY <1>1, <1>2, PTL DEF Spec

(***************************************************************************)
(* The first connection                                                    *)
(***************************************************************************)

\* The invariant of every step
FirstInv == NoUninit /\ FirstConnInv

\* A step that leaves the worker alone: before the first connection the
\* client leaves INITED only with the wake-up that makes the connection.
LEMMA AppStepFirst ==
  ASSUME TypeInv, FirstInv, NEW t \in Threads,
         UNCHANGED <<pending_ev, connVars, queueVars, is_writing, loopVars,
                     timers, tail>>,
         fault' # "uvClose",
         async' \in {async, async \cup {"conn"}, async \cup {"cleanup"},
                     async \cup {"disconnect"}},
         "disconnect" \in async' /\ call[t] # "disconnect" => "disconnect" \in async,
         \A u \in Threads \ {t} : call'[u] = call[u],
         call'[t] # "sendQueue" \/ tstate # "NOT_CONN",
         state' \in {"INITED", "NOT_INITED"} \/ UNCHANGED state
           \/ call[t] = "disconnect" \/ "conn" \in async',
         call'[t] = "disconnect" => state \in {"CONNECTING", "CONNECTED"}
                                     \/ call[t] = "disconnect"
  PROVE  FirstInv'
  BY DEF FirstInv, NoUninit, FirstConnInv, connVars, loopVars, queueVars, Held

\* The application threads.  pc_client_connect wakes the worker: it cannot
\* have closed its handles while a thread is in the call.
LEMMA AppFirst ==
  ASSUME ~BadOpts, TypeInv, CleanupInv, FirstInv, NEW t \in Threads, AppStep(t)
  PROVE  FirstInv'
  <1> USE DEF TypeInv, AppOK, Goto, Wake
  <1>1. fault' = None => fault' # "uvClose"
    BY TransportAssumption DEF Faults
  <1>2. CASE ConnectStart(t)
    <2>1. ~closed
      BY <1>2 DEF ConnectStart, CleanupInv, CleaningUp
    <2> QED BY <1>1, <1>2, <2>1, AppStepFirst DEF ConnectStart, Running
  <1>3. CASE ConnectCall(t) \/ ConnectUndo(t) \/ DisconnectCall(t)
             \/ DisconnectStart(t)
    BY <1>1, <1>3, AppStepFirst DEF ConnectCall, ConnectUndo, DisconnectCall,
       DisconnectStart, Running, clientVars
  <1>4. CASE SendCheck(t) \/ \E r \in Reqs : SendCall(t, r)
    BY <1>1, <1>4, AppStepFirst DEF SendCheck, SendCall, Running, clientVars
  <1>5. CASE SendQueue(t) \/ SendWake(t)
    <2>1. CASE sock # "none"
      BY <1>1, <1>5, <2>1 DEF SendQueue, SendWake, connVars, Running, FirstInv,
         FirstConnInv, NoUninit
    <2>2. CASE sock = "none"
      <3>1. tstate = "NOT_CONN" /\ call[t] # "sendQueue"
        BY <2>2 DEF FirstInv, FirstConnInv
      <3> QED BY <1>1, <1>5, <3>1, AppStepFirst
              DEF SendQueue, SendWake, Running, clientVars
    <2> QED BY <2>1, <2>2
  <1>6. CASE PollEvent(t)
    <2>1. sock # "none"
      BY <1>6 DEF PollEvent, FirstInv, FirstConnInv
    <2>2. Head(pending_ev).net \in NetEvents \cup {None}
      BY <1>6, HeadEvent DEF PollEvent
    <2>3. fault' # "uvClose"
      BY <1>1, <1>6, <2>2 DEF PollEvent, Fire, Running, NetEvents
    <2> QED BY <1>6, <2>1, <2>3
            DEF PollEvent, connVars, FirstInv, FirstConnInv, NoUninit
  <1>7. CASE PollEnd(t) \/ CleanupCall(t) \/ CleanupFinish(t)
    BY <1>1, <1>7, AppStepFirst DEF PollEnd, CleanupCall, CleanupFinish,
       Running, clientVars
  <1> QED BY <1>2, <1>3, <1>4, <1>5, <1>6, <1>7 DEF AppStep

\* A callback that is not among the first ones: the socket has been made,
\* and what the client is told does not stop the process in uv_close.
LEMMA LaterFirst ==
  ASSUME FirstInv, sock # "none", sock' # "none", fault' # "uvClose"
  PROVE  FirstInv'
  BY DEF FirstInv, FirstConnInv, NoUninit

\* Telling the client does not stop the process in uv_close.
LEMMA TellFirst ==
  ASSUME FirstInv, NEW done, NEW e \in NetEvents \cup {None}, Tell(done, e)
  PROVE  fault' # "uvClose"
  BY DEF Tell, Fire, NetEvents, FirstInv, NoUninit

\* The ends of the callbacks come after the first connection attempt.
LEMMA TailFirst ==
  ASSUME FirstInv, TailStep
  PROVE  FirstInv'
  <1>1. sock # "none"
    BY DEF TailStep, ResetTail, NullTail, DelayTail, GiveUpTail, FirstInv,
       FirstConnInv
  <1>2. CASE ResetTail
    <2>1. Reset /\ Tell(Held \cap Reqs, None)
      BY <1>1, <1>2 DEF ResetTail, ResetCrashes
    <2> QED BY <1>1, <2>1, LaterFirst, TellFirst DEF Reset
  <1>3. CASE NullTail
    BY <1>1, <1>3, LaterFirst DEF NullTail, Crash, connVars
  <1>4. CASE DelayTail
    <2>1. fault' # "uvClose"
      <3>1. (IF GivesUp THEN "CONNECT_FAILED" ELSE None) \in NetEvents \cup {None}
        BY DEF NetEvents
      <3> QED BY <1>4, <3>1, TellFirst DEF DelayTail, Crash
    <2> QED BY <1>1, <1>4, <2>1, LaterFirst DEF DelayTail
  <1>5. CASE GiveUpTail
    BY <1>1, <1>5, LaterFirst DEF GiveUpTail, FirstInv, NoUninit
  <1> QED BY <1>2, <1>3, <1>4, <1>5 DEF TailStep

\* The callbacks of the async handles.  Before the first connection the
\* handle that makes it is the first in the scan; the wake-ups of disconnect
\* and cleanup come after it.
LEMMA AsyncFirst ==
  ASSUME TypeInv, CleanupInv, FirstInv, AsyncStep
  PROVE  FirstInv'
  <1>1. ASSUME sock = "none", "conn" \in async, NEW a \in Asyncs, AsyncRuns(a)
        PROVE  a = "conn"
    <2>1. pos = 0 /\ "conn" \in Candidates
      BY <1>1 DEF FirstInv, FirstConnInv, AsyncRuns, Candidates, Ahead, Rank,
         Asyncs
    <2>2. Rank[a] <= Rank["conn"]
      BY <1>1, <2>1 DEF AsyncRuns, Next_in_scan
    <2> QED BY <2>2 DEF Rank, Asyncs
  <1>2. ASSUME NEW a, AsyncRuns(a) PROVE a \in async
    BY <1>2 DEF AsyncRuns, Next_in_scan, Candidates, Ahead
  <1>3. CASE ConnAsync
    <2>1. CASE sock' # "none" /\ fault' # "uvClose"
      BY <2>1 DEF FirstInv, FirstConnInv, NoUninit
    <2>2. fault' # "uvClose"
      <3>1. "CONNECT_ERROR" \in NetEvents
        BY DEF NetEvents
      <3> QED BY <1>3, <3>1, TellFirst
              DEF ConnAsync, Crash, FirstInv, NoUninit
    <2>3. sock' # "none"
      BY <1>3 DEF ConnAsync, connVars, FirstInv, FirstConnInv
    <2> QED BY <2>1, <2>2, <2>3
  <1>4. CASE WriteAsync
    <2>1. sock # "none"
      BY <1>2, <1>4 DEF WriteAsync, FirstInv, FirstConnInv
    <2>2. fault' # "uvClose"
      BY <1>4, TellFirst DEF WriteAsync, FirstInv, NoUninit
    <2> QED BY <1>4, <2>1, <2>2, LaterFirst DEF WriteAsync, connVars
  <1>5. CASE DisconnectAsync
    <2>1. sock # "none"
      BY <1>1, <1>2, <1>5 DEF DisconnectAsync, FirstInv, FirstConnInv, Asyncs
    <2>2. Reset /\ Tell(Held \cap Reqs, "DISCONNECT")
      BY <1>5, <2>1 DEF DisconnectAsync, ResetCrashes
    <2> QED BY <2>1, <2>2, LaterFirst, TellFirst DEF Reset, NetEvents
  <1>6. CASE CleanupAsync
    <2>1. CASE sock # "none"
      <3>1. Reset /\ Tell(Held \cap Reqs, None)
        BY <1>6, <2>1 DEF CleanupAsync, ResetCrashes
      <3> QED BY <2>1, <3>1, LaterFirst, TellFirst DEF Reset
    <2>2. CASE sock = "none"
      <3>1. CleaningUp /\ state # "NOT_INITED"
        BY <1>2, <1>6 DEF CleanupAsync, AsyncRuns, Idle, CleanupInv, Running
      <3>2. state = "INITED"
        BY <1>1, <1>6, <2>2, <3>1 DEF CleanupAsync, FirstInv, FirstConnInv, Asyncs
      <3>3. /\ Reset /\ Tell({}, None) /\ tstate' = "NOT_CONN" /\ timers' = {}
            /\ async' = {} /\ closed' = TRUE
            /\ UNCHANGED <<is_connecting, is_writing, tail, call>>
        BY <1>6, <2>2, <3>2 DEF CleanupAsync, ResetCrashes, MustClose, FirstInv,
           FirstConnInv, appVars
      <3>4. UNCHANGED <<state, pending_ev, fault, sock>>
        BY <2>2, <3>2, <3>3 DEF Tell, Fire, Reset, MustClose
      <3>5. \A t \in Threads : call[t] # "disconnect"
        BY <3>1 DEF CleaningUp, CleanupInv
      <3>6. Held' = {}
        BY <3>3 DEF Reset, Held
      <3> QED BY <3>2, <3>3, <3>4, <3>5, <3>6 DEF FirstInv, FirstConnInv, NoUninit
    <2> QED BY <2>1, <2>2
  <1> QED BY <1>3, <1>4, <1>5, <1>6 DEF AsyncStep

\* The callbacks of the socket and its closing phase run on a socket that has
\* been made.
LEMMA SocketFirst ==
  ASSUME FirstInv, ClosingStep \/ SocketStep
  PROVE  FirstInv'
  <1> USE DEF SocketRuns, NetEvents
  <1>1. sock # "none"
    BY DEF ClosingStep, CancelConnect, CancelWrite, CloseSocket, ClosingPhase,
       SocketStep, ConnDone, ConnFailed, WriteDone, ReadFailed, OnHandshake,
       OnHeartbeat, OnBadData, OnKick, OnResponse
  <1>2. fault # "uvClose"
    BY DEF FirstInv, NoUninit
  <1>3. CASE CancelConnect \/ CancelWrite \/ CloseSocket
    BY <1>1, <1>2, <1>3, LaterFirst, TellFirst DEF CancelConnect, CancelWrite,
       CloseSocket, ClosingPhase, ConnRefused, Written, WrittenAs
  <1>4. CASE ConnDone \/ ConnFailed
    BY <1>1, <1>2, <1>4, LaterFirst, TellFirst DEF ConnDone, ConnFailed,
       ConnRefused
  <1>5. ASSUME NEW ok \in BOOLEAN, WriteDone(ok) PROVE FirstInv'
    BY <1>1, <1>5, LaterFirst, TellFirst DEF WriteDone, Written, WrittenAs
  <1>6. CASE ReadFailed \/ OnBadData \/ OnKick
    BY <1>1, <1>6, LaterFirst, TellFirst DEF ReadFailed, OnBadData, OnKick,
       connVars
  <1>7. ASSUME NEW a \in {"plain", "heartbeat", "refused", "garbage"}, OnHandshake(a)
        PROVE  FirstInv'
    BY <1>1, <1>7, LaterFirst, TellFirst DEF OnHandshake, Crash, connVars
  <1>8. CASE OnHeartbeat
    BY <1>1, <1>2, <1>8, LaterFirst DEF OnHeartbeat, Crash
  <1>9. ASSUME NEW r \in Requests, OnResponse(r) PROVE FirstInv'
    BY <1>1, <1>9, LaterFirst, TellFirst DEF OnResponse, connVars
  <1> QED BY <1>3, <1>4, <1>5, <1>6, <1>7, <1>8, <1>9 DEF ClosingStep, SocketStep

\* No timer is started before the first connection.
LEMMA TimerFirst ==
  ASSUME FirstInv, TimerStep
  PROVE  FirstInv'
  <1> USE DEF NetEvents
  <1>1. sock # "none" /\ fault # "uvClose"
    BY DEF TimerStep, TimerRuns, ReconnDelayTimer, ConnTimeoutTimer,
       HandshakeTimer, HeartbeatTimer, HeartbeatTimeout, CheckTimer, FirstInv,
       FirstConnInv, NoUninit
  <1>2. CASE ReconnDelayTimer \/ ConnTimeoutTimer \/ HeartbeatTimer
    BY <1>1, <1>2, LaterFirst DEF ReconnDelayTimer, ConnTimeoutTimer,
       HeartbeatTimer, Crash, connVars
  <1>3. CASE HandshakeTimer \/ HeartbeatTimeout \/ CheckTimer
    BY <1>1, <1>3, LaterFirst, TellFirst DEF HandshakeTimer, HeartbeatTimeout,
       CheckTimer, Crash, connVars
  <1> QED BY <1>2, <1>3 DEF TimerStep

\* Every step of the system keeps the invariant.
LEMMA NextFirst ==
  ASSUME ~BadOpts, TypeInv, CleanupInv, FirstInv, [Next]_vars
  PROVE  FirstInv'
  <1>1. CASE (\E r \in Reqs : Expire(r)) \/ UNCHANGED vars
    BY <1>1 DEF Expire, vars, clientVars, appVars, connVars, queueVars, loopVars,
       FirstInv, FirstConnInv, NoUninit, Held
  <1> QED
    BY <1>1, AppFirst, TailFirst, AsyncFirst, SocketFirst, TimerFirst
       DEF Next, WorkerStep, Ended

\* As long as the application passes handshake_opts that are JSON, tcp__reset
\* never closes a socket that was not made: the wake-up of the first
\* connection is served before any that resets it.
THEOREM SocketMadeFirst ==
  ASSUME ~BadOpts
  PROVE  Spec => []NoUninit
  <1>1. Init => TypeInv /\ FirstInv
    <2>1. Init => FirstInv
      BY TransportAssumption DEF Init, FirstInv, FirstConnInv, NoUninit, Held,
         Faults
    <2> QED BY <2>1, InitType
  <1>2. TypeInv /\ FirstInv /\ QueueInv /\ [Next]_vars => (TypeInv /\ FirstInv)'
    BY NextType, NextFirst DEF QueueInv
  <1>3. FirstInv => NoUninit
    BY DEF FirstInv
  <1> QED BY <1>1, <1>2, <1>3, QueuesHold, PTL DEF Spec

(***************************************************************************)
(* A disconnect is carried out                                             *)
(***************************************************************************)

\* The event that ends a disconnect waits to be polled.
EndComing == \E i \in DOMAIN pending_ev : pending_ev[i].net = "DISCONNECT"

\* A step that begins no disconnect and takes no wake-up and no event away
LEMMA SameServed ==
  ASSUME DisconnectServed,
         state' = "DISCONNECTING" /\ fault' = None =>
           state = "DISCONNECTING" /\ fault = None /\ (EndComing => EndComing'),
         closed => closed',
         "disconnect" \in async => "disconnect" \in async'
  PROVE  DisconnectServed'
  BY DEF DisconnectServed, EndComing

\* No event begins a disconnect, and the one that ends it does.
LEMMA FireServed ==
  ASSUME NEW e \in NetEvents \cup {None}, Fire(e),
         state' = "DISCONNECTING", fault' = None
  PROVE  state = "DISCONNECTING" /\ fault = None /\ e # "DISCONNECT"
  BY TransportAssumption DEF Fire, AfterEvent, LegalIn, NetEvents, Faults

\* Telling the client of an event begins no disconnect; PC_EV_DISCONNECT ends
\* it at once, or waits to be polled.
LEMMA TellServed ==
  ASSUME ClientOK, NEW done \in SUBSET Reqs, NEW e \in NetEvents \cup {None},
         Tell(done, e), state' = "DISCONNECTING", fault' = None
  PROVE  /\ state = "DISCONNECTING" /\ fault = None
         /\ EndComing \/ e = "DISCONNECT" => EndComing'
  <1>1. CASE EnablePolling
    <2>1. UNCHANGED <<state, fault>>
      BY <1>1 DEF Tell
    <2>2. CASE done = {} /\ e = None
      BY <1>1, <2>1, <2>2, TransportAssumption
         DEF Tell, EndComing, Faults, NetEvents
    <2>3. CASE ~(done = {} /\ e = None)
      <3> DEFINE ev == [net |-> e, done |-> done]
      <3>1. ev \in PendingEvents /\ ev.net = e
        BY DEF PendingEvents
      <3>2. pending_ev' = Append(pending_ev, ev)
        BY <1>1, <2>3 DEF Tell
      <3> HIDE DEF ev
      <3>3. EndComing \/ e = "DISCONNECT" => EndComing'
        BY <3>1, <3>2, AppendedEvents DEF EndComing
      <3> QED BY <2>1, <3>3
    <2> QED BY <2>2, <2>3
  <1>2. CASE ~EnablePolling
    BY <1>2, FireServed DEF Tell, EndComing
  <1> QED BY <1>1, <1>2

\* A callback that tells the client something and leaves the wake-ups alone
LEMMA EventServed ==
  ASSUME TypeInv, DisconnectServed, NEW done \in SUBSET Reqs,
         NEW e \in NetEvents \cup {None}, Tell(done, e),
         UNCHANGED closed, "disconnect" \in async => "disconnect" \in async'
  PROVE  DisconnectServed'
  BY TellServed, SameServed DEF TypeInv

\* A callback that tells the client nothing
LEMMA SilentServed ==
  ASSUME DisconnectServed, UNCHANGED <<clientVars, closed>>,
         fault' = None => fault = None,
         "disconnect" \in async => "disconnect" \in async'
  PROVE  DisconnectServed'
  BY SameServed DEF EndComing, clientVars

\* The application threads.  pc_client_disconnect wakes the worker; polling
\* takes events away, but the one that ends the disconnect only with it.
LEMMA AppServed ==
  ASSUME TypeInv, DisconnectServed, NEW t \in Threads, AppStep(t)
  PROVE  DisconnectServed'
  <1> USE DEF Running
  <1>1. CASE DisconnectStart(t)
    BY <1>1 DEF DisconnectStart, Wake, loopVars, DisconnectServed
  <1>2. CASE PollEvent(t)
    <2>1. Head(pending_ev).net \in NetEvents \cup {None}
      BY <1>2, HeadEvent DEF PollEvent, TypeInv
    <2>2. ASSUME state' = "DISCONNECTING", fault' = None, EndComing
          PROVE  EndComing'
      <3>1. Head(pending_ev).net # "DISCONNECT"
        BY <1>2, <2>1, <2>2, FireServed DEF PollEvent
      <3>2. PICK i \in DOMAIN pending_ev : pending_ev[i].net = "DISCONNECT"
        BY <2>2 DEF EndComing
      <3>3. i - 1 \in DOMAIN pending_ev' /\ pending_ev'[i - 1] = pending_ev[i]
        BY <1>2, <3>1, <3>2, TakenEvents DEF PollEvent, TypeInv
      <3> QED BY <3>2, <3>3 DEF EndComing
    <2> QED BY <1>2, <2>1, <2>2, FireServed, SameServed DEF PollEvent, loopVars
  <1>3. CASE ConnectStart(t) \/ ConnectUndo(t)
    BY <1>3 DEF ConnectStart, ConnectUndo, DisconnectServed
  <1>4. CASE ConnectCall(t) \/ DisconnectCall(t)
    BY <1>4, SilentServed DEF ConnectCall, DisconnectCall, loopVars
  <1>5. CASE SendCheck(t) \/ SendQueue(t) \/ SendWake(t)
             \/ \E r \in Reqs : SendCall(t, r)
    BY <1>5, SameServed DEF SendCheck, SendQueue, SendWake, SendCall, Wake,
       loopVars, clientVars, EndComing
  <1>6. CASE PollEnd(t) \/ CleanupCall(t)
    BY <1>6, SilentServed DEF PollEnd, CleanupCall, Wake, loopVars
  <1>7. CASE CleanupFinish(t)
    BY <1>7, SameServed, TransportAssumption DEF CleanupFinish, loopVars,
       EndComing, Faults
  <1> QED BY <1>1, <1>2, <1>3, <1>4, <1>5, <1>6, <1>7 DEF AppStep

\* The callbacks that do not serve the wake-up
LEMMA WorkerServed ==
  ASSUME TypeInv, DisconnectServed, TailStep \/ ClosingStep \/ SocketStep \/ TimerStep
  PROVE  DisconnectServed'
  <1> USE DEF NetEvents, Running, Idle, SocketRuns, TimerRuns, Wake
  <1>1. fault = None /\ Held \cap Reqs \subseteq Reqs /\ Requests \subseteq Reqs
    BY DEF TailStep, ResetTail, NullTail, DelayTail, GiveUpTail,
       ClosingStep, CancelConnect, CancelWrite, CloseSocket, ClosingPhase,
       SocketStep, ConnDone, ConnFailed, WriteDone, ReadFailed, OnHandshake,
       OnHeartbeat, OnBadData, OnKick, OnResponse, TimerStep, ReconnDelayTimer,
       ConnTimeoutTimer, HandshakeTimer, HeartbeatTimer, HeartbeatTimeout,
       CheckTimer, Reqs
  <1>2. CASE TailStep
    <2>1. CASE ResetTail
      BY <1>1, <2>1, EventServed, SilentServed DEF ResetTail, Crash, loopVars
    <2>2. CASE DelayTail
      <3>1. (IF GivesUp THEN "CONNECT_FAILED" ELSE None) \in NetEvents \cup {None}
        OBVIOUS
      <3> QED BY <1>1, <2>2, <3>1, EventServed, SilentServed
              DEF DelayTail, Crash, loopVars
    <2>3. CASE NullTail \/ GiveUpTail
      BY <1>1, <2>3, SilentServed DEF NullTail, GiveUpTail, Crash, loopVars
    <2> QED BY <1>2, <2>1, <2>2, <2>3 DEF TailStep
  <1>3. CASE ClosingStep
    BY <1>1, <1>3, EventServed, SilentServed DEF ClosingStep, CancelConnect,
       CancelWrite, CloseSocket, ClosingPhase, ConnRefused, Written, WrittenAs
  <1>4. ASSUME NEW ok \in BOOLEAN, WriteDone(ok) PROVE DisconnectServed'
    BY <1>4, EventServed DEF WriteDone, Written, WrittenAs
  <1>5. ASSUME NEW a \in {"plain", "heartbeat", "refused", "garbage"}, OnHandshake(a)
        PROVE  DisconnectServed'
    BY <1>1, <1>5, EventServed, SilentServed DEF OnHandshake, Crash
  <1>6. ASSUME NEW r \in Requests, OnResponse(r) PROVE DisconnectServed'
    BY <1>1, <1>6, EventServed DEF OnResponse
  <1>7. CASE ConnDone \/ ConnFailed \/ ReadFailed
    BY <1>1, <1>7, EventServed, SilentServed DEF ConnDone, ConnFailed,
       ConnRefused, ReadFailed
  <1>8. CASE OnHeartbeat \/ OnBadData \/ OnKick
    BY <1>1, <1>8, EventServed, SilentServed DEF OnHeartbeat, OnBadData, OnKick,
       Crash
  <1>9. CASE TimerStep
    <2>1. CASE CheckTimer
      BY <2>1, EventServed, TransportAssumption DEF CheckTimer
    <2>2. CASE HandshakeTimer \/ HeartbeatTimeout
      BY <1>1, <2>2, EventServed, SilentServed DEF HandshakeTimer,
         HeartbeatTimeout, Crash
    <2>3. CASE ReconnDelayTimer \/ ConnTimeoutTimer \/ HeartbeatTimer
      BY <1>1, <2>3, SilentServed DEF ReconnDelayTimer, ConnTimeoutTimer,
         HeartbeatTimer, Crash
    <2> QED BY <1>9, <2>1, <2>2, <2>3 DEF TimerStep
  <1> QED BY <1>2, <1>3, <1>4, <1>5, <1>6, <1>7, <1>8, <1>9 DEF SocketStep

\* tcp__disconnect_async_cb serves the wake-up with the event that ends the
\* disconnect; after tcp__cleanup_async_cb there is none to serve.
LEMMA AsyncServed ==
  ASSUME TypeInv, DisconnectServed, AsyncStep
  PROVE  DisconnectServed'
  <1> USE DEF NetEvents
  <1>1. fault = None
    BY DEF AsyncStep, ConnAsync, WriteAsync, DisconnectAsync, CleanupAsync,
       AsyncRuns, Idle, Running
  <1>2. CASE ConnAsync
    BY <1>1, <1>2, EventServed, SilentServed DEF ConnAsync, Crash
  <1>3. CASE WriteAsync
    <2>1. UNCHANGED closed /\ ("disconnect" \in async => "disconnect" \in async')
      BY <1>3 DEF WriteAsync
    <2> QED BY <1>1, <1>3, <2>1, EventServed, SilentServed DEF WriteAsync
  <1>4. CASE DisconnectAsync
    <2>1. CASE Crash("uvClose")
      BY <2>1, TransportAssumption DEF Crash, DisconnectServed, Faults
    <2>2. CASE Tell(Held \cap Reqs, "DISCONNECT")
      BY <2>2, TellServed DEF TypeInv, DisconnectServed, EndComing
    <2> QED BY <1>4, <2>1, <2>2 DEF DisconnectAsync
  <1>5. CASE CleanupAsync
    BY <1>5, TransportAssumption DEF CleanupAsync, Crash, DisconnectServed, Faults
  <1> QED BY <1>2, <1>3, <1>4, <1>5 DEF AsyncStep

\* Every step of the system keeps the invariant.
LEMMA NextServed ==
  ASSUME TypeInv, DisconnectServed, [Next]_vars
  PROVE  DisconnectServed'
  <1>1. CASE (\E r \in Reqs : Expire(r)) \/ UNCHANGED vars
    BY <1>1, SilentServed DEF Expire, vars, loopVars
  <1> QED BY <1>1, AppServed, WorkerServed, AsyncServed
          DEF Next, WorkerStep, Ended

\* Whatever the worker and the other threads do meanwhile, a client in state
\* DISCONNECTING still has its wake-up to be served, or the event that ends
\* the disconnect to be polled.
THEOREM DisconnectNotLost == Spec => []DisconnectServed
  <1>1. Init => TypeInv /\ DisconnectServed
    <2>1. Init => DisconnectServed
      BY DEF Init, DisconnectServed
    <2> QED BY <2>1, InitType
  <1>2. TypeInv /\ DisconnectServed /\ [Next]_vars => (TypeInv /\ DisconnectServed)'
    BY NextType, NextServed
  <1> QED BY <1>1, <1>2, PTL DEF Spec

(***************************************************************************)
(* A client that is told it is connected is                                *)
(***************************************************************************)

\* The invariant of every step
ClientInv == PollingInv /\ ToldInv

\* A step after which the transport is done, or was not before, and that
\* leaves the client told
LEMMA SameTold ==
  ASSUME ClientInv, PollingInv', Running' => Running,
         tstate' # "DONE" \/ tail' # "idle" => tstate # "DONE" \/ tail # "idle",
         CleaningUp /\ Running' => CleaningUp',
         Running' /\ EndTold => EndTold'
  PROVE  ClientInv'
  BY DEF ClientInv, ToldInv

\* A step that tells the client of the end of a connection
LEMMA NowTold ==
  ASSUME ClientInv, PollingInv', Running' => EndTold'
  PROVE  ClientInv'
  BY DEF ClientInv, ToldInv

\* Without polling, nothing waits to be polled.
LEMMA TellPolling ==
  ASSUME PollingInv, NEW done, NEW e, Tell(done, e)
  PROVE  PollingInv'
  BY DEF PollingInv, Tell

\* Answering requests changes nothing of what is told.
LEMMA AnswerTold ==
  ASSUME ClientOK, ClientInv, NEW done \in SUBSET Reqs, Tell(done, None), EndTold
  PROVE  EndTold'
  <1>1. UNCHANGED state
    BY DEF Tell, Fire
  <1>2. CASE UNCHANGED pending_ev
    BY <1>1, <1>2 DEF EndTold, Ending
  <1>3. CASE pending_ev' = Append(pending_ev, [net |-> None, done |-> done])
    <2> DEFINE ev == [net |-> None, done |-> done]
    <2>1. ev \in PendingEvents /\ ev.net = None /\ pending_ev' = Append(pending_ev, ev)
      BY <1>3 DEF PendingEvents
    <2>2. None # "CONNECTED"
      BY TransportAssumption DEF Faults, NetEvents
    <2> HIDE DEF ev
    <2> QED BY <1>1, <2>1, <2>2, AppendedEvents DEF EndTold, Ending
  <1> QED BY <1>2, <1>3 DEF Tell

\* Telling an end of the connection is telling it last.
LEMMA EndIsTold ==
  ASSUME ClientOK, ClientInv, NEW done \in SUBSET Reqs,
         NEW e \in NetEvents \ {"CONNECTED"}, Tell(done, e), fault' = None
  PROVE  EndTold'
  <1>1. e # None
    BY TransportAssumption DEF Faults
  <1>2. CASE EnablePolling
    <2> DEFINE ev == [net |-> e, done |-> done]
    <2>1. ev \in PendingEvents /\ ev.net = e
      BY DEF PendingEvents
    <2>2. pending_ev' = Append(pending_ev, ev)
      BY <1>1, <1>2 DEF Tell
    <2> HIDE DEF ev
    <2> QED BY <1>1, <2>1, <2>2, AppendedEvents DEF EndTold, Ending
  <1>3. CASE ~EnablePolling
    <2>1. pending_ev' = <<>> /\ Fire(e)
      BY <1>3 DEF Tell, ClientInv, PollingInv
    <2>2. state' # "CONNECTED"
      BY <1>1, <2>1, TransportAssumption
         DEF Fire, AfterEvent, LegalIn, NetEvents, Faults
    <2> QED BY <2>1, <2>2 DEF EndTold
  <1> QED BY <1>2, <1>3

\* Polling an event brings the client to what the next ones build on.
LEMMA PollTold ==
  ASSUME ClientOK, pending_ev # <<>>, pending_ev' = Tail(pending_ev),
         Fire(Head(pending_ev).net), fault' = None, EndTold
  PROVE  EndTold'
  <1> DEFINE e == Head(pending_ev).net
  <1>1. e \in NetEvents \cup {None}
    BY HeadEvent
  <1>2. ASSUME NEW i \in DOMAIN pending_ev, i # 1, Ending(i)
        PROVE  i - 1 \in DOMAIN pending_ev' /\ Ending(i - 1)'
    BY <1>2, TakenEvents DEF Ending
  <1>3. ASSUME NEW i \in DOMAIN pending_ev', pending_ev'[i].net = "CONNECTED"
        PROVE  \E j \in DOMAIN pending_ev' : j > i /\ Ending(j)'
    <2>1. /\ i \in Int /\ i > 0 /\ i + 1 \in DOMAIN pending_ev
          /\ pending_ev[i + 1].net = "CONNECTED"
      BY <1>3, TakenEvents
    <2>2. PICK j \in DOMAIN pending_ev : j > i + 1 /\ Ending(j)
      BY <2>1 DEF EndTold
    <2>3. j \in Int
      BY TakenEvents
    <2> QED BY <1>2, <2>1, <2>2, <2>3
  <1>4. ASSUME state' = "CONNECTED"
        PROVE  \E i \in DOMAIN pending_ev' : Ending(i)'
    <2>1. e \in {None, "CONNECTED"}
      BY <1>1, <1>4, TransportAssumption
         DEF Fire, AfterEvent, LegalIn, NetEvents, Faults
    <2>2. \E i \in DOMAIN pending_ev : i # 1 /\ Ending(i)
      <3>1. CASE e = "CONNECTED"
        BY <3>1, TakenEvents DEF EndTold
      <3>2. CASE e = None
        BY <1>4, <3>2, TakenEvents DEF EndTold, Ending, Fire
      <3> QED BY <2>1, <3>1, <3>2
    <2> QED BY <1>2, <2>2
  <1> QED BY <1>3, <1>4 DEF EndTold, Ending

\* The application threads
LEMMA AppTold ==
  ASSUME TypeInv, ClientInv, NEW t \in Threads, AppStep(t)
  PROVE  ClientInv'
  <1> USE DEF Running, TypeInv, AppOK, Goto, CleaningUp
  <1>1. CASE PollEvent(t)
    <2>1. PollingInv'
      BY <1>1 DEF PollEvent, ClientInv, PollingInv
    <2> QED BY <1>1, <2>1, SameTold, PollTold DEF PollEvent, connVars
  <1>2. CASE CleanupFinish(t)
    BY <1>2, TransportAssumption
       DEF CleanupFinish, ClientInv, PollingInv, ToldInv, Faults
  <1>3. CASE CleanupCall(t)
    BY <1>3, SameTold DEF CleanupCall, connVars, clientVars, ClientInv,
       PollingInv, EndTold, Ending
  <1>4. CASE /\ state' \in {state, "CONNECTING", "INITED", "DISCONNECTING"}
             /\ call[t] # "cleanup" /\ Running
             /\ \A u \in Threads \ {t} : call'[u] = call[u]
             /\ UNCHANGED <<pending_ev, tstate, tail>>
    BY <1>4, SameTold DEF ClientInv, PollingInv, EndTold, Ending
  <1>5. CASE ConnectCall(t) \/ ConnectStart(t) \/ ConnectUndo(t)
             \/ DisconnectCall(t) \/ DisconnectStart(t)
    BY <1>4, <1>5 DEF ConnectCall, ConnectStart, ConnectUndo, DisconnectCall,
       DisconnectStart, connVars, clientVars
  <1>6. CASE SendCheck(t) \/ SendQueue(t) \/ SendWake(t)
             \/ \E r \in Reqs : SendCall(t, r)
    BY <1>4, <1>6 DEF SendCheck, SendQueue, SendWake, SendCall, connVars,
       clientVars
  <1>7. CASE PollEnd(t)
    BY <1>7, SameTold DEF PollEnd, connVars, clientVars, ClientInv, PollingInv,
       EndTold, Ending
  <1> QED BY <1>1, <1>2, <1>3, <1>5, <1>6, <1>7 DEF AppStep

\* A callback that tells the client nothing, or answers requests, and does
\* not leave the state DONE
LEMMA QuietTold ==
  ASSUME TypeInv, ClientInv, Running, UNCHANGED appVars,
         tstate' # "DONE" \/ tail' # "idle" => tstate # "DONE" \/ tail # "idle",
         \/ UNCHANGED clientVars
         \/ \E done \in SUBSET Reqs : Tell(done, None)
  PROVE  ClientInv'
  <1>1. CleaningUp => CleaningUp'
    BY DEF CleaningUp, appVars
  <1>2. CASE UNCHANGED clientVars
    BY <1>1, <1>2, SameTold
       DEF clientVars, ClientInv, PollingInv, EndTold, Ending
  <1>3. ASSUME NEW done \in SUBSET Reqs, Tell(done, None) PROVE ClientInv'
    BY <1>1, <1>3, SameTold, TellPolling, AnswerTold DEF TypeInv, ClientInv
  <1> QED BY <1>2, <1>3

\* A callback that tells the client of the end of a connection
LEMMA EndingTold ==
  ASSUME TypeInv, ClientInv, NEW done \in SUBSET Reqs,
         NEW e \in NetEvents \ {"CONNECTED"}, Tell(done, e)
  PROVE  ClientInv'
  BY EndIsTold, NowTold, TellPolling DEF TypeInv, ClientInv, Running

\* A callback that stops the process
LEMMA CrashTold ==
  ASSUME ClientInv, NEW f \in Faults, Crash(f)
  PROVE  ClientInv'
  BY NowTold, TransportAssumption
     DEF Crash, clientVars, Running, ClientInv, PollingInv

\* The ends of the callbacks: the client was told in their first part.
LEMMA TailTold ==
  ASSUME TypeInv, ClientInv, TailStep
  PROVE  ClientInv'
  <1> USE DEF Faults, NetEvents
  <1>1. CASE ResetTail
    <2>1. CASE Crash("uvClose")
      BY <2>1, CrashTold
    <2>2. CASE Tell(Held \cap Reqs, None)
      BY <1>1, <2>2, QuietTold DEF ResetTail
    <2> QED BY <1>1, <2>1, <2>2 DEF ResetTail
  <1>2. CASE NullTail
    BY <1>2, CrashTold DEF NullTail
  <1>3. CASE DelayTail
    <2>1. CASE Crash("divByZero")
      BY <2>1, CrashTold
    <2>2. CASE Tell({}, "CONNECT_FAILED")
      BY <2>2, EndingTold
    <2>3. CASE Tell({}, None)
      BY <1>3, <2>3, QuietTold DEF DelayTail
    <2> QED BY <1>3, <2>1, <2>2, <2>3 DEF DelayTail
  <1>4. CASE GiveUpTail
    BY <1>4, QuietTold DEF GiveUpTail
  <1> QED BY <1>1, <1>2, <1>3, <1>4 DEF TailStep

\* The callbacks of the async handles; a connection is made only when there
\* is none.
LEMMA AsyncTold ==
  ASSUME TypeInv, AssertInv, CleanupInv, ClientInv, AsyncStep
  PROVE  ClientInv'
  <1> USE DEF Faults, NetEvents, AsyncRuns, Idle
  <1>1. CASE ConnAsync
    <2>1. CASE UNCHANGED <<clientVars, tstate, tail>>
      BY <1>1, <2>1, QuietTold DEF ConnAsync
    <2>2. CASE Crash(IF sock = "closing" THEN "finishClose" ELSE "reinit")
      BY <2>2, CrashTold
    <2>3. CASE sock # "reading" /\ UNCHANGED clientVars
      BY <1>1, <2>3, QuietTold DEF ConnAsync, AssertInv, ReadingInv
    <2>4. CASE Tell({}, "CONNECT_ERROR")
      BY <2>4, EndingTold
    <2> QED BY <1>1, <2>1, <2>2, <2>3, <2>4 DEF ConnAsync, connVars
  <1>2. CASE WriteAsync
    <2>1. UNCHANGED <<appVars, tstate, tail>> /\ Running
      BY <1>2 DEF WriteAsync, connVars
    <2>2. CASE UNCHANGED clientVars
      BY <2>1, <2>2, QuietTold
    <2>3. ASSUME NEW done \in SUBSET Reqs, Tell(done, None) PROVE ClientInv'
      BY <2>1, <2>3, QuietTold
    <2> QED BY <1>2, <2>2, <2>3 DEF WriteAsync
  <1>3. CASE DisconnectAsync
    <2>1. CASE Crash("uvClose")
      BY <2>1, CrashTold
    <2>2. CASE Tell(Held \cap Reqs, "DISCONNECT")
      BY <2>2, EndingTold
    <2> QED BY <1>3, <2>1, <2>2 DEF DisconnectAsync
  <1>4. CASE CleanupAsync
    <2>1. CASE Crash("uvClose")
      BY <2>1, CrashTold
    <2>2. CASE Tell(Held \cap Reqs, None)
      <3>1. "cleanup" \in async /\ Running
        BY <1>4 DEF CleanupAsync, Next_in_scan, Candidates, Ahead
      <3>2. CleaningUp'
        BY <1>4, <3>1 DEF CleanupAsync, CleanupInv, CleaningUp, appVars
      <3> QED BY <2>2, <3>2, TellPolling DEF ClientInv, ToldInv
    <2> QED BY <1>4, <2>1, <2>2 DEF CleanupAsync
  <1> QED BY <1>1, <1>2, <1>3, <1>4 DEF AsyncStep

\* The callbacks of the socket and its closing phase.  The client is told
\* that it is connected in the step that makes the transport done.
LEMMA SocketTold ==
  ASSUME TypeInv, AssertInv, ClientInv, ClosingStep \/ SocketStep
  PROVE  ClientInv'
  <1> USE DEF Faults, NetEvents, SocketRuns, Idle
  <1>1. CASE ConnRefused
    BY <1>1, EndingTold DEF ConnRefused
  <1>2. ASSUME NEW ok \in BOOLEAN, Written(ok), Running, UNCHANGED appVars
        PROVE  ClientInv'
    <2>1. Tell((writing \ Kept(ok)) \cap Reqs, None) /\ UNCHANGED <<tstate, tail>>
      BY <1>2 DEF Written, WrittenAs
    <2> QED BY <1>2, <2>1, QuietTold
  <1>3. CASE ClosingStep
    BY <1>1, <1>2, <1>3, QuietTold DEF ClosingStep, CancelConnect, CancelWrite,
       CloseSocket, ClosingPhase
  <1>4. ASSUME NEW ok \in BOOLEAN, WriteDone(ok) PROVE ClientInv'
    BY <1>2, <1>4 DEF WriteDone
  <1>5. CASE ConnDone
    BY <1>5, QuietTold DEF ConnDone, AssertInv, ReadingInv
  <1>6. CASE ConnFailed
    BY <1>1, <1>6 DEF ConnFailed
  <1>7. ASSUME NEW a \in {"plain", "heartbeat", "refused", "garbage"}, OnHandshake(a)
        PROVE  ClientInv'
    <2>1. CASE Crash("handshakeAssert")
      BY <2>1, CrashTold
    <2>2. CASE Tell({}, "CONNECT_FAILED")
      BY <2>2, EndingTold
    <2>3. CASE Tell({}, "CONNECTED") /\ tstate' = "DONE" /\ UNCHANGED tail
      BY <1>7, <2>3, TellPolling DEF OnHandshake, ClientInv, ToldInv
    <2> QED BY <1>7, <2>1, <2>2, <2>3 DEF OnHandshake
  <1>8. CASE OnHeartbeat
    BY <1>8, QuietTold, CrashTold DEF OnHeartbeat
  <1>9. ASSUME NEW r \in Requests, OnResponse(r) PROVE ClientInv'
    <2>1. {r} \in SUBSET Reqs
      BY DEF Reqs
    <2> QED BY <1>9, <2>1, QuietTold DEF OnResponse, connVars
  <1>10. CASE ReadFailed \/ OnBadData \/ OnKick
    BY <1>10, EndingTold DEF ReadFailed, OnBadData, OnKick
  <1> QED
    BY <1>3, <1>4, <1>5, <1>6, <1>7, <1>8, <1>9, <1>10 DEF SocketStep

\* The callbacks of the timers
LEMMA TimerTold ==
  ASSUME TypeInv, ClientInv, TimerStep
  PROVE  ClientInv'
  <1> USE DEF Faults, NetEvents, TimerRuns, Idle
  <1>1. CASE ReconnDelayTimer
    BY <1>1, QuietTold DEF ReconnDelayTimer, connVars
  <1>2. CASE ConnTimeoutTimer
    BY <1>2, QuietTold, CrashTold DEF ConnTimeoutTimer
  <1>3. CASE HandshakeTimer
    BY <1>3, EndingTold DEF HandshakeTimer
  <1>4. CASE HeartbeatTimer
    BY <1>4, QuietTold, CrashTold DEF HeartbeatTimer
  <1>5. CASE HeartbeatTimeout
    BY <1>5, EndingTold, CrashTold DEF HeartbeatTimeout
  <1>6. CASE CheckTimer
    <2> DEFINE expired == Timed \cap (conn_pending \cup write_wait \cup resp_pending)
                                \cap late
    <2>1. Tell(expired, None) /\ expired \in SUBSET Reqs
      BY <1>6, TransportAssumption DEF CheckTimer
    <2> QED BY <1>6, <2>1, QuietTold DEF CheckTimer, connVars
  <1> QED BY <1>1, <1>2, <1>3, <1>4, <1>5, <1>6 DEF TimerStep

\* Every step of the system keeps the invariant.
LEMMA NextTold ==
  ASSUME TypeInv, AssertInv, CleanupInv, ClientInv, [Next]_vars
  PROVE  ClientInv'
  <1>1. CASE (\E r \in Reqs : Expire(r)) \/ UNCHANGED vars
    BY <1>1 DEF Expire, vars, clientVars, appVars, connVars, ClientInv,
       PollingInv, ToldInv, EndTold, Ending, CleaningUp, Running
  <1> QED
    BY <1>1, AppTold, TailTold, AsyncTold, SocketTold, TimerTold
       DEF Next, WorkerStep, Ended

\* A client in state CONNECTED that has polled all its events has a transport
\* that finished its handshake: every way in which the transport leaves that
\* state tells the client, after it was told that it is connected.
THEOREM ConnectedMeansDone == Spec => []ConnectedIsDone
  <1>1. Init => TypeInv /\ AssertInv /\ ClientInv
    <2>1. Init => ClientInv
      BY DEF Init, ClientInv, PollingInv, ToldInv, EndTold
    <2> QED BY <2>1, InitType, InitAssert
  <1>2. TypeInv /\ AssertInv /\ ClientInv /\ QueueInv /\ [Next]_vars
          => (TypeInv /\ AssertInv /\ ClientInv)'
    BY NextType, NextAssert, NextTold DEF QueueInv
  <1>3. ClientInv => ConnectedIsDone
    BY DEF ClientInv, ToldInv, EndTold, ConnectedIsDone, Running
  <1> QED BY <1>1, <1>2, <1>3, QueuesHold, PTL DEF Spec
=============================================================================
