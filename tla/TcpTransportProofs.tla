-------------------------- MODULE TcpTransportProofs --------------------------
(***************************************************************************)
(* The types of TcpTransport; that the assertions of the worker's own      *)
(* callbacks hold: no timer and no package of the server finds the         *)
(* transport in a state that the code rules out; and the write items: each *)
(* is in one queue, none is forgotten, and none is left when the client is *)
(* destroyed.                                                              *)
(***************************************************************************)
EXTENDS TcpProperties, SequenceTheorems, TLAPS

(***************************************************************************)
(* Type correctness.  TypeOK falls into what the client keeps, what the    *)
(* threads do, the connection, the queues and the loop.                    *)
(***************************************************************************)
PendingEvents == [net : NetEvents \cup {None}, done : SUBSET Reqs]

ClientOK ==
  /\ state \in ClientStates
  /\ pending_ev \in Seq(PendingEvents)
  /\ status \in [Reqs -> {"unused", "open", "done", "rejected"}]
  /\ fault \in Faults \cup {None}

AppOK ==
  /\ poller \in Threads \cup {None}
  /\ call \in [Threads -> Calls]
  /\ arg \in [Threads -> Reqs \cup {None}]
  /\ \A t \in Threads : call[t] \in {"sendCheck", "sendQueue"} => arg[t] \in Reqs
  /\ late \subseteq Timed

ConnOK ==
  /\ tstate \in TransportStates
  /\ is_connecting \in BOOLEAN
  /\ reconn_times \in Nat
  /\ is_waiting_hb \in BOOLEAN
  /\ sock \in SocketStates

QueueOK ==
  /\ conn_pending \subseteq Reqs
  /\ write_wait \subseteq Reqs \cup Internal
  /\ writing \subseteq Reqs \cup Internal
  /\ resp_pending \subseteq Requests

LoopOK ==
  /\ is_writing \in BOOLEAN
  /\ timers \subseteq Timers
  /\ async \subseteq Asyncs
  /\ pos \in -1..4
  /\ closed \in BOOLEAN
  /\ tail \in Tails
  /\ srv \in {"nothing", "handshake", "ack", "misordered"}
  /\ owed \subseteq Requests \cup {"handshake", "heartbeat"}

\* TypeOK is not inductive by itself: a call that is about to queue its
\* request has one.
TypeInv == ClientOK /\ AppOK /\ ConnOK /\ QueueOK /\ LoopOK

\* The handles are ranked 1 to 4.
LEMMA RankType == \A a \in Asyncs : Rank[a] \in 1..4
  BY DEF Rank, Asyncs

\* Firing an event leaves a client state, or a fault.
LEMMA FireType ==
  ASSUME ClientOK, NEW e \in NetEvents \cup {None}, Fire(e)
  PROVE  state' \in ClientStates /\ fault' \in Faults \cup {None}
  <1>1. CASE e = None
    BY <1>1 DEF Fire, ClientOK
  <1>2. CASE e # None /\ state \in LegalIn(e)
    <2>1. AfterEvent(e, state) \in ClientStates
      BY DEF AfterEvent, ClientOK, ClientStates
    <2> QED BY <1>2, <2>1 DEF Fire, ClientOK
  <1>3. CASE e # None /\ state \notin LegalIn(e)
    BY <1>3 DEF Fire, ClientOK, Faults
  <1> QED BY <1>1, <1>2, <1>3

\* Looking requests up and ending them keeps the type of status.
LEMMA CompleteType ==
  ASSUME ClientOK, NEW done
  PROVE  Complete(done) \in [Reqs -> {"unused", "open", "done", "rejected"}]
  BY DEF ClientOK, Complete

\* Telling the client, directly or through the queue for polling, keeps the
\* types of what it holds.
LEMMA TellType ==
  ASSUME ClientOK, NEW done \in SUBSET Reqs, NEW e \in NetEvents \cup {None},
         Tell(done, e)
  PROVE  ClientOK'
  <1>1. CASE EnablePolling
    <2> DEFINE ev == [net |-> e, done |-> done]
    <2>1. ev \in PendingEvents
      BY DEF PendingEvents
    <2>2. Append(pending_ev, ev) \in Seq(PendingEvents)
      BY <2>1, AppendProperties DEF ClientOK
    <2>3. UNCHANGED <<state, status, fault>>
      BY <1>1 DEF Tell
    <2>4. pending_ev' \in {pending_ev, Append(pending_ev, ev)}
      BY <1>1 DEF Tell
    <2> QED BY <2>2, <2>3, <2>4 DEF ClientOK
  <1>2. CASE ~EnablePolling
    BY <1>2, FireType, CompleteType DEF Tell, ClientOK
  <1> QED BY <1>1, <1>2

\* A crash records its label.
LEMMA CrashType ==
  ASSUME ClientOK, NEW label \in Faults, Crash(label)
  PROVE  ClientOK'
  BY DEF Crash, clientVars, ClientOK

\* A part that an action leaves alone keeps its type.
LEMMA SameClient ==
  ASSUME ClientOK, UNCHANGED <<clientVars, fault>>
  PROVE  ClientOK'
  BY DEF ClientOK, clientVars

\* The same of what the threads do
LEMMA SameApp == ASSUME AppOK, UNCHANGED <<appVars, late>> PROVE AppOK'
  BY DEF AppOK, appVars

\* The same of the connection
LEMMA SameConn == ASSUME ConnOK, UNCHANGED connVars PROVE ConnOK'
  BY DEF ConnOK, connVars

\* The same of the queues
LEMMA SameQueues == ASSUME QueueOK, UNCHANGED queueVars PROVE QueueOK'
  BY DEF QueueOK, queueVars

\* The same of the loop, whose position a callback of the worker moves
LEMMA SameLoop ==
  ASSUME LoopOK,
         UNCHANGED <<is_writing, timers, async, closed, tail, serverVars>>, pos' \in -1..4
  PROVE  LoopOK'
  BY DEF LoopOK, serverVars

\* An API call goes to its next step with the request it is about.
LEMMA GotoType ==
  ASSUME AppOK, NEW t \in Threads, NEW c \in Calls, NEW r \in Reqs \cup {None},
         c \in {"sendCheck", "sendQueue"} => r \in Reqs,
         Goto(t, c, r), UNCHANGED <<poller, late>>
  PROVE  AppOK'
  BY DEF AppOK, Goto

\* uv_async_send wakes one of the handles.
LEMMA WakeType ==
  ASSUME LoopOK, NEW A \in SUBSET Asyncs, Wake(A)
  PROVE  async' \subseteq Asyncs
  BY DEF LoopOK, Wake

\* tcp__reset empties the queues and leaves the socket closed or not.
LEMMA ResetType ==
  ASSUME ConnOK, Reset
  PROVE  /\ QueueOK'
         /\ is_waiting_hb' \in BOOLEAN
         /\ sock' \in SocketStates
  BY DEF Reset, QueueOK, ConnOK, SocketStates

\* Wherever a callback runs, the loop stays at a position it has.
LEMMA RunsType ==
  /\ LoopOK /\ UNCHANGED loopVars => pos' \in -1..4
  /\ \A a \in Asyncs : AsyncRuns(a) => pos' \in -1..4
  /\ \A S : SocketRuns(S) => pos' \in -1..4
  /\ \A x : TimerRuns(x) => pos' \in -1..4
  BY RankType DEF AsyncRuns, SocketRuns, TimerRuns, LoopOK, loopVars

\* pc_client_connect keeps the types when it reads the state ...
LEMMA ConnectCallType ==
  ASSUME TypeInv, NEW t \in Threads, ConnectCall(t)
  PROVE  TypeInv'
  <1> USE DEF TypeInv, ConnectCall
  <1>1. ClientOK' /\ ConnOK' /\ QueueOK'
    BY SameClient, SameConn, SameQueues
  <1>2. AppOK'
    BY GotoType DEF Calls
  <1>3. LoopOK'
    BY SameLoop, RunsType DEF loopVars
  <1> QED BY <1>1, <1>2, <1>3

\* ... when it sets the state and wakes the worker ...
LEMMA ConnectStartType ==
  ASSUME TypeInv, NEW t \in Threads, ConnectStart(t)
  PROVE  TypeInv'
  <1> USE DEF TypeInv, ConnectStart
  <1>1. ConnOK' /\ QueueOK'
    BY SameConn, SameQueues
  <1>2. ClientOK'
    BY DEF ClientOK, ClientStates
  <1>3. AppOK'
    BY GotoType DEF Calls
  <1>4. LoopOK'
    BY WakeType, RunsType DEF Asyncs, LoopOK, loopVars, serverVars
  <1> QED BY <1>1, <1>2, <1>3, <1>4

\* ... and when it undoes that.
LEMMA ConnectUndoType ==
  ASSUME TypeInv, NEW t \in Threads, ConnectUndo(t)
  PROVE  TypeInv'
  <1> USE DEF TypeInv, ConnectUndo
  <1>1. ConnOK' /\ QueueOK'
    BY SameConn, SameQueues
  <1>2. ClientOK'
    BY DEF ClientOK, ClientStates
  <1>3. AppOK'
    BY GotoType DEF Calls
  <1>4. LoopOK'
    BY SameLoop, RunsType DEF loopVars
  <1> QED BY <1>1, <1>2, <1>3, <1>4

\* pc_client_disconnect keeps the types when it reads the state ...
LEMMA DisconnectCallType ==
  ASSUME TypeInv, NEW t \in Threads, DisconnectCall(t)
  PROVE  TypeInv'
  <1> USE DEF TypeInv, DisconnectCall
  <1>1. ClientOK' /\ ConnOK' /\ QueueOK'
    BY SameClient, SameConn, SameQueues
  <1>2. AppOK'
    BY GotoType DEF Calls
  <1>3. LoopOK'
    BY SameLoop, RunsType DEF loopVars
  <1> QED BY <1>1, <1>2, <1>3

\* ... and when it sets it.
LEMMA DisconnectStartType ==
  ASSUME TypeInv, NEW t \in Threads, DisconnectStart(t)
  PROVE  TypeInv'
  <1> USE DEF TypeInv, DisconnectStart
  <1>1. ConnOK' /\ QueueOK'
    BY SameConn, SameQueues
  <1>2. ClientOK'
    BY DEF ClientOK, ClientStates
  <1>3. AppOK'
    BY GotoType DEF Calls
  <1>4. LoopOK'
    BY WakeType, RunsType DEF Asyncs, LoopOK, loopVars, serverVars
  <1> QED BY <1>1, <1>2, <1>3, <1>4

\* pc_request and pc_notify keep the types in their own part ...
LEMMA SendCallType ==
  ASSUME TypeInv, NEW t \in Threads, NEW r \in Reqs, SendCall(t, r)
  PROVE  TypeInv'
  <1> USE DEF TypeInv, SendCall
  <1>1. ConnOK' /\ QueueOK'
    BY SameConn, SameQueues
  <1>2. ClientOK'
    BY DEF ClientOK
  <1>3. AppOK'
    BY GotoType DEF Calls
  <1>4. LoopOK'
    BY SameLoop, RunsType DEF loopVars
  <1> QED BY <1>1, <1>2, <1>3, <1>4

\* ... in the unlocked part of tr_uv_tcp_send, which has a request ...
LEMMA SendCheckType ==
  ASSUME TypeInv, NEW t \in Threads, SendCheck(t)
  PROVE  TypeInv'
  <1> USE DEF TypeInv, SendCheck
  <1>1. ConnOK' /\ QueueOK'
    BY SameConn, SameQueues
  <1>2. ClientOK'
    BY DEF ClientOK
  <1>3. AppOK'
    BY GotoType DEF Calls, AppOK
  <1>4. LoopOK'
    BY SameLoop, RunsType DEF loopVars
  <1> QED BY <1>1, <1>2, <1>3, <1>4

\* ... in the locked part, which queues that request ...
LEMMA SendQueueType ==
  ASSUME TypeInv, NEW t \in Threads, SendQueue(t)
  PROVE  TypeInv'
  <1> USE DEF TypeInv, SendQueue
  <1>1. ClientOK' /\ ConnOK'
    BY SameClient, SameConn
  <1>2. AppOK'
    BY GotoType DEF Calls
  <1>3. QueueOK'
    BY DEF QueueOK, AppOK
  <1>4. LoopOK'
    BY SameLoop, RunsType DEF loopVars
  <1> QED BY <1>1, <1>2, <1>3, <1>4

\* ... and when the worker is woken.
LEMMA SendWakeType ==
  ASSUME TypeInv, NEW t \in Threads, SendWake(t)
  PROVE  TypeInv'
  <1> USE DEF TypeInv, SendWake
  <1>1. ClientOK' /\ ConnOK' /\ QueueOK'
    BY SameClient, SameConn, SameQueues
  <1>2. AppOK'
    BY GotoType DEF Calls
  <1>3. LoopOK'
    BY WakeType, RunsType DEF Asyncs, LoopOK, loopVars, serverVars
  <1> QED BY <1>1, <1>2, <1>3

\* pc_client_poll keeps the types as it delivers an event ...
LEMMA PollEventType ==
  ASSUME TypeInv, NEW t \in Threads, PollEvent(t)
  PROVE  TypeInv'
  <1> USE DEF TypeInv, PollEvent
  <1>1. ConnOK' /\ QueueOK'
    BY SameConn, SameQueues
  <1>2. ClientOK'
    <2>1. Head(pending_ev) \in PendingEvents
      BY HeadTailProperties DEF ClientOK
    <2>2. Tail(pending_ev) \in Seq(PendingEvents)
      BY HeadTailProperties DEF ClientOK
    <2>3. Head(pending_ev).net \in NetEvents \cup {None}
      BY <2>1 DEF PendingEvents
    <2>4. state' \in ClientStates /\ fault' \in Faults \cup {None}
      BY <2>3, FireType
    <2> QED BY <2>2, <2>4, CompleteType DEF ClientOK
  <1>3. AppOK'
    BY DEF AppOK
  <1>4. LoopOK'
    BY SameLoop, RunsType DEF loopVars
  <1> QED BY <1>1, <1>2, <1>3, <1>4

\* ... and as it ends.
LEMMA PollEndType ==
  ASSUME TypeInv, NEW t \in Threads, PollEnd(t)
  PROVE  TypeInv'
  <1> USE DEF TypeInv, PollEnd
  <1>1. ClientOK' /\ ConnOK' /\ QueueOK'
    BY SameClient, SameConn, SameQueues
  <1>2. AppOK'
    BY DEF AppOK
  <1>3. LoopOK'
    BY SameLoop, RunsType DEF loopVars
  <1> QED BY <1>1, <1>2, <1>3

\* pc_client_cleanup keeps the types up to the join ...
LEMMA CleanupCallType ==
  ASSUME TypeInv, NEW t \in Threads, CleanupCall(t)
  PROVE  TypeInv'
  <1> USE DEF TypeInv, CleanupCall
  <1>1. ClientOK' /\ ConnOK' /\ QueueOK'
    BY SameClient, SameConn, SameQueues
  <1>2. AppOK'
    BY GotoType DEF Calls
  <1>3. LoopOK'
    BY WakeType, RunsType DEF Asyncs, LoopOK, loopVars, serverVars
  <1> QED BY <1>1, <1>2, <1>3

\* ... and after it.
LEMMA CleanupFinishType ==
  ASSUME TypeInv, NEW t \in Threads, CleanupFinish(t)
  PROVE  TypeInv'
  <1> USE DEF TypeInv, CleanupFinish
  <1>1. ConnOK' /\ QueueOK'
    BY SameConn, SameQueues
  <1>2. ClientOK'
    BY DEF ClientOK, ClientStates, Faults
  <1>3. AppOK'
    BY GotoType DEF Calls, AppOK
  <1>4. LoopOK'
    BY SameLoop, RunsType DEF loopVars
  <1> QED BY <1>1, <1>2, <1>3, <1>4

\* The passing of a timeout keeps the types.
LEMMA ExpireType ==
  ASSUME TypeInv, NEW r \in Reqs, Expire(r)
  PROVE  TypeInv'
  <1> USE DEF TypeInv, Expire
  <1>1. ClientOK' /\ ConnOK' /\ QueueOK'
    BY SameClient, SameConn, SameQueues
  <1>2. AppOK'
    BY DEF AppOK, appVars, Held
  <1>3. LoopOK'
    BY SameLoop, RunsType DEF loopVars
  <1> QED BY <1>1, <1>2, <1>3

\* tcp__reset after an event keeps the types.
LEMMA ResetTailType ==
  ASSUME TypeInv, ResetTail
  PROVE  TypeInv'
  <1> USE DEF TypeInv, ResetTail
  <1>1. AppOK'
    BY SameApp
  <1>2. ClientOK'
    BY TellType, CrashType DEF Faults
  <1>3. ConnOK'
    BY ResetType DEF ConnOK, connVars, TransportStates
  <1>4. QueueOK'
    BY ResetType, SameQueues
  <1>5. LoopOK'
    BY RunsType DEF LoopOK, loopVars, serverVars, Tails
  <1> QED BY <1>1, <1>2, <1>3, <1>4, <1>5

\* Going on with a null document keeps the types.
LEMMA NullTailType ==
  ASSUME TypeInv, NullTail
  PROVE  TypeInv'
  <1> USE DEF TypeInv, NullTail
  <1>1. AppOK' /\ ConnOK' /\ QueueOK'
    BY SameApp, SameConn, SameQueues
  <1>2. ClientOK'
    BY CrashType DEF Faults
  <1>3. LoopOK'
    BY SameLoop, RunsType DEF loopVars
  <1> QED BY <1>1, <1>2, <1>3

\* tcp__reconn keeps the types after its reset ...
LEMMA DelayTailType ==
  ASSUME TypeInv, DelayTail
  PROVE  TypeInv'
  <1> USE DEF TypeInv, DelayTail
  <1>1. AppOK' /\ QueueOK'
    BY SameApp, SameQueues
  <1>2. ClientOK'
    BY TellType, CrashType DEF Faults, NetEvents
  <1>3. ConnOK'
    BY DEF ConnOK, TransportStates
  <1>4. LoopOK'
    BY RunsType DEF LoopOK, loopVars, serverVars, Tails, Timers
  <1> QED BY <1>1, <1>2, <1>3, <1>4

\* ... and after its CONNECT_FAILED.
LEMMA GiveUpTailType ==
  ASSUME TypeInv, GiveUpTail
  PROVE  TypeInv'
  <1> USE DEF TypeInv, GiveUpTail
  <1>1. ClientOK' /\ AppOK' /\ QueueOK'
    BY SameClient, SameApp, SameQueues
  <1>2. ConnOK'
    BY DEF ConnOK, TransportStates
  <1>3. LoopOK'
    BY RunsType DEF LoopOK, loopVars, serverVars, Tails
  <1> QED BY <1>1, <1>2, <1>3

\* tcp__conn_async_cb keeps the types.
LEMMA ConnAsyncType ==
  ASSUME TypeInv, ConnAsync
  PROVE  TypeInv'
  <1> USE DEF TypeInv, ConnAsync
  <1>1. AppOK' /\ QueueOK'
    BY SameApp, SameQueues
  <1>2. ClientOK'
    BY TellType, CrashType, SameClient DEF Faults, NetEvents
  <1>3. ConnOK'
    BY DEF ConnOK, connVars, TransportStates, SocketStates
  <1>4. LoopOK'
    BY RunsType DEF LoopOK, loopVars, serverVars, Tails, Timers, Asyncs
  <1> QED BY <1>1, <1>2, <1>3, <1>4

\* tcp__write_async_cb keeps the types.
LEMMA WriteAsyncType ==
  ASSUME TypeInv, WriteAsync
  PROVE  TypeInv'
  <1> USE DEF TypeInv, WriteAsync
  <1>1. AppOK' /\ ConnOK'
    BY SameApp, SameConn
  <1>2. ClientOK'
    BY TellType, SameClient
  <1>3. QueueOK'
    BY DEF QueueOK, queueVars
  <1>4. LoopOK'
    BY RunsType
       DEF LoopOK, serverVars, Timers, Asyncs, ServerAfter, Internal, Reqs
  <1> QED BY <1>1, <1>2, <1>3, <1>4

\* tcp__disconnect_async_cb keeps the types.
LEMMA DisconnectAsyncType ==
  ASSUME TypeInv, DisconnectAsync
  PROVE  TypeInv'
  <1> USE DEF TypeInv, DisconnectAsync
  <1>1. AppOK'
    BY SameApp
  <1>2. ClientOK'
    BY TellType, CrashType DEF Faults, NetEvents
  <1>3. ConnOK'
    BY ResetType DEF ConnOK, connVars, TransportStates
  <1>4. QueueOK'
    BY ResetType, SameQueues
  <1>5. LoopOK'
    BY RunsType DEF LoopOK, serverVars, Asyncs
  <1> QED BY <1>1, <1>2, <1>3, <1>4, <1>5

\* tcp__cleanup_async_cb keeps the types.
LEMMA CleanupAsyncType ==
  ASSUME TypeInv, CleanupAsync
  PROVE  TypeInv'
  <1> USE DEF TypeInv, CleanupAsync
  <1>1. AppOK'
    BY SameApp
  <1>2. ClientOK'
    BY TellType, CrashType DEF Faults
  <1>3. ConnOK'
    BY ResetType DEF ConnOK, connVars, TransportStates
  <1>4. QueueOK'
    BY ResetType, SameQueues
  <1>5. LoopOK'
    BY RunsType DEF LoopOK, serverVars, Asyncs
  <1> QED BY <1>1, <1>2, <1>3, <1>4, <1>5

\* tcp__conn_done_cb keeps the types on success ...
LEMMA ConnDoneType ==
  ASSUME TypeInv, ConnDone
  PROVE  TypeInv'
  <1> USE DEF TypeInv, ConnDone
  <1>1. ClientOK' /\ AppOK'
    BY SameClient, SameApp
  <1>2. ConnOK'
    BY DEF ConnOK, TransportStates, SocketStates
  <1>3. QueueOK'
    BY DEF QueueOK, Internal
  <1>4. LoopOK'
    BY WakeType, RunsType DEF LoopOK, Timers, Asyncs
  <1> QED BY <1>1, <1>2, <1>3, <1>4

\* ... and on an error.
LEMMA ConnFailedType ==
  ASSUME TypeInv, ConnFailed
  PROVE  TypeInv'
  <1> USE DEF TypeInv, ConnFailed
  <1>1. AppOK'
    BY SameApp
  <1>2. ClientOK'
    BY TellType DEF ConnRefused, NetEvents
  <1>3. ConnOK'
    BY DEF ConnRefused, ConnOK
  <1>4. QueueOK'
    BY SameQueues DEF ConnRefused
  <1>5. LoopOK'
    BY RunsType DEF ConnRefused, LoopOK, serverVars, Tails
  <1> QED BY <1>1, <1>2, <1>3, <1>4, <1>5

\* tcp__write_done_cb keeps the types.
LEMMA WriteDoneType ==
  ASSUME TypeInv, NEW ok \in BOOLEAN, WriteDone(ok)
  PROVE  TypeInv'
  <1> USE DEF TypeInv, WriteDone
  <1>1. AppOK'
    BY SameApp
  <1>2. ClientOK'
    BY TellType DEF Written, WrittenAs
  <1>3. ConnOK'
    BY DEF Written, WrittenAs, ConnOK
  <1>4. QueueOK'
    BY DEF Written, WrittenAs, Kept, QueueOK
  <1>5. LoopOK'
    BY WakeType, RunsType DEF Written, WrittenAs, LoopOK, serverVars, Asyncs
  <1> QED BY <1>1, <1>2, <1>3, <1>4, <1>5

\* The closing phase keeps the types as it cancels a connect ...
LEMMA CancelConnectType ==
  ASSUME TypeInv, CancelConnect
  PROVE  TypeInv'
  <1> USE DEF TypeInv, CancelConnect
  <1>1. ClientOK'
    BY TellType DEF ClosingPhase, ConnRefused, NetEvents
  <1>2. AppOK'
    BY SameApp DEF ClosingPhase
  <1>3. ConnOK'
    BY DEF ClosingPhase, ConnRefused, ConnOK, SocketStates
  <1>4. QueueOK'
    BY SameQueues DEF ClosingPhase, ConnRefused
  <1>5. LoopOK'
    BY RunsType DEF ClosingPhase, ConnRefused, LoopOK, serverVars, Tails
  <1> QED BY <1>1, <1>2, <1>3, <1>4, <1>5

\* ... as it cancels a write ...
LEMMA CancelWriteType ==
  ASSUME TypeInv, CancelWrite
  PROVE  TypeInv'
  <1> USE DEF TypeInv, CancelWrite
  <1>1. ClientOK'
    BY TellType DEF ClosingPhase, Written, WrittenAs
  <1>2. AppOK'
    BY SameApp DEF ClosingPhase
  <1>3. ConnOK'
    BY DEF ClosingPhase, Written, WrittenAs, ConnOK, SocketStates
  <1>4. QueueOK'
    BY DEF ClosingPhase, Written, WrittenAs, Kept, QueueOK
  <1>5. LoopOK'
    BY WakeType, RunsType
       DEF ClosingPhase, Written, WrittenAs, LoopOK, serverVars, Asyncs
  <1> QED BY <1>1, <1>2, <1>3, <1>4, <1>5

\* ... and as it closes the socket.
LEMMA CloseSocketType ==
  ASSUME TypeInv, CloseSocket
  PROVE  TypeInv'
  <1> USE DEF TypeInv, CloseSocket
  <1>1. ClientOK'
    BY SameClient DEF ClosingPhase
  <1>2. AppOK'
    BY SameApp DEF ClosingPhase
  <1>3. ConnOK'
    BY DEF ClosingPhase, ConnOK, SocketStates
  <1>4. QueueOK'
    BY SameQueues DEF ClosingPhase
  <1>5. LoopOK'
    BY SameLoop, RunsType DEF ClosingPhase
  <1> QED BY <1>1, <1>2, <1>3, <1>4, <1>5

\* A failed read keeps the types.
LEMMA ReadFailedType ==
  ASSUME TypeInv, ReadFailed
  PROVE  TypeInv'
  <1> USE DEF TypeInv, ReadFailed
  <1>1. AppOK' /\ ConnOK' /\ QueueOK'
    BY SameApp, SameConn, SameQueues
  <1>2. ClientOK'
    BY TellType DEF NetEvents
  <1>3. LoopOK'
    BY RunsType DEF LoopOK, serverVars, Tails
  <1> QED BY <1>1, <1>2, <1>3

\* tcp__on_handshake_resp keeps the types.
LEMMA OnHandshakeType ==
  ASSUME TypeInv, NEW answer \in {"plain", "heartbeat", "refused", "garbage"},
         OnHandshake(answer)
  PROVE  TypeInv'
  <1> USE DEF TypeInv, OnHandshake
  <1>1. AppOK'
    BY SameApp
  <1>2. ClientOK'
    BY TellType, CrashType DEF Faults, NetEvents
  <1>3. ConnOK'
    BY DEF ConnOK, connVars, TransportStates
  <1>4. QueueOK'
    BY DEF QueueOK, Internal
  <1>5. LoopOK'
    BY WakeType, RunsType DEF LoopOK, Timers, Asyncs, Tails
  <1> QED BY <1>1, <1>2, <1>3, <1>4, <1>5

\* tcp__on_heartbeat keeps the types.
LEMMA OnHeartbeatType ==
  ASSUME TypeInv, OnHeartbeat
  PROVE  TypeInv'
  <1> USE DEF TypeInv, OnHeartbeat
  <1>1. AppOK' /\ QueueOK'
    BY SameApp, SameQueues
  <1>2. ClientOK'
    BY SameClient, CrashType DEF Faults
  <1>3. ConnOK'
    BY DEF ConnOK
  <1>4. LoopOK'
    BY RunsType DEF LoopOK, Timers
  <1> QED BY <1>1, <1>2, <1>3, <1>4

\* The response to a request keeps the types ...
LEMMA OnResponseType ==
  ASSUME TypeInv, NEW r \in Requests, OnResponse(r)
  PROVE  TypeInv'
  <1> USE DEF TypeInv, OnResponse
  <1>1. AppOK' /\ ConnOK'
    BY SameApp, SameConn
  <1>2. ClientOK'
    BY TellType DEF Reqs
  <1>3. QueueOK'
    BY DEF QueueOK
  <1>4. LoopOK'
    BY RunsType DEF LoopOK
  <1> QED BY <1>1, <1>2, <1>3, <1>4

\* ... and so do data that cannot be decoded.
LEMMA OnBadDataType ==
  ASSUME TypeInv, OnBadData
  PROVE  TypeInv'
  <1> USE DEF TypeInv, OnBadData
  <1>1. AppOK' /\ ConnOK' /\ QueueOK'
    BY SameApp, SameConn, SameQueues
  <1>2. ClientOK'
    BY TellType DEF NetEvents
  <1>3. LoopOK'
    BY RunsType DEF LoopOK, serverVars, Tails
  <1> QED BY <1>1, <1>2, <1>3

\* tcp__on_kick_recieved keeps the types.
LEMMA OnKickType ==
  ASSUME TypeInv, OnKick
  PROVE  TypeInv'
  <1> USE DEF TypeInv, OnKick
  <1>1. AppOK' /\ ConnOK' /\ QueueOK'
    BY SameApp, SameConn, SameQueues
  <1>2. ClientOK'
    BY TellType DEF NetEvents
  <1>3. LoopOK'
    BY RunsType DEF LoopOK, serverVars, Tails
  <1> QED BY <1>1, <1>2, <1>3

\* tcp__reconn_delay_timer_cb keeps the types.
LEMMA ReconnDelayTimerType ==
  ASSUME TypeInv, ReconnDelayTimer
  PROVE  TypeInv'
  <1> USE DEF TypeInv, ReconnDelayTimer
  <1>1. ClientOK' /\ AppOK' /\ ConnOK' /\ QueueOK'
    BY SameClient, SameApp, SameConn, SameQueues
  <1>2. LoopOK'
    BY WakeType, RunsType DEF LoopOK, serverVars, Asyncs
  <1> QED BY <1>1, <1>2

\* tcp__conn_timeout_cb keeps the types.
LEMMA ConnTimeoutTimerType ==
  ASSUME TypeInv, ConnTimeoutTimer
  PROVE  TypeInv'
  <1> USE DEF TypeInv, ConnTimeoutTimer
  <1>1. AppOK' /\ QueueOK'
    BY SameApp, SameQueues
  <1>2. ClientOK'
    BY SameClient, CrashType DEF Faults
  <1>3. ConnOK'
    BY DEF ConnOK, SocketStates
  <1>4. LoopOK'
    BY RunsType DEF LoopOK, serverVars
  <1> QED BY <1>1, <1>2, <1>3, <1>4

\* tcp__handshake_timer_cb keeps the types.
LEMMA HandshakeTimerType ==
  ASSUME TypeInv, HandshakeTimer
  PROVE  TypeInv'
  <1> USE DEF TypeInv, HandshakeTimer
  <1>1. AppOK' /\ ConnOK' /\ QueueOK'
    BY SameApp, SameConn, SameQueues
  <1>2. ClientOK'
    BY TellType DEF NetEvents
  <1>3. LoopOK'
    BY RunsType DEF LoopOK, serverVars, Tails
  <1> QED BY <1>1, <1>2, <1>3

\* tcp__heartbeat_timer_cb keeps the types.
LEMMA HeartbeatTimerType ==
  ASSUME TypeInv, HeartbeatTimer
  PROVE  TypeInv'
  <1> USE DEF TypeInv, HeartbeatTimer
  <1>1. AppOK'
    BY SameApp
  <1>2. ClientOK'
    BY SameClient, CrashType DEF Faults
  <1>3. ConnOK'
    BY DEF ConnOK
  <1>4. QueueOK'
    BY DEF QueueOK, Internal
  <1>5. LoopOK'
    BY WakeType, RunsType DEF LoopOK, serverVars, Asyncs, Timers
  <1> QED BY <1>1, <1>2, <1>3, <1>4, <1>5

\* tcp__heartbeat_timeout_cb keeps the types.
LEMMA HeartbeatTimeoutType ==
  ASSUME TypeInv, HeartbeatTimeout
  PROVE  TypeInv'
  <1> USE DEF TypeInv, HeartbeatTimeout
  <1>1. AppOK' /\ ConnOK' /\ QueueOK'
    BY SameApp, SameConn, SameQueues
  <1>2. ClientOK'
    BY TellType, CrashType DEF Faults, NetEvents
  <1>3. LoopOK'
    BY RunsType DEF LoopOK, serverVars, Tails
  <1> QED BY <1>1, <1>2, <1>3

\* tcp__write_check_timeout_cb keeps the types.
LEMMA CheckTimerType ==
  ASSUME TypeInv, CheckTimer
  PROVE  TypeInv'
  <1> USE DEF TypeInv, CheckTimer
  <1>1. AppOK'
    BY SameApp
  <1>2. ClientOK'
    <2>1. (Timed \cap (conn_pending \cup write_wait \cup resp_pending)) \cap late
             \in SUBSET Reqs
      BY TransportAssumption
    <2> QED BY <2>1, TellType
  <1>3. ConnOK'
    BY SameConn
  <1>4. QueueOK'
    BY DEF QueueOK
  <1>5. LoopOK'
    BY RunsType DEF LoopOK, serverVars
  <1> QED BY <1>1, <1>2, <1>3, <1>4, <1>5

\* The initial state has the right types.
LEMMA InitType == Init => TypeInv
  <1> SUFFICES ASSUME Init PROVE TypeInv
    OBVIOUS
  <1> USE DEF Init, TypeInv
  <1>1. ClientOK
    <2>1. <<>> \in Seq(PendingEvents)
      BY EmptySeq
    <2> QED BY <2>1 DEF ClientOK, ClientStates
  <1>2. AppOK /\ ConnOK /\ QueueOK
    BY DEF AppOK, Calls, ConnOK, TransportStates, SocketStates, QueueOK
  <1>3. LoopOK
    <2>1. pos \in -1..4
      OBVIOUS
    <2> QED BY <2>1 DEF LoopOK, Tails
  <1> QED BY <1>1, <1>2, <1>3

\* Every step of the system keeps the types.
LEMMA NextType ==
  ASSUME TypeInv, [Next]_vars
  PROVE  TypeInv'
  <1>1. ASSUME NEW t \in Threads, AppStep(t) PROVE TypeInv'
    BY <1>1, ConnectCallType, ConnectStartType, ConnectUndoType,
       DisconnectCallType, DisconnectStartType, SendCallType, SendCheckType,
       SendQueueType, SendWakeType, PollEventType, PollEndType,
       CleanupCallType, CleanupFinishType DEF AppStep
  <1>2. CASE TailStep
    BY <1>2, ResetTailType, NullTailType, DelayTailType, GiveUpTailType
       DEF TailStep
  <1>3. CASE AsyncStep
    BY <1>3, ConnAsyncType, WriteAsyncType, DisconnectAsyncType,
       CleanupAsyncType DEF AsyncStep
  <1>4. CASE ClosingStep
    BY <1>4, CancelConnectType, CancelWriteType, CloseSocketType
       DEF ClosingStep
  <1>5. CASE SocketStep
    BY <1>5, ConnDoneType, ConnFailedType, WriteDoneType, ReadFailedType,
       OnHandshakeType, OnHeartbeatType, OnResponseType, OnBadDataType,
       OnKickType DEF SocketStep
  <1>6. CASE TimerStep
    BY <1>6, ReconnDelayTimerType, ConnTimeoutTimerType, HandshakeTimerType,
       HeartbeatTimerType, HeartbeatTimeoutType, CheckTimerType DEF TimerStep
  <1>7. ASSUME NEW r \in Reqs, Expire(r) PROVE TypeInv'
    BY <1>7, ExpireType
  <1>8. CASE UNCHANGED vars
    <2> USE <1>8 DEF vars, TypeInv, clientVars, appVars, queueVars, connVars,
                     loopVars, serverVars
    <2>1. ClientOK' /\ AppOK' /\ ConnOK' /\ QueueOK'
      BY SameClient, SameApp, SameConn, SameQueues
    <2>2. LoopOK'
      BY SameLoop, RunsType
    <2> QED BY <2>1, <2>2
  <1> QED
    BY <1>1, <1>2, <1>3, <1>4, <1>5, <1>6, <1>7, <1>8
       DEF Next, WorkerStep, Ended

\* What TypeInv says includes TypeOK.
LEMMA TypeInvTypes == TypeInv => TypeOK
  BY DEF TypeInv, TypeOK, PendingEvents, ClientOK, AppOK, ConnOK, QueueOK, LoopOK

\* Every state the client, its threads and its transport reach has the right
\* types: a write item is never in a queue it cannot be in, and every request
\* that tr_uv_tcp_send queues is one.
THEOREM TypeCorrect == Spec => []TypeOK
  BY InitType, NextType, TypeInvTypes, PTL DEF Spec

(***************************************************************************)
(* The assertions of the worker's callbacks                                *)
(***************************************************************************)

\* The events of the network are no assertions of the transport.
LEMMA FireAsserts ==
  ASSUME NoTimerAssert, NEW e \in NetEvents \cup {None}, Fire(e)
  PROVE  NoTimerAssert'
  BY DEF Fire, NoTimerAssert, NetEvents

\* The same of events told directly or through the queue for polling
LEMMA TellAsserts ==
  ASSUME NoTimerAssert, NEW e \in NetEvents \cup {None}, NEW done,
         Tell(done, e)
  PROVE  NoTimerAssert'
  BY FireAsserts DEF Tell, NoTimerAssert

\* A step that leaves the connection alone and makes no handshake keeps the
\* invariant.
LEMMA SameAssert ==
  ASSUME AssertInv, NoTimerAssert',
         UNCHANGED <<connVars, timers, tail, owed>>,
         "handshake" \in write_wait' => "handshake" \in write_wait
  PROVE  AssertInv'
  BY DEF AssertInv, AttemptInv, ReadingInv, HeartbeatInv, HandshakeInv, connVars

\* The application threads do not touch the connection; what they queue is
\* no handshake.
LEMMA AppAssert ==
  ASSUME TypeInv, AssertInv, NEW t \in Threads, AppStep(t)
  PROVE  AssertInv'
  <1> USE DEF AssertInv
  <1>1. CASE SendQueue(t)
    <2>1. "handshake" \in write_wait' => "handshake" \in write_wait
      BY <1>1, TransportAssumption DEF SendQueue, TypeInv, AppOK, Internal
    <2>2. UNCHANGED <<connVars, timers, tail, owed, fault>>
      BY <1>1 DEF SendQueue, serverVars
    <2> QED BY <2>1, <2>2, SameAssert DEF NoTimerAssert
  <1>2. CASE PollEvent(t)
    <2>1. Head(pending_ev).net \in NetEvents \cup {None}
      <3>1. pending_ev \in Seq(PendingEvents) /\ pending_ev # <<>>
        BY <1>2 DEF PollEvent, TypeInv, ClientOK
      <3>2. Head(pending_ev) \in PendingEvents
        BY <3>1, HeadTailProperties
      <3> QED BY <3>2 DEF PendingEvents
    <2>2. NoTimerAssert'
      BY <1>2, <2>1, FireAsserts DEF PollEvent
    <2> QED BY <1>2, <2>2, SameAssert DEF PollEvent, queueVars, serverVars
  <1>3. CASE CleanupFinish(t)
    BY <1>3, SameAssert DEF CleanupFinish, NoTimerAssert, queueVars, serverVars
  <1>4. ASSUME NEW r \in Reqs, SendCall(t, r) PROVE AssertInv'
    BY <1>4, SameAssert DEF SendCall, NoTimerAssert, queueVars, serverVars
  <1>5. CASE UNCHANGED <<connVars, queueVars, timers, tail, serverVars, fault>>
    BY <1>5, SameAssert DEF NoTimerAssert, queueVars, serverVars
  <1> QED
    BY <1>1, <1>2, <1>3, <1>4, <1>5 DEF AppStep, ConnectCall, ConnectStart,
       ConnectUndo, DisconnectCall, DisconnectStart, SendCheck, SendWake,
       PollEnd, CleanupCall

\* The ends of the callbacks keep the invariant.
LEMMA TailAssert ==
  ASSUME TypeInv, AssertInv, TailStep
  PROVE  AssertInv'
  <1> USE DEF AssertInv
  <1>1. CASE ResetTail
    <2> USE <1>1 DEF ResetTail
    <2>1. NoTimerAssert'
      BY TellAsserts DEF NetEvents, Crash, NoTimerAssert
    <2>2. AttemptInv'
      BY DEF AttemptInv, connVars, Reset
    <2>3. ReadingInv'
      BY DEF ReadingInv, connVars, Reset
    <2>4. HeartbeatInv'
      BY DEF HeartbeatInv, connVars, Reset, Stopped
    <2>5. HandshakeInv'
      BY DEF HandshakeInv, connVars, queueVars, serverVars, Reset
    <2> QED BY <2>1, <2>2, <2>3, <2>4, <2>5
  <1>2. CASE NullTail
    <2> USE <1>2 DEF NullTail
    <2>1. NoTimerAssert'
      BY TellAsserts DEF Crash, NoTimerAssert
    <2>2. AttemptInv'
      BY DEF AttemptInv, connVars
    <2>3. ReadingInv'
      BY DEF ReadingInv, connVars
    <2>4. HeartbeatInv'
      BY DEF HeartbeatInv, connVars
    <2>5. HandshakeInv'
      BY DEF HandshakeInv, connVars, queueVars, serverVars
    <2> QED BY <2>1, <2>2, <2>3, <2>4, <2>5
  <1>3. CASE DelayTail
    <2> USE <1>3 DEF DelayTail
    <2>1. NoTimerAssert'
      BY TellAsserts DEF NetEvents, Crash, NoTimerAssert
    <2>2. AttemptInv'
      BY DEF AttemptInv
    <2>3. ReadingInv'
      BY DEF ReadingInv
    <2>4. HeartbeatInv'
      BY DEF ReadingInv, HeartbeatInv
    <2>5. HandshakeInv'
      BY DEF ReadingInv, HandshakeInv, queueVars
    <2> QED BY <2>1, <2>2, <2>3, <2>4, <2>5
  <1>4. CASE GiveUpTail
    <2> USE <1>4 DEF GiveUpTail
    <2>1. NoTimerAssert'
      BY TellAsserts DEF NoTimerAssert
    <2>2. AttemptInv'
      BY DEF AttemptInv
    <2>3. ReadingInv'
      BY DEF ReadingInv
    <2>4. HeartbeatInv'
      BY DEF ReadingInv, HeartbeatInv
    <2>5. HandshakeInv'
      BY DEF ReadingInv, HandshakeInv, queueVars
    <2> QED BY <2>1, <2>2, <2>3, <2>4, <2>5
  <1> QED
    BY <1>1, <1>2, <1>3, <1>4 DEF TailStep

\* The callbacks of the async handles keep the invariant.
LEMMA AsyncAssert ==
  ASSUME TypeInv, AssertInv, AsyncStep
  PROVE  AssertInv'
  <1> USE DEF AssertInv
  <1>1. CASE ConnAsync
    <2> USE <1>1 DEF ConnAsync
    <2>1. NoTimerAssert'
      BY TellAsserts DEF NetEvents, Crash, NoTimerAssert
    <2>2. AttemptInv'
      BY DEF AttemptInv, connVars
    <2>3. ReadingInv'
      BY DEF ReadingInv, AsyncRuns, Idle, connVars
    <2>4. HeartbeatInv'
      BY DEF ReadingInv, HeartbeatInv, connVars
    <2>5. HandshakeInv'
      BY DEF ReadingInv, HandshakeInv, connVars, queueVars, serverVars
    <2> QED BY <2>1, <2>2, <2>3, <2>4, <2>5
  <1>2. CASE WriteAsync
    <2> USE <1>2 DEF WriteAsync
    <2>1. NoTimerAssert'
      BY TellAsserts DEF NoTimerAssert
    <2>2. AttemptInv'
      BY DEF AttemptInv, connVars
    <2>3. ReadingInv'
      BY DEF ReadingInv, connVars
    <2>4. HeartbeatInv'
      BY DEF HeartbeatInv, connVars
    <2>5. HandshakeInv'
      <3>1. "handshake" \notin conn_pending
        BY TransportAssumption DEF TypeInv, QueueOK, Internal
      <3>2. "handshake" \in owed' => "handshake" \in owed \cup write_wait
        BY <3>1 DEF serverVars
      <3>3. "handshake" \in write_wait' =>
              "handshake" \in write_wait /\ UNCHANGED owed
        BY DEF queueVars, serverVars
      <3> QED BY <3>2, <3>3 DEF HandshakeInv, connVars
    <2> QED BY <2>1, <2>2, <2>3, <2>4, <2>5
  <1>3. CASE DisconnectAsync
    <2> USE <1>3 DEF DisconnectAsync
    <2>1. NoTimerAssert'
      BY TellAsserts DEF NetEvents, Crash, NoTimerAssert
    <2>2. AttemptInv'
      BY DEF AttemptInv, connVars, Reset
    <2>3. ReadingInv'
      BY DEF ReadingInv, AsyncRuns, Idle, connVars, Reset
    <2>4. HeartbeatInv'
      BY DEF HeartbeatInv, connVars, Reset, Stopped
    <2>5. HandshakeInv'
      BY DEF HandshakeInv, connVars, queueVars, serverVars, Reset
    <2> QED BY <2>1, <2>2, <2>3, <2>4, <2>5
  <1>4. CASE CleanupAsync
    <2> USE <1>4 DEF CleanupAsync
    <2>1. NoTimerAssert'
      BY TellAsserts DEF Crash, NoTimerAssert
    <2>2. AttemptInv'
      BY DEF AttemptInv, connVars, Reset
    <2>3. ReadingInv'
      BY DEF ReadingInv, AsyncRuns, Idle, connVars, Reset
    <2>4. HeartbeatInv'
      BY DEF HeartbeatInv, connVars, Reset
    <2>5. HandshakeInv'
      BY DEF HandshakeInv, connVars, queueVars, serverVars, Reset
    <2> QED BY <2>1, <2>2, <2>3, <2>4, <2>5
  <1> QED
    BY <1>1, <1>2, <1>3, <1>4 DEF AsyncStep

\* The closing phase keeps the invariant.
LEMMA ClosingAssert ==
  ASSUME TypeInv, AssertInv, ClosingStep
  PROVE  AssertInv'
  <1> USE DEF AssertInv
  <1>1. CASE CancelConnect
    <2> USE <1>1 DEF CancelConnect
    <2>1. NoTimerAssert'
      BY TellAsserts DEF NetEvents, ConnRefused
    <2>2. AttemptInv'
      BY DEF AttemptInv, ConnRefused
    <2>3. ReadingInv'
      BY DEF ReadingInv, ClosingPhase, SocketRuns, ConnRefused
    <2>4. HeartbeatInv'
      BY DEF HeartbeatInv, ConnRefused
    <2>5. HandshakeInv'
      BY DEF HandshakeInv, ClosingPhase, ConnRefused, queueVars, serverVars
    <2> QED BY <2>1, <2>2, <2>3, <2>4, <2>5
  <1>2. CASE CancelWrite
    <2> USE <1>2 DEF CancelWrite
    <2>1. NoTimerAssert'
      BY TellAsserts DEF Written, WrittenAs
    <2>2. AttemptInv'
      BY DEF AttemptInv, Written, WrittenAs
    <2>3. ReadingInv'
      BY DEF ReadingInv, ClosingPhase, SocketRuns, Written, WrittenAs
    <2>4. HeartbeatInv'
      BY DEF HeartbeatInv, Written, WrittenAs
    <2>5. HandshakeInv'
      BY DEF HandshakeInv, ClosingPhase, Written, WrittenAs, serverVars
    <2> QED BY <2>1, <2>2, <2>3, <2>4, <2>5
  <1>3. CASE CloseSocket
    <2> USE <1>3 DEF CloseSocket
    <2>1. NoTimerAssert'
      BY TellAsserts DEF NoTimerAssert
    <2>2. AttemptInv'
      BY DEF AttemptInv
    <2>3. ReadingInv'
      BY DEF ReadingInv, ClosingPhase, SocketRuns
    <2>4. HeartbeatInv'
      BY DEF HeartbeatInv
    <2>5. HandshakeInv'
      BY DEF HandshakeInv, ClosingPhase, queueVars, serverVars
    <2> QED BY <2>1, <2>2, <2>3, <2>4, <2>5
  <1> QED
    BY <1>1, <1>2, <1>3 DEF ClosingStep

\* The callbacks of the socket keep the invariant.
LEMMA SocketAssert ==
  ASSUME TypeInv, AssertInv, SocketStep
  PROVE  AssertInv'
  <1> USE DEF AssertInv
  <1>1. CASE ConnDone
    <2> USE <1>1 DEF ConnDone
    <2>1. NoTimerAssert'
      BY TellAsserts DEF NoTimerAssert
    <2>2. AttemptInv'
      BY DEF AttemptInv
    <2>3. ReadingInv'
      BY DEF ReadingInv, SocketRuns, Idle
    <2>4. HeartbeatInv'
      BY DEF ReadingInv, HeartbeatInv, SocketRuns
    <2>5. HandshakeInv'
      BY DEF HandshakeInv
    <2> QED BY <2>1, <2>2, <2>3, <2>4, <2>5
  <1>2. CASE ConnFailed
    <2> USE <1>2 DEF ConnFailed
    <2>1. NoTimerAssert'
      BY TellAsserts DEF NetEvents, ConnRefused
    <2>2. AttemptInv'
      BY DEF AttemptInv, ConnRefused
    <2>3. ReadingInv'
      BY DEF ReadingInv, ConnRefused
    <2>4. HeartbeatInv'
      BY DEF HeartbeatInv, ConnRefused
    <2>5. HandshakeInv'
      BY DEF HandshakeInv, ConnRefused, queueVars, serverVars
    <2> QED BY <2>1, <2>2, <2>3, <2>4, <2>5
  <1>3. ASSUME NEW ok \in BOOLEAN, WriteDone(ok) PROVE AssertInv'
    <2> USE <1>3 DEF WriteDone
    <2>1. NoTimerAssert'
      BY TellAsserts DEF Written, WrittenAs
    <2>2. AttemptInv'
      BY DEF AttemptInv, Written, WrittenAs
    <2>3. ReadingInv'
      BY DEF ReadingInv, Written, WrittenAs
    <2>4. HeartbeatInv'
      BY DEF HeartbeatInv, Written, WrittenAs
    <2>5. HandshakeInv'
      BY DEF HandshakeInv, Written, WrittenAs, serverVars
    <2> QED BY <2>1, <2>2, <2>3, <2>4, <2>5
  <1>4. CASE ReadFailed
    <2> USE <1>4 DEF ReadFailed
    <2>1. NoTimerAssert'
      BY TellAsserts DEF NetEvents
    <2>2. AttemptInv'
      BY DEF AttemptInv, connVars
    <2>3. ReadingInv'
      BY DEF ReadingInv, connVars
    <2>4. HeartbeatInv'
      BY DEF HeartbeatInv, connVars
    <2>5. HandshakeInv'
      BY DEF HandshakeInv, connVars, queueVars, serverVars
    <2> QED BY <2>1, <2>2, <2>3, <2>4, <2>5
  <1>5. ASSUME NEW a \in {"plain", "heartbeat", "refused", "garbage"}, OnHandshake(a)
       PROVE  AssertInv'
    <2> USE <1>5 DEF OnHandshake
    <2>1. NoTimerAssert'
      BY TellAsserts DEF NetEvents, HandshakeInv, SocketRuns
    <2>2. AttemptInv'
      BY DEF AttemptInv, connVars
    <2>3. ReadingInv'
      BY DEF ReadingInv, connVars
    <2>4. HeartbeatInv'
      BY DEF HeartbeatInv, connVars
    <2>5. HandshakeInv'
      BY DEF HandshakeInv
    <2> QED BY <2>1, <2>2, <2>3, <2>4, <2>5
  <1>6. CASE OnHeartbeat
    <2> USE <1>6 DEF OnHeartbeat
    <2>1. NoTimerAssert'
      BY TellAsserts DEF NoTimerAssert, HeartbeatInv, SocketRuns, Idle
    <2>2. AttemptInv'
      BY DEF AttemptInv
    <2>3. ReadingInv'
      BY DEF ReadingInv
    <2>4. HeartbeatInv'
      BY DEF HeartbeatInv
    <2>5. HandshakeInv'
      BY DEF HandshakeInv, queueVars
    <2> QED BY <2>1, <2>2, <2>3, <2>4, <2>5
  <1>7. ASSUME NEW r \in Requests, OnResponse(r) PROVE AssertInv'
    <2> USE <1>7 DEF OnResponse
    <2>1. NoTimerAssert'
      BY TellAsserts 
    <2>2. AttemptInv'
      BY DEF AttemptInv, connVars
    <2>3. ReadingInv'
      BY DEF ReadingInv, connVars
    <2>4. HeartbeatInv'
      BY DEF HeartbeatInv, connVars
    <2>5. HandshakeInv'
      BY DEF HandshakeInv, connVars
    <2> QED BY <2>1, <2>2, <2>3, <2>4, <2>5
  <1>8. CASE OnBadData
    <2> USE <1>8 DEF OnBadData
    <2>1. NoTimerAssert'
      BY TellAsserts DEF NetEvents
    <2>2. AttemptInv'
      BY DEF AttemptInv, connVars
    <2>3. ReadingInv'
      BY DEF ReadingInv, connVars
    <2>4. HeartbeatInv'
      BY DEF HeartbeatInv, connVars
    <2>5. HandshakeInv'
      BY DEF HandshakeInv, connVars, queueVars, serverVars
    <2> QED BY <2>1, <2>2, <2>3, <2>4, <2>5
  <1>9. CASE OnKick
    <2> USE <1>9 DEF OnKick
    <2>1. NoTimerAssert'
      BY TellAsserts DEF NetEvents
    <2>2. AttemptInv'
      BY DEF AttemptInv, connVars
    <2>3. ReadingInv'
      BY DEF ReadingInv, connVars
    <2>4. HeartbeatInv'
      BY DEF HeartbeatInv, SocketRuns, Idle, connVars
    <2>5. HandshakeInv'
      BY DEF HandshakeInv, connVars, queueVars, serverVars
    <2> QED BY <2>1, <2>2, <2>3, <2>4, <2>5
  <1> QED
    BY <1>1, <1>2, <1>3, <1>4, <1>5, <1>6, <1>7, <1>8, <1>9 DEF SocketStep

\* The callbacks of the timers keep the invariant.
LEMMA TimerAssert ==
  ASSUME TypeInv, AssertInv, TimerStep
  PROVE  AssertInv'
  <1> USE DEF AssertInv
  <1>1. CASE ReconnDelayTimer
    <2> USE <1>1 DEF ReconnDelayTimer
    <2>1. NoTimerAssert'
      BY TellAsserts DEF NoTimerAssert
    <2>2. AttemptInv'
      BY DEF AttemptInv, connVars
    <2>3. ReadingInv'
      BY DEF ReadingInv, connVars
    <2>4. HeartbeatInv'
      BY DEF HeartbeatInv, connVars
    <2>5. HandshakeInv'
      BY DEF HandshakeInv, connVars, queueVars, serverVars
    <2> QED BY <2>1, <2>2, <2>3, <2>4, <2>5
  <1>2. CASE ConnTimeoutTimer
    <2> USE <1>2 DEF ConnTimeoutTimer
    <2>1. NoTimerAssert'
      BY TellAsserts DEF NoTimerAssert, AttemptInv, TimerRuns
    <2>2. AttemptInv'
      BY DEF AttemptInv
    <2>3. ReadingInv'
      BY DEF AttemptInv, ReadingInv
    <2>4. HeartbeatInv'
      BY DEF HeartbeatInv
    <2>5. HandshakeInv'
      BY DEF HandshakeInv, queueVars, serverVars
    <2> QED BY <2>1, <2>2, <2>3, <2>4, <2>5
  <1>3. CASE HandshakeTimer
    <2> USE <1>3 DEF HandshakeTimer
    <2>1. NoTimerAssert'
      BY TellAsserts DEF NetEvents
    <2>2. AttemptInv'
      BY DEF AttemptInv, connVars
    <2>3. ReadingInv'
      BY DEF ReadingInv, connVars
    <2>4. HeartbeatInv'
      BY DEF HeartbeatInv, connVars
    <2>5. HandshakeInv'
      BY DEF HandshakeInv, connVars, queueVars, serverVars
    <2> QED BY <2>1, <2>2, <2>3, <2>4, <2>5
  <1>4. CASE HeartbeatTimer
    <2> USE <1>4 DEF HeartbeatTimer
    <2>1. NoTimerAssert'
      BY TellAsserts DEF NoTimerAssert, HeartbeatInv, TimerRuns
    <2>2. AttemptInv'
      BY DEF AttemptInv
    <2>3. ReadingInv'
      BY DEF ReadingInv
    <2>4. HeartbeatInv'
      BY DEF HeartbeatInv
    <2>5. HandshakeInv'
      BY DEF HandshakeInv, serverVars
    <2> QED BY <2>1, <2>2, <2>3, <2>4, <2>5
  <1>5. CASE HeartbeatTimeout
    <2> USE <1>5 DEF HeartbeatTimeout
    <2>1. NoTimerAssert'
      BY TellAsserts DEF NetEvents, HeartbeatInv, TimerRuns
    <2>2. AttemptInv'
      BY DEF AttemptInv, connVars
    <2>3. ReadingInv'
      BY DEF ReadingInv, connVars
    <2>4. HeartbeatInv'
      BY DEF HeartbeatInv, connVars
    <2>5. HandshakeInv'
      BY DEF HandshakeInv, connVars, queueVars, serverVars
    <2> QED BY <2>1, <2>2, <2>3, <2>4, <2>5
  <1>6. CASE CheckTimer
    <2> USE <1>6 DEF CheckTimer
    <2>1. NoTimerAssert'
      BY TellAsserts 
    <2>2. AttemptInv'
      BY DEF AttemptInv, connVars
    <2>3. ReadingInv'
      BY DEF ReadingInv, connVars
    <2>4. HeartbeatInv'
      BY DEF HeartbeatInv, connVars
    <2>5. HandshakeInv'
      BY DEF HandshakeInv, connVars, serverVars
    <2> QED BY <2>1, <2>2, <2>3, <2>4, <2>5
  <1> QED
    BY <1>1, <1>2, <1>3, <1>4, <1>5, <1>6 DEF TimerStep

\* Every step of the system keeps the invariant.
LEMMA NextAssert ==
  ASSUME TypeInv, AssertInv, [Next]_vars
  PROVE  AssertInv'
  <1>1. CASE \E r \in Reqs : Expire(r)
    BY <1>1, SameAssert
       DEF Expire, AssertInv, NoTimerAssert, queueVars, serverVars
  <1>2. CASE UNCHANGED vars
    BY <1>2, SameAssert
       DEF vars, AssertInv, NoTimerAssert, queueVars, serverVars
  <1> QED
    BY <1>1, <1>2, AppAssert, TailAssert, AsyncAssert, ClosingAssert,
       SocketAssert, TimerAssert DEF Next, WorkerStep, Ended

\* Before the first connection there is nothing that could go wrong.
LEMMA InitAssert == Init => AssertInv
  <1> SUFFICES ASSUME Init PROVE AssertInv
    OBVIOUS
  <1>1. NoTimerAssert
    BY TransportAssumption DEF Init, NoTimerAssert, Faults
  <1>2. AttemptInv /\ ReadingInv /\ HeartbeatInv /\ HandshakeInv
    BY DEF Init, AttemptInv, ReadingInv, HeartbeatInv, HandshakeInv
  <1> QED BY <1>1, <1>2 DEF AssertInv

\* The assertions of tcp__conn_timeout_cb, tcp__heartbeat_timer_cb,
\* tcp__heartbeat_timeout_cb, tcp__on_heartbeat and tcp__on_handshake_resp
\* hold, in every interleaving of threads, timers and packages, whatever the
\* number of threads and requests and whatever the configuration.
THEOREM AssertionsHold == Spec => []NoTimerAssert
  <1>1. Init => TypeInv /\ AssertInv
    BY InitType, InitAssert
  <1>2. TypeInv /\ AssertInv /\ [Next]_vars => (TypeInv /\ AssertInv)'
    BY NextType, NextAssert
  <1>3. AssertInv => NoTimerAssert
    BY DEF AssertInv
  <1> QED BY <1>1, <1>2, <1>3, PTL DEF Spec

(***************************************************************************)
(* The events that wait to be polled                                       *)
(***************************************************************************)

\* An event that is appended comes after the others, which keep their places.
LEMMA AppendedEvents ==
  ASSUME ClientOK, NEW ev \in PendingEvents, pending_ev' = Append(pending_ev, ev)
  PROVE  /\ \A i \in DOMAIN pending_ev :
              /\ i \in Int /\ i < Len(pending_ev) + 1
              /\ i \in DOMAIN pending_ev' /\ pending_ev'[i] = pending_ev[i]
         /\ Len(pending_ev) + 1 \in DOMAIN pending_ev'
         /\ pending_ev'[Len(pending_ev) + 1] = ev
         /\ \A i \in DOMAIN pending_ev' :
              i \in DOMAIN pending_ev \/ i = Len(pending_ev) + 1
  <1>1. /\ pending_ev' \in Seq(PendingEvents)
        /\ Len(pending_ev') = Len(pending_ev) + 1
        /\ \A i \in 1..Len(pending_ev) : pending_ev'[i] = pending_ev[i]
        /\ pending_ev'[Len(pending_ev) + 1] = ev
    BY AppendProperties DEF ClientOK
  <1>2. /\ DOMAIN pending_ev = 1..Len(pending_ev)
        /\ DOMAIN pending_ev' = 1..(Len(pending_ev) + 1)
        /\ Len(pending_ev) \in Nat
    BY <1>1, LenProperties DEF ClientOK
  <1> QED BY <1>1, <1>2

\* When the first event is taken the others move up.
LEMMA TakenEvents ==
  ASSUME ClientOK, pending_ev # <<>>, pending_ev' = Tail(pending_ev)
  PROVE  /\ \A i \in DOMAIN pending_ev :
              /\ i \in Int
              /\ \/ i = 1
                 \/ i - 1 \in DOMAIN pending_ev' /\ pending_ev'[i - 1] = pending_ev[i]
         /\ 1 \in DOMAIN pending_ev /\ pending_ev[1] = Head(pending_ev)
         /\ \A i \in DOMAIN pending_ev' :
              /\ i \in Int /\ i > 0
              /\ i + 1 \in DOMAIN pending_ev /\ pending_ev'[i] = pending_ev[i + 1]
  <1>1. /\ Tail(pending_ev) \in Seq(PendingEvents)
        /\ Len(Tail(pending_ev)) = Len(pending_ev) - 1
        /\ \A i \in 1..Len(Tail(pending_ev)) :
             Tail(pending_ev)[i] = pending_ev[i + 1]
        /\ Head(pending_ev) = pending_ev[1]
        /\ Len(pending_ev) \in Nat
        /\ Len(pending_ev) > 0
    BY HeadTailProperties, LenProperties, EmptySeq DEF ClientOK
  <1>2. /\ DOMAIN pending_ev = 1..Len(pending_ev)
        /\ DOMAIN pending_ev' = 1..(Len(pending_ev) - 1)
    BY <1>1, LenProperties DEF ClientOK
  <1>3. \A i \in 2..Len(pending_ev) : pending_ev'[i - 1] = pending_ev[i]
    BY <1>1
  <1> QED BY <1>1, <1>2, <1>3

\* The head of pending_ev_queue is an event or carries none.
LEMMA HeadEvent ==
  ASSUME ClientOK, pending_ev # <<>>
  PROVE  Head(pending_ev).net \in NetEvents \cup {None}
  <1>1. Head(pending_ev) \in PendingEvents
    BY HeadTailProperties DEF ClientOK
  <1> QED BY <1>1 DEF PendingEvents

(***************************************************************************)
(* The invariant, and what telling the client does to it                   *)
(***************************************************************************)

\* The four queues hold different items; the items the transport makes for
\* itself are never in resp_pending.
Disjoint ==
  /\ conn_pending \cap (write_wait \cup writing \cup resp_pending) = {}
  /\ write_wait \cap (writing \cup resp_pending) \cap Reqs = {}
  /\ writing \cap resp_pending = {}

\* The invariant of every step
QueueInv == OneQueue /\ SendInv /\ RequestsHeld /\ CleanupInv /\ NothingLeft

\* A step in which the client is told of the requests in done: they are over,
\* or their answer waits to be polled, and no other request is touched.
Told(done) ==
  /\ \A r \in Reqs :
       /\ status'[r] \in {"unused", "rejected"} => status[r] = status'[r]
       /\ status'[r] = "open" =>
            /\ status[r] = "open"
            /\ r \in done \/ Answered(r) => Answered(r)'
  /\ fault' = "reqQueue" => fault = "reqQueue"

\* Looking requests up touches those that are told only.
LEMMA CompleteTold ==
  ASSUME ClientOK, NEW done, status' = Complete(done)
  PROVE  \A r \in Reqs :
           /\ status'[r] \in {"unused", "rejected"} => status[r] = status'[r]
           /\ status'[r] = "open" => status[r] = "open" /\ r \notin done
  BY DEF ClientOK, Complete

\* Firing an event is not the assertion on the queues.
LEMMA FireTold ==
  ASSUME NEW e \in NetEvents \cup {None}, Fire(e), fault' = "reqQueue"
  PROVE  fault = "reqQueue"
  BY DEF Fire, NetEvents

\* An event that is appended leaves the others in pending_ev_queue.
LEMMA AppendAnswers ==
  ASSUME ClientOK, NEW ev \in PendingEvents,
         pending_ev' = Append(pending_ev, ev), NEW r
  PROVE  r \in ev.done \/ Answered(r) => Answered(r)'
  BY AppendedEvents DEF Answered

\* An event that is taken leaves the others in pending_ev_queue.
LEMMA TailAnswers ==
  ASSUME ClientOK, pending_ev # <<>>, pending_ev' = Tail(pending_ev), NEW r,
         r \notin Head(pending_ev).done, Answered(r)
  PROVE  Answered(r)'
  BY TakenEvents DEF Answered

\* pc_trans_resp and pc_trans_sent, with an event or not
LEMMA TellTold ==
  ASSUME ClientOK, NEW done \in SUBSET Reqs, NEW e \in NetEvents \cup {None},
         Tell(done, e)
  PROVE  Told(done)
  <1>1. CASE EnablePolling
    <2>1. UNCHANGED <<state, status, fault>>
      BY <1>1 DEF Tell
    <2>2. CASE done = {} /\ e = None
      BY <1>1, <2>1, <2>2 DEF Tell, Told, Answered
    <2>3. CASE ~(done = {} /\ e = None)
      <3> DEFINE ev == [net |-> e, done |-> done]
      <3>1. ev \in PendingEvents /\ ev.done = done
        BY DEF PendingEvents
      <3>2. pending_ev' = Append(pending_ev, ev)
        BY <1>1, <2>3 DEF Tell
      <3> HIDE DEF ev
      <3> QED BY <2>1, <3>1, <3>2, AppendAnswers DEF Told
    <2> QED BY <2>2, <2>3
  <1>2. CASE ~EnablePolling
    BY <1>2, CompleteTold, FireTold DEF Tell, Told, Answered
  <1> QED BY <1>1, <1>2

\* A step that tells the client nothing
LEMMA SilentTold ==
  ASSUME UNCHANGED clientVars, fault' # "reqQueue"
  PROVE  Told({})
  BY DEF Told, Answered, clientVars

\* A callback of the worker as the queues see it: done leaves them, the rest
\* stays in one of them.
QueueStep(done) ==
  /\ Running /\ UNCHANGED <<call, arg>>
  /\ Told(done)
  /\ Disjoint'
  /\ (Held \cap Reqs) \ done \subseteq Held'
  /\ Held' \cap Reqs \subseteq Held
  /\ "cleanup" \in async' => "cleanup" \in async
  /\ closed' => closed \/ ("cleanup" \in async /\ Held' \cap Reqs = {})

\* Such a callback keeps the invariant.
LEMMA QueueStepKeeps ==
  ASSUME TypeInv, QueueInv, NEW done, QueueStep(done)
  PROVE  QueueInv'
  <1> USE DEF QueueStep, QueueInv
  <1>1. OneQueue'
    BY DEF OneQueue, Disjoint, Told, InSend
  <1>2. SendInv'
    BY DEF SendInv, Told, InSend
  <1>3. RequestsHeld'
    BY DEF RequestsHeld, Told, InSend
  <1>4. CleanupInv'
    BY DEF CleanupInv, CleaningUp, Running
  <1>5. NothingLeft'
    BY DEF NothingLeft, Told
  <1> QED BY <1>1, <1>2, <1>3, <1>4, <1>5

\* A callback that leaves the queues alone.
LEMMA SameQueueStep ==
  ASSUME TypeInv, QueueInv, Running, UNCHANGED <<call, arg, queueVars, closed>>,
         Told({}), "cleanup" \in async' => "cleanup" \in async
  PROVE  QueueInv'
  BY QueueStepKeeps
     DEF QueueStep, QueueInv, OneQueue, Disjoint, Held, queueVars

(***************************************************************************)
(* The application threads                                                 *)
(***************************************************************************)

\* A step of a call that neither sends nor cleans up keeps the invariant.
LEMMA QuietCall ==
  ASSUME TypeInv, QueueInv, Running, NEW t \in Threads,
         NEW c \in Calls \ {"sendCheck", "sendQueue", "cleanup"},
         call[t] \notin {"sendCheck", "sendQueue", "cleanup"},
         call[t] = "idle" => ~CleaningUp,
         Goto(t, c, None),
         UNCHANGED <<status, pending_ev, queueVars, closed, fault>>,
         "cleanup" \in async' => "cleanup" \in async
  PROVE  QueueInv'
  <1> USE DEF QueueInv, TypeInv, AppOK, Goto
  <1>1. \A r \in Reqs : InSend(r)' <=> InSend(r)
    BY DEF InSend
  <1>2. UNCHANGED Held /\ \A r \in Reqs : Answered(r)' <=> Answered(r)
    BY DEF Held, Answered, queueVars
  <1>3. OneQueue'
    BY <1>1, <1>2 DEF OneQueue, queueVars
  <1>4. SendInv'
    BY <1>1 DEF SendInv
  <1>5. RequestsHeld'
    BY <1>1, <1>2 DEF RequestsHeld
  <1>6. CleanupInv'
    BY <1>2 DEF CleanupInv, CleaningUp, Running
  <1>7. NothingLeft'
    BY DEF NothingLeft
  <1> QED BY <1>3, <1>4, <1>5, <1>6, <1>7

\* pc_request and pc_notify begin with a request that was never used.
LEMMA SendCallQueues ==
  ASSUME TypeInv, QueueInv, NEW t \in Threads, NEW r \in Reqs, SendCall(t, r)
  PROVE  QueueInv'
  <1> USE DEF QueueInv, TypeInv, AppOK, ClientOK, SendCall, Goto
  <1>1. \A q \in Reqs : InSend(q)' <=> (q = r \/ InSend(q))
    BY DEF InSend
  <1>2. UNCHANGED Held /\ \A q \in Reqs : Answered(q)' <=> Answered(q)
    BY DEF Held, Answered, queueVars
  <1>3. OneQueue'
    BY <1>1, <1>2 DEF OneQueue, queueVars
  <1>4. SendInv'
    <2>1. ~InSend(r)
      BY DEF SendInv
    <2> QED BY <1>1, <2>1 DEF SendInv, InSend
  <1>5. RequestsHeld'
    BY <1>1, <1>2 DEF RequestsHeld
  <1>6. CleanupInv'
    BY <1>2 DEF CleanupInv, CleaningUp, Running, loopVars
  <1>7. NothingLeft'
    BY DEF NothingLeft
  <1> QED BY <1>3, <1>4, <1>5, <1>6, <1>7

\* tr_uv_tcp_send refuses the request, or goes on with it.
LEMMA SendCheckQueues ==
  ASSUME TypeInv, QueueInv, NEW t \in Threads, SendCheck(t)
  PROVE  QueueInv'
  <1> USE DEF QueueInv, TypeInv, AppOK, ClientOK, SendCheck, Goto
  <1>1. arg[t] \in Reqs /\ InSend(arg[t]) /\ arg[t] \notin Held
    BY DEF InSend, OneQueue
  <1>2. UNCHANGED Held /\ \A q \in Reqs : Answered(q)' <=> Answered(q)
    BY DEF Held, Answered, queueVars
  <1>3. \A q \in Reqs :
          InSend(q)' <=> InSend(q) /\ (q = arg[t] => call'[t] = "sendQueue")
    BY DEF InSend, SendInv
  <1>4. OneQueue'
    BY <1>1, <1>2, <1>3 DEF OneQueue, queueVars
  <1>5. SendInv'
    BY <1>1, <1>3 DEF SendInv
  <1>6. RequestsHeld'
    BY <1>1, <1>2, <1>3 DEF RequestsHeld
  <1>7. CleanupInv'
    BY <1>2 DEF CleanupInv, CleaningUp, Running, loopVars
  <1>8. NothingLeft'
    BY DEF NothingLeft
  <1> QED BY <1>4, <1>5, <1>6, <1>7, <1>8

\* The request goes from the thread into a queue; the worker cannot have
\* closed its handles, for then no thread is in tr_uv_tcp_send.
LEMMA SendQueueQueues ==
  ASSUME TypeInv, QueueInv, NEW t \in Threads, SendQueue(t)
  PROVE  QueueInv'
  <1> USE DEF QueueInv, TypeInv, AppOK, ClientOK, QueueOK, SendQueue, Goto
  <1>1. arg[t] \in Reqs /\ InSend(arg[t]) /\ arg[t] \notin Held
    BY DEF InSend, OneQueue
  <1>2. Held' = Held \cup {arg[t]}
    BY DEF Held
  <1>3. \A q \in Reqs : InSend(q)' <=> InSend(q) /\ q # arg[t]
    BY DEF InSend, SendInv
  <1>4. \A q \in Reqs : Answered(q)' <=> Answered(q)
    BY DEF Answered, clientVars
  <1>5. OneQueue'
    <2>1. Disjoint'
      BY <1>1 DEF OneQueue, Disjoint, Held
    <2> QED BY <1>1, <1>2, <1>3, <2>1 DEF OneQueue, Disjoint, SendInv, clientVars
  <1>6. SendInv'
    BY <1>1, <1>3 DEF SendInv, clientVars
  <1>7. RequestsHeld'
    BY <1>2, <1>3, <1>4 DEF RequestsHeld, clientVars
  <1>8. CleanupInv'
    <2>1. ~CleaningUp /\ ~closed /\ "cleanup" \notin async
      BY DEF CleanupInv, CleaningUp
    <2> QED BY <2>1 DEF CleanupInv, CleaningUp, loopVars
  <1>9. NothingLeft'
    BY DEF NothingLeft
  <1> QED BY <1>5, <1>6, <1>7, <1>8, <1>9

\* pc_client_poll delivers an answer.
LEMMA PollEventQueues ==
  ASSUME TypeInv, QueueInv, NEW t \in Threads, PollEvent(t)
  PROVE  QueueInv'
  <1> USE DEF QueueInv, TypeInv, PollEvent
  <1>1. Head(pending_ev).net \in NetEvents \cup {None}
    BY HeadEvent
  <1>2. Told({})
    <2>1. ClientOK
      OBVIOUS
    <2>2. fault' = "reqQueue" => fault = "reqQueue"
      BY <1>1, FireTold
    <2>3. \A r \in Reqs :
            status'[r] = "open" /\ Answered(r) => Answered(r)'
      BY <2>1, CompleteTold, TailAnswers
    <2> QED BY <2>1, <2>2, <2>3, CompleteTold DEF Told
  <1> QED BY <1>2, SameQueueStep DEF loopVars

\* pc_client_cleanup begins when no other call is in progress ...
LEMMA CleanupCallQueues ==
  ASSUME TypeInv, QueueInv, NEW t \in Threads, CleanupCall(t)
  PROVE  QueueInv'
  <1> USE DEF QueueInv, TypeInv, AppOK, CleanupCall, Goto
  <1>1. \A r \in Reqs : ~InSend(r) /\ ~InSend(r)'
    BY DEF InSend
  <1>2. UNCHANGED Held /\ \A r \in Reqs : Answered(r)' <=> Answered(r)
    BY DEF Held, Answered, queueVars, clientVars
  <1>3. OneQueue'
    BY <1>1, <1>2 DEF OneQueue, queueVars, clientVars
  <1>4. SendInv'
    BY <1>1 DEF SendInv
  <1>5. RequestsHeld'
    BY <1>1, <1>2 DEF RequestsHeld, clientVars
  <1>6. CleanupInv'
    BY <1>2 DEF CleanupInv, CleaningUp, loopVars
  <1>7. NothingLeft'
    BY DEF NothingLeft
  <1> QED BY <1>3, <1>4, <1>5, <1>6, <1>7

\* ... and when the worker is joined and all events are polled no request is
\* open: none is in a thread, in a queue or answered.
LEMMA CleanupFinishQueues ==
  ASSUME TypeInv, QueueInv, NEW t \in Threads, CleanupFinish(t)
  PROVE  QueueInv'
  <1> USE DEF QueueInv, TypeInv, AppOK, CleanupFinish, Goto
  <1>1. \A r \in Reqs : ~InSend(r)
    BY DEF InSend, CleanupInv
  <1>2. \A r \in Reqs : r \notin Held
    BY DEF LoopDone, CleanupInv
  <1>3. \A r \in Reqs : ~Answered(r)
    BY DEF Answered
  <1>4. \A r \in Reqs : status[r] # "open"
    BY <1>1, <1>2, <1>3 DEF RequestsHeld
  <1>5. state' = "NOT_INITED" /\ UNCHANGED fault /\ Goto(t, "idle", None)
    BY <1>4
  <1>6. \A r \in Reqs : ~InSend(r)'
    BY <1>1, <1>5 DEF InSend
  <1>7. UNCHANGED Held
    BY DEF Held, queueVars
  <1>8. OneQueue' /\ RequestsHeld' /\ NothingLeft'
    BY <1>4, <1>5, <1>6, <1>7
       DEF OneQueue, RequestsHeld, NothingLeft, queueVars
  <1>9. SendInv'
    BY <1>5, <1>6 DEF SendInv
  <1>10. CleanupInv'
    BY <1>5, <1>7 DEF CleanupInv, Running, loopVars
  <1> QED BY <1>8, <1>9, <1>10

\* The application threads keep the invariant.
LEMMA AppQueues ==
  ASSUME TypeInv, QueueInv, NEW t \in Threads, AppStep(t)
  PROVE  QueueInv'
  <1>1. CASE ConnectCall(t)
    BY <1>1, QuietCall DEF ConnectCall, Calls, clientVars, loopVars
  <1>2. CASE ConnectStart(t)
    BY <1>2, QuietCall DEF ConnectStart, Calls, loopVars, Wake
  <1>3. CASE ConnectUndo(t)
    BY <1>3, QuietCall DEF ConnectUndo, Calls, loopVars
  <1>4. CASE DisconnectCall(t)
    BY <1>4, QuietCall DEF DisconnectCall, Calls, clientVars, loopVars
  <1>5. CASE DisconnectStart(t)
    BY <1>5, QuietCall DEF DisconnectStart, Calls, loopVars, Wake
  <1>6. CASE SendWake(t)
    BY <1>6, QuietCall DEF SendWake, Calls, clientVars, loopVars, Wake
  <1>7. CASE PollEnd(t)
    <2>1. Told({})
      BY <1>7, SilentTold DEF PollEnd, QueueInv, NothingLeft
    <2> QED BY <1>7, <2>1, SameQueueStep DEF PollEnd, loopVars
  <1> QED
    BY <1>1, <1>2, <1>3, <1>4, <1>5, <1>6, <1>7, SendCallQueues,
       SendCheckQueues, SendQueueQueues, PollEventQueues, CleanupCallQueues,
       CleanupFinishQueues DEF AppStep

(***************************************************************************)
(* The worker                                                              *)
(***************************************************************************)

\* A callback that may fire an event and leaves the queues alone
LEMMA EventQueues ==
  ASSUME TypeInv, QueueInv, Running, NEW e \in NetEvents \cup {None},
         Tell({}, e), UNCHANGED <<appVars, queueVars, closed>>,
         "cleanup" \in async' => "cleanup" \in async
  PROVE  QueueInv'
  <1>1. Told({})
    BY TellTold DEF TypeInv
  <1> QED BY <1>1, SameQueueStep DEF appVars

\* A callback that tells the client nothing and leaves the queues alone
LEMMA SilentQueues ==
  ASSUME TypeInv, QueueInv, Running, UNCHANGED clientVars, fault' # "reqQueue",
         UNCHANGED <<appVars, queueVars, closed>>,
         "cleanup" \in async' => "cleanup" \in async
  PROVE  QueueInv'
  BY SilentTold, SameQueueStep DEF appVars

\* tcp__reset answers what the queues hold.
LEMMA ResetQueues ==
  ASSUME TypeInv, QueueInv, Running, NEW e \in NetEvents \cup {None},
         Reset, Tell(Held \cap Reqs, e), UNCHANGED appVars,
         "cleanup" \in async' => "cleanup" \in async,
         closed' => closed \/ "cleanup" \in async
  PROVE  QueueInv'
  <1>1. Told(Held \cap Reqs)
    BY TellTold DEF TypeInv
  <1>2. Held' = {} /\ Disjoint'
    BY DEF Reset, Held, Disjoint
  <1>3. QueueStep(Held \cap Reqs)
    BY <1>1, <1>2 DEF QueueStep, appVars
  <1> QED BY <1>3, QueueStepKeeps

\* tcp__write_done_cb: requests that were sent go on to resp_pending_queue,
\* the rest is answered.
LEMMA WrittenQueues ==
  ASSUME TypeInv, QueueInv, Running, NEW ok \in BOOLEAN, Written(ok),
         UNCHANGED <<appVars, closed>>
  PROVE  QueueInv'
  <1> DEFINE done == (writing \ Kept(ok)) \cap Reqs
  <1>1. Told(done)
    BY TellTold DEF TypeInv, Written, WrittenAs
  <1>2. /\ conn_pending' = conn_pending /\ write_wait' = write_wait
        /\ writing' = {} /\ resp_pending' = resp_pending \cup Kept(ok)
        /\ Kept(ok) \subseteq writing \cap Requests
    BY DEF Written, WrittenAs, Kept
  <1>3. Disjoint'
    BY <1>2 DEF QueueInv, OneQueue, Disjoint, Reqs
  <1>4. /\ (Held \cap Reqs) \ done \subseteq Held'
        /\ Held' \subseteq Held
    BY <1>2 DEF Held
  <1>5. "cleanup" \in async' => "cleanup" \in async
    BY DEF Written, WrittenAs, Wake
  <1>6. QueueStep(done)
    BY <1>1, <1>3, <1>4, <1>5 DEF QueueStep, appVars
  <1> HIDE DEF done
  <1> QED BY <1>6, QueueStepKeeps

\* The ends of the callbacks keep the invariant.
LEMMA TailQueues ==
  ASSUME TypeInv, QueueInv, TailStep
  PROVE  QueueInv'
  <1>1. CASE ResetTail
    <2>1. CASE ResetCrashes
      BY <1>1, <2>1, SilentQueues DEF ResetTail, Crash, loopVars
    <2>2. CASE ~ResetCrashes
      BY <1>1, <2>2, ResetQueues DEF ResetTail, loopVars
    <2> QED BY <2>1, <2>2
  <1>2. CASE NullTail
    BY <1>2, SilentQueues DEF NullTail, Crash, loopVars
  <1>3. CASE DelayTail
    <2>1. CASE ~GivesUp /\ BaseDelay(reconn_times + 1) = 0
      BY <1>3, <2>1, SilentQueues DEF DelayTail, Crash, loopVars
    <2>2. CASE ~(~GivesUp /\ BaseDelay(reconn_times + 1) = 0)
      BY <1>3, <2>2, EventQueues DEF DelayTail, NetEvents, loopVars
    <2> QED BY <2>1, <2>2
  <1>4. CASE GiveUpTail
    BY <1>4, SilentQueues DEF GiveUpTail, loopVars, QueueInv, NothingLeft
  <1> QED BY <1>1, <1>2, <1>3, <1>4 DEF TailStep

\* tcp__write_async_cb moves items towards the socket, and answers them when
\* uv_write fails.
LEMMA WriteAsyncQueues ==
  ASSUME TypeInv, QueueInv, WriteAsync
  PROVE  QueueInv'
  <1> DEFINE moved == IF Ready THEN conn_pending ELSE {}
             batch == write_wait \cup moved
             done == (writing \cup batch) \cap Reqs
  <1>1. /\ Running /\ UNCHANGED <<appVars, closed>>
        /\ "cleanup" \in async' => "cleanup" \in async
    BY DEF WriteAsync, AsyncRuns, Idle
  <1>2. CASE UNCHANGED <<clientVars, queueVars, fault>>
    BY <1>1, <1>2, SilentQueues DEF QueueInv, NothingLeft
  <1>3. CASE /\ conn_pending' = conn_pending \ moved
             /\ write_wait' = {}
             /\ UNCHANGED resp_pending
             /\ writing' = writing \cup batch
             /\ UNCHANGED <<clientVars, fault>>
    <2>1. Told({})
      BY <1>3, SilentTold DEF QueueInv, NothingLeft
    <2>2. Disjoint'
      BY <1>3 DEF QueueInv, OneQueue, Disjoint, TypeInv, QueueOK, Reqs
    <2>3. Held' = Held
      BY <1>3 DEF Held
    <2>4. QueueStep({})
      BY <1>1, <2>1, <2>2, <2>3 DEF QueueStep, appVars
    <2> QED BY <2>4, QueueStepKeeps
  <1>4. CASE /\ conn_pending' = conn_pending \ moved
             /\ write_wait' = {}
             /\ UNCHANGED resp_pending
             /\ writing' = {}
             /\ Tell(done, None)
    <2>1. Told(done)
      BY <1>4, TellTold DEF TypeInv
    <2>2. Disjoint'
      BY <1>4 DEF QueueInv, OneQueue, Disjoint
    <2>3. (Held \cap Reqs) \ done \subseteq Held' /\ Held' \subseteq Held
      BY <1>4 DEF Held
    <2>4. QueueStep(done)
      BY <1>1, <2>1, <2>2, <2>3 DEF QueueStep, appVars
    <2> HIDE DEF done
    <2> QED BY <2>4, QueueStepKeeps
  <1> QED BY <1>2, <1>3, <1>4 DEF WriteAsync

\* The callbacks of the async handles keep the invariant.
LEMMA AsyncQueues ==
  ASSUME TypeInv, QueueInv, AsyncStep
  PROVE  QueueInv'
  <1>1. CASE ConnAsync
    <2>1. /\ Running /\ UNCHANGED <<appVars, queueVars, closed>>
          /\ "cleanup" \in async' => "cleanup" \in async
      BY <1>1 DEF ConnAsync, AsyncRuns, Idle
    <2>2. \/ UNCHANGED <<clientVars, fault>>
          \/ Crash("finishClose") \/ Crash("reinit")
          \/ Tell({}, "CONNECT_ERROR")
      BY <1>1 DEF ConnAsync
    <2>3. CASE Tell({}, "CONNECT_ERROR")
      BY <2>1, <2>3, EventQueues DEF NetEvents
    <2>4. CASE Crash("finishClose") \/ Crash("reinit")
      BY <2>1, <2>4, SilentQueues DEF Crash
    <2>5. CASE UNCHANGED <<clientVars, fault>>
      BY <2>1, <2>5, SilentQueues DEF QueueInv, NothingLeft
    <2> QED BY <2>2, <2>3, <2>4, <2>5
  <1>2. CASE DisconnectAsync
    <2>1. CASE ResetCrashes
      BY <1>2, <2>1, SilentQueues DEF DisconnectAsync, AsyncRuns, Idle, Crash
    <2>2. CASE ~ResetCrashes
      BY <1>2, <2>2, ResetQueues
         DEF DisconnectAsync, AsyncRuns, Idle, NetEvents
    <2> QED BY <2>1, <2>2
  <1>3. CASE CleanupAsync
    <2>1. CASE ResetCrashes
      BY <1>3, <2>1, SilentQueues DEF CleanupAsync, AsyncRuns, Idle, Crash
    <2>2. CASE ~ResetCrashes
      <3>1. "cleanup" \in async
        BY <1>3 DEF CleanupAsync, AsyncRuns, Next_in_scan, Candidates, Ahead
      <3> QED BY <1>3, <2>2, <3>1, ResetQueues DEF CleanupAsync, AsyncRuns, Idle
    <2> QED BY <2>1, <2>2
  <1> QED BY <1>1, <1>2, <1>3, WriteAsyncQueues DEF AsyncStep

\* The closing phase keeps the invariant.
LEMMA ClosingQueues ==
  ASSUME TypeInv, QueueInv, ClosingStep
  PROVE  QueueInv'
  <1>1. CASE CancelConnect
    BY <1>1, EventQueues DEF CancelConnect, ClosingPhase, SocketRuns, Idle,
       ConnRefused, NetEvents
  <1>2. CASE CancelWrite
    BY <1>2, WrittenQueues DEF CancelWrite, ClosingPhase, SocketRuns, Idle
  <1>3. CASE CloseSocket
    BY <1>3, SilentQueues DEF CloseSocket, ClosingPhase, SocketRuns, Idle,
       QueueInv, NothingLeft
  <1> QED BY <1>1, <1>2, <1>3 DEF ClosingStep

\* An item of the transport's own that is added to write_wait_queue
LEMMA InternalQueues ==
  ASSUME TypeInv, QueueInv, Running, NEW item \in Internal,
         write_wait' = write_wait \cup {item},
         UNCHANGED <<appVars, conn_pending, writing, resp_pending, closed>>,
         Told({}), "cleanup" \in async' => "cleanup" \in async
  PROVE  QueueInv'
  <1>1. item \notin Reqs
    BY TransportAssumption
  <1>2. Disjoint'
    BY <1>1 DEF QueueInv, OneQueue, Disjoint, TypeInv, QueueOK
  <1>3. (Held \cap Reqs) \subseteq Held' /\ Held' \cap Reqs \subseteq Held
    BY <1>1 DEF Held
  <1>4. QueueStep({})
    BY <1>2, <1>3 DEF QueueStep, appVars
  <1> QED BY <1>4, QueueStepKeeps

\* tcp__on_handshake_resp makes the handshake ack, or fails.
LEMMA OnHandshakeQueues ==
  ASSUME TypeInv, QueueInv,
         NEW a \in {"plain", "heartbeat", "refused", "garbage"}, OnHandshake(a)
  PROVE  QueueInv'
  <1>1. /\ Running
        /\ UNCHANGED <<appVars, conn_pending, writing, resp_pending, closed>>
    BY DEF OnHandshake, SocketRuns, Idle
  <1>2. CASE tstate # "HANDSHAKEING"
    BY <1>1, <1>2, SilentQueues DEF OnHandshake, Crash, queueVars
  <1>3. CASE tstate = "HANDSHAKEING" /\ a \in {"refused", "garbage"}
    BY <1>1, <1>3, EventQueues DEF OnHandshake, NetEvents, queueVars
  <1>4. CASE tstate = "HANDSHAKEING" /\ a \notin {"refused", "garbage"}
    <2>1. Tell({}, "CONNECTED")
      BY <1>4 DEF OnHandshake
    <2>2. Told({})
      BY <2>1, TellTold DEF TypeInv, NetEvents
    <2>3. /\ write_wait' = write_wait \cup {"ack"}
          /\ "cleanup" \in async' => "cleanup" \in async
      BY <1>4 DEF OnHandshake, Wake
    <2> QED BY <1>1, <2>2, <2>3, InternalQueues DEF Internal
  <1> QED BY <1>2, <1>3, <1>4

\* The callbacks of the socket keep the invariant.
LEMMA SocketQueues ==
  ASSUME TypeInv, QueueInv, SocketStep
  PROVE  QueueInv'
  <1>1. CASE ConnDone
    <2>1. Told({})
      BY <1>1, SilentTold DEF ConnDone, QueueInv, NothingLeft
    <2> QED BY <1>1, <2>1, InternalQueues
            DEF ConnDone, SocketRuns, Idle, Internal, Wake
  <1>2. CASE ConnFailed
    BY <1>2, EventQueues DEF ConnFailed, SocketRuns, Idle, ConnRefused, NetEvents
  <1>3. ASSUME NEW ok \in BOOLEAN, WriteDone(ok) PROVE QueueInv'
    BY <1>3, WrittenQueues DEF WriteDone, SocketRuns, Idle
  <1>4. CASE ReadFailed
    BY <1>4, EventQueues DEF ReadFailed, SocketRuns, Idle, NetEvents
  <1>5. CASE OnHeartbeat
    BY <1>5, SilentQueues
       DEF OnHeartbeat, SocketRuns, Idle, Crash, QueueInv, NothingLeft
  <1>6. CASE OnBadData
    BY <1>6, EventQueues DEF OnBadData, SocketRuns, Idle, NetEvents
  <1>7. CASE OnKick
    BY <1>7, EventQueues DEF OnKick, SocketRuns, Idle, NetEvents
  <1>8. ASSUME NEW r \in Requests, OnResponse(r) PROVE QueueInv'
    <2> USE <1>8 DEF OnResponse
    <2>1. Told({r})
      BY TellTold DEF TypeInv, Reqs
    <2>2. Disjoint'
      BY DEF QueueInv, OneQueue, Disjoint
    <2>3. (Held \cap Reqs) \ {r} \subseteq Held' /\ Held' \subseteq Held
      BY DEF Held
    <2>4. QueueStep({r})
      BY <2>1, <2>2, <2>3 DEF QueueStep, SocketRuns, Idle, appVars
    <2> QED BY <2>4, QueueStepKeeps
  <1> QED
    BY <1>1, <1>2, <1>3, <1>4, <1>5, <1>6, <1>7, <1>8, OnHandshakeQueues
       DEF SocketStep

\* The callbacks of the timers keep the invariant.
LEMMA TimerQueues ==
  ASSUME TypeInv, QueueInv, TimerStep
  PROVE  QueueInv'
  <1>1. CASE ReconnDelayTimer
    BY <1>1, SilentQueues DEF ReconnDelayTimer, TimerRuns, Idle, Wake, QueueInv,
       NothingLeft
  <1>2. CASE ConnTimeoutTimer
    BY <1>2, SilentQueues DEF ConnTimeoutTimer, TimerRuns, Idle, Crash, QueueInv,
       NothingLeft
  <1>3. CASE HandshakeTimer
    BY <1>3, EventQueues DEF HandshakeTimer, TimerRuns, Idle, NetEvents
  <1>4. CASE HeartbeatTimer
    <2>1. Told({})
      BY <1>4, SilentTold DEF HeartbeatTimer, Crash, QueueInv, NothingLeft
    <2>2. /\ Running
          /\ "cleanup" \in async' => "cleanup" \in async
          /\ UNCHANGED <<appVars, conn_pending, writing, resp_pending, closed>>
          /\ UNCHANGED write_wait \/ write_wait' = write_wait \cup {"heartbeat"}
      BY <1>4 DEF HeartbeatTimer, TimerRuns, Idle, Wake
    <2> QED BY <2>1, <2>2, InternalQueues, SameQueueStep
            DEF Internal, appVars, queueVars
  <1>5. CASE HeartbeatTimeout
    BY <1>5, EventQueues, SilentQueues
       DEF HeartbeatTimeout, TimerRuns, Idle, NetEvents, Crash
  <1>6. CASE CheckTimer
    <2> DEFINE done == Timed \cap (conn_pending \cup write_wait \cup resp_pending)
                         \cap late
    <2> USE <1>6 DEF CheckTimer
    <2>1. Told(done)
      BY TellTold, TransportAssumption DEF TypeInv
    <2>2. Disjoint'
      BY DEF QueueInv, OneQueue, Disjoint
    <2>3. (Held \cap Reqs) \ done \subseteq Held' /\ Held' \subseteq Held
      BY DEF Held
    <2>4. QueueStep(done)
      BY <2>1, <2>2, <2>3 DEF QueueStep, TimerRuns, Idle, appVars
    <2> HIDE DEF done
    <2> QED BY <2>4, QueueStepKeeps
  <1> QED BY <1>1, <1>2, <1>3, <1>4, <1>5, <1>6 DEF TimerStep

\* Every step of the system keeps the invariant.
LEMMA NextQueues ==
  ASSUME TypeInv, QueueInv, [Next]_vars
  PROVE  QueueInv'
  <1>1. CASE \E r \in Reqs : Expire(r)
    BY <1>1, SilentQueues DEF Expire, loopVars, QueueInv, NothingLeft
  <1>2. CASE UNCHANGED vars
    <2>1. /\ UNCHANGED <<call, arg, status, pending_ev, state, fault, async,
                         closed, Held>>
          /\ UNCHANGED <<conn_pending, write_wait, writing, resp_pending>>
      BY <1>2 DEF vars, appVars, clientVars, queueVars, loopVars, Held
    <2>2. UNCHANGED <<OneQueue, SendInv, RequestsHeld>>
      BY <2>1 DEF OneQueue, SendInv, RequestsHeld, InSend, Answered
    <2>3. UNCHANGED <<CleanupInv, NothingLeft>>
      BY <2>1 DEF CleanupInv, NothingLeft, CleaningUp, Running
    <2> QED BY <2>2, <2>3 DEF QueueInv
  <1> QED
    BY <1>1, <1>2, AppQueues, TailQueues, AsyncQueues, ClosingQueues,
       SocketQueues, TimerQueues DEF Next, WorkerStep, Ended

\* At first no request is anywhere.
LEMMA InitQueues == Init => QueueInv
  <1> SUFFICES ASSUME Init PROVE QueueInv
    OBVIOUS
  <1>1. Held = {} /\ \A r \in Reqs : ~InSend(r)
    BY DEF Init, Held, InSend
  <1>2. OneQueue /\ SendInv /\ RequestsHeld /\ CleanupInv
    BY <1>1 DEF Init, OneQueue, SendInv, RequestsHeld, CleanupInv
  <1>3. NothingLeft
    BY TransportAssumption DEF Init, NothingLeft, Faults
  <1> QED BY <1>2, <1>3 DEF QueueInv

\* The invariants together
LEMMA QueuesHold == Spec => []QueueInv
  <1>1. Init => TypeInv /\ QueueInv
    BY InitType, InitQueues
  <1>2. TypeInv /\ QueueInv /\ [Next]_vars => (TypeInv /\ QueueInv)'
    BY NextType, NextQueues
  <1> QED BY <1>1, <1>2, PTL DEF Spec

\* A write item is never linked into two queues: for any number of threads
\* that send, requests, timeouts, resets and failed writes.
THEOREM ItemInOneQueue == Spec => []OneQueue
  BY QueuesHold, PTL DEF QueueInv

\* No request is lost: one that the client still holds is in a thread, in a
\* queue of the transport, or answered.
THEOREM NoRequestLost == Spec => []RequestsHeld
  BY QueuesHold, PTL DEF QueueInv

\* The assertions of pc_client_cleanup on req_queue and notify_queue hold,
\* whatever was in progress when it was called.
THEOREM CleanupAssertions == Spec => []NothingLeft
  BY QueuesHold, PTL DEF QueueInv
==============================================================================
