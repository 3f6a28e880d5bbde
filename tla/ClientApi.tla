----------------------------- MODULE ClientApi -----------------------------
(***************************************************************************)
(* The client between the application and a transport (src/pc_pomelo.c,    *)
(* src/pc_trans.c): the memory of requests and notifications, their ids    *)
(* and queues, the pending events of a client that polls, the event        *)
(* handlers, and the mutexes that are held while callbacks run.  The       *)
(* transport is the dummy one (src/tr/dummy/tr_dummy.c), which answers     *)
(* inside the call, or the part of the libuv transport that calls back     *)
(* with wq_mutex held; the connection itself is in TcpTransport.           *)
(*                                                                         *)
(* Callbacks call the API again, so each actor has a stack of frames, the  *)
(* innermost first; a frame says where its function will go on.  A section *)
(* under a mutex that calls nothing is one step.  The three mutexes that   *)
(* are held over calls are recursive; who holds one is seen from the       *)
(* frames: wq_mutex from "sweep", event_mutex from "polling" and           *)
(* handler_mutex from "handler".                                           *)
(***************************************************************************)
EXTENDS PcEvents, Integers, Sequences, SequencesExt

CONSTANTS
  Threads,    \* the application's threads
  Calls,      \* requests and notifications the application may issue
  Kinds,      \* which of them are which: "resp" for a request, "sent" for a
              \* notification, after the callback it gets
  Handlers,   \* event handlers it may register
  Slots,      \* pre-allocated requests, and as many notifications
  IdBits,     \* the width of req_id_seq
  FirstIds,   \* what req_id_seq may have reached
  Modes,      \* see Init
  PollSends,  \* callbacks that pc_client_poll runs may send
  MaxPending, \* bound on the events that wait when the server pushes one
  None

Worker == "worker"
Actors == Threads \cup {Worker}

\* The pre-allocated memory, of requests and of notifications
Cells == {"resp", "sent"} \X (1..Slots)

\* What can stop the process: the assertion on a network event, or one of
\* these.
Faults == NetEvents \cup {"slotAssert", "freedHandler", "queueAssert"}

ASSUME ClientAssumption ==
  /\ Worker \notin Threads
  /\ Modes \subseteq {"uv", "uvPoll", "dummy", "dummyPoll"}
  /\ Slots \in Nat /\ IdBits \in Nat /\ MaxPending \in Nat
  /\ FirstIds \subseteq 0..(2^IdBits - 1)
  /\ PollSends \in BOOLEAN
  /\ Kinds \subseteq [Calls -> {"resp", "sent"}]
  /\ None \notin Calls \cup Cells \cup Faults \cup Nat

VARIABLES
  mode,        \* the transport, and whether the client polls
  kind,        \* what the application will issue
  state,       \* client->state
  stack,       \* what each actor is doing
  slot,        \* the pre-allocated memory: busy, and whose route and msg
  cell,        \* the slot of a call, None for memory of its own
  queue,       \* req_queue and notify_queue
  key,         \* the req_id of a request, the seq_num of a notification
  req_id_seq, seq_num,
  pending_ev,  \* pending_ev_queue
  is_in_poll,
  handlers,    \* ev_handlers
  up,          \* whether tt->state lets tr_uv_tcp_send go on
  wis,         \* the write items that the transport holds
  closing,     \* pc_client_cleanup has been called
  ended,       \* the worker's thread has ended
  ends,        \* how often a call ended: by its callback, or with an error
  fault

setup == <<mode, kind>>
memVars == <<slot, cell, queue, key, req_id_seq, seq_num>>
evVars == <<pending_ev, is_in_poll>>
trVars == <<up, wis, closing, ended>>
vars == <<setup, state, stack, memVars, evVars, handlers, trVars, ends, fault>>

\* PC_NOTIFY_PUSH_REQ_ID and PC_INVALID_REQ_ID
Reserved == {0, 2^IdBits - 1}

Polling == mode \in {"uvPoll", "dummyPoll"}
Dummy == mode \in {"dummy", "dummyPoll"}
Running == fault = None

\* pc_client_init.  With the libuv transport the client is connected, or on
\* its way to be, throughout; req_id_seq starts at 1 and has gone on since.
Init ==
  /\ mode \in Modes /\ kind \in Kinds
  /\ state = IF Dummy THEN "INITED" ELSE "CONNECTED"
  /\ stack = [a \in Actors |-> <<>>]
  /\ slot = [s \in Cells |-> [busy |-> FALSE, who |-> None]]
  /\ cell = [r \in Calls |-> None]
  /\ queue = [k \in {"resp", "sent"} |-> {}]
  /\ key = [r \in Calls |-> None]
  /\ req_id_seq \in FirstIds /\ seq_num = 0
  /\ pending_ev = <<>> /\ is_in_poll = FALSE
  /\ handlers = <<>>
  /\ up = TRUE /\ wis = {}
  /\ closing = FALSE /\ ended = FALSE
  /\ ends = [r \in Calls |-> 0]
  /\ fault = None

(***************************************************************************)
(* Frames, and who holds which mutex                                       *)
(***************************************************************************)

F(at, x) == [at |-> at, x |-> x]
At(a) == IF stack[a] = <<>> THEN "idle" ELSE Head(stack[a]).at
Arg(a) == Head(stack[a]).x

Goto(a, f) == stack' = [stack EXCEPT ![a] = <<f>> \o Tail(@)]
Enter(a, f) == stack' = [stack EXCEPT ![a] = <<f>> \o @]
Return(a) == stack' = [stack EXCEPT ![a] = Tail(@)]

Holds(a, at) == \E i \in DOMAIN stack[a] : stack[a][i].at = at
FreeFor(a, at) == \A b \in Actors \ {a} : ~Holds(b, at)

Crash(label) == fault' = label

\* What a transport tells the client: pc_trans_resp, pc_trans_sent and
\* pc_trans_fire_event
Item(k, val) == [kind |-> k, val |-> val]
Tell(item) == F(IF Polling THEN "queueEvent" ELSE "deliver", item)

\* The application calls the API: from a thread, or from a callback.
InCallback(a) == At(a) \in {"cb", "handler"}
MayCall(a) ==
  /\ Running /\ ~closing
  /\ InCallback(a) \/ (a \in Threads /\ At(a) = "idle")

(***************************************************************************)
(* pc_request_with_timeout, pc_notify_with_timeout                         *)
(***************************************************************************)

\* Faulty: the reserved ids are handed out
NextId_unchecked == req_id_seq

\* The id that is handed out next
NextId == IF req_id_seq \in Reserved THEN 1 ELSE req_id_seq

\* The first pre-allocated slot that is idle, if there is one
IdleSlots(k) ==
  {i \in 1..Slots : ~slot[<<k, i>>].busy /\ \A j \in 1..(i - 1) : slot[<<k, j>>].busy}

\* Faulty: a notification is given the memory of a request
FirstIdle_mixed(k) ==
  IF IdleSlots("resp") = {} THEN None
                            ELSE <<"resp", CHOOSE i \in IdleSlots("resp") : TRUE>>

FirstIdle(k) ==
  IF IdleSlots(k) = {} THEN None ELSE <<k, CHOOSE i \in IdleSlots(k) : TRUE>>

\* The state is right; the section under req_mutex
Allocate(a, r) ==
  LET k == kind[r]
      s == FirstIdle(k)
  IN
  /\ MayCall(a)
  /\ (InCallback(a) /\ mode = "uvPoll") => PollSends
  /\ state \in {"CONNECTED", "CONNECTING"}
  /\ key[r] = None /\ ends[r] = 0
  /\ IF s # None /\ slot[s].who # None
       THEN Crash("slotAssert") /\ UNCHANGED <<stack, memVars>>
       ELSE /\ slot' = IF s = None THEN slot
                       ELSE [slot EXCEPT ![s] = [busy |-> TRUE, who |-> r]]
            /\ cell' = [cell EXCEPT ![r] = s]
            /\ queue' = [queue EXCEPT ![k] = @ \cup {r}]
            /\ key' = [key EXCEPT ![r] = IF k = "resp" THEN NextId ELSE seq_num]
            /\ seq_num' = seq_num + 1
            /\ req_id_seq' = IF k = "resp" THEN (NextId + 1) % 2^IdBits
                                           ELSE req_id_seq
            /\ Enter(a, F("send", r))
            /\ UNCHANGED fault
  /\ UNCHANGED <<setup, state, evVars, handlers, trVars, ends>>

\* dummy_send
SendDummy(a) ==
  /\ Running /\ Dummy /\ At(a) = "send"
  /\ Goto(a, Tell(Item(kind[Arg(a)], key[Arg(a)])))
  /\ UNCHANGED <<setup, state, memVars, evVars, handlers, trVars, ends,
                 fault>>

\* tr_uv_tcp_send before wq_mutex: without a connection, or when the message
\* cannot be encoded, it returns an error.
SendUv(a) ==
  /\ Running /\ ~Dummy /\ At(a) = "send"
  /\ \/ up /\ Goto(a, F("enqueue", Arg(a)))
     \/ Goto(a, F("undo", Arg(a)))
  /\ UNCHANGED <<setup, state, memVars, evVars, handlers, trVars, ends,
                 fault>>

\* tr_uv_tcp_send under wq_mutex
Enqueue(a) ==
  /\ Running /\ At(a) = "enqueue" /\ FreeFor(a, "sweep")
  /\ wis' = wis \cup {Item(kind[Arg(a)], key[Arg(a)])}
  /\ Return(a)
  /\ UNCHANGED <<setup, state, memVars, evVars, handlers, up, closing,
                 ended, ends, fault>>

\* The section under req_mutex when the transport has refused the call
Undo(a) ==
  LET r == Arg(a) IN
  /\ Running /\ At(a) = "undo"
  /\ queue' = [queue EXCEPT ![kind[r]] = @ \ {r}]
  /\ slot' = IF cell[r] = None THEN slot
             ELSE [slot EXCEPT ![cell[r]] = [busy |-> FALSE, who |-> None]]
  /\ cell' = [cell EXCEPT ![r] = None]
  /\ key' = [key EXCEPT ![r] = None]
  /\ ends' = [ends EXCEPT ![r] = @ + 1]
  /\ Return(a)
  /\ UNCHANGED <<setup, state, req_id_seq, seq_num, evVars, handlers, trVars,
                 fault>>

(***************************************************************************)
(* pc__trans_resp, pc__trans_sent                                          *)
(***************************************************************************)

\* Faulty: a call that has been found stays in its queue
Dequeued_stays(k, r) == queue

Dequeued(k, r) == [queue EXCEPT ![k] = @ \ {r}]

\* The call is looked up and unlinked under its mutex; its callback starts.
\* An unknown id is logged.
Deliver(a) ==
  LET k == Arg(a).kind
      found == {r \in queue[k] : key[r] = Arg(a).val}
  IN
  /\ Running /\ At(a) = "deliver" /\ k # "net"
  /\ \/ found = {} /\ Return(a) /\ UNCHANGED <<queue, key, ends>>
     \/ \E r \in found :
          /\ queue' = Dequeued(k, r)
          /\ key' = [key EXCEPT ![r] = None]
          /\ ends' = [ends EXCEPT ![r] = @ + 1]
          /\ Goto(a, F("cb", r))
  /\ UNCHANGED <<setup, state, slot, cell, req_id_seq, seq_num, evVars,
                 handlers, trVars, fault>>

\* Faulty: the slot is given back before its route and msg are cleared
AfterCallback_early(r) ==
  IF cell[r] = None THEN slot ELSE [slot EXCEPT ![cell[r]].busy = FALSE]

\* route and msg are cleared, without a lock.
AfterCallback(r) ==
  IF cell[r] = None THEN slot ELSE [slot EXCEPT ![cell[r]].who = None]

EndCallback(a) ==
  /\ Running /\ At(a) = "cb"
  /\ slot' = AfterCallback(Arg(a))
  /\ IF cell[Arg(a)] = None THEN Return(a) ELSE Goto(a, F("setIdle", Arg(a)))
  /\ UNCHANGED <<setup, state, cell, queue, key, req_id_seq, seq_num, evVars,
                 handlers, trVars, ends, fault>>

\* PC_PRE_ALLOC_SET_IDLE under the mutex
SetIdle(a) ==
  /\ Running /\ At(a) = "setIdle"
  /\ slot' = [slot EXCEPT ![cell[Arg(a)]] = [busy |-> FALSE, who |-> None]]
  /\ cell' = [cell EXCEPT ![Arg(a)] = None]
  /\ Return(a)
  /\ UNCHANGED <<setup, state, queue, key, req_id_seq, seq_num, evVars,
                 handlers, trVars, ends, fault>>

(***************************************************************************)
(* Events and their handlers                                               *)
(***************************************************************************)

\* pc__trans_queue_resp, _sent and _event, under event_mutex
QueueEvent(a) ==
  /\ Running /\ At(a) = "queueEvent" /\ FreeFor(a, "polling")
  /\ pending_ev' = Append(pending_ev, Arg(a))
  /\ Return(a)
  /\ UNCHANGED <<setup, state, memVars, is_in_poll, handlers, trVars,
                 ends, fault>>

\* pc__trans_fire_event, the section under state_mutex
FireEvent(a) ==
  LET e == Arg(a).val IN
  /\ Running /\ At(a) = "deliver" /\ Arg(a).kind = "net"
  /\ IF e = "PUSH" THEN UNCHANGED <<state, fault>>
     ELSE IF state \in LegalIn(e)
       THEN state' = AfterEvent(e, state) /\ UNCHANGED fault
     ELSE Crash(e) /\ UNCHANGED state
  /\ Goto(a, F("walk", None))
  /\ UNCHANGED <<setup, memVars, evVars, handlers, trVars, ends>>

\* Its walk over ev_handlers, which holds handler_mutex from here on
Walk(a) ==
  /\ Running /\ At(a) = "walk" /\ FreeFor(a, "handler")
  /\ IF handlers = <<>> THEN Return(a) ELSE Goto(a, F("handler", Head(handlers)))
  /\ UNCHANGED <<setup, state, memVars, evVars, handlers, trVars, ends,
                 fault>>

\* A handler returns, and the walk reads the link of its memory.
EndHandler(a) ==
  LET h == Arg(a)
      i == CHOOSE j \in DOMAIN handlers : handlers[j] = h
  IN
  /\ Running /\ At(a) = "handler"
  /\ IF h \notin Range(handlers) THEN Crash("freedHandler") /\ UNCHANGED stack
     ELSE /\ IF i = Len(handlers) THEN Return(a)
             ELSE Goto(a, F("handler", handlers[i + 1]))
          /\ UNCHANGED fault
  /\ UNCHANGED <<setup, state, memVars, evVars, handlers, trVars, ends>>

\* pc_client_add_ev_handler
AddHandler(a, h) ==
  /\ MayCall(a) /\ FreeFor(a, "handler")
  /\ h \notin Range(handlers)
  /\ handlers' = Append(handlers, h)
  /\ UNCHANGED <<setup, state, stack, memVars, evVars, trVars, ends, fault>>

\* Faulty: handlers are removed without handler_mutex
CanRemove_unlocked(a, h) ==
  h \in Range(handlers) /\ ~(At(a) = "handler" /\ Arg(a) = h)

\* Holding handler_mutex.  A handler that removes itself is freed while the
\* walk still needs it; the application does not do so.
CanRemove(a, h) ==
  /\ FreeFor(a, "handler")
  /\ h \in Range(handlers)
  /\ \A i \in DOMAIN stack[a] : stack[a][i] # F("handler", h)

\* pc_client_rm_ev_handler
RemoveHandler(a, h) ==
  /\ MayCall(a) /\ CanRemove(a, h)
  /\ \E i \in DOMAIN handlers :
       handlers[i] = h /\ handlers' = RemoveAt(handlers, i)
  /\ UNCHANGED <<setup, state, stack, memVars, evVars, trVars, ends,
                 fault>>

(***************************************************************************)
(* pc_client_poll                                                          *)
(***************************************************************************)

\* event_mutex is recursive, is_in_poll keeps a callback from polling.
MayPoll(a) == FreeFor(a, "polling") /\ ~is_in_poll

Poll(a) ==
  /\ MayCall(a) /\ Polling /\ MayPoll(a)
  /\ is_in_poll' = TRUE
  /\ Enter(a, F("polling", None))
  /\ UNCHANGED <<setup, state, memVars, pending_ev, handlers, trVars,
                 ends, fault>>

\* One event, or the end
PollStep(a) ==
  /\ Running /\ At(a) = "polling"
  /\ IF pending_ev = <<>>
       THEN is_in_poll' = FALSE /\ Return(a) /\ UNCHANGED pending_ev
       ELSE /\ pending_ev' = Tail(pending_ev)
            /\ Enter(a, F("deliver", Head(pending_ev)))
            /\ UNCHANGED is_in_poll
  /\ UNCHANGED <<setup, state, memVars, handlers, trVars, ends, fault>>

(***************************************************************************)
(* pc_client_connect and pc_client_disconnect with the dummy transport,    *)
(* which fires the event inside the call.  A client that polls does so     *)
(* first.                                                                  *)
(***************************************************************************)

Switches == [connect |-> [from |-> {"INITED"}, to |-> "CONNECTING",
                          event |-> "CONNECTED"],
             disconnect |-> [from |-> {"CONNECTING", "CONNECTED"},
                             to |-> "DISCONNECTING", event |-> "DISCONNECT"]]

Switch(a, op) ==
  /\ MayCall(a) /\ Dummy /\ At(a) = "idle"
  /\ state \in Switches[op].from
  /\ IF Polling
       THEN /\ MayPoll(a)
            /\ is_in_poll' = TRUE
            /\ stack' = [stack EXCEPT ![a] =
                           <<F("polling", None), F("switch", op)>>]
       ELSE Enter(a, F("switch", op)) /\ UNCHANGED is_in_poll
  /\ UNCHANGED <<setup, state, memVars, pending_ev, handlers, trVars,
                 ends, fault>>

SwitchStep(a) ==
  LET s == Switches[Arg(a)] IN
  /\ Running /\ At(a) = "switch"
  /\ IF state \in s.from THEN state' = s.to /\ Goto(a, Tell(Item("net", s.event)))
                         ELSE Return(a) /\ UNCHANGED state
  /\ UNCHANGED <<setup, memVars, evVars, handlers, trVars, ends, fault>>

(***************************************************************************)
(* The worker of the libuv transport                                       *)
(***************************************************************************)

WorkerIdle == Running /\ ~Dummy /\ ~ended /\ At(Worker) = "idle"

\* tcp__on_data_recieved: the client is told, then the write item dropped if
\* it is in resp_pending_queue already.  Otherwise it stays, "answered": the
\* server does not answer again, but the client will be told again.
Response(w) ==
  /\ WorkerIdle /\ up
  /\ w.kind = "resp"
  /\ stack' = [stack EXCEPT ![Worker] = <<Tell(w), F("drop", w)>>]
  /\ UNCHANGED <<setup, state, memVars, evVars, handlers, trVars, ends,
                 fault>>

Drop(a) ==
  LET w == Arg(a) IN
  /\ Running /\ At(a) = "drop"
  /\ IF w \notin wis THEN wis' = wis
     ELSE \/ wis' = wis \ {w}
          \/ wis' = (wis \ {w}) \cup {Item("answered", w.val)}
  /\ Return(a)
  /\ UNCHANGED <<setup, state, memVars, evVars, handlers, up, closing,
                 ended, ends, fault>>

\* A message that the server pushes
Push ==
  /\ WorkerIdle /\ up /\ Len(pending_ev) < MaxPending
  /\ Enter(Worker, Tell(Item("net", "PUSH")))
  /\ UNCHANGED <<setup, state, memVars, evVars, handlers, up, wis, closing,
                 ended, ends, fault>>

Told(w) == Item(IF w.kind = "sent" THEN "sent" ELSE "resp", w.val)

\* With wq_mutex held the client is told of the items in I: the end of a
\* write (tcp__write_done_cb), a timeout (tcp__check_queue_timeout), or a
\* reset, which takes all of them and leaves no connection.
Sweep(I, reset) ==
  /\ WorkerIdle
  /\ Enter(Worker, F("sweep", I))
  /\ wis' = wis \ I
  /\ up' = (up /\ ~reset)
  /\ UNCHANGED <<setup, state, memVars, evVars, handlers, closing,
                 ended, ends, fault>>

SweepStep(a) ==
  /\ Running /\ At(a) = "sweep"
  /\ \/ Arg(a) = {} /\ Return(a)
     \/ \E w \in Arg(a) :
          stack' = [stack EXCEPT ![a] =
                      <<Tell(Told(w)), F("sweep", Arg(a) \ {w})>> \o Tail(@)]
  /\ UNCHANGED <<setup, state, memVars, evVars, handlers, trVars, ends,
                 fault>>

Reset == Sweep(wis, TRUE)

Reconnected ==
  /\ WorkerIdle /\ ~up /\ ~closing
  /\ up' = TRUE
  /\ UNCHANGED <<setup, state, stack, memVars, evVars, handlers, wis,
                 closing, ended, ends, fault>>

\* Faulty: a handle is left open, and the loop goes on
HandlesClosed_butOne == <<>>

\* All handles are closed, after which the loop ends.
HandlesClosed == <<F("exit", None)>>

\* tcp__cleanup_async_cb, with a last reset
CleanupAsync ==
  /\ WorkerIdle /\ closing
  /\ stack' = [stack EXCEPT ![Worker] = <<F("sweep", wis)>> \o HandlesClosed]
  /\ wis' = {} /\ up' = FALSE
  /\ UNCHANGED <<setup, state, memVars, evVars, handlers, closing,
                 ended, ends, fault>>

Exit(a) ==
  /\ Running /\ At(a) = "exit"
  /\ ended' = TRUE
  /\ Return(a)
  /\ UNCHANGED <<setup, state, memVars, evVars, handlers, up, wis,
                 closing, ends, fault>>

(***************************************************************************)
(* pc_client_cleanup, when no other call is in progress                    *)
(***************************************************************************)

\* Faulty: event_mutex is held while the transport is cleaned up
Joining_locked == <<F("join", None), F("polling", None)>>

\* transport->cleanup, with no mutex held
Joining == <<F("join", None)>>

Cleanup(a) ==
  /\ MayCall(a) /\ a \in Threads /\ \A t \in Threads : At(t) = "idle"
  /\ closing' = TRUE
  /\ stack' = [stack EXCEPT ![a] = Joining]
  /\ UNCHANGED <<setup, state, memVars, evVars, handlers, up, wis,
                 ended, ends, fault>>

\* Faulty: what the transport queued last is not polled
LastPoll_skipped == <<>>

\* A client that polls does so once more.
LastPoll == IF Polling THEN <<F("polling", None)>> ELSE <<>>

\* The transport is gone.
Join(a) ==
  /\ Running /\ At(a) = "join" /\ (Dummy \/ ended)
  /\ is_in_poll' = (LastPoll # <<>>)
  /\ stack' = [stack EXCEPT ![a] = LastPoll \o <<F("destroy", None)>>]
  /\ UNCHANGED <<setup, state, memVars, pending_ev, handlers, trVars,
                 ends, fault>>

\* The assertions on the queues, and the handlers are freed.
Destroy(a) ==
  /\ Running /\ At(a) = "destroy"
  /\ IF queue["resp"] # {} \/ queue["sent"] # {}
       THEN Crash("queueAssert") /\ UNCHANGED <<state, handlers, stack>>
       ELSE /\ state' = "NOT_INITED" /\ handlers' = <<>>
            /\ Return(a)
            /\ UNCHANGED fault
  /\ UNCHANGED <<setup, memVars, evVars, trVars, ends>>

(***************************************************************************)
(* The specification                                                       *)
(***************************************************************************)

\* A call, or a callback of the worker, goes on.
Step(a) ==
  \/ SendDummy(a) \/ SendUv(a) \/ Enqueue(a) \/ Undo(a)
  \/ Deliver(a) \/ EndCallback(a) \/ SetIdle(a)
  \/ QueueEvent(a) \/ FireEvent(a) \/ Walk(a) \/ EndHandler(a)
  \/ PollStep(a) \/ SwitchStep(a)
  \/ Drop(a) \/ SweepStep(a) \/ Exit(a)
  \/ Join(a) \/ Destroy(a)

ApiCall(a) ==
  \/ \E r \in Calls : Allocate(a, r)
  \/ \E h \in Handlers : AddHandler(a, h) \/ RemoveHandler(a, h)
  \/ \E op \in DOMAIN Switches : Switch(a, op)
  \/ Poll(a) \/ Cleanup(a)

Ended == (~Running \/ state = "NOT_INITED") /\ UNCHANGED vars

Next ==
  \/ \E a \in Actors : Step(a) \/ ApiCall(a)
  \/ \E w \in wis : Response(w)
  \/ \E I \in SUBSET wis : I # {} /\ Sweep(I, FALSE)
  \/ Push \/ Reset \/ Reconnected \/ CleanupAsync
  \/ Ended

Spec == Init /\ [][Next]_vars

\* Every thread is scheduled, one that waits for a mutex which is released
\* again and again gets it, and the worker's loop serves the wake-up of a
\* cleanup.
FairSpec ==
  /\ Spec
  /\ \A a \in Actors : /\ WF_vars(Step(a))
                       /\ SF_vars(Enqueue(a) \/ QueueEvent(a) \/ Walk(a))
  /\ SF_vars(CleanupAsync)
============================================================================
