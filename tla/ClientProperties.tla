-------------------------- MODULE ClientProperties --------------------------
(***************************************************************************)
(* What the client between the application and a transport must satisfy.   *)
(***************************************************************************)
EXTENDS ClientApi, FiniteSets

\* What a transport holds: a call by its id, or a request that was answered
\* early.  What it tells the client: a call is answered, or an event.
CallItems == [kind : {"resp", "sent", "answered"}, val : Nat \cup {None}]
Messages ==
  [kind : {"resp", "sent"}, val : Nat \cup {None}]
    \cup [kind : {"net"}, val : NetEvents \cup {"PUSH"}]

\* The frames of a call on its way into the transport, of a call that is
\* over, and of telling the client.
Sending == {"send", "enqueue", "undo"}
Ending == {"cb", "setIdle"}
Telling == {"deliver", "cb", "setIdle", "walk", "handler"}

Frames ==
  [at : Sending \cup Ending, x : Calls]
    \cup [at : {"deliver", "queueEvent"}, x : Messages]
    \cup [at : {"drop"}, x : {w \in Messages : w.kind = "resp"}]
    \cup [at : {"sweep"}, x : SUBSET CallItems]
    \cup [at : {"handler"}, x : Handlers]
    \cup [at : {"switch"}, x : {"connect", "disconnect"}]
    \cup [at : {"walk", "polling", "exit", "join", "destroy"}, x : {None}]

(***************************************************************************)
(* Safety                                                                  *)
(***************************************************************************)

\* Every variable has its type, and a call has a slot of its own kind only.
TypeOK ==
  /\ mode \in Modes /\ kind \in Kinds /\ state \in ClientStates
  /\ stack \in [Actors -> Seq(Frames)]
  /\ slot \in [Cells -> [busy : BOOLEAN, who : Calls \cup {None}]]
  /\ cell \in [Calls -> Cells \cup {None}]
  /\ \A r \in Calls : cell[r] # None => cell[r][1] = kind[r]
  /\ queue \in [{"resp", "sent"} -> SUBSET Calls]
  /\ key \in [Calls -> Nat \cup {None}]
  /\ req_id_seq \in 0..(2^IdBits - 1) /\ seq_num \in Nat
  /\ pending_ev \in Seq(Messages) /\ is_in_poll \in BOOLEAN
  /\ handlers \in Seq(Handlers)
  /\ up \in BOOLEAN /\ closing \in BOOLEAN /\ ended \in BOOLEAN
  /\ wis \subseteq CallItems
  /\ ends \in [Calls -> Nat]
  /\ fault \in Faults \cup {None}

\* By what the client is told of the call r
ItemOf(r) == Item(kind[r], key[r])

\* The frame f is about to tell the client of r; it has r in its hands.
Tells(f, r) == f.at \in {"deliver", "queueEvent"} /\ f.x = ItemOf(r)
Bears(f, r) ==
  \/ Tells(f, r)
  \/ f.at \in Sending /\ f.x = r
  \/ f.at = "sweep" /\ ItemOf(r) \in f.x

\* Where the answer to the call r may come from
Pending(r) ==
  \/ ItemOf(r) \in wis \cup Range(pending_ev)
  \/ \E a \in Actors : \E i \in DOMAIN stack[a] : Bears(stack[a][i], r)

\* A call ends exactly once, by its callback or with an error: until then it
\* is in its queue, and the transport, pending_ev_queue or a thread has the id
\* by which it will be found; afterwards it is in no queue.
AnsweredOnce ==
  \A r \in Calls :
    /\ ends[r] + (IF key[r] = None THEN 0 ELSE 1) <= 1
    /\ key[r] # None <=> r \in queue[kind[r]]
    /\ key[r] # None => Pending(r)

\* The route and msg that a callback reads through pc_request_route and
\* pc_request_msg are those of its own call: no other call has got the slot.
SlotOwned ==
  /\ fault # "slotAssert"
  /\ \A a \in Actors : \A i \in DOMAIN stack[a] :
       (stack[a][i].at = "cb" /\ cell[stack[a][i].x] # None)
         => slot[cell[stack[a][i].x]].who = stack[a][i].x

\* The ids of requests that wait are different, and none of them is one of
\* the two that have another meaning, when req_id_seq wraps around.
IdsUsable ==
  \A r, s \in queue["resp"] :
    key[r] \notin Reserved /\ (r # s => key[r] # key[s])

\* The memory of a handler is not freed while the walk needs it, whoever
\* removes handlers meanwhile.
NoFreedHandler == fault # "freedHandler"

\* The actor a waits for a mutex that b holds, or for the end of b.
WaitsFor(a, b) ==
  /\ a # b
  /\ \/ At(a) = "enqueue" /\ Holds(b, "sweep")
     \/ At(a) = "queueEvent" /\ Holds(b, "polling")
     \/ At(a) = "walk" /\ Holds(b, "handler")
     \/ At(a) = "join" /\ ~Dummy /\ b = Worker /\ ~ended

\* No actors wait for each other in a circle.
NoCircularWait ==
  \A S \in (SUBSET Actors) \ {{}} :
    \E a \in S : \A b \in S : ~WaitsFor(a, b)

\* When pc_client_cleanup has ended the transport, and polled, no call is
\* left: its assertions hold.
NothingLeft == fault # "queueAssert"

(***************************************************************************)
(* Why they hold: an invariant of every step (ClientApiProofs)             *)
(***************************************************************************)

\* Which functions an actor can be in: only the worker answers items, only
\* threads poll, switch and clean up, and events go through pending_ev_queue
\* exactly when the client polls.
Plays(a, f) ==
  /\ f.at \in {"drop", "sweep", "exit"} => a = Worker
  /\ f.at \in {"polling", "switch", "join", "destroy"} => a \in Threads
  /\ f.at \in {"polling", "queueEvent"} => Polling
  /\ f.at \in {"enqueue", "undo"} => ~Dummy
  /\ f.at = "switch" => Dummy
  /\ f.at \in Telling => Polling \/ Dummy \/ a = Worker

\* A call on its way into the transport has called nothing; nobody else is
\* below it if callbacks under pc_client_poll do not send.
RoleInv ==
  \A a \in Actors : \A i \in DOMAIN stack[a] :
    /\ Plays(a, stack[a][i])
    /\ stack[a][i].at \in Sending =>
         i = 1 /\ (mode = "uvPoll" /\ ~PollSends => Len(stack[a]) = 1)

\* event_mutex and is_in_poll: one thread polls, callbacks run under it, and
\* below it is at most the call that polls first.
PollInv ==
  /\ ~Polling => pending_ev = <<>>
  /\ is_in_poll <=> \E a \in Actors : Holds(a, "polling")
  /\ \A a, b \in Actors : Holds(a, "polling") /\ Holds(b, "polling") => a = b
  /\ \A a \in Actors : \A i \in DOMAIN stack[a] :
       /\ Polling /\ stack[a][i].at \in Telling => Holds(a, "polling")
       /\ stack[a][i].at = "polling" =>
            \A j \in DOMAIN stack[a] :
              j > i => stack[a][j].at \in {"switch", "destroy"}

\* handler_mutex: one actor walks over the handlers, and those it is in are
\* registered.
HandlerInv ==
  /\ \A a, b \in Actors : Holds(a, "handler") /\ Holds(b, "handler") => a = b
  /\ \A a \in Actors : \A i \in DOMAIN stack[a] :
       stack[a][i].at = "handler" => stack[a][i].x \in Range(handlers)

\* pc_client_cleanup: one thread is in it and no other in any call; the
\* worker has no item any more once its handles are closed, and does nothing
\* once it has ended; the last poll leaves no event.
CloseInv ==
  /\ ended => closing
  /\ closing => \A t, u \in Threads :
       stack[t] # <<>> /\ stack[u] # <<>> => t = u
  /\ Dummy \/ ended => wis = {} /\ stack[Worker] = <<>>
  /\ Holds(Worker, "exit") =>
       wis = {} /\ \A i \in DOMAIN stack[Worker] : stack[Worker][i].at \notin Sending
  /\ \A a \in Actors : \A i \in DOMAIN stack[a] :
       LET at == stack[a][i].at IN
       /\ at \in {"join", "destroy", "exit"} => closing /\ i = Len(stack[a])
       /\ closing /\ a \in Threads =>
            at \in Telling \cup {"join", "destroy", "polling"}
       /\ at = "join" => i = 1
       /\ at = "destroy" => (Dummy \/ ended) /\ (i = 1 => pending_ev = <<>>)

\* The life of a call: on its way into the transport it is open, with its
\* callback it is over, and it has one frame at most.
CallInv ==
  /\ \A r \in Calls :
       /\ ends[r] + (IF key[r] = None THEN 0 ELSE 1) <= 1
       /\ key[r] # None <=> r \in queue[kind[r]]
  /\ \A k \in {"resp", "sent"} : \A r \in queue[k] : kind[r] = k
  /\ \A a \in Actors : \A i \in DOMAIN stack[a] :
       /\ stack[a][i].at \in Sending => key[stack[a][i].x] # None
       /\ stack[a][i].at \in Ending => ends[stack[a][i].x] = 1
  /\ \A a, b \in Actors : \A i \in DOMAIN stack[a], j \in DOMAIN stack[b] :
       /\ stack[a][i].at \in Sending \cup Ending
       /\ stack[b][j].at \in Sending \cup Ending
       /\ stack[a][i].x = stack[b][j].x
       => a = b /\ i = j

\* The memory of a call: a slot that is not busy is cleared, a busy one
\* belongs to one call, whose route and msg it has until they are cleared.
SlotInv ==
  /\ \A s \in Cells : ~slot[s].busy => slot[s].who = None
  /\ \A r \in Calls : cell[r] # None =>
       /\ slot[cell[r]].busy
       /\ \/ slot[cell[r]].who = r
          \/ \E a \in Actors : \E i \in DOMAIN stack[a] :
               stack[a][i] = F("setIdle", r)
       /\ \A s \in Calls : cell[s] = cell[r] => s = r

\* The number of usable ids, and of ids handed out since v was, if that is
\* less than all
Ids == 2^IdBits - 2
Age(v) == IF v < NextId THEN NextId - v ELSE NextId - v + Ids

\* The calls that have been issued
Issued == {r \in Calls : key[r] # None \/ ends[r] > 0}

\* v has been handed out for a call of kind k, and not as long ago as ids can
\* be told apart.
Given(k, v) ==
  IF k = "sent" THEN v \in Nat /\ v < seq_num
                ELSE v \in 1..Ids /\ Age(v) <= Cardinality(Issued)

\* The items that are about: with the transport, in pending_ev_queue, or in
\* the hands of an actor
Carried(f) ==
  IF f.at \in {"deliver", "queueEvent", "drop"} THEN {f.x}
  ELSE IF f.at = "sweep" THEN f.x ELSE {}
Mentioned ==
  wis \cup Range(pending_ev)
    \cup UNION {UNION {Carried(stack[a][i]) : i \in DOMAIN stack[a]} : a \in Actors}

\* Ids in use differ, and those that are about have been handed out.
IdInv ==
  /\ \A r \in Calls : key[r] # None => Given(kind[r], key[r])
  /\ \A r, s \in Calls :
       r # s /\ kind[r] = kind[s] /\ key[r] # None => key[r] # key[s]
  /\ \A w \in Mentioned : w.kind # "net" => Given(w.kind, w.val)

\* The item w would find the call r.
Names(w, r) == w.kind # "net" /\ Told(w) = ItemOf(r)

\* The client has been told of r, or is being told.
OnItsWay(r) ==
  \/ ItemOf(r) \in Range(pending_ev)
  \/ \E a \in Actors : \E i \in DOMAIN stack[a] : Tells(stack[a][i], r)

\* An open call is about; before the transport has it, nothing else has its
\* id; a response drops the item only after the client is told.
CarryInv ==
  /\ \A r \in Calls : key[r] # None => Pending(r)
  /\ \A a \in Actors : \A i \in DOMAIN stack[a] :
       /\ stack[a][i].at \in Sending =>
            \A w \in Mentioned : ~Names(w, stack[a][i].x)
       /\ stack[a][i].at = "drop" =>
            \A r \in Calls :
              key[r] # None /\ Names(stack[a][i].x, r) => OnItsWay(r)

(***************************************************************************)
(* Liveness                                                                *)
(***************************************************************************)

\* Every call of the API returns.
CallsReturn ==
  \A t \in Threads : stack[t] # <<>> ~> stack[t] = <<>> \/ ~Running
=============================================================================
