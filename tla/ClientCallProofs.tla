-------------------------- MODULE ClientCallProofs --------------------------
(***************************************************************************)
(* The life of requests and notifications: what ClientProperties states    *)
(* of their ids, their memory and their answers, for every number of       *)
(* threads, calls, handlers and slots.                                     *)
(***************************************************************************)
EXTENDS ClientApiProofs

\* There are as many ids as calls, over the life of the client: req_id_seq
\* does not come back to an id that the transport still knows.
IdsSuffice == IsFiniteSet(Calls) /\ Cardinality(Calls) + 2 <= 2^IdBits

\* The invariant of every step
CallsInv == CallInv /\ SlotInv /\ IdInv /\ CarryInv

(***************************************************************************)
(* Items, and who has them                                                 *)
(***************************************************************************)

LEMMA CallTypes ==
  ASSUME TypeOK, NEW r \in Calls
  PROVE  /\ kind[r] \in {"resp", "sent"} /\ key[r] \in Nat \cup {None}
         /\ ends[r] \in Nat
  <1>1. kind \in [Calls -> {"resp", "sent"}]
    BY ClientAssumption DEF TypeOK
  <1> QED BY <1>1 DEF TypeOK

LEMMA ToldFacts ==
  /\ \A w : /\ Told(w).val = w.val /\ Told(w).kind \in {"resp", "sent"}
            /\ Told(w).kind = "sent" <=> w.kind = "sent"
  /\ \A v, w : Told(v) = Told(w) =>
       v.val = w.val /\ (v.kind = "sent" <=> w.kind = "sent")
  BY DEF Told, Item

\* The item of a call is what the client is told.
LEMMA ItemFacts ==
  ASSUME TypeOK, NEW r \in Calls
  PROVE  /\ ItemOf(r).kind = kind[r] /\ ItemOf(r).val = key[r]
         /\ ItemOf(r).kind # "net" /\ Told(ItemOf(r)) = ItemOf(r)
  <1>1. kind[r] \in {"resp", "sent"}
    BY CallTypes
  <1> QED BY <1>1 DEF ItemOf, Item, Told

LEMMA MentionedIs ==
  /\ \A w : w \in Mentioned <=>
       \/ w \in wis \/ w \in Range(pending_ev)
       \/ \E b \in Actors : \E i \in DOMAIN stack[b] : w \in Carried(stack[b][i])
  /\ \A w : w \in Mentioned' <=>
       \/ w \in wis' \/ w \in Range(pending_ev')
       \/ \E b \in Actors : \E i \in DOMAIN stack'[b] : w \in Carried(stack'[b][i])
  BY DEF Mentioned

\* What is about after a step was there before, or is new.
LEMMA MentionedAfter ==
  ASSUME TypeOK, NEW a \in Actors, NEW fs, NEW n, Shape(a, fs, n), NEW w \in Mentioned'
  PROVE  \/ w \in wis' \/ w \in Range(pending_ev')
         \/ \E i \in DOMAIN fs : w \in Carried(fs[i])
         \/ w \in Mentioned
  <1>0. StackOK
    BY TypeParts
  <1>1. ASSUME NEW b \in Actors, NEW i \in DOMAIN stack'[b], w \in Carried(stack'[b][i])
        PROVE  (\E j \in DOMAIN fs : w \in Carried(fs[j])) \/ w \in Mentioned
    <2>1. CASE b = a /\ i \in DOMAIN fs /\ stack'[b][i] = fs[i]
      BY <1>1, <2>1
    <2>2. ASSUME NEW j \in DOMAIN stack[b], stack'[b][i] = stack[b][j]
          PROVE  w \in Mentioned
      BY <1>1, <2>2, MentionedIs
    <2> QED BY <1>0, <2>1, <2>2, FramesAfter
  <1> QED BY <1>1, MentionedIs

\* What an innermost frame carries, and what waits, is about.
LEMMA MentionedTop ==
  ASSUME TypeOK, NEW a \in Actors
  PROVE  /\ At(a) \in {"deliver", "queueEvent", "drop"} => Arg(a) \in Mentioned
         /\ At(a) = "sweep" => Arg(a) \subseteq Mentioned
         /\ wis \subseteq Mentioned /\ Range(pending_ev) \subseteq Mentioned
  <1>0. StackOK
    BY TypeParts
  <1>1. ASSUME At(a) \in {"deliver", "queueEvent", "drop"} PROVE Arg(a) \in Mentioned
    <2>1. 1 \in DOMAIN stack[a] /\ At(a) = stack[a][1].at /\ Arg(a) = stack[a][1].x
      BY <1>0, <1>1, Top
    <2>2. Arg(a) \in Carried(stack[a][1])
      BY <1>1, <2>1 DEF Carried
    <2> QED BY <2>1, <2>2, MentionedIs
  <1>2. ASSUME At(a) = "sweep" PROVE Arg(a) \subseteq Mentioned
    <2>1. 1 \in DOMAIN stack[a] /\ At(a) = stack[a][1].at /\ Arg(a) = stack[a][1].x
      BY <1>0, <1>2, Top
    <2>2. Carried(stack[a][1]) = Arg(a)
      BY <1>2, <2>1 DEF Carried
    <2> QED BY <2>1, <2>2, MentionedIs
  <1> QED BY <1>1, <1>2, MentionedIs


(***************************************************************************)
(* Steps that leave the calls alone                                        *)
(***************************************************************************)

\* A frame of a call stays, or goes on in the same way.
Continues(a, fs, n) ==
  \A i \in DOMAIN fs :
    /\ fs[i].at \in Sending =>
         i = 1 /\ n = 1 /\ stack[a][1].at \in Sending /\ fs[i].x = stack[a][1].x
    /\ fs[i].at \in Ending =>
         i = 1 /\ n = 1 /\ stack[a][1].at \in Ending /\ fs[i].x = stack[a][1].x

\* Where a frame of a call was before the step
LEMMA CameFrom ==
  ASSUME TypeOK, NEW a \in Actors, NEW fs, NEW n, Shape(a, fs, n), n \in {0, 1},
         Continues(a, fs, n),
         NEW b \in Actors, NEW i \in DOMAIN stack'[b],
         stack'[b][i].at \in Sending \cup Ending
  PROVE  \E j \in DOMAIN stack[b] :
           /\ stack[b][j].x = stack'[b][i].x
           /\ stack'[b][i].at \in Sending => stack[b][j].at \in Sending
           /\ stack'[b][i].at \in Ending => stack[b][j].at \in Ending
           /\ i = IF b = a THEN (IF i \in DOMAIN fs THEN 1 ELSE j - n + Len(fs)) ELSE j
           /\ b = a /\ i \in DOMAIN fs => j = 1 /\ n = 1
           /\ b = a /\ i \notin DOMAIN fs => j > n
  <1>0. StackOK
    BY TypeParts
  <1>1. CASE b = a /\ i \in DOMAIN fs
    <2>1. stack'[b][i] = fs[i]
      BY <1>0, <1>1, FramesAfter
    <2>2. i = 1 /\ n = 1 /\ fs[i].x = stack[a][1].x
      BY <1>1, <2>1 DEF Continues
    <2>3. 1 \in DOMAIN stack[a]
      BY <1>0, <2>2, ShapeFacts
    <2> QED BY <1>1, <2>1, <2>2, <2>3 DEF Continues
  <1>2. CASE ~(b = a /\ i \in DOMAIN fs)
    <2>1. PICK j \in DOMAIN stack[b] :
            /\ stack'[b][i] = stack[b][j]
            /\ b = a => j > n /\ i = j - n + Len(fs)
            /\ b # a => i = j
      BY <1>0, <1>2, FramesAfter
    <2> QED BY <1>2, <2>1
  <1> QED BY <1>1, <1>2

LEMMA CallKept ==
  ASSUME TypeOK, CallInv, NEW a \in Actors, NEW fs, NEW n, Shape(a, fs, n), n \in {0, 1},
         UNCHANGED <<kind, key, queue, ends>>, Continues(a, fs, n)
  PROVE  CallInv'
  <1>0. StackOK
    BY TypeParts
  <1>1. ASSUME NEW b \in Actors, NEW i \in DOMAIN stack'[b]
        PROVE  /\ stack'[b][i].at \in Sending => key'[stack'[b][i].x] # None
               /\ stack'[b][i].at \in Ending => ends'[stack'[b][i].x] = 1
    <2>1. CASE stack'[b][i].at \in Sending \cup Ending
      <3>1. PICK j \in DOMAIN stack[b] :
              /\ stack[b][j].x = stack'[b][i].x
              /\ stack'[b][i].at \in Sending => stack[b][j].at \in Sending
              /\ stack'[b][i].at \in Ending => stack[b][j].at \in Ending
        BY <2>1, CameFrom
      <3> QED BY <3>1 DEF CallInv
    <2> QED BY <2>1
  <1>2. ASSUME NEW b \in Actors, NEW c \in Actors,
               NEW i \in DOMAIN stack'[b], NEW k \in DOMAIN stack'[c],
               stack'[b][i].at \in Sending \cup Ending,
               stack'[c][k].at \in Sending \cup Ending,
               stack'[b][i].x = stack'[c][k].x
        PROVE  b = c /\ i = k
    <2>1. PICK j \in DOMAIN stack[b] :
            /\ stack[b][j].x = stack'[b][i].x
            /\ stack[b][j].at \in Sending \cup Ending
            /\ i = IF b = a THEN (IF i \in DOMAIN fs THEN 1 ELSE j - n + Len(fs)) ELSE j
            /\ b = a /\ i \in DOMAIN fs => j = 1 /\ n = 1
            /\ b = a /\ i \notin DOMAIN fs => j > n
      BY <1>2, CameFrom
    <2>2. PICK l \in DOMAIN stack[c] :
            /\ stack[c][l].x = stack'[c][k].x
            /\ stack[c][l].at \in Sending \cup Ending
            /\ k = IF c = a THEN (IF k \in DOMAIN fs THEN 1 ELSE l - n + Len(fs)) ELSE l
            /\ c = a /\ k \in DOMAIN fs => l = 1 /\ n = 1
            /\ c = a /\ k \notin DOMAIN fs => l > n
      BY <1>2, CameFrom
    <2>3. b = c /\ j = l
      BY <1>2, <2>1, <2>2 DEF CallInv
    <2> QED BY <2>1, <2>2, <2>3
  <1> QED BY <1>1, <1>2 DEF CallInv

LEMMA SlotKept ==
  ASSUME TypeOK, SlotInv, NEW a \in Actors, NEW fs, NEW n, Shape(a, fs, n), n \in {0, 1},
         UNCHANGED <<slot, cell>>, n = 1 => stack[a][1].at # "setIdle"
  PROVE  SlotInv'
  <1>0. StackOK
    BY TypeParts
  <1>1. ASSUME NEW r \in Calls, NEW b \in Actors, NEW i \in DOMAIN stack[b],
               stack[b][i] = F("setIdle", r)
        PROVE  \E c \in Actors : \E j \in DOMAIN stack'[c] : stack'[c][j] = F("setIdle", r)
    <2>1. b = a => i > n
      <3>1. stack[b][i].at = "setIdle"
        BY <1>1 DEF F
      <3> QED BY <1>0, <3>1, ShapeFacts
    <2> QED BY <1>0, <1>1, <2>1, FramesAfter
  <1> QED BY <1>1 DEF SlotInv


LEMMA GivenKept ==
  ASSUME UNCHANGED <<key, ends, seq_num, req_id_seq>>
  PROVE  \A k, v : Given(k, v)' <=> Given(k, v)
  <1>1. NextId' = NextId /\ Issued' = Issued
    BY DEF NextId, Issued
  <1>2. \A v : Age(v)' = Age(v)
    BY <1>1 DEF Age
  <1> QED BY <1>1, <1>2 DEF Given

\* What a call waits for stays where it is, or is taken on.
LEMMA PendingKept ==
  ASSUME TypeOK, NEW a \in Actors, NEW fs, NEW n, Shape(a, fs, n), n \in {0, 1},
         NEW q \in Calls, ItemOf(q)' = ItemOf(q), Pending(q),
         ItemOf(q) \in wis \cup Range(pending_ev) => Pending(q)',
         n = 1 /\ Bears(stack[a][1], q) => Pending(q)'
  PROVE  Pending(q)'
  <1>0. StackOK
    BY TypeParts
  <1>1. ASSUME NEW b \in Actors, NEW j \in DOMAIN stack[b], Bears(stack[b][j], q),
               b = a => j > n
        PROVE  Pending(q)'
    <2>1. PICK i \in DOMAIN stack'[b] : stack'[b][i] = stack[b][j]
      BY <1>0, <1>1, FramesAfter
    <2> QED BY <1>1, <2>1 DEF Pending, Bears, Tells
  <1>2. \A j \in DOMAIN stack[a] : j > n \/ (n = 1 /\ j = 1)
    BY <1>0, ShapeFacts
  <1> QED BY <1>1, <1>2 DEF Pending

LEMMA WayKept ==
  ASSUME TypeOK, NEW a \in Actors, NEW fs, NEW n, Shape(a, fs, n), n \in {0, 1},
         NEW q \in Calls, ItemOf(q)' = ItemOf(q), OnItsWay(q),
         ItemOf(q) \in Range(pending_ev) => OnItsWay(q)',
         n = 1 /\ Tells(stack[a][1], q) => OnItsWay(q)'
  PROVE  OnItsWay(q)'
  <1>0. StackOK
    BY TypeParts
  <1>1. ASSUME NEW b \in Actors, NEW j \in DOMAIN stack[b], Tells(stack[b][j], q),
               b = a => j > n
        PROVE  OnItsWay(q)'
    <2>1. PICK i \in DOMAIN stack'[b] : stack'[b][i] = stack[b][j]
      BY <1>0, <1>1, FramesAfter
    <2> QED BY <1>1, <2>1 DEF OnItsWay, Tells
  <1>2. \A j \in DOMAIN stack[a] : j > n \/ (n = 1 /\ j = 1)
    BY <1>0, ShapeFacts
  <1> QED BY <1>1, <1>2 DEF OnItsWay

\* A new frame has the call, or tells the client of it.
LEMMA NewFrame ==
  ASSUME TypeOK, NEW a \in Actors, NEW fs, NEW n, Shape(a, fs, n),
         NEW q \in Calls, ItemOf(q)' = ItemOf(q), NEW i \in DOMAIN fs
  PROVE  /\ Bears(fs[i], q) => Pending(q)'
         /\ Tells(fs[i], q) => OnItsWay(q)'
  <1>0. StackOK
    BY TypeParts
  <1>1. i \in DOMAIN stack'[a] /\ stack'[a][i] = fs[i]
    BY <1>0, FramesAfter
  <1> QED BY <1>1 DEF Pending, OnItsWay, Bears, Tells

LEMMA WayPends ==
  ASSUME NEW q
  PROVE  OnItsWay(q)' => Pending(q)'
  BY DEF OnItsWay, Pending, Bears

\* An item like w is about.
Known(w) == \E v \in Mentioned : v.kind # "net" /\ Told(v) = Told(w)

\* The item w comes from the call that a has sent.
Sent(a, fs, n, w) ==
  /\ n = 1 /\ stack[a][1].at \in Sending /\ w = ItemOf(stack[a][1].x)
  /\ \A i \in DOMAIN fs : fs[i].at \notin Sending

LEMMA CarryKept ==
  ASSUME TypeOK, CallInv, IdInv, CarryInv,
         NEW a \in Actors, NEW fs, NEW n, Shape(a, fs, n), n \in {0, 1},
         UNCHANGED <<kind, key, ends, seq_num, req_id_seq>>, Continues(a, fs, n),
         \A w \in wis' \cup Range(pending_ev') : w.kind # "net" => Known(w) \/ Sent(a, fs, n, w),
         \A i \in DOMAIN fs : \A w \in Carried(fs[i]) :
           w.kind # "net" => Known(w) \/ Sent(a, fs, n, w),
         \A q \in Calls : key[q] # None =>
           /\ ItemOf(q) \in wis \cup Range(pending_ev) => Pending(q)'
           /\ n = 1 /\ Bears(stack[a][1], q) => Pending(q)'
           /\ ItemOf(q) \in Range(pending_ev) => OnItsWay(q)'
           /\ n = 1 /\ Tells(stack[a][1], q) => OnItsWay(q)'
           /\ \A i \in DOMAIN fs :
                fs[i].at = "drop" /\ Names(fs[i].x, q) => OnItsWay(q)'
  PROVE  IdInv' /\ CarryInv'
  <1>0. StackOK
    BY TypeParts
  <1>1. \A q \in Calls : ItemOf(q)' = ItemOf(q)
    BY DEF ItemOf
  <1>2. ASSUME NEW w \in Mentioned', w.kind # "net"
        PROVE  Known(w) \/ Sent(a, fs, n, w)
    <2>1. CASE w \in Mentioned
      BY <1>2, <2>1 DEF Known
    <2>2. CASE w \in wis' \/ w \in Range(pending_ev')
      BY <1>2, <2>2
    <2> QED BY <1>2, <2>1, <2>2, MentionedAfter
  <1>3. n = 1 => 1 \in DOMAIN stack[a] /\ stack[a][1] \in Frames
    BY <1>0, ShapeFacts, StackLen
  <1>4. IdInv'
    <2>1. ASSUME NEW w \in Mentioned', w.kind # "net"
          PROVE  Given(w.kind, w.val)
      <3>1. ASSUME NEW v \in Mentioned, v.kind # "net", Told(v) = Told(w)
            PROVE  Given(w.kind, w.val)
        <4>1. Given(v.kind, v.val)
          BY <3>1 DEF IdInv
        <4> QED BY <3>1, <4>1, ToldFacts DEF Given
      <3>2. ASSUME Sent(a, fs, n, w) PROVE Given(w.kind, w.val)
        <4> DEFINE r == stack[a][1].x
        <4>1. r \in Calls /\ key[r] # None /\ w = ItemOf(r)
          BY <1>3, <3>2, FrameArg DEF Sent, CallInv
        <4>2. Given(kind[r], key[r])
          BY <4>1 DEF IdInv
        <4> QED BY <4>1, <4>2, ItemFacts
      <3> QED BY <1>2, <2>1, <3>1, <3>2 DEF Known
    <2> QED BY <2>1, GivenKept DEF IdInv
  <1>5. ASSUME NEW q \in Calls, key'[q] # None PROVE Pending(q)'
    <2>1. Pending(q) /\ key[q] # None
      BY <1>5 DEF CarryInv
    <2> QED BY <1>1, <2>1, PendingKept
  <1>6. ASSUME NEW b \in Actors, NEW i \in DOMAIN stack'[b], stack'[b][i].at \in Sending,
               NEW w \in Mentioned', NEW r, r = stack'[b][i].x
        PROVE  ~Names(w, r)'
    <2>1. PICK j \in DOMAIN stack[b] :
            /\ stack[b][j].x = r /\ stack[b][j].at \in Sending
            /\ b = a /\ i \in DOMAIN fs => j = 1 /\ n = 1
            /\ b = a /\ i \notin DOMAIN fs => j > n
      BY <1>6, CameFrom
    <2>2. r \in Calls /\ key[r] # None
      BY <1>0, <2>1, StackLen, FrameArg DEF CallInv
    <2>3. SUFFICES ASSUME w.kind # "net", Told(w) = ItemOf(r) PROVE FALSE
      BY <1>1, <2>2 DEF Names
    <2>4. ~Known(w)
      <3>1. ASSUME NEW v \in Mentioned, v.kind # "net", Told(v) = Told(w) PROVE FALSE
        <4>1. Names(v, stack[b][j].x)
          BY <2>1, <2>3, <3>1 DEF Names
        <4> QED BY <2>1, <4>1 DEF CarryInv
      <3> QED BY <3>1 DEF Known
    <2>5. Sent(a, fs, n, w)
      BY <1>2, <2>3, <2>4
    <2> DEFINE s == stack[a][1].x
    <2>6. s \in Calls /\ w = ItemOf(s) /\ n = 1 /\ stack[a][1].at \in Sending
      BY <1>3, <2>5, FrameArg DEF Sent
    <2>7. ItemOf(s) = ItemOf(r)
      BY <2>3, <2>6, ItemFacts
    <2>8. kind[s] = kind[r] /\ key[s] = key[r]
      BY <2>2, <2>6, <2>7, ItemFacts
    <2>9. s = r
      BY <2>2, <2>6, <2>8 DEF IdInv
    <2>10. b = a /\ j = 1
      BY <1>3, <2>1, <2>6, <2>9 DEF CallInv
    <2>11. i \in DOMAIN fs /\ fs[i].at \in Sending
      <3>1. i \in DOMAIN fs
        BY <2>1, <2>6, <2>10
      <3>2. stack'[a][i] = fs[i]
        BY <1>0, <3>1, FramesAfter
      <3> QED BY <1>6, <2>10, <3>1, <3>2
    <2> QED BY <2>5, <2>11 DEF Sent
  <1>7. ASSUME NEW b \in Actors, NEW i \in DOMAIN stack'[b], stack'[b][i].at = "drop",
               NEW q \in Calls, key'[q] # None, NEW v, v = stack'[b][i].x, Names(v, q)'
        PROVE  OnItsWay(q)'
    <2>1. key[q] # None /\ stack'[b][i].x.kind # "net" /\ Told(stack'[b][i].x) = ItemOf(q)
      BY <1>1, <1>7 DEF Names, Told
    <2>2. CASE b = a /\ i \in DOMAIN fs /\ stack'[b][i] = fs[i]
      BY <1>7, <2>1, <2>2 DEF Names
    <2>3. ASSUME NEW j \in DOMAIN stack[b], stack'[b][i] = stack[b][j]
          PROVE  OnItsWay(q)'
      <3>1. OnItsWay(q)
        BY <1>7, <2>1, <2>3 DEF CarryInv, Names
      <3> QED BY <1>1, <2>1, <3>1, WayKept
    <2> QED BY <1>0, <2>2, <2>3, FramesAfter
  <1>8. CarryInv'
    <2>1. \A b \in Actors : \A i \in DOMAIN stack'[b] : stack'[b][i].at \in Sending =>
            \A w \in Mentioned' :
              ~(w.kind # "net" /\ Told(w) = Item(kind'[stack'[b][i].x], key'[stack'[b][i].x]))
      BY <1>6 DEF Names, ItemOf
    <2>2. \A b \in Actors : \A i \in DOMAIN stack'[b] : stack'[b][i].at = "drop" =>
            \A q \in Calls :
              /\ key'[q] # None
              /\ stack'[b][i].x.kind # "net" /\ Told(stack'[b][i].x) = Item(kind'[q], key'[q])
              => OnItsWay(q)'
      BY <1>7 DEF Names, ItemOf
    <2> QED BY <1>5, <2>1, <2>2 DEF CarryInv, Names, ItemOf
  <1> QED BY <1>4, <1>8


LEMMA CallsKept ==
  ASSUME TypeOK, CallsInv,
         NEW a \in Actors, NEW fs, NEW n, Shape(a, fs, n), n \in {0, 1},
         UNCHANGED <<kind, slot, cell, queue, key, ends, seq_num, req_id_seq>>,
         Continues(a, fs, n), n = 1 => stack[a][1].at # "setIdle",
         \A w \in wis' \cup Range(pending_ev') : w.kind # "net" => Known(w) \/ Sent(a, fs, n, w),
         \A i \in DOMAIN fs : \A w \in Carried(fs[i]) :
           w.kind # "net" => Known(w) \/ Sent(a, fs, n, w),
         \A q \in Calls : key[q] # None =>
           /\ ItemOf(q) \in wis \cup Range(pending_ev) => Pending(q)'
           /\ n = 1 /\ Bears(stack[a][1], q) => Pending(q)'
           /\ ItemOf(q) \in Range(pending_ev) => OnItsWay(q)'
           /\ n = 1 /\ Tells(stack[a][1], q) => OnItsWay(q)'
           /\ \A i \in DOMAIN fs :
                fs[i].at = "drop" /\ Names(fs[i].x, q) => OnItsWay(q)'
  PROVE  CallsInv'
  <1>1. CallInv /\ SlotInv /\ IdInv /\ CarryInv
    BY DEF CallsInv
  <1>2. CallInv'
    BY <1>1, CallKept
  <1>3. SlotInv'
    BY <1>1, SlotKept
  <1>4. IdInv' /\ CarryInv'
    BY <1>1, CarryKept
  <1> QED BY <1>2, <1>3, <1>4 DEF CallsInv

\* What waits, waits on.
LEMMA WaitsOn ==
  ASSUME TypeOK, NEW q \in Calls, ItemOf(q)' = ItemOf(q)
  PROVE  /\ ItemOf(q) \in wis' \cup Range(pending_ev') => Pending(q)'
         /\ ItemOf(q) \in Range(pending_ev') => OnItsWay(q)'
  BY DEF Pending, OnItsWay

LEMMA KnownItems ==
  /\ \A w \in wis : w.kind # "net" => Known(w)
  /\ \A w \in Range(pending_ev) : w.kind # "net" => Known(w)
  BY MentionedIs DEF Known

\* A frame that has nothing to do with a call
NoCall(f) ==
  f.at \notin Sending \cup Ending \cup {"drop", "sweep"} /\ \A w \in Carried(f) : w.kind = "net"

LEMMA NoCallBears ==
  ASSUME TypeOK, NEW q \in Calls, NEW f, NoCall(f)
  PROVE  ~Bears(f, q) /\ ~Tells(f, q)
  <1>1. ~Tells(f, q)
    <2> SUFFICES ASSUME Tells(f, q) PROVE FALSE
      OBVIOUS
    <2>1. f.x = ItemOf(q) /\ f.x \in Carried(f)
      BY DEF Tells, Carried
    <2> QED BY <2>1, ItemFacts DEF NoCall
  <1> QED BY <1>1 DEF Bears, NoCall

LEMMA CallsQuiet ==
  ASSUME TypeOK, CallsInv,
         NEW a \in Actors, NEW fs, NEW n, Shape(a, fs, n), n \in {0, 1},
         UNCHANGED <<kind, slot, cell, queue, key, ends, seq_num, req_id_seq, wis, pending_ev>>,
         n = 1 => NoCall(stack[a][1]),
         \A i \in DOMAIN fs : NoCall(fs[i])
  PROVE  CallsInv'
  <1>1. Continues(a, fs, n) /\ (n = 1 => stack[a][1].at # "setIdle")
    BY DEF Continues, NoCall, Ending
  <1>2. \A q \in Calls : ItemOf(q)' = ItemOf(q)
    BY DEF ItemOf
  <1>3. \A w \in wis' \cup Range(pending_ev') : w.kind # "net" => Known(w) \/ Sent(a, fs, n, w)
    BY KnownItems
  <1>4. \A i \in DOMAIN fs : \A w \in Carried(fs[i]) :
          w.kind # "net" => Known(w) \/ Sent(a, fs, n, w)
    BY DEF NoCall
  <1>5. \A q \in Calls : key[q] # None =>
          /\ ItemOf(q) \in wis \cup Range(pending_ev) => Pending(q)'
          /\ n = 1 /\ Bears(stack[a][1], q) => Pending(q)'
          /\ ItemOf(q) \in Range(pending_ev) => OnItsWay(q)'
          /\ n = 1 /\ Tells(stack[a][1], q) => OnItsWay(q)'
          /\ \A i \in DOMAIN fs :
               fs[i].at = "drop" /\ Names(fs[i].x, q) => OnItsWay(q)'
    BY <1>2, WaitsOn, NoCallBears DEF NoCall
  <1> QED BY <1>1, <1>3, <1>4, <1>5, CallsKept

LEMMA CallsSame ==
  ASSUME CallsInv,
         UNCHANGED <<kind, stack, slot, cell, queue, key, ends, seq_num, req_id_seq,
                     wis, pending_ev>>
  PROVE  CallsInv'
  <1>1. Mentioned' = Mentioned
    BY DEF Mentioned
  <1>2. CallInv' /\ SlotInv'
    BY DEF CallsInv, CallInv, SlotInv
  <1>3. IdInv'
    BY <1>1, GivenKept DEF CallsInv, IdInv
  <1>4. CarryInv'
    BY <1>1 DEF CallsInv, CarryInv, Pending, OnItsWay, Bears, Tells, Names, ItemOf
  <1> QED BY <1>2, <1>3, <1>4 DEF CallsInv


LEMMA NoCallFrames ==
  /\ \A f : f.at \in {"walk", "polling", "exit", "join", "destroy", "handler", "switch"}
       => NoCall(f)
  /\ \A f : f.at \in {"deliver", "queueEvent"} /\ f.x.kind = "net" => NoCall(f)
  BY DEF NoCall, Carried, Sending, Ending

LEMMA NoCallMade ==
  /\ \A at, x : at \in {"walk", "polling", "exit", "join", "destroy", "handler", "switch"}
       => NoCall(F(at, x))
  /\ \A e : NoCall(Tell(Item("net", e)))
  <1>1. \A at, x : F(at, x).at = at /\ F(at, x).x = x
    BY DEF F
  <1>2. \A e : Tell(Item("net", e)).at \in {"deliver", "queueEvent"}
               /\ Tell(Item("net", e)).x.kind = "net"
    BY DEF Tell, F, Item
  <1> QED BY <1>1, <1>2, NoCallFrames

\* A step that leaves a function without a call for another one, or for none
LEMMA CallsGoto ==
  ASSUME TypeOK, CallsInv, NEW a \in Actors, NEW n \in {0, 1}, NEW f,
         Shape(a, <<>>, n) \/ (NoCall(f) /\ Shape(a, <<f>>, n)),
         n = 1 => NoCall(stack[a][1]),
         UNCHANGED <<kind, slot, cell, queue, key, ends, seq_num, req_id_seq, wis, pending_ev>>
  PROVE  CallsInv'
  <1>1. DOMAIN <<>> = {} /\ DOMAIN <<f>> = {1} /\ <<f>>[1] = f
    OBVIOUS
  <1>2. CASE Shape(a, <<>>, n)
    BY <1>1, <1>2, CallsQuiet
  <1>3. CASE NoCall(f) /\ Shape(a, <<f>>, n)
    <2> DEFINE fs == <<f>>
    <2>1. Shape(a, fs, n) /\ \A i \in DOMAIN fs : NoCall(fs[i])
      BY <1>1, <1>3
    <2> HIDE DEF fs
    <2> QED BY <2>1, CallsQuiet
  <1> QED BY <1>2, <1>3

LEMMA CallsPair ==
  ASSUME TypeOK, CallsInv, NEW a \in Actors, NEW f, NEW g, NoCall(f), NoCall(g),
         Shape(a, <<f, g>>, 0),
         UNCHANGED <<kind, slot, cell, queue, key, ends, seq_num, req_id_seq, wis, pending_ev>>
  PROVE  CallsInv'
  <1> DEFINE fs == <<f, g>>
  <1>1. Shape(a, fs, 0) /\ \A i \in DOMAIN fs : NoCall(fs[i])
    OBVIOUS
  <1> HIDE DEF fs
  <1> QED BY <1>1, CallsQuiet

\* Events, handlers, and the ends of the worker and of the client
LEMMA CallsEvents ==
  ASSUME TypeOK, LockInv, CallsInv, NEW a \in Actors,
         \/ FireEvent(a) \/ Walk(a) \/ EndHandler(a) \/ SwitchStep(a)
         \/ Exit(a) \/ Join(a) \/ Destroy(a)
  PROVE  CallsInv'
  <1>1. /\ UNCHANGED <<kind, slot, cell, queue, key, ends, seq_num, req_id_seq, wis, pending_ev>>
        /\ \/ At(a) \in {"walk", "exit", "join", "destroy", "handler", "switch"}
           \/ At(a) = "deliver" /\ Arg(a).kind = "net"
    BY DEF FireEvent, Walk, EndHandler, SwitchStep, Exit, Join, Destroy, setup, memVars,
           evVars, trVars
  <1>2. NoCall(stack[a][1])
    <2>1. At(a) = stack[a][1].at /\ Arg(a) = stack[a][1].x
      BY <1>1, TopRole
    <2> QED BY <1>1, <2>1, NoCallFrames
  <1>3. CASE Join(a)
    <2>1. PICK fs : /\ Shape(a, fs, 1)
                    /\ \A i \in DOMAIN fs : fs[i].at \in {"polling", "destroy"}
      BY <1>3, LockJoin
    <2>2. \A i \in DOMAIN fs : NoCall(fs[i])
      BY <2>1, NoCallFrames
    <2> QED BY <1>1, <1>2, <2>1, <2>2, CallsQuiet
  <1>4. CASE SwitchStep(a)
    <2> DEFINE f == Tell(Item("net", Switches[Arg(a)].event))
    <2>1. Shape(a, <<>>, 1) \/ Shape(a, <<f>>, 1)
      BY <1>4, StepMoves
    <2>2. NoCall(f)
      BY NoCallMade
    <2> HIDE DEF f
    <2> QED BY <1>1, <1>2, <2>1, <2>2, CallsGoto
  <1>5. CASE FireEvent(a)
    <2>1. Shape(a, <<F("walk", None)>>, 1)
      BY <1>5, StepMoves
    <2> QED BY <1>1, <1>2, <2>1, NoCallMade, CallsGoto
  <1>6. CASE Walk(a) \/ EndHandler(a)
    <2>1. \/ UNCHANGED stack
          \/ Shape(a, <<>>, 1)
          \/ \E h \in Range(handlers) : Shape(a, <<F("handler", h)>>, 1)
      BY <1>6, WalkMove
    <2>2. CASE UNCHANGED stack
      BY <1>1, <2>2, CallsSame
    <2>3. CASE Shape(a, <<>>, 1)
      BY <1>1, <1>2, <2>3, CallsGoto
    <2>4. ASSUME NEW h \in Range(handlers), Shape(a, <<F("handler", h)>>, 1)
          PROVE  CallsInv'
      BY <1>1, <1>2, <2>4, NoCallMade, CallsGoto
    <2> QED BY <2>1, <2>2, <2>3, <2>4
  <1>7. CASE Exit(a) \/ Destroy(a)
    <2>1. UNCHANGED stack \/ Shape(a, <<>>, 1)
      BY <1>7, StepMoves
    <2> QED BY <1>1, <1>2, <2>1, CallsSame, CallsGoto
  <1> QED BY <1>3, <1>4, <1>5, <1>6, <1>7

\* The calls of the API that do not issue anything, and a push
LEMMA CallsApi ==
  ASSUME TypeOK, CallsInv,
         \/ \E a \in Actors :
              \/ \E h \in Handlers : AddHandler(a, h) \/ RemoveHandler(a, h)
              \/ \E op \in DOMAIN Switches : Switch(a, op)
              \/ Poll(a) \/ Cleanup(a)
         \/ Push \/ Reconnected
  PROVE  CallsInv'
  <1>1. UNCHANGED <<kind, slot, cell, queue, key, ends, seq_num, req_id_seq, wis, pending_ev>>
    BY DEF AddHandler, RemoveHandler, Switch, Poll, Cleanup, Push, Reconnected, setup,
           memVars, evVars, trVars
  <1>2. CASE UNCHANGED stack
    BY <1>1, <1>2, CallsSame
  <1>3. ASSUME NEW a \in Actors, NEW op \in DOMAIN Switches, Switch(a, op)
        PROVE  CallsInv'
    <2> DEFINE f == F("polling", None)
               g == F("switch", op)
    <2>1. Shape(a, <<f, g>>, 0) \/ Shape(a, <<g>>, 0)
      BY <1>3, CallMoves
    <2>2. NoCall(f) /\ NoCall(g)
      BY NoCallMade
    <2> HIDE DEF f, g
    <2> QED BY <1>1, <2>1, <2>2, CallsPair, CallsGoto
  <1>4. ASSUME NEW a \in Actors, Poll(a) \/ Cleanup(a) PROVE CallsInv'
    <2>1. Shape(a, <<F("polling", None)>>, 0) \/ Shape(a, <<F("join", None)>>, 0)
      BY <1>4, CallMoves
    <2> QED BY <1>1, <2>1, NoCallMade, CallsGoto
  <1>5. CASE Push
    <2>1. Shape(Worker, <<Tell(Item("net", "PUSH"))>>, 0) /\ Worker \in Actors
      BY <1>5, WorkerMoves DEF Actors
    <2> QED BY <1>1, <2>1, NoCallMade, CallsGoto
  <1> QED BY <1>2, <1>3, <1>4, <1>5 DEF AddHandler, RemoveHandler, Reconnected


(***************************************************************************)
(* Steps that pass an item on                                              *)
(***************************************************************************)

\* A step that replaces the innermost frame of a by at most one
LEMMA OneFrame ==
  ASSUME TypeOK, CallsInv, NEW a \in Actors, At(a) # "idle", At(a) # "setIdle",
         NEW f, Shape(a, <<f>>, 1), f.at # "drop",
         UNCHANGED <<kind, slot, cell, queue, key, ends, seq_num, req_id_seq, wis, pending_ev>>,
         f.at \in Sending => At(a) \in Sending /\ f.x = Arg(a),
         f.at \in Ending => At(a) \in Ending /\ f.x = Arg(a),
         \A w \in Carried(f) : w.kind # "net" =>
           \/ Known(w)
           \/ f.at \notin Sending /\ At(a) \in Sending /\ w = ItemOf(Arg(a)),
         \A q \in Calls : key[q] # None =>
           /\ Bears(stack[a][1], q) => Bears(f, q)
           /\ Tells(stack[a][1], q) => Tells(f, q)
  PROVE  CallsInv'
  <1>0. StackOK /\ 1 \in DOMAIN stack[a] /\ At(a) = stack[a][1].at /\ Arg(a) = stack[a][1].x
    BY TypeParts, Top
  <1> DEFINE fs == <<f>>
  <1>1. Shape(a, fs, 1) /\ DOMAIN fs = {1} /\ fs[1] = f
    OBVIOUS
  <1> HIDE DEF fs
  <1>2. \A q \in Calls : ItemOf(q)' = ItemOf(q)
    BY DEF ItemOf
  <1>3. Continues(a, fs, 1)
    BY <1>0, <1>1 DEF Continues
  <1>4. \A w \in wis' \cup Range(pending_ev') : w.kind # "net" => Known(w) \/ Sent(a, fs, 1, w)
    BY KnownItems
  <1>5. \A i \in DOMAIN fs : \A w \in Carried(fs[i]) :
          w.kind # "net" => Known(w) \/ Sent(a, fs, 1, w)
    BY <1>0, <1>1 DEF Sent
  <1>6. \A q \in Calls : key[q] # None =>
          /\ ItemOf(q) \in wis \cup Range(pending_ev) => Pending(q)'
          /\ 1 = 1 /\ Bears(stack[a][1], q) => Pending(q)'
          /\ ItemOf(q) \in Range(pending_ev) => OnItsWay(q)'
          /\ 1 = 1 /\ Tells(stack[a][1], q) => OnItsWay(q)'
          /\ \A i \in DOMAIN fs :
               fs[i].at = "drop" /\ Names(fs[i].x, q) => OnItsWay(q)'
    BY <1>1, <1>2, WaitsOn, NewFrame
  <1> QED BY <1>0, <1>1, <1>3, <1>4, <1>5, <1>6, CallsKept

\* A step that leaves the innermost function of a
LEMMA NoFrame ==
  ASSUME TypeOK, CallsInv, NEW a \in Actors, At(a) # "idle", At(a) # "setIdle",
         Shape(a, <<>>, 1),
         UNCHANGED <<kind, slot, cell, queue, key, ends, seq_num, req_id_seq>>,
         \A w \in wis' \cup Range(pending_ev') : w.kind # "net" =>
           Known(w) \/ (At(a) \in Sending /\ w = ItemOf(Arg(a))),
         \A q \in Calls : key[q] # None =>
           /\ ItemOf(q) \in wis \cup Range(pending_ev) => Pending(q)'
           /\ Bears(stack[a][1], q) => Pending(q)'
           /\ ItemOf(q) \in Range(pending_ev) => OnItsWay(q)'
           /\ Tells(stack[a][1], q) => OnItsWay(q)'
  PROVE  CallsInv'
  <1>0. StackOK /\ 1 \in DOMAIN stack[a] /\ At(a) = stack[a][1].at /\ Arg(a) = stack[a][1].x
    BY TypeParts, Top
  <1> DEFINE fs == <<>>
  <1>1. Shape(a, fs, 1) /\ DOMAIN fs = {}
    OBVIOUS
  <1> HIDE DEF fs
  <1>3. Continues(a, fs, 1)
    BY <1>1 DEF Continues
  <1>4. \A w \in wis' \cup Range(pending_ev') : w.kind # "net" => Known(w) \/ Sent(a, fs, 1, w)
    BY <1>0, <1>1 DEF Sent
  <1>5. \A i \in DOMAIN fs : \A w \in Carried(fs[i]) :
          w.kind # "net" => Known(w) \/ Sent(a, fs, 1, w)
    BY <1>1
  <1>6. \A q \in Calls : key[q] # None =>
          /\ ItemOf(q) \in wis \cup Range(pending_ev) => Pending(q)'
          /\ 1 = 1 /\ Bears(stack[a][1], q) => Pending(q)'
          /\ ItemOf(q) \in Range(pending_ev) => OnItsWay(q)'
          /\ 1 = 1 /\ Tells(stack[a][1], q) => OnItsWay(q)'
          /\ \A i \in DOMAIN fs :
               fs[i].at = "drop" /\ Names(fs[i].x, q) => OnItsWay(q)'
    BY <1>1
  <1> QED BY <1>0, <1>1, <1>3, <1>4, <1>5, <1>6, CallsKept

\* A call on its way into the transport
LEMMA CallsSend ==
  ASSUME TypeOK, CallsInv, NEW a \in Actors, SendDummy(a) \/ SendUv(a) \/ Enqueue(a)
  PROVE  CallsInv'
  <1> DEFINE r == Arg(a)
  <1>1. /\ At(a) \in Sending
        /\ UNCHANGED <<kind, slot, cell, queue, key, ends, seq_num, req_id_seq, pending_ev>>
    BY DEF SendDummy, SendUv, Enqueue, Sending, setup, memVars, evVars
  <1>2. /\ stack[a][1].at \in Sending /\ stack[a][1].x = r /\ r \in Calls
        /\ At(a) # "idle" /\ At(a) # "setIdle"
    BY <1>1, TypeParts, Top, FrameArg DEF Sending
  <1>3. \A q \in Calls : /\ Bears(stack[a][1], q) => q = r
                         /\ ~Tells(stack[a][1], q)
    BY <1>2 DEF Bears, Tells, Sending
  <1>4. \A q \in Calls : ItemOf(q)' = ItemOf(q)
    BY <1>1 DEF ItemOf
  <1> HIDE DEF r
  <1>5. CASE SendDummy(a)
    <2> DEFINE f == Tell(ItemOf(r))
    <2>1. ItemOf(r) \in Messages /\ Shape(a, <<f>>, 1) /\ UNCHANGED wis
      BY <1>5, StepMoves DEF SendDummy, trVars, ItemOf, r
    <2>2. f.at \in {"deliver", "queueEvent"} /\ f.x = ItemOf(r)
      BY <2>1, TellFrame
    <2> HIDE DEF f
    <2>3. /\ f.at \notin Sending \cup Ending \cup {"drop"} /\ Carried(f) = {ItemOf(r)}
          /\ Tells(f, r) /\ Bears(f, r)
      BY <2>2 DEF Sending, Ending, Carried, Tells, Bears
    <2> QED BY <1>1, <1>2, <1>3, <2>1, <2>3, OneFrame DEF r
  <1>6. CASE SendUv(a)
    <2>1. /\ UNCHANGED wis
          /\ Shape(a, <<F("enqueue", r)>>, 1) \/ Shape(a, <<F("undo", r)>>, 1)
      BY <1>6, StepMoves DEF SendUv, trVars, r
    <2>2. ASSUME NEW at \in {"enqueue", "undo"}, Shape(a, <<F(at, r)>>, 1) PROVE CallsInv'
      <3> DEFINE f == F(at, r)
      <3>1. /\ f.at \in Sending /\ f.at \notin Ending /\ f.at # "drop" /\ f.x = r
            /\ Carried(f) = {} /\ Bears(f, r) /\ Shape(a, <<f>>, 1)
        BY <2>2 DEF F, Sending, Ending, Carried, Bears
      <3> HIDE DEF f
      <3> QED BY <1>1, <1>2, <1>3, <2>1, <3>1, OneFrame DEF r
    <2> QED BY <2>1, <2>2
  <1>7. CASE Enqueue(a)
    <2>1. Shape(a, <<>>, 1) /\ wis' = wis \cup {ItemOf(r)}
      BY <1>7, StepMoves DEF Enqueue, ItemOf, r
    <2>2. \A w \in wis' \cup Range(pending_ev') : w.kind # "net" =>
            Known(w) \/ (At(a) \in Sending /\ w = ItemOf(Arg(a)))
      BY <1>1, <2>1, KnownItems DEF r
    <2>3. \A q \in Calls : key[q] # None =>
            /\ ItemOf(q) \in wis \cup Range(pending_ev) => Pending(q)'
            /\ Bears(stack[a][1], q) => Pending(q)'
            /\ ItemOf(q) \in Range(pending_ev) => OnItsWay(q)'
            /\ Tells(stack[a][1], q) => OnItsWay(q)'
      BY <1>1, <1>3, <1>4, <2>1, WaitsOn
    <2> QED BY <1>1, <1>2, <2>1, <2>2, <2>3, NoFrame
  <1> QED BY <1>5, <1>6, <1>7


LEMMA RangeAppend ==
  ASSUME NEW S, NEW s \in Seq(S), NEW m \in S
  PROVE  Range(Append(s, m)) = Range(s) \cup {m}
  <1>1. /\ Len(s) \in Nat /\ DOMAIN s = 1..Len(s)
        /\ DOMAIN Append(s, m) = 1..(Len(s) + 1)
        /\ \A i \in 1..Len(s) : Append(s, m)[i] = s[i]
        /\ Append(s, m)[Len(s) + 1] = m
    BY LenProperties, AppendProperties
  <1>2. ASSUME NEW x PROVE x \in Range(Append(s, m)) <=> x \in Range(s) \cup {m}
    <2>1. \A i \in 1..(Len(s) + 1) : i \in 1..Len(s) \/ i = Len(s) + 1
      BY <1>1
    <2>2. \A i \in 1..Len(s) : i \in 1..(Len(s) + 1)
      BY <1>1
    <2>3. Len(s) + 1 \in 1..(Len(s) + 1)
      BY <1>1
    <2> QED BY <1>1, <2>1, <2>2, <2>3 DEF Range
  <1> QED BY <1>2

LEMMA RangeHead ==
  ASSUME NEW S, NEW s \in Seq(S), s # <<>>
  PROVE  /\ Head(s) \in Range(s)
         /\ \A x \in Range(s) : x = Head(s) \/ x \in Range(Tail(s))
         /\ Range(Tail(s)) \subseteq Range(s)
  <1>1. /\ Len(s) \in Nat /\ Len(s) # 0 /\ DOMAIN s = 1..Len(s) /\ Head(s) = s[1]
        /\ Tail(s) \in Seq(S) /\ Len(Tail(s)) = Len(s) - 1
        /\ \A i \in 1..Len(Tail(s)) : Tail(s)[i] = s[i + 1]
        /\ DOMAIN Tail(s) = 1..Len(Tail(s))
    BY LenProperties, EmptySeq, HeadTailProperties
  <1>2. 1 \in DOMAIN s
    BY <1>1
  <1>3. ASSUME NEW i \in DOMAIN s, i # 1 PROVE s[i] \in Range(Tail(s))
    <2>1. i - 1 \in DOMAIN Tail(s) /\ (i - 1) + 1 = i
      BY <1>1, <1>3
    <2>2. Tail(s)[i - 1] = s[i]
      BY <1>1, <2>1
    <2> QED BY <2>1, <2>2 DEF Range
  <1>4. ASSUME NEW i \in DOMAIN Tail(s) PROVE Tail(s)[i] \in Range(s)
    <2>1. i + 1 \in DOMAIN s /\ Tail(s)[i] = s[i + 1]
      BY <1>1
    <2> QED BY <2>1 DEF Range
  <1> QED BY <1>1, <1>2, <1>3, <1>4 DEF Range

\* pending_ev_queue
LEMMA CallsQueue ==
  ASSUME TypeOK, CallsInv, NEW a \in Actors, QueueEvent(a) \/ PollStep(a)
  PROVE  CallsInv'
  <1>1. UNCHANGED <<kind, slot, cell, queue, key, ends, seq_num, req_id_seq, wis>>
    BY DEF QueueEvent, PollStep, setup, memVars, trVars
  <1>2. At(a) \in {"queueEvent", "polling"} /\ pending_ev \in Seq(Messages)
    BY DEF QueueEvent, PollStep, TypeOK
  <1>3. stack[a][1].at = At(a) /\ stack[a][1].x = Arg(a) /\ stack[a][1] \in Frames
    BY <1>2, TypeParts, Top
  <1>4. \A q \in Calls : ItemOf(q)' = ItemOf(q)
    BY <1>1 DEF ItemOf
  <1>5. CASE QueueEvent(a)
    <2> DEFINE m == Arg(a)
    <2>1. At(a) = "queueEvent" /\ pending_ev' = Append(pending_ev, m) /\ Shape(a, <<>>, 1)
      BY <1>5, StepMoves DEF QueueEvent
    <2>2. m \in Messages /\ m \in Mentioned
      BY <1>3, <2>1, FrameArg, MentionedTop
    <2>3. Range(pending_ev') = Range(pending_ev) \cup {m}
      BY <1>2, <2>1, <2>2, RangeAppend
    <2>4. \A q \in Calls : Bears(stack[a][1], q) => ItemOf(q) = m
      BY <1>3, <2>1 DEF Bears, Tells, Sending
    <2>5. \A w \in wis' \cup Range(pending_ev') : w.kind # "net" =>
            Known(w) \/ (At(a) \in Sending /\ w = ItemOf(Arg(a)))
      BY <1>1, <2>2, <2>3, KnownItems DEF Known
    <2>6. \A q \in Calls : key[q] # None =>
            /\ ItemOf(q) \in wis \cup Range(pending_ev) => Pending(q)'
            /\ Bears(stack[a][1], q) => Pending(q)'
            /\ ItemOf(q) \in Range(pending_ev) => OnItsWay(q)'
            /\ Tells(stack[a][1], q) => OnItsWay(q)'
      BY <1>1, <1>4, <2>3, <2>4, WaitsOn DEF Bears
    <2> QED BY <1>1, <2>1, <2>5, <2>6, NoFrame
  <1>6. CASE PollStep(a)
    <2>0. At(a) = "polling"
      BY <1>6 DEF PollStep
    <2>1. CASE UNCHANGED pending_ev /\ Shape(a, <<>>, 1)
      <3>1. NoCall(stack[a][1])
        BY <1>3, <2>0, NoCallFrames
      <3> QED BY <1>1, <2>1, <3>1, CallsGoto
    <2>2. CASE /\ pending_ev # <<>> /\ pending_ev' = Tail(pending_ev)
               /\ Shape(a, <<F("deliver", Head(pending_ev))>>, 0)
      <3> DEFINE m == Head(pending_ev)
                 fs == <<F("deliver", m)>>
      <3>1. /\ DOMAIN fs = {1} /\ fs[1].at = "deliver" /\ fs[1].x = m
            /\ Shape(a, fs, 0)
        BY <2>2 DEF F
      <3>2. /\ m \in Range(pending_ev)
            /\ \A x \in Range(pending_ev) : x = m \/ x \in Range(pending_ev')
            /\ Range(pending_ev') \subseteq Range(pending_ev)
        BY <1>2, <2>2, RangeHead
      <3> HIDE DEF m, fs
      <3>3. Continues(a, fs, 0) /\ Carried(fs[1]) = {m}
        BY <3>1 DEF Continues, Carried, Sending, Ending
      <3>4. \A w \in wis' \cup Range(pending_ev') : w.kind # "net" => Known(w) \/ Sent(a, fs, 0, w)
        BY <1>1, <3>2, KnownItems
      <3>5. \A i \in DOMAIN fs : \A w \in Carried(fs[i]) :
              w.kind # "net" => Known(w) \/ Sent(a, fs, 0, w)
        BY <3>1, <3>2, <3>3, KnownItems
      <3>6. \A q \in Calls : key[q] # None =>
              /\ ItemOf(q) \in wis \cup Range(pending_ev) => Pending(q)'
              /\ 0 = 1 /\ Bears(stack[a][1], q) => Pending(q)'
              /\ ItemOf(q) \in Range(pending_ev) => OnItsWay(q)'
              /\ 0 = 1 /\ Tells(stack[a][1], q) => OnItsWay(q)'
              /\ \A i \in DOMAIN fs :
                   fs[i].at = "drop" /\ Names(fs[i].x, q) => OnItsWay(q)'
        <4>1. \A q \in Calls : m = ItemOf(q) => Tells(fs[1], q) /\ Bears(fs[1], q)
          BY <3>1 DEF Tells, Bears
        <4>2. \A q \in Calls : m = ItemOf(q) => OnItsWay(q)' /\ Pending(q)'
          BY <1>4, <3>1, <4>1, NewFrame
        <4> QED BY <1>1, <1>4, <3>1, <3>2, <4>2, WaitsOn
      <3> QED BY <1>1, <3>1, <3>3, <3>4, <3>5, <3>6, CallsKept
    <2> QED BY <1>6, <2>1, <2>2, PollMove
  <1> QED BY <1>5, <1>6

\* tcp__on_data_recieved has told the client.
LEMMA CallsDrop ==
  ASSUME TypeOK, CallsInv, NEW a \in Actors, Drop(a)
  PROVE  CallsInv'
  <1> DEFINE w == Arg(a)
  <1>1. /\ UNCHANGED <<kind, slot, cell, queue, key, ends, seq_num, req_id_seq, pending_ev>>
        /\ At(a) = "drop" /\ Shape(a, <<>>, 1)
    BY StepMoves DEF Drop, setup, memVars, evVars
  <1>2. /\ stack[a][1].at = "drop" /\ stack[a][1].x = w /\ 1 \in DOMAIN stack[a]
        /\ w \in Messages /\ w.kind = "resp"
    BY <1>1, TypeParts, Top, FrameArg
  <1>3. \A v \in wis : v \in wis' \/ v = w
    BY DEF Drop
  <1>4. ASSUME NEW v \in wis', v \notin wis PROVE Known(v)
    <2>1. w \in wis /\ v = Item("answered", w.val)
      BY <1>4 DEF Drop
    <2>2. Told(v) = Told(w)
      BY <1>2, <2>1 DEF Told, Item
    <2> QED BY <1>2, <2>1, <2>2, MentionedTop DEF Known
  <1> HIDE DEF w
  <1>5. \A q \in Calls : ItemOf(q)' = ItemOf(q)
    BY <1>1 DEF ItemOf
  <1>6. \A q \in Calls : ~Bears(stack[a][1], q) /\ ~Tells(stack[a][1], q)
    BY <1>2 DEF Bears, Tells, Sending
  <1>7. \A v \in wis' \cup Range(pending_ev') : v.kind # "net" =>
          Known(v) \/ (At(a) \in Sending /\ v = ItemOf(Arg(a)))
    BY <1>1, <1>4, KnownItems
  <1>8. ASSUME NEW q \in Calls, key[q] # None, ItemOf(q) \in wis PROVE Pending(q)'
    <2>1. CASE ItemOf(q) \in wis'
      BY <1>5, <2>1, WaitsOn
    <2>2. CASE ItemOf(q) = w
      <3>1. Names(stack[a][1].x, q)
        BY <1>2, <2>2, ItemFacts DEF Names
      <3>2. OnItsWay(q)
        BY <1>2, <1>8, <3>1 DEF CallsInv, CarryInv
      <3>3. ItemOf(q) \in Range(pending_ev) => OnItsWay(q)'
        BY <1>1, <1>5, WaitsOn
      <3>4. OnItsWay(q)'
        BY <1>1, <1>5, <1>6, <3>2, <3>3, WayKept
      <3> QED BY <3>4, WayPends
    <2> QED BY <1>3, <1>8, <2>1, <2>2
  <1>9. \A q \in Calls : key[q] # None =>
          /\ ItemOf(q) \in wis \cup Range(pending_ev) => Pending(q)'
          /\ Bears(stack[a][1], q) => Pending(q)'
          /\ ItemOf(q) \in Range(pending_ev) => OnItsWay(q)'
          /\ Tells(stack[a][1], q) => OnItsWay(q)'
    BY <1>1, <1>5, <1>6, <1>8, WaitsOn
  <1> QED BY <1>1, <1>7, <1>9, NoFrame

\* The client is told of a call that it does not have.
LEMMA CallsUnknown ==
  ASSUME TypeOK, CallsInv, NEW a \in Actors, Deliver(a), Shape(a, <<>>, 1),
         UNCHANGED <<queue, key, ends>>,
         \A r \in queue[Arg(a).kind] : key[r] # Arg(a).val
  PROVE  CallsInv'
  <1>1. /\ UNCHANGED <<kind, slot, cell, queue, key, ends, seq_num, req_id_seq, wis, pending_ev>>
        /\ At(a) = "deliver"
    BY DEF Deliver, setup, evVars, trVars
  <1>2. stack[a][1].at = "deliver" /\ stack[a][1].x = Arg(a)
    BY <1>1, TypeParts, Top
  <1>3. ASSUME NEW q \in Calls, key[q] # None, Bears(stack[a][1], q) PROVE FALSE
    <2>1. Arg(a) = ItemOf(q)
      BY <1>2, <1>3 DEF Bears, Tells, Sending
    <2>2. Arg(a).kind = kind[q] /\ Arg(a).val = key[q]
      BY <2>1, ItemFacts
    <2>3. q \in queue[kind[q]]
      BY <1>3 DEF CallsInv, CallInv
    <2> QED BY <2>2, <2>3
  <1>4. \A q \in Calls : ItemOf(q)' = ItemOf(q)
    BY <1>1 DEF ItemOf
  <1>5. \A q \in Calls : key[q] # None =>
          /\ ItemOf(q) \in wis \cup Range(pending_ev) => Pending(q)'
          /\ Bears(stack[a][1], q) => Pending(q)'
          /\ ItemOf(q) \in Range(pending_ev) => OnItsWay(q)'
          /\ Tells(stack[a][1], q) => OnItsWay(q)'
    BY <1>1, <1>3, <1>4, WaitsOn DEF Bears
  <1> QED BY <1>1, <1>5, KnownItems, NoFrame


\* The worker tells the client of items, with wq_mutex held.
LEMMA CallsSweepStep ==
  ASSUME TypeOK, CallsInv, NEW a \in Actors, SweepStep(a)
  PROVE  CallsInv'
  <1>1. /\ UNCHANGED <<kind, slot, cell, queue, key, ends, seq_num, req_id_seq, wis, pending_ev>>
        /\ At(a) = "sweep"
    BY DEF SweepStep, setup, memVars, evVars, trVars
  <1>2. /\ stack[a][1].at = "sweep" /\ stack[a][1].x = Arg(a)
        /\ Arg(a) \subseteq CallItems /\ Arg(a) \subseteq Mentioned
    BY <1>1, TypeParts, Top, FrameArg, MentionedTop
  <1>3. \A q \in Calls : ItemOf(q)' = ItemOf(q)
    BY <1>1 DEF ItemOf
  <1>4. \A q \in Calls : ~Tells(stack[a][1], q) /\ (Bears(stack[a][1], q) => ItemOf(q) \in Arg(a))
    BY <1>2 DEF Bears, Tells, Sending
  <1>5. \A v \in Arg(a) : v.kind # "net"
    BY <1>2 DEF CallItems
  <1>6. CASE Shape(a, <<>>, 1) /\ Arg(a) = {}
    <2>1. \A q \in Calls : key[q] # None =>
            /\ ItemOf(q) \in wis \cup Range(pending_ev) => Pending(q)'
            /\ Bears(stack[a][1], q) => Pending(q)'
            /\ ItemOf(q) \in Range(pending_ev) => OnItsWay(q)'
            /\ Tells(stack[a][1], q) => OnItsWay(q)'
      BY <1>1, <1>3, <1>4, <1>6, WaitsOn
    <2> QED BY <1>1, <1>6, <2>1, KnownItems, NoFrame
  <1>7. ASSUME NEW w \in Arg(a), Told(w) \in Messages,
               Shape(a, <<Tell(Told(w)), F("sweep", Arg(a) \ {w})>>, 1)
        PROVE  CallsInv'
    <2> DEFINE fs == <<Tell(Told(w)), F("sweep", Arg(a) \ {w})>>
    <2>1. /\ DOMAIN fs = {1, 2} /\ Shape(a, fs, 1)
          /\ fs[1] = Tell(Told(w)) /\ fs[2] = F("sweep", Arg(a) \ {w})
      BY <1>7
    <2> HIDE DEF fs
    <2>2. /\ fs[1].at \in {"deliver", "queueEvent"} /\ fs[1].x = Told(w)
          /\ fs[2].at = "sweep" /\ fs[2].x = Arg(a) \ {w}
      BY <1>7, <2>1, TellFrame DEF F
    <2>3. Continues(a, fs, 1) /\ Carried(fs[1]) = {Told(w)} /\ Carried(fs[2]) = Arg(a) \ {w}
      BY <2>1, <2>2 DEF Continues, Carried, Sending, Ending
    <2>4. \A v \in wis' \cup Range(pending_ev') : v.kind # "net" => Known(v) \/ Sent(a, fs, 1, v)
      BY <1>1, KnownItems
    <2>5. \A i \in DOMAIN fs : \A v \in Carried(fs[i]) :
            v.kind # "net" => Known(v) \/ Sent(a, fs, 1, v)
      <3>1. Told(Told(w)) = Told(w)
        BY DEF Told, Item
      <3>2. Known(Told(w)) /\ \A v \in Arg(a) : Known(v)
        BY <1>2, <1>5, <3>1 DEF Known
      <3> QED BY <2>1, <2>3, <3>2
    <2>6. ASSUME NEW q \in Calls, ItemOf(q) \in Arg(a) PROVE Pending(q)'
      <3>1. Bears(fs[1], q) \/ Bears(fs[2], q)
        <4>1. CASE ItemOf(q) = w
          <5>1. Told(w) = ItemOf(q)
            BY <4>1, ItemFacts
          <5> QED BY <2>2, <5>1 DEF Bears, Tells
        <4>2. CASE ItemOf(q) # w
          BY <2>2, <2>6, <4>2 DEF Bears
        <4> QED BY <4>1, <4>2
      <3> QED BY <1>3, <2>1, <3>1, NewFrame
    <2>7. \A q \in Calls : key[q] # None =>
            /\ ItemOf(q) \in wis \cup Range(pending_ev) => Pending(q)'
            /\ 1 = 1 /\ Bears(stack[a][1], q) => Pending(q)'
            /\ ItemOf(q) \in Range(pending_ev) => OnItsWay(q)'
            /\ 1 = 1 /\ Tells(stack[a][1], q) => OnItsWay(q)'
            /\ \A i \in DOMAIN fs :
                 fs[i].at = "drop" /\ Names(fs[i].x, q) => OnItsWay(q)'
      BY <1>1, <1>3, <1>4, <2>1, <2>2, <2>6, WaitsOn
    <2>8. stack[a][1].at # "setIdle"
      BY <1>2
    <2> QED BY <1>1, <2>1, <2>3, <2>4, <2>5, <2>7, <2>8, CallsKept
  <1> QED BY <1>6, <1>7, SweepMove

\* The worker takes the items I from its queues.
LEMMA CallsTaken ==
  ASSUME TypeOK, CallsInv, NEW fs, Shape(Worker, fs, 0), NEW I \in SUBSET wis,
         wis' = wis \ I, 1 \in DOMAIN fs, fs[1] = F("sweep", I),
         \A i \in DOMAIN fs : i = 1 \/ NoCall(fs[i]),
         UNCHANGED <<kind, slot, cell, queue, key, ends, seq_num, req_id_seq, pending_ev>>
  PROVE  CallsInv'
  <1>0. Worker \in Actors
    BY DEF Actors
  <1>1. \A q \in Calls : ItemOf(q)' = ItemOf(q)
    BY DEF ItemOf
  <1>2. fs[1].at = "sweep" /\ fs[1].x = I /\ Carried(fs[1]) = I
    BY DEF F, Carried
  <1>3. Continues(Worker, fs, 0)
    BY <1>2 DEF Continues, Sending, Ending, NoCall
  <1>4. \A v \in wis' \cup Range(pending_ev') : v.kind # "net" => Known(v) \/ Sent(Worker, fs, 0, v)
    BY KnownItems
  <1>5. \A i \in DOMAIN fs : \A v \in Carried(fs[i]) :
          v.kind # "net" => Known(v) \/ Sent(Worker, fs, 0, v)
    BY <1>2, KnownItems DEF NoCall
  <1>6. ASSUME NEW q \in Calls, ItemOf(q) \in I PROVE Pending(q)'
    <2>1. Bears(fs[1], q)
      BY <1>2, <1>6 DEF Bears
    <2> QED BY <1>0, <1>1, <2>1, NewFrame
  <1>7. \A q \in Calls : key[q] # None =>
          /\ ItemOf(q) \in wis \cup Range(pending_ev) => Pending(q)'
          /\ 0 = 1 /\ Bears(stack[Worker][1], q) => Pending(q)'
          /\ ItemOf(q) \in Range(pending_ev) => OnItsWay(q)'
          /\ 0 = 1 /\ Tells(stack[Worker][1], q) => OnItsWay(q)'
          /\ \A i \in DOMAIN fs :
               fs[i].at = "drop" /\ Names(fs[i].x, q) => OnItsWay(q)'
    BY <1>1, <1>2, <1>6, WaitsOn DEF NoCall
  <1> QED BY <1>0, <1>3, <1>4, <1>5, <1>7, CallsKept

LEMMA CallsWorker ==
  ASSUME TypeOK, CallsInv,
         \/ \E w \in wis : Response(w)
         \/ \E I \in SUBSET wis, reset \in BOOLEAN : Sweep(I, reset)
         \/ CleanupAsync
  PROVE  CallsInv'
  <1>0. /\ Worker \in Actors
        /\ UNCHANGED <<kind, slot, cell, queue, key, ends, seq_num, req_id_seq, pending_ev>>
    BY DEF Actors, Response, Sweep, CleanupAsync, setup, memVars, evVars
  <1>1. ASSUME NEW w \in wis, Response(w) PROVE CallsInv'
    <2>1. /\ w \in CallItems /\ w \in Messages /\ w.kind = "resp" /\ UNCHANGED wis
          /\ Shape(Worker, <<Tell(w), F("drop", w)>>, 0)
      BY <1>1, WorkerMoves DEF Response, trVars
    <2> DEFINE fs == <<Tell(w), F("drop", w)>>
    <2>2. /\ DOMAIN fs = {1, 2} /\ Shape(Worker, fs, 0)
          /\ fs[1] = Tell(w) /\ fs[2] = F("drop", w)
      BY <2>1
    <2> HIDE DEF fs
    <2>3. /\ fs[1].at \in {"deliver", "queueEvent"} /\ fs[1].x = w
          /\ fs[2].at = "drop" /\ fs[2].x = w
      BY <2>1, <2>2, TellFrame DEF F
    <2>4. Continues(Worker, fs, 0) /\ Carried(fs[1]) = {w} /\ Carried(fs[2]) = {w}
      BY <2>2, <2>3 DEF Continues, Carried, Sending, Ending
    <2>5. \A v \in wis' \cup Range(pending_ev') : v.kind # "net" => Known(v) \/ Sent(Worker, fs, 0, v)
      BY <1>0, <2>1, KnownItems
    <2>6. \A i \in DOMAIN fs : \A v \in Carried(fs[i]) :
            v.kind # "net" => Known(v) \/ Sent(Worker, fs, 0, v)
      BY <2>2, <2>4, KnownItems
    <2>7. \A q \in Calls : ItemOf(q)' = ItemOf(q)
      BY <1>0 DEF ItemOf
    <2>8. ASSUME NEW q \in Calls, Names(w, q) PROVE OnItsWay(q)'
      <3>1. w = ItemOf(q)
        BY <2>1, <2>8, MessageMade DEF Names
      <3>2. Tells(fs[1], q)
        BY <2>3, <3>1 DEF Tells
      <3> QED BY <1>0, <2>2, <2>7, <3>2, NewFrame
    <2>9. \A q \in Calls : key[q] # None =>
            /\ ItemOf(q) \in wis \cup Range(pending_ev) => Pending(q)'
            /\ 0 = 1 /\ Bears(stack[Worker][1], q) => Pending(q)'
            /\ ItemOf(q) \in Range(pending_ev) => OnItsWay(q)'
            /\ 0 = 1 /\ Tells(stack[Worker][1], q) => OnItsWay(q)'
            /\ \A i \in DOMAIN fs :
                 fs[i].at = "drop" /\ Names(fs[i].x, q) => OnItsWay(q)'
      BY <1>0, <2>1, <2>2, <2>3, <2>7, <2>8, WaitsOn
    <2> QED BY <1>0, <2>2, <2>4, <2>5, <2>6, <2>9, CallsKept
  <1>2. ASSUME NEW I \in SUBSET wis, NEW reset \in BOOLEAN, Sweep(I, reset) PROVE CallsInv'
    <2> DEFINE f == F("sweep", I)
               fs == <<f>>
    <2>1. Shape(Worker, fs, 0) /\ wis' = wis \ I
      BY <1>2, WorkerMoves DEF Sweep
    <2>2. 1 \in DOMAIN fs /\ fs[1] = f /\ DOMAIN fs = {1}
      OBVIOUS
    <2> HIDE DEF fs
    <2> QED BY <1>0, <2>1, <2>2, CallsTaken
  <1>3. CASE CleanupAsync
    <2> DEFINE f == F("sweep", wis)
               g == F("exit", None)
               fs == <<f, g>>
    <2>1. Shape(Worker, fs, 0) /\ wis' = {}
      BY <1>3, WorkerMoves DEF CleanupAsync
    <2>2. DOMAIN fs = {1, 2} /\ fs[1] = f /\ fs[2] = g
      OBVIOUS
    <2>3. NoCall(g)
      BY NoCallMade
    <2> HIDE DEF fs, g
    <2>4. wis' = wis \ wis
      BY <2>1
    <2> QED BY <1>0, <2>1, <2>2, <2>3, <2>4, CallsTaken
  <1> QED BY <1>1, <1>2, <1>3


(***************************************************************************)
(* A call ends                                                             *)
(***************************************************************************)

\* The callback has returned: route and msg are cleared, then the slot is
\* given back.
LEMMA CallsRelease ==
  ASSUME TypeOK, CallsInv, NEW a \in Actors, EndCallback(a) \/ SetIdle(a)
  PROVE  CallsInv'
  <1> DEFINE r == Arg(a)
  <1>0. CallInv /\ SlotInv /\ IdInv /\ CarryInv /\ StackOK
    BY TypeParts DEF CallsInv
  <1>1. /\ At(a) \in Ending
        /\ UNCHANGED <<kind, queue, key, ends, seq_num, req_id_seq, wis, pending_ev>>
    BY DEF EndCallback, SetIdle, setup, evVars, trVars, Ending
  <1>2. /\ stack[a][1].at = At(a) /\ stack[a][1].x = r /\ r \in Calls
        /\ 1 \in DOMAIN stack[a] /\ stack[a][1] = F(At(a), r)
    BY <1>0, <1>1, Top, FrameArg DEF Ending
  <1> HIDE DEF r
  <1>3. \A q \in Calls : ItemOf(q)' = ItemOf(q)
    BY <1>1 DEF ItemOf
  <1>4. \A q \in Calls : ~Bears(stack[a][1], q) /\ ~Tells(stack[a][1], q)
    BY <1>1, <1>2 DEF Bears, Tells, Sending, Ending
  <1>5. PICK fs :
          /\ Shape(a, fs, 1)
          /\ \A i \in DOMAIN fs : i = 1 /\ fs[i] = F("setIdle", r)
          /\ EndCallback(a) /\ cell[r] # None => 1 \in DOMAIN fs
    <2> DEFINE f == F("setIdle", r)
               one == <<f>>
               none == <<>>
    <2>1. DOMAIN one = {1} /\ one[1] = f /\ DOMAIN none = {}
      OBVIOUS
    <2>2. \/ Shape(a, none, 1) /\ ~(EndCallback(a) /\ cell[r] # None)
          \/ Shape(a, one, 1)
      BY StepMoves DEF r, EndCallback, SetIdle
    <2> HIDE DEF one, none
    <2> QED BY <2>1, <2>2
  <1>6. \A i \in DOMAIN fs : /\ fs[i].at = "setIdle" /\ fs[i].x = r
                             /\ fs[i].at \notin Sending /\ Carried(fs[i]) = {}
    BY <1>5 DEF F, Sending, Carried
  <1>7. Continues(a, fs, 1)
    BY <1>1, <1>2, <1>5, <1>6 DEF Continues
  <1>8. CallInv'
    BY <1>0, <1>1, <1>5, <1>7, CallKept
  <1>9. IdInv' /\ CarryInv'
    <2>1. \A w \in wis' \cup Range(pending_ev') : w.kind # "net" => Known(w) \/ Sent(a, fs, 1, w)
      BY <1>1, KnownItems
    <2>2. \A i \in DOMAIN fs : \A w \in Carried(fs[i]) :
            w.kind # "net" => Known(w) \/ Sent(a, fs, 1, w)
      BY <1>6
    <2>3. \A q \in Calls : key[q] # None =>
            /\ ItemOf(q) \in wis \cup Range(pending_ev) => Pending(q)'
            /\ 1 = 1 /\ Bears(stack[a][1], q) => Pending(q)'
            /\ ItemOf(q) \in Range(pending_ev) => OnItsWay(q)'
            /\ 1 = 1 /\ Tells(stack[a][1], q) => OnItsWay(q)'
            /\ \A i \in DOMAIN fs :
                 fs[i].at = "drop" /\ Names(fs[i].x, q) => OnItsWay(q)'
      BY <1>1, <1>3, <1>4, <1>6, WaitsOn
    <2> QED BY <1>0, <1>1, <1>5, <1>7, <2>1, <2>2, <2>3, CarryKept
  <1>10. ASSUME NEW q \in Calls, q # r, NEW b \in Actors, NEW i \in DOMAIN stack[b],
                stack[b][i] = F("setIdle", q)
         PROVE  \E c \in Actors : \E j \in DOMAIN stack'[c] : stack'[c][j] = F("setIdle", q)
    <2>1. b = a => i > 1
      <3>1. stack[b][i].x = q
        BY <1>10 DEF F
      <3> QED BY <1>0, <1>2, <1>10, <3>1, ShapeFacts, <1>5
    <2> QED BY <1>0, <1>5, <1>10, <2>1, FramesAfter
  <1>11. SlotInv'
    <2>1. CASE EndCallback(a) /\ cell[r] = None
      <3>1. UNCHANGED <<slot, cell>> /\ At(a) = "cb"
        BY <2>1 DEF EndCallback, AfterCallback, r
      <3>2. stack[a][1].at # "setIdle"
        BY <1>2, <3>1
      <3> QED BY <1>0, <1>5, <3>1, <3>2, SlotKept
    <2>2. CASE EndCallback(a) /\ cell[r] # None
      <3> DEFINE c == cell[r]
      <3>1. slot' = [slot EXCEPT ![c].who = None] /\ cell' = cell
        BY <2>2 DEF EndCallback, AfterCallback, r
      <3>2. c \in Cells /\ slot[c].busy /\ slot \in [Cells -> [busy : BOOLEAN, who : Calls \cup {None}]]
        BY <1>0, <1>2, <2>2 DEF SlotInv, TypeOK
      <3>3. \A q \in Calls \ {r} : cell[q] # None => cell[q] # c
        BY <1>0, <1>2, <2>2 DEF SlotInv
      <3>4. 1 \in DOMAIN stack'[a] /\ stack'[a][1] = F("setIdle", r)
        BY <1>0, <1>5, <2>2, FramesAfter
      <3> HIDE DEF c
      <3>5. \A s \in Cells : /\ slot'[s].busy = slot[s].busy
                             /\ slot'[s].who = IF s = c THEN None ELSE slot[s].who
        BY <3>1, <3>2
      <3>6. \A s \in Cells : ~slot'[s].busy => slot'[s].who = None
        BY <1>0, <3>5 DEF SlotInv
      <3>7. ASSUME NEW q \in Calls, cell[q] # None
            PROVE  /\ slot'[cell[q]].busy
                   /\ \/ slot'[cell[q]].who = q
                      \/ \E b \in Actors : \E i \in DOMAIN stack'[b] :
                           stack'[b][i] = F("setIdle", q)
                   /\ \A s \in Calls : cell[s] = cell[q] => s = q
        <4>1. cell[q] \in Cells
          BY <3>7 DEF TypeOK
        <4>2. CASE q = r
          BY <1>0, <3>4, <3>5, <3>7, <4>1, <4>2 DEF SlotInv
        <4>3. CASE q # r
          BY <1>0, <1>10, <3>3, <3>5, <3>7, <4>1, <4>3 DEF SlotInv
        <4> QED BY <4>2, <4>3
      <3> QED BY <3>1, <3>6, <3>7 DEF SlotInv
    <2>3. CASE SetIdle(a)
      <3> DEFINE c == cell[r]
      <3>1. /\ slot' = [slot EXCEPT ![c] = [busy |-> FALSE, who |-> None]]
            /\ cell' = [cell EXCEPT ![r] = None]
        BY <2>3 DEF SetIdle, r
      <3>2. /\ slot \in [Cells -> [busy : BOOLEAN, who : Calls \cup {None}]]
            /\ cell \in [Calls -> Cells \cup {None}]
        BY DEF TypeOK
      <3>3. \A q \in Calls \ {r} : cell'[q] = cell[q] /\ (cell[q] # None => cell[q] # c)
        BY <1>0, <1>2, <3>1, <3>2 DEF SlotInv
      <3> HIDE DEF c
      <3>4. \A s \in Cells : /\ s # c => slot'[s] = slot[s]
                             /\ s = c => ~slot'[s].busy /\ slot'[s].who = None
        BY <3>1, <3>2
      <3>5. \A s \in Cells : ~slot'[s].busy => slot'[s].who = None
        BY <1>0, <3>4 DEF SlotInv
      <3>6. cell'[r] = None
        BY <1>2, <3>1, <3>2
      <3>7. ASSUME NEW q \in Calls, cell'[q] # None
            PROVE  /\ slot'[cell'[q]].busy
                   /\ \/ slot'[cell'[q]].who = q
                      \/ \E b \in Actors : \E i \in DOMAIN stack'[b] :
                           stack'[b][i] = F("setIdle", q)
                   /\ \A s \in Calls : cell'[s] = cell'[q] => s = q
        <4>1. q # r /\ cell'[q] = cell[q] /\ cell[q] \in Cells /\ cell[q] # c
          BY <3>2, <3>3, <3>6, <3>7
        <4>2. slot'[cell[q]] = slot[cell[q]]
          BY <3>4, <4>1
        <4>3. \A s \in Calls : cell'[s] = cell'[q] => s = q
          BY <1>0, <3>3, <3>6, <3>7, <4>1 DEF SlotInv
        <4>4. slot[cell[q]].busy /\ (slot[cell[q]].who = q \/ \E b \in Actors :
                \E i \in DOMAIN stack[b] : stack[b][i] = F("setIdle", q))
          BY <1>0, <3>7, <4>1 DEF SlotInv
        <4> QED BY <1>10, <4>1, <4>2, <4>3, <4>4
      <3> QED BY <3>5, <3>7 DEF SlotInv
    <2> QED BY <2>1, <2>2, <2>3
  <1> QED BY <1>8, <1>9, <1>11 DEF CallsInv


\* The call r leaves its queue: the client was told of it, or the transport
\* refused it.
EndsCall(a, fs, r) ==
  /\ Shape(a, fs, 1) /\ key[r] # None
  /\ \A i \in DOMAIN fs : i = 1 /\ fs[i] = F("cb", r)
  /\ \A b \in Actors : \A j \in DOMAIN stack[b] :
       stack[b][j].at \in Sending /\ stack[b][j].x = r => b = a /\ j = 1
  /\ \A q \in Calls \ {r} : key[q] # None => ~Bears(stack[a][1], q)
  /\ queue' = [queue EXCEPT ![kind[r]] = @ \ {r}]
  /\ key' = [key EXCEPT ![r] = None]
  /\ ends' = [ends EXCEPT ![r] = @ + 1]
  /\ UNCHANGED <<kind, seq_num, req_id_seq, wis, pending_ev>>

LEMMA CallEnds ==
  ASSUME TypeOK, CallInv, IdInv, CarryInv,
         NEW a \in Actors, NEW fs, NEW r \in Calls, EndsCall(a, fs, r)
  PROVE  CallInv' /\ IdInv' /\ CarryInv'
  <1> USE DEF EndsCall
  <1>0. StackOK
    BY TypeParts
  <1>1. /\ ends[r] = 0 /\ ends'[r] = 1 /\ key'[r] = None
        /\ \A q \in Calls \ {r} : key'[q] = key[q] /\ ends'[q] = ends[q]
    <2>1. ends[r] \in Nat /\ ends[r] + 1 <= 1
      BY CallTypes DEF CallInv
    <2> QED BY <2>1 DEF TypeOK
  <1>2. /\ \A q \in Calls : q # r => (q \in queue'[kind[q]] <=> q \in queue[kind[q]])
        /\ \A k \in {"resp", "sent"} : queue'[k] \subseteq queue[k]
        /\ r \notin queue'[kind[r]]
    <2>1. queue \in [{"resp", "sent"} -> SUBSET Calls] /\ kind[r] \in {"resp", "sent"}
          /\ \A q \in Calls : kind[q] \in {"resp", "sent"}
      BY CallTypes DEF TypeOK
    <2> QED BY <2>1
  <1>3. \A q \in Calls : key'[q] # None => q # r /\ key[q] = key'[q] /\ ItemOf(q)' = ItemOf(q)
    BY <1>1 DEF ItemOf
  <1>4. ASSUME NEW b \in Actors, NEW i \in DOMAIN stack'[b]
        PROVE  \/ b = a /\ i = 1 /\ 1 \in DOMAIN fs /\ stack'[b][i] = F("cb", r)
               \/ \E j \in DOMAIN stack[b] :
                    /\ stack'[b][i] = stack[b][j]
                    /\ i = IF b = a THEN j - 1 + Len(fs) ELSE j
                    /\ stack[b][j].at \in Sending \cup Ending => stack[b][j].x # r
    <2>1. CASE b = a /\ i \in DOMAIN fs /\ stack'[b][i] = fs[i]
      BY <2>1
    <2>2. ASSUME NEW j \in DOMAIN stack[b], stack'[b][i] = stack[b][j],
                 b = a => j > 1 /\ i = j - 1 + Len(fs), b # a => i = j
          PROVE  /\ i = IF b = a THEN j - 1 + Len(fs) ELSE j
                 /\ stack[b][j].at \in Sending \cup Ending => stack[b][j].x # r
      <3>1. stack[b][j].at \in Sending => stack[b][j].x # r
        BY <1>0, <2>2, ShapeFacts
      <3>2. stack[b][j].at \in Ending => stack[b][j].x # r
        BY <1>1 DEF CallInv
      <3> QED BY <2>2, <3>1, <3>2
    <2> QED BY <1>0, <2>1, <2>2, FramesAfter
  <1>5. CallInv'
    <2>1. ASSUME NEW b \in Actors, NEW i \in DOMAIN stack'[b]
          PROVE  /\ stack'[b][i].at \in Sending => key'[stack'[b][i].x] # None
                 /\ stack'[b][i].at \in Ending => ends'[stack'[b][i].x] = 1
      <3>1. CASE stack'[b][i] = F("cb", r)
        BY <1>1, <3>1 DEF F, Sending, Ending
      <3>2. ASSUME NEW j \in DOMAIN stack[b], stack'[b][i] = stack[b][j],
                   stack[b][j].at \in Sending \cup Ending => stack[b][j].x # r
            PROVE  /\ stack'[b][i].at \in Sending => key'[stack'[b][i].x] # None
                   /\ stack'[b][i].at \in Ending => ends'[stack'[b][i].x] = 1
        <4>1. stack[b][j].at \in Sending \cup Ending => stack[b][j].x \in Calls
          BY <1>0, StackLen, FrameArg
        <4> QED BY <1>1, <3>2, <4>1 DEF CallInv
      <3> QED BY <1>4, <3>1, <3>2
    <2>2. ASSUME NEW b \in Actors, NEW c \in Actors,
                 NEW i \in DOMAIN stack'[b], NEW k \in DOMAIN stack'[c],
                 stack'[b][i].at \in Sending \cup Ending,
                 stack'[c][k].at \in Sending \cup Ending,
                 stack'[b][i].x = stack'[c][k].x
          PROVE  b = c /\ i = k
      <3>1. F("cb", r).x = r
        BY DEF F
      <3>2. CASE stack'[b][i].x = r
        <4>1. b = a /\ i = 1
          BY <1>4, <2>2, <3>2
        <4>2. stack'[c][k].x = r /\ stack'[c][k].at \in Sending \cup Ending
          BY <2>2, <3>2
        <4>3. c = a /\ k = 1
          BY <1>4, <4>2
        <4> QED BY <4>1, <4>3
      <3>3. CASE stack'[b][i].x # r
        <4>1. PICK j \in DOMAIN stack[b] :
                /\ stack'[b][i] = stack[b][j] /\ i = IF b = a THEN j - 1 + Len(fs) ELSE j
          BY <1>4, <3>1, <3>3
        <4>2. PICK l \in DOMAIN stack[c] :
                /\ stack'[c][k] = stack[c][l] /\ k = IF c = a THEN l - 1 + Len(fs) ELSE l
          BY <1>4, <2>2, <3>1, <3>3
        <4>3. b = c /\ j = l
          BY <2>2, <4>1, <4>2 DEF CallInv
        <4> QED BY <4>1, <4>2, <4>3
      <3> QED BY <3>2, <3>3
    <2>3. ASSUME NEW q \in Calls
          PROVE  /\ ends'[q] + (IF key'[q] = None THEN 0 ELSE 1) <= 1
                 /\ key'[q] # None <=> q \in queue'[kind[q]]
      <3>1. CASE q = r
        BY <1>1, <1>2, <3>1
      <3>2. CASE q # r
        BY <1>1, <1>2, <3>2 DEF CallInv
      <3> QED BY <3>1, <3>2
    <2>4. \A k \in {"resp", "sent"} : \A q \in queue'[k] : kind[q] = k
      BY <1>2 DEF CallInv
    <2> QED BY <2>1, <2>2, <2>3, <2>4 DEF CallInv
  <1>6. Mentioned' \subseteq Mentioned
    <2>1. \A i \in DOMAIN fs : Carried(fs[i]) = {}
      BY DEF Carried, F
    <2>2. wis \subseteq Mentioned /\ Range(pending_ev) \subseteq Mentioned
      BY MentionedTop
    <2> QED BY <2>1, <2>2, MentionedAfter
  <1>7. \A k, v : Given(k, v)' <=> Given(k, v)
    <2>1. Issued' = Issued
      <3>1. \A q \in Calls : (key'[q] # None \/ ends'[q] > 0) <=> (key[q] # None \/ ends[q] > 0)
        BY <1>1
      <3> QED BY <3>1 DEF Issued
    <2>2. NextId' = NextId
      BY DEF NextId
    <2>3. \A v : Age(v)' = Age(v)
      BY <2>2 DEF Age
    <2> QED BY <2>1, <2>3 DEF Given
  <1>8. IdInv'
    <2>1. ASSUME NEW q \in Calls, NEW s \in Calls, q # s, kind[q] = kind[s], key'[q] # None
          PROVE  key'[q] # key'[s]
      <3>1. key[q] = key'[q] /\ key[q] # key[s]
        BY <1>3, <2>1 DEF IdInv
      <3> QED BY <1>1, <2>1, <3>1
    <2>2. \A q \in Calls : key'[q] # None => Given(kind[q], key'[q])
      BY <1>3 DEF IdInv
    <2> QED BY <1>6, <1>7, <2>1, <2>2 DEF IdInv
  <1>9. CarryInv'
    <2>0. ASSUME NEW q \in Calls, q # r, key[q] # None
          PROVE  ~Bears(stack[a][1], q) /\ ~Tells(stack[a][1], q) /\ ItemOf(q)' = ItemOf(q)
      BY <1>1, <2>0 DEF Bears, ItemOf
    <2>1. ASSUME NEW q \in Calls, key'[q] # None PROVE Pending(q)'
      <3>1. q # r /\ key[q] # None /\ ItemOf(q)' = ItemOf(q) /\ Pending(q)
        BY <1>3, <2>1 DEF CarryInv
      <3>2. ItemOf(q) \in wis \cup Range(pending_ev) => Pending(q)'
        BY <3>1, WaitsOn
      <3> QED BY <2>0, <3>1, <3>2, PendingKept
    <2>2. ASSUME NEW b \in Actors, NEW i \in DOMAIN stack'[b], stack'[b][i].at \in Sending,
                 NEW w \in Mentioned', NEW q, q = stack'[b][i].x
          PROVE  ~(w.kind # "net" /\ Told(w) = ItemOf(q)')
      <3>1. PICK j \in DOMAIN stack[b] : /\ stack'[b][i] = stack[b][j]
                                         /\ stack[b][j].x # r
        BY <1>4, <2>2 DEF F, Sending
      <3>2. q \in Calls /\ key[q] # None /\ q # r
        BY <1>0, <2>2, <3>1, StackLen, FrameArg DEF CallInv
      <3>3. ~Names(w, q) /\ ItemOf(q)' = ItemOf(q)
        BY <1>6, <2>0, <2>2, <3>1, <3>2 DEF CarryInv
      <3> QED BY <3>3 DEF Names
    <2>3. ASSUME NEW b \in Actors, NEW i \in DOMAIN stack'[b], stack'[b][i].at = "drop",
                 NEW q \in Calls, key'[q] # None,
                 stack'[b][i].x.kind # "net", Told(stack'[b][i].x) = ItemOf(q)'
          PROVE  OnItsWay(q)'
      <3>1. PICK j \in DOMAIN stack[b] : stack'[b][i] = stack[b][j]
        BY <1>4, <2>3 DEF F
      <3>2. q # r /\ key[q] # None /\ ItemOf(q)' = ItemOf(q)
        BY <1>3, <2>3
      <3>3. OnItsWay(q)
        BY <2>3, <3>1, <3>2 DEF CarryInv, Names
      <3>4. ItemOf(q) \in Range(pending_ev) => OnItsWay(q)'
        BY <3>2, WaitsOn
      <3> QED BY <2>0, <3>2, <3>3, <3>4, WayKept
    <2>4. \A b \in Actors : \A i \in DOMAIN stack'[b] : stack'[b][i].at \in Sending =>
            \A w \in Mentioned' :
              ~(w.kind # "net" /\ Told(w) = Item(kind'[stack'[b][i].x], key'[stack'[b][i].x]))
      BY <2>2 DEF ItemOf
    <2>5. \A b \in Actors : \A i \in DOMAIN stack'[b] : stack'[b][i].at = "drop" =>
            \A q \in Calls :
              /\ key'[q] # None
              /\ stack'[b][i].x.kind # "net" /\ Told(stack'[b][i].x) = Item(kind'[q], key'[q])
              => OnItsWay(q)'
      BY <2>3 DEF ItemOf
    <2> QED BY <2>1, <2>4, <2>5 DEF CarryInv, Names, ItemOf
  <1> QED BY <1>5, <1>8, <1>9


LEMMA CallsDeliver ==
  ASSUME TypeOK, CallsInv, NEW a \in Actors, Deliver(a)
  PROVE  CallsInv'
  <1> DEFINE m == Arg(a)
  <1>0. CallInv /\ SlotInv /\ IdInv /\ CarryInv /\ StackOK
    BY TypeParts DEF CallsInv
  <1>1. /\ At(a) = "deliver" /\ UNCHANGED <<kind, slot, cell, seq_num, req_id_seq, wis, pending_ev>>
    BY DEF Deliver, setup, evVars, trVars
  <1>2. stack[a][1].at = "deliver" /\ stack[a][1].x = m /\ m \in Messages /\ m \in Mentioned
    BY <1>0, <1>1, Top, FrameArg, MentionedTop
  <1> HIDE DEF m
  <1>3. ASSUME NEW r \in Calls, r \in queue[m.kind], key[r] = m.val, m.kind \in {"resp", "sent"},
               Shape(a, <<F("cb", r)>>, 1),
               queue' = [queue EXCEPT ![m.kind] = @ \ {r}],
               key' = [key EXCEPT ![r] = None],
               ends' = [ends EXCEPT ![r] = @ + 1]
        PROVE  CallsInv'
    <2>1. kind[r] = m.kind /\ key[r] # None
      BY <1>0, <1>3 DEF CallInv
    <2>2. Names(m, r)
      BY <1>3, <2>1 DEF Names, Told, ItemOf, Item
    <2>3. \A b \in Actors : \A j \in DOMAIN stack[b] :
            ~(stack[b][j].at \in Sending /\ stack[b][j].x = r)
      BY <1>0, <1>2, <2>2 DEF CarryInv
    <2>4. ASSUME NEW q \in Calls \ {r}, key[q] # None PROVE ~Bears(stack[a][1], q)
      <3>1. SUFFICES ASSUME m = ItemOf(q) PROVE FALSE
        BY <1>2 DEF Bears, Tells, Sending
      <3>2. kind[q] = kind[r] /\ key[q] = key[r]
        BY <1>3, <2>1, <3>1, ItemFacts
      <3> QED BY <1>0, <1>3, <2>4, <3>2 DEF IdInv
    <2>5. queue' = [queue EXCEPT ![kind[r]] = @ \ {r}]
      BY <1>3, <2>1
    <2>6. PICK fs : Shape(a, fs, 1) /\ \A i \in DOMAIN fs : i = 1 /\ fs[i] = F("cb", r)
      <3> DEFINE f == F("cb", r)
                 one == <<f>>
      <3>1. Shape(a, one, 1) /\ \A i \in DOMAIN one : i = 1 /\ one[i] = f
        BY <1>3
      <3> HIDE DEF one
      <3> QED BY <3>1
    <2>7. CallInv' /\ IdInv' /\ CarryInv'
      <3>1. \A b \in Actors : \A j \in DOMAIN stack[b] :
              stack[b][j].at \in Sending /\ stack[b][j].x = r => b = a /\ j = 1
        BY <2>3
      <3>2. \A q \in Calls \ {r} : key[q] # None => ~Bears(stack[a][1], q)
        BY <2>4
      <3>3. \A i \in DOMAIN fs : i = 1 /\ fs[i] = F("cb", r)
        BY <2>6
      <3>4. key' = [key EXCEPT ![r] = None] /\ ends' = [ends EXCEPT ![r] = @ + 1]
        BY <1>3
      <3>5. UNCHANGED <<kind, seq_num, req_id_seq, wis, pending_ev>>
        BY <1>1
      <3>6. r \in Calls /\ key[r] # None /\ Shape(a, fs, 1) /\ TypeOK
        BY <2>1, <2>6
      <3>7. CallInv /\ IdInv /\ CarryInv
        BY <1>0
      <3>8. EndsCall(a, fs, r)
        BY <2>5, <3>1, <3>2, <3>3, <3>4, <3>5, <3>6 DEF EndsCall
      <3> QED BY <3>7, <3>8, CallEnds
    <2>8. SlotInv'
      BY <1>0, <1>1, <1>2, <2>6, SlotKept
    <2> QED BY <2>7, <2>8 DEF CallsInv
  <1> QED BY <1>3, DeliverMove, CallsUnknown DEF m

\* The transport has refused the call, which gives its memory back.
LEMMA CallsUndo ==
  ASSUME TypeOK, CallsInv, NEW a \in Actors, Undo(a)
  PROVE  CallsInv'
  <1> DEFINE r == Arg(a)
             c == cell[r]
  <1>0. CallInv /\ SlotInv /\ IdInv /\ CarryInv /\ StackOK
    BY TypeParts DEF CallsInv
  <1>1. /\ At(a) = "undo" /\ Shape(a, <<>>, 1)
        /\ queue' = [queue EXCEPT ![kind[r]] = @ \ {r}]
        /\ slot' = IF c = None THEN slot
                   ELSE [slot EXCEPT ![c] = [busy |-> FALSE, who |-> None]]
        /\ cell' = [cell EXCEPT ![r] = None]
        /\ key' = [key EXCEPT ![r] = None]
        /\ ends' = [ends EXCEPT ![r] = @ + 1]
        /\ UNCHANGED <<kind, seq_num, req_id_seq, wis, pending_ev>>
    BY StepMoves DEF Undo, setup, evVars, trVars
  <1>2. /\ stack[a][1].at \in Sending /\ stack[a][1].at = "undo" /\ stack[a][1].x = r
        /\ r \in Calls /\ 1 \in DOMAIN stack[a] /\ key[r] # None
    <2>1. /\ stack[a][1].at = "undo" /\ stack[a][1].x = r /\ 1 \in DOMAIN stack[a]
          /\ stack[a][1] \in Frames
      BY <1>0, <1>1, Top
    <2>2. stack[a][1].at \in Sending
      BY <2>1 DEF Sending
    <2> QED BY <1>0, <2>1, <2>2, FrameArg DEF CallInv
  <1> HIDE DEF r
  <1>3. CallInv' /\ IdInv' /\ CarryInv'
    <2>1. \A b \in Actors : \A j \in DOMAIN stack[b] :
            stack[b][j].at \in Sending /\ stack[b][j].x = r => b = a /\ j = 1
      BY <1>0, <1>2 DEF CallInv
    <2>2. \A q \in Calls \ {r} : key[q] # None => ~Bears(stack[a][1], q)
      BY <1>2 DEF Bears, Tells
    <2> DEFINE fs == <<>>
    <2>3. Shape(a, fs, 1) /\ DOMAIN fs = {}
      BY <1>1
    <2> HIDE DEF fs
    <2>4. \A i \in DOMAIN fs : i = 1 /\ fs[i] = F("cb", r)
      BY <2>3
    <2>5. /\ r \in Calls /\ key[r] # None /\ queue' = [queue EXCEPT ![kind[r]] = @ \ {r}]
          /\ key' = [key EXCEPT ![r] = None] /\ ends' = [ends EXCEPT ![r] = @ + 1]
          /\ UNCHANGED <<kind, seq_num, req_id_seq, wis, pending_ev>>
      BY <1>1, <1>2
    <2>6. EndsCall(a, fs, r)
      BY <2>1, <2>2, <2>3, <2>4, <2>5 DEF EndsCall
    <2> QED BY <1>0, <1>2, <2>6, CallEnds
  <1>4. SlotInv'
    <2>1. /\ slot \in [Cells -> [busy : BOOLEAN, who : Calls \cup {None}]]
          /\ cell \in [Calls -> Cells \cup {None}]
      BY DEF TypeOK
    <2>2. \A q \in Calls \ {r} : cell'[q] = cell[q] /\ (cell[q] # None => cell[q] # c)
      BY <1>0, <1>1, <1>2, <2>1 DEF SlotInv
    <2> HIDE DEF c
    <2>3. \A s \in Cells : /\ s # c => slot'[s] = slot[s]
                           /\ s = c => ~slot'[s].busy /\ slot'[s].who = None
      <3>1. \A s \in Cells : s # None
        BY ClientAssumption
      <3> QED BY <1>1, <2>1, <3>1
    <2>4. \A s \in Cells : ~slot'[s].busy => slot'[s].who = None
      BY <1>0, <2>3 DEF SlotInv
    <2>5. cell'[r] = None
      BY <1>1, <1>2, <2>1
    <2>6. ASSUME NEW q \in Calls, NEW b \in Actors, NEW i \in DOMAIN stack[b],
                 stack[b][i] = F("setIdle", q)
          PROVE  \E d \in Actors : \E j \in DOMAIN stack'[d] : stack'[d][j] = F("setIdle", q)
      <3>1. b = a => i > 1
        <4>1. stack[b][i].at = "setIdle"
          BY <2>6 DEF F
        <4> QED BY <1>0, <1>1, <1>2, <4>1, ShapeFacts
      <3> QED BY <1>0, <1>1, <2>6, <3>1, FramesAfter
    <2>7. ASSUME NEW q \in Calls, cell'[q] # None
          PROVE  /\ slot'[cell'[q]].busy
                 /\ \/ slot'[cell'[q]].who = q
                    \/ \E b \in Actors : \E i \in DOMAIN stack'[b] :
                         stack'[b][i] = F("setIdle", q)
                 /\ \A s \in Calls : cell'[s] = cell'[q] => s = q
      <3>1. q # r /\ cell'[q] = cell[q] /\ cell[q] \in Cells /\ cell[q] # c
        BY <2>1, <2>2, <2>5, <2>7
      <3>2. slot'[cell[q]] = slot[cell[q]]
        BY <2>3, <3>1
      <3>3. \A s \in Calls : cell'[s] = cell'[q] => s = q
        BY <1>0, <2>2, <2>5, <2>7, <3>1 DEF SlotInv
      <3>4. slot[cell[q]].busy /\ (slot[cell[q]].who = q \/ \E b \in Actors :
              \E i \in DOMAIN stack[b] : stack[b][i] = F("setIdle", q))
        BY <1>0, <2>7, <3>1 DEF SlotInv
      <3> QED BY <2>6, <3>1, <3>2, <3>3, <3>4
    <2> QED BY <2>4, <2>7 DEF SlotInv
  <1> QED BY <1>3, <1>4 DEF CallsInv


(***************************************************************************)
(* A call is issued                                                        *)
(***************************************************************************)

\* The usable ids, the next one, and how ids age when it is handed out
LEMMA IdNumbers ==
  ASSUME IdsSuffice, TypeOK, NEW r \in Calls
  PROVE  /\ Ids \in Nat /\ Cardinality(Calls) <= Ids /\ Cardinality(Calls) \in Nat
         /\ NextId \in 1..Ids /\ Age(NextId) = Ids
  <1> DEFINE M == 2^IdBits
  <1>1. Cardinality(Calls) \in Nat /\ Cardinality(Calls) # 0
    BY FS_CardinalityType, FS_EmptySet DEF IdsSuffice
  <1>2. M \in Int
    BY ClientAssumption
  <1>3. Cardinality(Calls) + 2 <= M /\ req_id_seq \in 0..(M - 1)
    BY DEF IdsSuffice, TypeOK
  <1>4. Ids = M - 2 /\ Reserved = {0, M - 1}
    BY DEF Ids, Reserved
  <1> HIDE DEF M
  <1>5. Ids \in Nat /\ Cardinality(Calls) <= Ids /\ 1 <= Ids
    BY <1>1, <1>2, <1>3, <1>4
  <1>6. NextId \in 1..Ids
    BY <1>2, <1>3, <1>4, <1>5 DEF NextId
  <1>7. Age(NextId) = Ids
    BY <1>5, <1>6 DEF Age
  <1> QED BY <1>1, <1>5, <1>6, <1>7

LEMMA IdHandedOut ==
  ASSUME IdsSuffice, TypeOK, NEW r \in Calls, req_id_seq' = (NextId + 1) % 2^IdBits
  PROVE  /\ \A v \in 1..Ids : v # NextId => Age(v)' = Age(v) + 1
         /\ \A v : v = NextId => Age(v)' = 1
         /\ \A v \in 1..Ids : Age(v) \in Nat
  <1> DEFINE M == 2^IdBits
             n == NextId
  <1>1. /\ M \in Int /\ Ids = M - 2 /\ Reserved = {0, M - 1}
        /\ req_id_seq' = (n + 1) % M
    BY ClientAssumption DEF Ids, Reserved
  <1>2. Ids \in Nat /\ n \in 1..Ids
    BY IdNumbers
  <1>3. NextId' = IF req_id_seq' \in Reserved THEN 1 ELSE req_id_seq'
    BY DEF NextId, Reserved
  <1> HIDE DEF M, n
  <1>4. req_id_seq' = n + 1
    <2>1. M \in Nat /\ n + 1 \in 0..(M - 1)
      BY <1>1, <1>2
    <2>2. (n + 1) % M = n + 1
      BY <2>1
    <2> QED BY <1>1, <2>2
  <1>5. NextId' = IF n = Ids THEN 1 ELSE n + 1
    BY <1>1, <1>2, <1>3, <1>4
  <1>6. \A v : /\ Age(v) = IF v < n THEN n - v ELSE n - v + Ids
               /\ Age(v)' = IF v < NextId' THEN NextId' - v ELSE NextId' - v + Ids
    BY DEF Age, n
  <1>7. ASSUME NEW v \in 1..Ids, v # n PROVE Age(v)' = Age(v) + 1
    BY <1>2, <1>5, <1>6, <1>7
  <1>8. ASSUME NEW v, v = n PROVE Age(v)' = 1
    BY <1>2, <1>5, <1>6, <1>8
  <1>9. \A v \in 1..Ids : Age(v) \in Nat
    BY <1>2, <1>6
  <1> QED BY <1>7, <1>8, <1>9 DEF n

\* The calls that have been issued are one more.
LEMMA OneMore ==
  ASSUME IdsSuffice, TypeOK, NEW r \in Calls, key[r] = None, ends[r] = 0,
         NEW v, v # None, key' = [key EXCEPT ![r] = v], UNCHANGED ends
  PROVE  /\ Cardinality(Issued) \in Nat /\ Cardinality(Issued') = Cardinality(Issued) + 1
         /\ Cardinality(Issued) < Ids
  <1>1. Issued \subseteq Calls /\ r \notin Issued /\ IsFiniteSet(Calls)
    BY DEF Issued, IdsSuffice
  <1>2. Issued' = Issued \cup {r}
    <2>1. key \in [Calls -> Nat \cup {None}]
      BY DEF TypeOK
    <2>2. key'[r] # None /\ \A q \in Calls \ {r} : key'[q] = key[q]
      BY <2>1
    <2>3. \A q : q \in Issued' <=> q \in Issued \cup {r}
      BY <2>2 DEF Issued
    <2> QED BY <2>3
  <1>3. IsFiniteSet(Issued) /\ Cardinality(Issued) \in Nat
    BY <1>1, FS_Subset, FS_CardinalityType
  <1>4. Cardinality(Issued') = Cardinality(Issued) + 1 /\ IsFiniteSet(Issued')
    BY <1>1, <1>2, <1>3, FS_AddElement
  <1>5. Cardinality(Issued') <= Cardinality(Calls)
    BY <1>1, <1>2, <1>4, FS_Subset
  <1>6. Cardinality(Calls) <= Ids /\ Ids \in Nat /\ Cardinality(Calls) \in Nat
    BY IdNumbers
  <1> QED BY <1>3, <1>4, <1>5, <1>6


\* What Allocate does to the memory and the ids of the call r
Issues(a, r) ==
  /\ key[r] = None /\ ends[r] = 0
  /\ Shape(a, <<F("send", r)>>, 0)
  /\ LET s == FirstIdle(kind[r])
     IN  /\ slot' = IF s = None THEN slot
                    ELSE [slot EXCEPT ![s] = [busy |-> TRUE, who |-> r]]
         /\ cell' = [cell EXCEPT ![r] = s]
  /\ queue' = [queue EXCEPT ![kind[r]] = @ \cup {r}]
  /\ key' = [key EXCEPT ![r] = IF kind[r] = "resp" THEN NextId ELSE seq_num]
  /\ seq_num' = seq_num + 1
  /\ req_id_seq' = IF kind[r] = "resp" THEN (NextId + 1) % 2^IdBits ELSE req_id_seq
  /\ UNCHANGED <<kind, ends, wis, pending_ev>>

LEMMA AllocateIssues ==
  ASSUME TypeOK, NEW a \in Actors, NEW r \in Calls, Allocate(a, r)
  PROVE  \/ Issues(a, r)
         \/ UNCHANGED <<kind, stack, slot, cell, queue, key, ends, seq_num, req_id_seq,
                        wis, pending_ev>>
  <1> DEFINE s == FirstIdle(kind[r])
  <1>1. UNCHANGED <<kind, ends, wis, pending_ev>> /\ key[r] = None /\ ends[r] = 0
    BY DEF Allocate, setup, evVars, trVars
  <1>2. CASE s # None /\ slot[s].who # None
    BY <1>1, <1>2 DEF Allocate, memVars
  <1>3. CASE ~(s # None /\ slot[s].who # None)
    <2>1. /\ slot' = IF s = None THEN slot
                     ELSE [slot EXCEPT ![s] = [busy |-> TRUE, who |-> r]]
          /\ cell' = [cell EXCEPT ![r] = s]
          /\ queue' = [queue EXCEPT ![kind[r]] = @ \cup {r}]
          /\ key' = [key EXCEPT ![r] = IF kind[r] = "resp" THEN NextId ELSE seq_num]
          /\ seq_num' = seq_num + 1
          /\ req_id_seq' = IF kind[r] = "resp" THEN (NextId + 1) % 2^IdBits ELSE req_id_seq
          /\ Enter(a, F("send", r))
      BY <1>3 DEF Allocate
    <2>2. F("send", r) \in Frames
      BY FrameMade DEF Sending
    <2>3. Shape(a, <<F("send", r)>>, 0)
      BY <2>1, <2>2, TypeParts, Shapes
    <2> QED BY <1>1, <2>1, <2>3 DEF Issues
  <1> QED BY <1>2, <1>3

\* The new key of r, the frame that sends it, and nothing else
LEMMA IssueFacts ==
  ASSUME TypeOK, NEW a \in Actors, NEW r \in Calls, Issues(a, r)
  PROVE  /\ key'[r] = (IF kind[r] = "resp" THEN NextId ELSE seq_num) /\ key'[r] # None
         /\ \A q \in Calls \ {r} : key'[q] = key[q] /\ ItemOf(q)' = ItemOf(q)
         /\ \A q \in Calls : q # r => (q \in queue'[kind[q]] <=> q \in queue[kind[q]])
         /\ r \in queue'[kind[r]]
         /\ \A b \in Actors : \A i \in DOMAIN stack'[b] :
              \/ b = a /\ i = 1 /\ stack'[b][i] = F("send", r)
              \/ \E j \in DOMAIN stack[b] :
                   /\ stack'[b][i] = stack[b][j] /\ i = IF b = a THEN j + 1 ELSE j
         /\ \A b \in Actors : \A j \in DOMAIN stack[b] :
              \E i \in DOMAIN stack'[b] : stack'[b][i] = stack[b][j]
         /\ 1 \in DOMAIN stack'[a] /\ stack'[a][1] = F("send", r)
         /\ Mentioned' \subseteq Mentioned
  <1>0. StackOK /\ NextId \in Nat /\ seq_num \in Nat
    BY TypeParts, NextIdType DEF TypeOK
  <1>1. /\ key'[r] = (IF kind[r] = "resp" THEN NextId ELSE seq_num) /\ key'[r] # None
        /\ \A q \in Calls \ {r} : key'[q] = key[q]
    BY <1>0, ClientAssumption DEF Issues, TypeOK
  <1>2. \A q \in Calls \ {r} : ItemOf(q)' = ItemOf(q)
    BY <1>1 DEF Issues, ItemOf
  <1>3. /\ \A q \in Calls : q # r => (q \in queue'[kind[q]] <=> q \in queue[kind[q]])
        /\ r \in queue'[kind[r]]
    <2>1. queue \in [{"resp", "sent"} -> SUBSET Calls] /\ kind[r] \in {"resp", "sent"}
          /\ \A q \in Calls : kind[q] \in {"resp", "sent"}
      BY CallTypes DEF TypeOK
    <2> QED BY <2>1 DEF Issues
  <1> DEFINE f == F("send", r)
             fs == <<f>>
  <1>4. /\ DOMAIN fs = {1} /\ fs[1] = f /\ Len(fs) = 1
        /\ Shape(a, fs, 0)
    BY DEF Issues
  <1>5. Carried(f) = {}
    BY DEF Carried, F
  <1> HIDE DEF fs, f
  <1>6. \A b \in Actors : \A i \in DOMAIN stack'[b] :
          \/ b = a /\ i = 1 /\ stack'[b][i] = f
          \/ \E j \in DOMAIN stack[b] :
               /\ stack'[b][i] = stack[b][j] /\ i = IF b = a THEN j + 1 ELSE j
    <2>0. ASSUME NEW n, n = 0
          PROVE  \A b \in Actors : \A i \in DOMAIN stack'[b] :
                   \/ b = a /\ i \in DOMAIN fs /\ stack'[b][i] = fs[i]
                   \/ \E j \in DOMAIN stack[b] :
                        /\ stack'[b][i] = stack[b][j]
                        /\ b = a => j > n /\ i = j - n + Len(fs)
                        /\ b # a => i = j
      <3>1. Shape(a, fs, n)
        BY <1>4, <2>0
      <3> QED BY <1>0, <3>1, FramesAfter
    <2> SUFFICES ASSUME NEW b \in Actors, NEW i \in DOMAIN stack'[b]
                 PROVE  \/ b = a /\ i = 1 /\ stack'[b][i] = f
                        \/ \E j \in DOMAIN stack[b] :
                             /\ stack'[b][i] = stack[b][j] /\ i = IF b = a THEN j + 1 ELSE j
      OBVIOUS
    <2>1. CASE b = a /\ i \in DOMAIN fs /\ stack'[b][i] = fs[i]
      BY <1>4, <2>1
    <2>2. ASSUME NEW j \in DOMAIN stack[b], stack'[b][i] = stack[b][j],
                 b = a => j > 0 /\ i = j - 0 + Len(fs), b # a => i = j
          PROVE  i = IF b = a THEN j + 1 ELSE j
      <3>1. j \in Nat
        BY <1>0, StackLen
      <3> QED BY <1>4, <2>2, <3>1
    <2> QED BY <2>0, <2>1, <2>2
  <1>7. \A b \in Actors : \A j \in DOMAIN stack[b] :
          \E i \in DOMAIN stack'[b] : stack'[b][i] = stack[b][j]
    <2>1. \A b \in Actors : \A j \in DOMAIN stack[b] : j > 0
      BY <1>0, StackLen
    <2> QED BY <1>0, <1>4, <2>1, FramesAfter
  <1>8. 1 \in DOMAIN stack'[a] /\ stack'[a][1] = f
    BY <1>0, <1>4, FramesAfter
  <1>9. Mentioned' \subseteq Mentioned
    <2>1. wis' = wis /\ pending_ev' = pending_ev
      BY DEF Issues
    <2>2. wis \subseteq Mentioned /\ Range(pending_ev) \subseteq Mentioned
      BY MentionedTop
    <2>3. \A i \in DOMAIN fs : Carried(fs[i]) = {}
      BY <1>4, <1>5
    <2>4. ASSUME NEW w \in Mentioned' PROVE w \in Mentioned
      BY <1>4, <2>1, <2>2, <2>3, MentionedAfter
    <2> QED BY <2>4
  <1> QED BY <1>1, <1>2, <1>3, <1>6, <1>7, <1>8, <1>9 DEF f

\* Its id is not one that is about, and the others stay given.
LEMMA IssueFresh ==
  ASSUME IdsSuffice, TypeOK, NEW a \in Actors, NEW r \in Calls, Issues(a, r)
  PROVE  /\ \A k, v : Given(k, v) => Given(k, v)'
         /\ \A k, v : k = kind[r] /\ v = key'[r] => Given(k, v)'
         /\ \A k, v : Given(k, v) /\ (k = "sent" <=> kind[r] = "sent") => v # key'[r]
  <1>1. kind[r] \in {"resp", "sent"} /\ seq_num \in Nat /\ seq_num' = seq_num + 1
    BY CallTypes DEF TypeOK, Issues
  <1>2. /\ key'[r] = (IF kind[r] = "resp" THEN NextId ELSE seq_num)
    BY IssueFacts
  <1>3. /\ Cardinality(Issued) \in Nat /\ Cardinality(Issued') = Cardinality(Issued) + 1
        /\ Cardinality(Issued) < Ids
    <2> DEFINE u == IF kind[r] = "resp" THEN NextId ELSE seq_num
    <2>1. /\ key[r] = None /\ ends[r] = 0 /\ UNCHANGED ends
          /\ key' = [key EXCEPT ![r] = u]
      BY DEF Issues
    <2>2. u # None
      BY <1>2, IssueFacts
    <2> HIDE DEF u
    <2> QED BY <2>1, <2>2, OneMore
  <1>4. /\ Ids \in Nat /\ NextId \in 1..Ids /\ Age(NextId) = Ids
    BY IdNumbers
  <1>5. CASE kind[r] = "sent"
    <2>1. UNCHANGED req_id_seq /\ key'[r] = seq_num
      BY <1>2, <1>5 DEF Issues
    <2>2. \A v : Age(v)' = Age(v)
      <3>1. NextId' = NextId
        BY <2>1 DEF NextId
      <3> QED BY <3>1 DEF Age
    <2>3. \A v \in 1..Ids : Age(v) \in Int
      BY <1>4 DEF Age
    <2>4. ASSUME NEW k, NEW v, Given(k, v) PROVE Given(k, v)'
      <3>1. CASE k = "sent"
        BY <1>1, <2>4, <3>1 DEF Given
      <3>2. CASE k # "sent"
        <4>1. v \in 1..Ids /\ Age(v) <= Cardinality(Issued)
          BY <2>4, <3>2 DEF Given
        <4>2. Age(v)' <= Cardinality(Issued')
          BY <1>3, <2>2, <2>3, <4>1
        <4> QED BY <3>2, <4>1, <4>2 DEF Given, Ids
      <3> QED BY <3>1, <3>2
    <2>5. ASSUME NEW k, NEW v, k = kind[r], v = key'[r] PROVE Given(k, v)'
      BY <1>1, <1>5, <2>1, <2>5 DEF Given
    <2>6. ASSUME NEW k, NEW v, Given(k, v), k = "sent" PROVE v # key'[r]
      BY <1>1, <2>1, <2>6 DEF Given
    <2> QED BY <1>5, <2>4, <2>5, <2>6
  <1>6. CASE kind[r] = "resp"
    <2>1. req_id_seq' = (NextId + 1) % 2^IdBits /\ key'[r] = NextId
      BY <1>2, <1>6 DEF Issues
    <2>2. /\ \A v \in 1..Ids : v # NextId => Age(v)' = Age(v) + 1
          /\ \A v : v = NextId => Age(v)' = 1
          /\ \A v \in 1..Ids : Age(v) \in Nat
      BY <2>1, IdHandedOut
    <2>3. ASSUME NEW k, NEW v, Given(k, v), k # "sent"
          PROVE  v # NextId /\ v \in 1..Ids /\ Age(v) <= Cardinality(Issued)
      <3>1. v \in 1..Ids /\ Age(v) <= Cardinality(Issued)
        BY <2>3 DEF Given
      <3> QED BY <1>3, <1>4, <3>1
    <2>4. ASSUME NEW k, NEW v, Given(k, v) PROVE Given(k, v)'
      <3>1. CASE k = "sent"
        BY <1>1, <2>4, <3>1 DEF Given
      <3>2. CASE k # "sent"
        <4>1. v \in 1..Ids /\ Age(v)' <= Cardinality(Issued')
          BY <1>3, <2>2, <2>3, <2>4, <3>2
        <4> QED BY <3>2, <4>1 DEF Given, Ids
      <3> QED BY <3>1, <3>2
    <2>5. ASSUME NEW k, NEW v, k = kind[r], v = key'[r] PROVE Given(k, v)'
      <3>1. v \in 1..Ids /\ Age(v)' <= Cardinality(Issued') /\ k # "sent"
        BY <1>3, <1>4, <1>6, <2>1, <2>2, <2>5
      <3> QED BY <3>1 DEF Given, Ids
    <2> QED BY <1>6, <2>1, <2>3, <2>4, <2>5
  <1> QED BY <1>1, <1>5, <1>6


LEMMA CallsAllocate ==
  ASSUME IdsSuffice, TypeOK, CallsInv, NEW a \in Actors, NEW r \in Calls, Issues(a, r)
  PROVE  CallsInv'
  <1>0. CallInv /\ SlotInv /\ IdInv /\ CarryInv /\ StackOK
    BY TypeParts DEF CallsInv
  <1>1. /\ key[r] = None /\ ends[r] = 0 /\ UNCHANGED <<kind, ends, wis, pending_ev>>
        /\ queue' = [queue EXCEPT ![kind[r]] = @ \cup {r}]
    BY DEF Issues
  <1>2. /\ key'[r] # None /\ key'[r] = (IF kind[r] = "resp" THEN NextId ELSE seq_num)
        /\ \A q \in Calls \ {r} : key'[q] = key[q] /\ ItemOf(q)' = ItemOf(q)
        /\ Mentioned' \subseteq Mentioned
    BY IssueFacts
  <1>3. F("send", r).at = "send" /\ F("send", r).x = r
    BY DEF F
  <1>4. \A b \in Actors : \A j \in DOMAIN stack[b] :
          stack[b][j].at \in Sending \cup Ending => stack[b][j].x \in Calls \ {r}
    <2> SUFFICES ASSUME NEW b \in Actors, NEW j \in DOMAIN stack[b],
                        stack[b][j].at \in Sending \cup Ending
                 PROVE  stack[b][j].x \in Calls \ {r}
      OBVIOUS
    <2>1. stack[b][j].x \in Calls
      BY <1>0, StackLen, FrameArg
    <2> QED BY <1>0, <1>1, <2>1 DEF CallInv
  <1>5. \A b \in Actors : \A i \in DOMAIN stack'[b] :
          \/ b = a /\ i = 1 /\ stack'[b][i] = F("send", r)
          \/ \E j \in DOMAIN stack[b] :
               /\ stack'[b][i] = stack[b][j] /\ i = IF b = a THEN j + 1 ELSE j
    BY IssueFacts
  <1>6. CallInv'
    <2>1. ASSUME NEW b \in Actors, NEW i \in DOMAIN stack'[b]
          PROVE  /\ stack'[b][i].at \in Sending => key'[stack'[b][i].x] # None
                 /\ stack'[b][i].at \in Ending => ends'[stack'[b][i].x] = 1
      <3>1. CASE stack'[b][i] = F("send", r)
        BY <1>2, <1>3, <3>1 DEF Ending
      <3>2. ASSUME NEW j \in DOMAIN stack[b], stack'[b][i] = stack[b][j]
            PROVE  /\ stack'[b][i].at \in Sending => key'[stack'[b][i].x] # None
                   /\ stack'[b][i].at \in Ending => ends'[stack'[b][i].x] = 1
        BY <1>0, <1>1, <1>2, <1>4, <3>2 DEF CallInv
      <3> QED BY <1>5, <3>1, <3>2
    <2>2. ASSUME NEW b \in Actors, NEW c \in Actors,
                 NEW i \in DOMAIN stack'[b], NEW k \in DOMAIN stack'[c],
                 stack'[b][i].at \in Sending \cup Ending,
                 stack'[c][k].at \in Sending \cup Ending,
                 stack'[b][i].x = stack'[c][k].x
          PROVE  b = c /\ i = k
      <3>1. CASE stack'[b][i].x = r
        <4>1. b = a /\ i = 1
          BY <1>4, <1>5, <2>2, <3>1
        <4>2. stack'[c][k].x = r /\ stack'[c][k].at \in Sending \cup Ending
          BY <2>2, <3>1
        <4>3. c = a /\ k = 1
          BY <1>4, <1>5, <4>2
        <4> QED BY <4>1, <4>3
      <3>2. CASE stack'[b][i].x # r
        <4>1. PICK j \in DOMAIN stack[b] :
                /\ stack'[b][i] = stack[b][j] /\ i = IF b = a THEN j + 1 ELSE j
          BY <1>3, <1>5, <3>2
        <4>2. stack'[c][k].x # r
          BY <2>2, <3>2
        <4>3. PICK l \in DOMAIN stack[c] :
                /\ stack'[c][k] = stack[c][l] /\ k = IF c = a THEN l + 1 ELSE l
          BY <1>3, <1>5, <4>2
        <4>4. b = c /\ j = l
          BY <1>0, <2>2, <4>1, <4>3 DEF CallInv
        <4> QED BY <4>1, <4>3, <4>4
      <3> QED BY <3>1, <3>2
    <2>3. ASSUME NEW q \in Calls
          PROVE  /\ ends'[q] + (IF key'[q] = None THEN 0 ELSE 1) <= 1
                 /\ key'[q] # None <=> q \in queue'[kind[q]]
      <3>1. CASE q = r
        BY <1>1, <1>2, <3>1, IssueFacts
      <3>2. CASE q # r
        BY <1>0, <1>1, <1>2, <3>2, IssueFacts DEF CallInv
      <3> QED BY <3>1, <3>2
    <2>4. \A k \in {"resp", "sent"} : \A q \in queue'[k] : kind[q] = k
      <3>1. queue \in [{"resp", "sent"} -> SUBSET Calls] /\ kind[r] \in {"resp", "sent"}
        BY CallTypes DEF TypeOK
      <3> QED BY <1>0, <1>1, <3>1 DEF CallInv
    <2> QED BY <1>1, <2>1, <2>2, <2>3, <2>4 DEF CallInv
  <1>7. SlotInv'
    <2> DEFINE s == FirstIdle(kind[r])
    <2>1. /\ slot' = IF s = None THEN slot
                     ELSE [slot EXCEPT ![s] = [busy |-> TRUE, who |-> r]]
          /\ cell' = [cell EXCEPT ![r] = s]
      BY DEF Issues
    <2>2. s = None \/ (s \in Cells /\ ~slot[s].busy)
      BY CallTypes, FirstIdleSlot
    <2> HIDE DEF s
    <2>3. /\ slot \in [Cells -> [busy : BOOLEAN, who : Calls \cup {None}]]
          /\ cell \in [Calls -> Cells \cup {None}] /\ None \notin Cells
      BY ClientAssumption DEF TypeOK
    <2>4. \A q \in Calls \ {r} : cell'[q] = cell[q] /\ (cell[q] # None => cell[q] # s)
      BY <1>0, <2>1, <2>2, <2>3 DEF SlotInv
    <2>5. cell'[r] = s
      BY <2>1, <2>3
    <2>6. \A c \in Cells : /\ c # s => slot'[c] = slot[c]
                           /\ c = s => slot'[c].busy /\ slot'[c].who = r
      BY <2>1, <2>2, <2>3
    <2>7. \A c \in Cells : ~slot'[c].busy => slot'[c].who = None
      BY <1>0, <2>6 DEF SlotInv
    <2>8. ASSUME NEW q \in Calls, cell'[q] # None
          PROVE  /\ slot'[cell'[q]].busy
                 /\ \/ slot'[cell'[q]].who = q
                    \/ \E b \in Actors : \E i \in DOMAIN stack'[b] :
                         stack'[b][i] = F("setIdle", q)
                 /\ \A p \in Calls : cell'[p] = cell'[q] => p = q
      <3>1. CASE q = r
        <4>1. s \in Cells /\ s # None
          BY <2>2, <2>3, <2>5, <2>8, <3>1
        <4>2. slot'[s].busy /\ slot'[s].who = r
          BY <2>6, <4>1
        <4>3. \A p \in Calls : cell'[p] = s => p = r
          BY <2>4, <4>1
        <4> QED BY <2>5, <3>1, <4>2, <4>3
      <3>2. CASE q # r
        <4>1. cell'[q] = cell[q] /\ cell[q] \in Cells /\ cell[q] # s
          BY <2>3, <2>4, <2>8, <3>2
        <4>2. slot'[cell[q]] = slot[cell[q]]
          BY <2>6, <4>1
        <4>3. \A p \in Calls : cell'[p] = cell'[q] => p = q
          BY <1>0, <2>4, <2>5, <2>8, <3>2, <4>1 DEF SlotInv
        <4>4. slot[cell[q]].busy /\ (slot[cell[q]].who = q \/ \E b \in Actors :
                \E i \in DOMAIN stack[b] : stack[b][i] = F("setIdle", q))
          BY <1>0, <2>8, <4>1 DEF SlotInv
        <4>5. \A b \in Actors : \A j \in DOMAIN stack[b] :
                \E i \in DOMAIN stack'[b] : stack'[b][i] = stack[b][j]
          BY IssueFacts
        <4> QED BY <4>1, <4>2, <4>3, <4>4, <4>5
      <3> QED BY <3>1, <3>2
    <2> QED BY <2>7, <2>8 DEF SlotInv
  <1>8. \A w \in Mentioned : w.kind # "net" =>
          ~(Told(w).kind = kind[r] /\ Told(w).val = key'[r])
    <2> SUFFICES ASSUME NEW w \in Mentioned, w.kind # "net",
                        Told(w).kind = kind[r], Told(w).val = key'[r]
                 PROVE  FALSE
      OBVIOUS
    <2>1. Given(w.kind, w.val)
      BY <1>0 DEF IdInv
    <2>2. (w.kind = "sent" <=> kind[r] = "sent") /\ w.val = key'[r]
      BY ToldFacts
    <2> QED BY <2>1, <2>2, IssueFresh
  <1>9. IdInv'
    <2>1. ASSUME NEW q \in Calls, NEW p \in Calls, q # p, kind[q] = kind[p], key'[q] # None
          PROVE  key'[q] # key'[p]
      <3>1. ASSUME NEW u \in Calls, u # r, kind[u] = kind[r], key[u] # None
            PROVE  key[u] # key'[r]
        <4>1. Given(kind[u], key[u])
          BY <1>0, <3>1 DEF IdInv
        <4> QED BY <3>1, <4>1, IssueFresh
      <3>2. CASE q = r
        BY <1>2, <2>1, <3>1, <3>2
      <3>3. CASE p = r
        BY <1>2, <2>1, <3>1, <3>3
      <3>4. CASE q # r /\ p # r
        BY <1>0, <1>2, <2>1, <3>4 DEF IdInv
      <3> QED BY <3>2, <3>3, <3>4
    <2>2. ASSUME NEW q \in Calls, key'[q] # None, NEW k, NEW v, k = kind[q], v = key'[q]
          PROVE  Given(k, v)'
      <3>1. CASE q = r
        BY <2>2, <3>1, IssueFresh
      <3>2. CASE q # r
        <4>1. Given(k, v)
          BY <1>0, <1>2, <2>2, <3>2 DEF IdInv
        <4> QED BY <4>1, IssueFresh
      <3> QED BY <3>1, <3>2
    <2>3. ASSUME NEW w \in Mentioned', w.kind # "net" PROVE Given(w.kind, w.val)'
      <3>1. Given(w.kind, w.val)
        BY <1>0, <1>2, <2>3 DEF IdInv
      <3> QED BY <3>1, IssueFresh
    <2> QED BY <1>1, <2>1, <2>2, <2>3 DEF IdInv
  <1>10. CarryInv'
    <2>1. ASSUME NEW q \in Calls, key'[q] # None PROVE Pending(q)'
      <3>1. CASE q = r
        <4>1. 1 \in DOMAIN stack'[a] /\ stack'[a][1] = F("send", r)
          BY IssueFacts
        <4> QED BY <1>3, <3>1, <4>1 DEF Pending, Bears, Sending
      <3>2. CASE q # r
        <4>1. Pending(q) /\ ItemOf(q)' = ItemOf(q)
          BY <1>0, <1>2, <2>1, <3>2 DEF CarryInv
        <4>2. \A b \in Actors : \A j \in DOMAIN stack[b] :
                \E i \in DOMAIN stack'[b] : stack'[b][i] = stack[b][j]
          BY IssueFacts
        <4> QED BY <1>1, <4>1, <4>2 DEF Pending, Bears, Tells
      <3> QED BY <3>1, <3>2
    <2>2. ASSUME NEW q \in Calls, q # r, OnItsWay(q) PROVE OnItsWay(q)'
      <3>1. \A b \in Actors : \A j \in DOMAIN stack[b] :
              \E i \in DOMAIN stack'[b] : stack'[b][i] = stack[b][j]
        BY IssueFacts
      <3> QED BY <1>1, <1>2, <2>2, <3>1 DEF OnItsWay, Tells
    <2>3. ASSUME NEW w \in Mentioned, w.kind # "net", NEW q \in Calls
          PROVE  /\ q = r => Told(w) # Item(kind'[q], key'[q])
                 /\ q # r => Item(kind'[q], key'[q]) = ItemOf(q)
      <3>1. Told(w) # Item(kind[r], key'[r])
        BY <1>8, <2>3 DEF Item
      <3> QED BY <1>1, <1>2, <3>1 DEF ItemOf
    <2>4. ASSUME NEW b \in Actors, NEW i \in DOMAIN stack'[b], stack'[b][i].at \in Sending,
                 NEW w \in Mentioned', w.kind # "net"
          PROVE  Told(w) # Item(kind'[stack'[b][i].x], key'[stack'[b][i].x])
      <3>1. CASE stack'[b][i] = F("send", r)
        BY <1>2, <1>3, <2>3, <2>4, <3>1
      <3>2. ASSUME NEW j \in DOMAIN stack[b], stack'[b][i] = stack[b][j]
            PROVE  Told(w) # Item(kind'[stack'[b][i].x], key'[stack'[b][i].x])
        <4>1. stack[b][j].x \in Calls \ {r}
          BY <1>4, <2>4, <3>2
        <4>2. ~Names(w, stack[b][j].x)
          BY <1>0, <1>2, <2>4, <3>2 DEF CarryInv
        <4> QED BY <1>2, <2>3, <2>4, <3>2, <4>1, <4>2 DEF Names
      <3> QED BY <1>5, <3>1, <3>2
    <2>5. ASSUME NEW b \in Actors, NEW i \in DOMAIN stack'[b], stack'[b][i].at = "drop",
                 NEW q \in Calls, key'[q] # None, stack'[b][i].x.kind # "net",
                 Told(stack'[b][i].x) = Item(kind'[q], key'[q])
          PROVE  OnItsWay(q)'
      <3>1. PICK j \in DOMAIN stack[b] : stack'[b][i] = stack[b][j]
        BY <1>3, <1>5, <2>5
      <3> DEFINE w == stack[b][j].x
      <3>2. w \in Mentioned
        <4>1. w \in Carried(stack[b][j])
          BY <2>5, <3>1 DEF Carried
        <4> QED BY <4>1, MentionedIs
      <3>3. w.kind # "net" /\ Told(w) = Item(kind'[q], key'[q])
        BY <2>5, <3>1
      <3>4. q # r /\ Told(w) = ItemOf(q)
        BY <2>3, <3>2, <3>3
      <3>5. key[q] # None /\ stack[b][j].at = "drop"
        BY <1>2, <2>5, <3>1, <3>4
      <3>6. OnItsWay(q)
        BY <1>0, <3>3, <3>4, <3>5 DEF CarryInv, Names
      <3> QED BY <2>2, <3>4, <3>6
    <2> QED BY <2>1, <2>4, <2>5 DEF CarryInv, Names, ItemOf
  <1> QED BY <1>6, <1>7, <1>9, <1>10 DEF CallsInv

(***************************************************************************)
(* Every step keeps it                                                     *)
(***************************************************************************)

LEMMA CallsInit == Init => CallsInv
  <1> SUFFICES ASSUME Init PROVE CallsInv
    OBVIOUS
  <1>1. DOMAIN <<>> = {} /\ Range(<<>>) = {}
    BY DEF Range
  <1>2. \A a \in Actors : stack[a] = <<>> /\ DOMAIN stack[a] = {}
    BY <1>1 DEF Init
  <1>3. /\ \A r \in Calls : key[r] = None /\ ends[r] = 0 /\ cell[r] = None
        /\ queue = [k \in {"resp", "sent"} |-> {}]
        /\ \A s \in Cells : slot[s].who = None
        /\ wis = {} /\ Range(pending_ev) = {}
    BY <1>1 DEF Init
  <1>4. Mentioned = {}
    BY <1>2, <1>3, MentionedIs
  <1>5. \A r \in Calls : kind[r] \in {"resp", "sent"}
    <2>1. kind \in [Calls -> {"resp", "sent"}]
      BY ClientAssumption DEF Init
    <2> QED BY <2>1
  <1>6. CallInv
    BY <1>2, <1>3, <1>5 DEF CallInv
  <1>7. SlotInv
    BY <1>3 DEF SlotInv
  <1>8. IdInv
    BY <1>3, <1>4 DEF IdInv
  <1>9. CarryInv
    BY <1>2, <1>3 DEF CarryInv
  <1> QED BY <1>6, <1>7, <1>8, <1>9 DEF CallsInv

LEMMA CallsStep ==
  ASSUME IdsSuffice
  PROVE  TypeOK /\ LockInv /\ CallsInv /\ [Next]_vars => CallsInv'
  <1> SUFFICES ASSUME TypeOK, LockInv, CallsInv, [Next]_vars PROVE CallsInv'
    OBVIOUS
  <1>1. ASSUME NEW a \in Actors, Step(a) PROVE CallsInv'
    <2>1. CASE SendDummy(a) \/ SendUv(a) \/ Enqueue(a)
      BY <2>1, CallsSend
    <2>2. CASE Undo(a) \/ Deliver(a)
      BY <2>2, CallsUndo, CallsDeliver
    <2>3. CASE EndCallback(a) \/ SetIdle(a)
      BY <2>3, CallsRelease
    <2>4. CASE QueueEvent(a) \/ PollStep(a)
      BY <2>4, CallsQueue
    <2>5. CASE Drop(a) \/ SweepStep(a)
      BY <2>5, CallsDrop, CallsSweepStep
    <2>6. CASE \/ FireEvent(a) \/ Walk(a) \/ EndHandler(a) \/ SwitchStep(a)
               \/ Exit(a) \/ Join(a) \/ Destroy(a)
      BY <2>6, CallsEvents
    <2> QED BY <1>1, <2>1, <2>2, <2>3, <2>4, <2>5, <2>6 DEF Step
  <1>2. ASSUME NEW a \in Actors, ApiCall(a) PROVE CallsInv'
    <2>1. ASSUME NEW r \in Calls, Allocate(a, r) PROVE CallsInv'
      BY <2>1, AllocateIssues, CallsAllocate, CallsSame
    <2> QED BY <1>2, <2>1, CallsApi DEF ApiCall
  <1>3. CASE UNCHANGED vars
    BY <1>3, CallsSame DEF vars, setup, memVars, evVars, trVars
  <1> QED BY <1>1, <1>2, <1>3, NextCases, CallsWorker, CallsApi

LEMMA CallsHold ==
  ASSUME IdsSuffice
  PROVE  Spec => [](TypeOK /\ LockInv /\ CallsInv)
  <1>1. Init => CallsInv
    BY CallsInit
  <1>2. TypeOK /\ LockInv /\ CallsInv /\ [Next]_vars => CallsInv'
    BY CallsStep
  <1> QED BY <1>1, <1>2, LocksHold, PTL DEF Spec


(***************************************************************************)
(* What follows from it                                                    *)
(***************************************************************************)

\* A request or a notification gets its callback once, or its caller an
\* error, and never both: whatever times out, is answered late or reset, and
\* however callbacks send again.  Until then the id by which it will be found
\* is with the transport, in pending_ev_queue or in the hands of a thread.
THEOREM CallsAnsweredOnce ==
  ASSUME IdsSuffice
  PROVE  Spec => []AnsweredOnce
  <1>1. CallsInv => AnsweredOnce
    BY DEF CallsInv, CallInv, CarryInv, AnsweredOnce
  <1> QED BY <1>1, CallsHold, PTL

\* The assertion in pc_request_with_timeout that an idle slot is clear never
\* fails, and a callback reads the route and msg of its own call.
THEOREM SlotsOwned ==
  ASSUME IdsSuffice
  PROVE  Spec => []SlotOwned
  <1> DEFINE NoAssert == fault # "slotAssert"
  <1>1. Init => NoAssert
    BY ClientAssumption DEF Init, Faults
  <1>2. TypeOK /\ LockInv /\ CallsInv /\ NoAssert /\ [Next]_vars => NoAssert'
    <2> SUFFICES ASSUME TypeOK, LockInv, CallsInv, fault # "slotAssert", [Next]_vars
                 PROVE  fault' # "slotAssert"
      OBVIOUS
    <2>1. \A r \in Calls : FirstIdle(kind[r]) = None \/ slot[FirstIdle(kind[r])].who = None
      BY CallTypes, FirstIdleSlot DEF CallsInv, SlotInv
    <2>2. fault' = fault \/ fault' \in NetEvents \cup {"queueAssert"}
      BY <2>1, FaultCases
    <2> QED BY <2>2 DEF NetEvents
  <1>3. TypeOK /\ CallsInv /\ NoAssert => SlotOwned
    <2> SUFFICES ASSUME TypeOK, CallsInv, NEW a \in Actors, NEW i \in DOMAIN stack[a],
                        stack[a][i].at = "cb", cell[stack[a][i].x] # None
                 PROVE  slot[cell[stack[a][i].x]].who = stack[a][i].x
      BY DEF SlotOwned
    <2> DEFINE r == stack[a][i].x
    <2>1. r \in Calls
      BY TypeParts, StackLen, FrameArg DEF Ending
    <2>2. ASSUME NEW b \in Actors, NEW j \in DOMAIN stack[b], stack[b][j] = F("setIdle", r)
          PROVE  FALSE
      <3>1. stack[b][j].at = "setIdle" /\ stack[b][j].x = r
        BY <2>2 DEF F
      <3>2. a = b /\ i = j
        BY <3>1 DEF CallsInv, CallInv, Ending
      <3> QED BY <3>1, <3>2
    <2> QED BY <2>1, <2>2 DEF CallsInv, SlotInv
  <1> QED BY <1>1, <1>2, <1>3, CallsHold, PTL DEF Spec

\* The requests that wait have different ids, and none has the id of a push
\* or the invalid one, wherever req_id_seq started and when it wraps around.
THEOREM IdsStayUsable ==
  ASSUME IdsSuffice
  PROVE  Spec => []IdsUsable
  <1>1. TypeOK /\ CallsInv => IdsUsable
    <2> SUFFICES ASSUME TypeOK, CallsInv, NEW r \in queue["resp"], NEW s \in queue["resp"]
                 PROVE  key[r] \notin Reserved /\ (r # s => key[r] # key[s])
      BY DEF IdsUsable
    <2>1. r \in Calls /\ s \in Calls /\ kind[r] = "resp" /\ kind[s] = "resp"
      BY DEF TypeOK, CallsInv, CallInv
    <2>2. key[r] # None
      BY <2>1 DEF CallsInv, CallInv
    <2>3. key[r] \in 1..Ids
      BY <2>1, <2>2 DEF CallsInv, IdInv, Given
    <2>4. key[r] \notin Reserved
      <3> DEFINE M == 2^IdBits
      <3>1. M \in Int /\ Ids = M - 2 /\ Reserved = {0, M - 1}
        BY ClientAssumption DEF Ids, Reserved
      <3> HIDE DEF M
      <3> QED BY <2>3, <3>1
    <2> QED BY <2>1, <2>2, <2>4 DEF CallsInv, IdInv
  <1> QED BY <1>1, CallsHold, PTL

\* When pc_client_cleanup has joined the worker and polled once more, every
\* call has ended: its assertions on the two queues hold.
THEOREM NothingIsLeft ==
  ASSUME IdsSuffice
  PROVE  Spec => []NothingLeft
  <1>1. Init => NothingLeft
    BY ClientAssumption DEF Init, NothingLeft, Faults
  <1>2. TypeOK /\ LockInv /\ CallsInv /\ NothingLeft /\ [Next]_vars => NothingLeft'
    <2> SUFFICES ASSUME TypeOK, LockInv, CallsInv, NothingLeft, [Next]_vars
                 PROVE  NothingLeft'
      OBVIOUS
    <2>1. ASSUME NEW a \in Actors, At(a) = "destroy", NEW k \in {"resp", "sent"},
                 NEW r \in queue[k]
          PROVE  FALSE
      <3>1. r \in Calls /\ key[r] # None
        BY DEF TypeOK, CallsInv, CallInv
      <3>2. Pending(r)
        BY <3>1 DEF CallsInv, CarryInv
      <3>3. /\ StackOK /\ Len(stack[a]) = 1 /\ stack[a][1].at = "destroy"
            /\ \A b \in Actors \ {a} : stack[b] = <<>>
            /\ wis = {} /\ pending_ev = <<>>
        BY <2>1, DestroyAlone, TypeParts
      <3>4. ItemOf(r) \notin wis \cup Range(pending_ev)
        BY <3>3 DEF Range
      <3>5. \A b \in Actors : \A i \in DOMAIN stack[b] : b = a /\ i = 1
        BY <3>3, StackLen
      <3> QED BY <3>2, <3>3, <3>4, <3>5 DEF Pending, Bears, Tells, Sending
    <2>2. fault' = fault \/ fault' \in NetEvents \cup {"slotAssert"}
      BY <2>1, FaultCases
    <2> QED BY <2>2 DEF NothingLeft, NetEvents
  <1> QED BY <1>1, <1>2, CallsHold, PTL DEF Spec
=============================================================================
