------------------------------ MODULE TlsProofs ------------------------------
(***************************************************************************)
(* What TLC checks of TlsTransport on a small instance, for any requests   *)
(* and any number of connections and renegotiations: the assertion of      *)
(* tls__write_to_tcp, that every write item is held in one place until it  *)
(* is done, that what SSL has left in BIO out is going to be written, and, *)
(* where libuv takes a write whole, that the socket carries what SSL has   *)
(* made, in the order in which the requests were queued.                   *)
(***************************************************************************)
EXTENDS TlsTransport, SequenceTheorems, WellFoundedInduction, TLAPS

(***************************************************************************)
(* Types.  The sets of the fields have names, so that a proof need not     *)
(* look into those of the fields it does not touch.                        *)
(***************************************************************************)

Words == Items \cup Records
Memory == Words \cup {Zero}

Flags == BOOLEAN
Counts == Nat
Ranks == 0..4
Spans == Nat \X Nat
States == {"NOT_CONN", "CONNECTING", "HANDSHAKEING", "DONE"}
Socks == {"none", "open", "reading", "stopped", "closing", "closed"}
SslStates == {"before", "shaking", "up", "failed", "none"}
Inputs == Incoming \cup {None}
Retries == Items \cup {None}
Failures == NetEvents \cup Faults \cup {None}
TimerSets == SUBSET {"reconn_delay", "check"}
AsyncSets == SUBSET Asyncs
RequestSets == SUBSET Requests
ReplySets == SUBSET Incoming
Lines == Seq(Items)
Produced == Seq(Words)
Streams == Seq(Memory)

Tls ==
  [client : ClientStates, state : States, sock : Socks,
   is_connecting : Flags, is_writing : Flags,
   conn_pending : Lines, write_wait : Lines, writing : Lines,
   resp_pending : RequestSets, when_tcp_is_writing : Lines,
   should_retry : Retries, retry_wb : Retries,
   is_handshake_completed : Flags,
   ssl : SslStates, in : Inputs,
   mem : Streams, out : Counts, left : Spans,
   made : Produced, wire : Streams, replied : ReplySets,
   timers : TimerSets, async : AsyncSets, pos : Ranks, conns : Counts,
   closed : Flags, done : RequestSets, fault : Failures]

Sends == Seq([req : Requests, ready : BOOLEAN])

\* Both Booleans are flags.
LEMMA FlagValues == TRUE \in Flags /\ FALSE \in Flags
  BY DEF Flags

\* The transport states are states.
LEMMA StateValues ==
  /\ "NOT_CONN" \in States /\ "CONNECTING" \in States
  /\ "HANDSHAKEING" \in States /\ "DONE" \in States
  BY DEF States

\* The states of the socket are states of it.
LEMMA SockValues ==
  /\ "open" \in Socks /\ "reading" \in Socks /\ "stopped" \in Socks
  /\ "closing" \in Socks /\ "closed" \in Socks /\ "none" \in Socks
  BY DEF Socks

\* The states of SSL are states of it.
LEMMA SslValues ==
  /\ "before" \in SslStates /\ "shaking" \in SslStates /\ "up" \in SslStates
  /\ "failed" \in SslStates /\ "none" \in SslStates
  BY DEF SslStates

\* The states of the client are states of it.
LEMMA ClientValues ==
  /\ "INITED" \in ClientStates /\ "CONNECTING" \in ClientStates
  /\ "CONNECTED" \in ClientStates /\ "DISCONNECTING" \in ClientStates
  BY DEF ClientStates

\* None may stand for an input, an item to retry and a failure.
LEMMA NoneValues ==
  /\ None \in Inputs /\ None \in Retries /\ None \in Failures
  /\ Items \subseteq Retries /\ Incoming \subseteq Inputs
  BY DEF Inputs, Retries, Failures

\* Nothing may be set, waiting or answered.
LEMMA EmptySets ==
  {} \in TimerSets /\ {} \in AsyncSets /\ {} \in RequestSets /\ {} \in ReplySets
  BY DEF TimerSets, AsyncSets, RequestSets, ReplySets

\* The counters and the span of a write may be at their first value.
LEMMA Zeros == 0 \in Counts /\ 0 \in Ranks /\ <<1, 0>> \in Spans
  BY DEF Counts, Ranks, Spans

\* Requests are no words of SSL, and None is nothing that is sent.
LEMMA Apartness ==
  /\ Requests \subseteq Items /\ None \notin Requests
  /\ Requests \cap Records = {} /\ Zero \notin Requests
  /\ "handshake" \notin Requests /\ "ack" \notin Requests
  /\ "handshake" \in Items /\ "ack" \in Items
  BY TlsAssumption DEF Items

(***************************************************************************)
(* Sequences                                                               *)
(***************************************************************************)

\* Concatenation, for the provers to see it as one symbol
Cat(a, b) == a \o b

\* Items are bytes that SSL makes, and those are bytes of memory.
LEMMA Inclusions ==
  /\ Items \subseteq Memory /\ Words \subseteq Memory
  /\ Lines \subseteq Produced /\ Lines \subseteq Streams /\ Produced \subseteq Streams
  <1>1. Items \subseteq Words /\ Words \subseteq Memory
    BY DEF Words, Memory
  <1> QED BY <1>1, SeqMonotonic DEF Lines, Produced, Streams

\* Sequences of a kind joined are of that kind.
LEMMA CatTyped ==
  /\ \A a, b \in Streams : Cat(a, b) \in Streams
  /\ \A a, b \in Lines : Cat(a, b) \in Lines
  /\ \A a, b \in Produced : Cat(a, b) \in Produced
  BY ConcatProperties DEF Lines, Produced, Streams, Cat

\* The length of a concatenation.
LEMMA CatLen ==
  ASSUME NEW a \in Streams, NEW b \in Streams
  PROVE  /\ Len(a) \in Nat /\ Len(b) \in Nat
         /\ Len(Cat(a, b)) = Len(a) + Len(b)
  BY ConcatProperties, LenProperties DEF Streams, Cat

\* Concatenation is associative.
LEMMA CatAssociative ==
  ASSUME NEW a \in Streams, NEW b \in Streams, NEW c \in Streams
  PROVE  Cat(Cat(a, b), c) = Cat(a, Cat(b, c))
  BY ConcatAssociative DEF Streams, Cat

\* The empty sequence is of every kind, and its neutral element.
LEMMA CatEmpty ==
  /\ <<>> \in Streams /\ <<>> \in Lines /\ <<>> \in Produced
  /\ Len(<<>>) = 0 /\ Range(<<>>) = {}
  /\ \A a \in Streams : Cat(a, <<>>) = a /\ Cat(<<>>, a) = a
  <1>1. Range(<<>>) = {}
    BY DEF Range
  <1> QED BY <1>1, EmptySeq, ConcatEmptySeq DEF Streams, Lines, Produced, Cat

\* The elements of a concatenation are those of its parts.
LEMMA CatElements ==
  ASSUME NEW a \in Streams, NEW b \in Streams
  PROVE  /\ DOMAIN a = 1..Len(a) /\ DOMAIN b = 1..Len(b)
         /\ Len(a) \in Nat /\ Len(b) \in Nat
         /\ DOMAIN Cat(a, b) = 1..(Len(a) + Len(b))
         /\ \A i \in 1..Len(a) : Cat(a, b)[i] = a[i]
         /\ \A i \in 1..Len(b) : Cat(a, b)[Len(a) + i] = b[i]
         /\ \A i \in 1..(Len(a) + Len(b)) :
              i \in 1..Len(a) \/ \E k \in 1..Len(b) : i = Len(a) + k
  <1>1. /\ Cat(a, b) \in Streams
        /\ Len(a) \in Nat /\ Len(b) \in Nat
        /\ Len(Cat(a, b)) = Len(a) + Len(b)
        /\ \A i \in 1..(Len(a) + Len(b)) :
             Cat(a, b)[i] = IF i <= Len(a) THEN a[i] ELSE b[i - Len(a)]
    BY ConcatProperties, LenProperties DEF Streams, Cat
  <1>2. /\ DOMAIN a = 1..Len(a) /\ DOMAIN b = 1..Len(b)
        /\ DOMAIN Cat(a, b) = 1..Len(Cat(a, b))
    BY <1>1, LenProperties DEF Streams
  <1>3. \A i \in 1..Len(a) : Cat(a, b)[i] = a[i]
    BY <1>1
  <1>4. ASSUME NEW i \in 1..Len(b) PROVE Cat(a, b)[Len(a) + i] = b[i]
    <2>1. Len(a) + i \in 1..(Len(a) + Len(b)) /\ ~(Len(a) + i <= Len(a))
          /\ (Len(a) + i) - Len(a) = i
      BY <1>1
    <2> QED BY <1>1, <2>1
  <1>5. ASSUME NEW i \in 1..(Len(a) + Len(b)), i \notin 1..Len(a)
        PROVE  \E k \in 1..Len(b) : i = Len(a) + k
    <2>1. i - Len(a) \in 1..Len(b) /\ i = Len(a) + (i - Len(a))
      BY <1>1, <1>5
    <2> QED BY <2>1
  <1> QED BY <1>1, <1>2, <1>3, <1>4, <1>5

\* What a concatenation holds is what its parts hold.
LEMMA RangeCat ==
  ASSUME NEW a \in Streams, NEW b \in Streams
  PROVE  Range(Cat(a, b)) = Range(a) \cup Range(b)
  <1> DEFINE c == Cat(a, b)
  <1>1. /\ DOMAIN a = 1..Len(a) /\ DOMAIN b = 1..Len(b)
        /\ Len(a) \in Nat /\ Len(b) \in Nat
        /\ DOMAIN c = 1..(Len(a) + Len(b))
        /\ \A i \in 1..Len(a) : c[i] = a[i]
        /\ \A i \in 1..Len(b) : c[Len(a) + i] = b[i]
        /\ \A i \in 1..(Len(a) + Len(b)) :
              i \in 1..Len(a) \/ \E k \in 1..Len(b) : i = Len(a) + k
    BY CatElements
  <1> HIDE DEF c
  <1>2. ASSUME NEW x \in Range(c) PROVE x \in Range(a) \cup Range(b)
    <2>1. PICK i \in 1..(Len(a) + Len(b)) : x = c[i]  BY <1>1 DEF Range
    <2>2. CASE i \in 1..Len(a)
      BY <1>1, <2>1, <2>2 DEF Range
    <2>3. CASE i \notin 1..Len(a)
      <3>1. PICK k \in 1..Len(b) : i = Len(a) + k  BY <1>1, <2>3
      <3>2. x = b[k]  BY <1>1, <2>1, <3>1
      <3> QED BY <1>1, <3>2 DEF Range
    <2> QED BY <2>2, <2>3
  <1>3. ASSUME NEW x \in Range(a) PROVE x \in Range(c)
    <2>1. PICK i \in 1..Len(a) : x = a[i]  BY <1>1 DEF Range
    <2>2. i \in 1..(Len(a) + Len(b))  BY <1>1
    <2> QED BY <1>1, <2>1, <2>2 DEF Range
  <1>4. ASSUME NEW x \in Range(b) PROVE x \in Range(c)
    <2>1. PICK i \in 1..Len(b) : x = b[i]  BY <1>1 DEF Range
    <2>2. Len(a) + i \in 1..(Len(a) + Len(b))  BY <1>1
    <2> QED BY <1>1, <2>1, <2>2 DEF Range
  <1> QED BY <1>2, <1>3, <1>4 DEF c

\* A sequence of one element.
LEMMA OneElement ==
  ASSUME NEW x
  PROVE  /\ Range(<<x>>) = {x} /\ Len(<<x>>) = 1
         /\ x \in Items => <<x>> \in Lines
         /\ x \in Words => <<x>> \in Produced
         /\ x \in Memory => <<x>> \in Streams
  BY DEF Range, Lines, Produced, Streams

\* A queue that is not empty is its first item and the rest.
LEMMA HeadAndTail ==
  ASSUME NEW a \in Lines, a # <<>>
  PROVE  /\ Head(a) \in Items /\ Tail(a) \in Lines
         /\ a = Cat(<<Head(a)>>, Tail(a))
  <1>1. /\ Head(a) \in Items /\ Tail(a) \in Lines /\ Len(Tail(a)) = Len(a) - 1
        /\ Len(a) \in Nat /\ Len(a) > 0 /\ Head(a) = a[1]
        /\ \A i \in 1..Len(Tail(a)) : Tail(a)[i] = a[i + 1]
    BY HeadTailProperties, LenProperties, EmptySeq DEF Lines
  <1> DEFINE h == <<Head(a)>>
             t == Tail(a)
             c == Cat(h, t)
  <1>2. h \in Lines /\ Len(h) = 1 /\ h[1] = Head(a)
    BY <1>1, OneElement
  <1>3. h \in Streams /\ t \in Streams /\ c \in Lines
    BY <1>1, <1>2, Inclusions, CatTyped
  <1>4. /\ DOMAIN c = 1..(Len(h) + Len(t)) /\ Len(c) = Len(h) + Len(t)
        /\ \A i \in 1..Len(h) : c[i] = h[i]
        /\ \A i \in 1..Len(t) : c[Len(h) + i] = t[i]
    BY <1>3, CatElements, CatLen
  <1> HIDE DEF h, c
  <1>5. Len(c) = Len(a)
    BY <1>1, <1>2, <1>4
  <1>6. ASSUME NEW i \in 1..Len(a) PROVE a[i] = c[i]
    <2>1. CASE i = 1
      BY <1>1, <1>2, <1>4, <2>1
    <2>2. CASE i # 1
      <3>1. i - 1 \in 1..Len(t) /\ 1 + (i - 1) = i /\ (i - 1) + 1 = i
        BY <1>1, <2>2
      <3>2. c[1 + (i - 1)] = t[i - 1] /\ t[i - 1] = a[(i - 1) + 1]
        BY <1>1, <1>2, <1>4, <3>1
      <3> QED BY <3>1, <3>2
    <2> QED BY <2>1, <2>2
  <1>7. a = c
    BY <1>3, <1>5, <1>6, SeqEqual DEF Lines
  <1> QED BY <1>1, <1>7 DEF c, h

\* An item appended is a sequence of one joined.
LEMMA AppendCat ==
  ASSUME NEW a \in Lines, NEW x \in Items
  PROVE  Append(a, x) = Cat(a, <<x>>) /\ Append(a, x) \in Lines
  BY AppendIsConcat, AppendProperties DEF Lines, Cat

(***************************************************************************)
(* Order and repetition.  Late(q, a, b): request a was queued after b, in  *)
(* the same phase; q is the history of the requests queued.                *)
(***************************************************************************)

Late(q, a, b) ==
  \E i, j \in DOMAIN q :
    i < j /\ q[i].ready = q[j].ready /\ a = q[j].req /\ b = q[i].req

\* Nothing in A is late for something in B.
Before(q, A, B) == \A a \in A, b \in B : ~Late(q, a, b)

Ordered(q, seq) ==
  \A i, j \in DOMAIN seq : i < j => ~Late(q, seq[i], seq[j])

\* No request is there twice.
Once(seq) ==
  \A i, j \in DOMAIN seq : seq[i] = seq[j] /\ seq[i] \in Requests => i = j

\* Only requests are late.
LEMMA LateRequests ==
  ASSUME NEW q \in Sends, NEW a, NEW b, Late(q, a, b)
  PROVE  a \in Requests /\ b \in Requests
  <1>1. \A i \in DOMAIN q : q[i] \in [req : Requests, ready : BOOLEAN]
    BY ElementOfSeq, LenProperties DEF Sends
  <1> QED BY <1>1 DEF Late

\* A concatenation is in order when its parts are and none of the first is
\* late.
LEMMA OrderedCat ==
  ASSUME NEW q, NEW a \in Streams, NEW b \in Streams
  PROVE  Ordered(q, Cat(a, b))
           <=> Ordered(q, a) /\ Ordered(q, b) /\ Before(q, Range(a), Range(b))
  <1> DEFINE c == Cat(a, b)
  <1>1. /\ DOMAIN a = 1..Len(a) /\ DOMAIN b = 1..Len(b)
        /\ Len(a) \in Nat /\ Len(b) \in Nat
        /\ DOMAIN c = 1..(Len(a) + Len(b))
        /\ \A i \in 1..Len(a) : c[i] = a[i]
        /\ \A i \in 1..Len(b) : c[Len(a) + i] = b[i]
        /\ \A i \in 1..(Len(a) + Len(b)) :
              i \in 1..Len(a) \/ \E k \in 1..Len(b) : i = Len(a) + k
    BY CatElements
  <1> HIDE DEF c
  <1> USE <1>1
  <1>2. ASSUME Ordered(q, c)
        PROVE  Ordered(q, a) /\ Ordered(q, b) /\ Before(q, Range(a), Range(b))
    <2>1. ASSUME NEW i \in DOMAIN a, NEW j \in DOMAIN a, i < j
          PROVE  ~Late(q, a[i], a[j])
      BY <1>2, <2>1 DEF Ordered
    <2>2. ASSUME NEW i \in DOMAIN b, NEW j \in DOMAIN b, i < j
          PROVE  ~Late(q, b[i], b[j])
      <3>1. Len(a) + i \in DOMAIN c /\ Len(a) + j \in DOMAIN c
            /\ Len(a) + i < Len(a) + j
        BY <2>2
      <3> QED BY <1>2, <3>1 DEF Ordered
    <2>3. ASSUME NEW x \in Range(a), NEW y \in Range(b)
          PROVE  ~Late(q, x, y)
      <3>1. PICK i \in 1..Len(a) : x = a[i]  BY DEF Range
      <3>2. PICK j \in 1..Len(b) : y = b[j]  BY DEF Range
      <3>3. i \in DOMAIN c /\ Len(a) + j \in DOMAIN c /\ i < Len(a) + j
        OBVIOUS
      <3> QED BY <1>2, <3>1, <3>2, <3>3 DEF Ordered
    <2> QED BY <2>1, <2>2, <2>3 DEF Ordered, Before
  <1>3. ASSUME Ordered(q, a), Ordered(q, b), Before(q, Range(a), Range(b)),
               NEW i \in DOMAIN c, NEW j \in DOMAIN c, i < j
        PROVE  ~Late(q, c[i], c[j])
    <2>1. CASE i \in 1..Len(a) /\ j \in 1..Len(a)
      BY <1>3, <2>1 DEF Ordered
    <2>2. CASE i \in 1..Len(a) /\ j \notin 1..Len(a)
      <3>1. PICK k \in 1..Len(b) : j = Len(a) + k  BY <2>2
      <3>2. c[i] \in Range(a) /\ c[j] \in Range(b)
        BY <2>2, <3>1 DEF Range
      <3> QED BY <1>3, <3>2 DEF Before
    <2>3. CASE i \notin 1..Len(a)
      <3>1. PICK k \in 1..Len(b) : i = Len(a) + k  BY <2>3
      <3>2. j \notin 1..Len(a)
        BY <1>3, <2>3
      <3>3. PICK l \in 1..Len(b) : j = Len(a) + l  BY <3>2
      <3>4. k < l
        BY <1>3, <3>1, <3>3
      <3> QED BY <1>3, <3>1, <3>3, <3>4 DEF Ordered
    <2> QED BY <2>1, <2>2, <2>3
  <1> QED BY <1>2, <1>3 DEF Ordered, c

\* A concatenation has no request twice when its parts have not and share
\* none.
LEMMA OnceCat ==
  ASSUME NEW a \in Streams, NEW b \in Streams
  PROVE  Once(Cat(a, b))
           <=> Once(a) /\ Once(b) /\ Range(a) \cap Range(b) \cap Requests = {}
  <1> DEFINE c == Cat(a, b)
  <1>1. /\ DOMAIN a = 1..Len(a) /\ DOMAIN b = 1..Len(b)
        /\ Len(a) \in Nat /\ Len(b) \in Nat
        /\ DOMAIN c = 1..(Len(a) + Len(b))
        /\ \A i \in 1..Len(a) : c[i] = a[i]
        /\ \A i \in 1..Len(b) : c[Len(a) + i] = b[i]
        /\ \A i \in 1..(Len(a) + Len(b)) :
              i \in 1..Len(a) \/ \E k \in 1..Len(b) : i = Len(a) + k
    BY CatElements
  <1> HIDE DEF c
  <1> USE <1>1
  <1>2. ASSUME Once(c)
        PROVE  Once(a) /\ Once(b) /\ Range(a) \cap Range(b) \cap Requests = {}
    <2>1. ASSUME NEW i \in DOMAIN a, NEW j \in DOMAIN a, a[i] = a[j], a[i] \in Requests
          PROVE  i = j
      <3>1. i \in DOMAIN c /\ j \in DOMAIN c /\ c[i] = a[i] /\ c[j] = a[j]
        OBVIOUS
      <3> QED BY <1>2, <2>1, <3>1 DEF Once
    <2>2. ASSUME NEW i \in DOMAIN b, NEW j \in DOMAIN b, b[i] = b[j], b[i] \in Requests
          PROVE  i = j
      <3>1. Len(a) + i \in DOMAIN c /\ Len(a) + j \in DOMAIN c
            /\ c[Len(a) + i] = b[i] /\ c[Len(a) + j] = b[j]
        OBVIOUS
      <3>2. Len(a) + i = Len(a) + j
        BY <1>2, <2>2, <3>1 DEF Once
      <3> QED BY <3>2
    <2>3. ASSUME NEW x \in Range(a), x \in Range(b), x \in Requests
          PROVE  FALSE
      <3>1. PICK i \in 1..Len(a) : x = a[i]  BY DEF Range
      <3>2. PICK j \in 1..Len(b) : x = b[j]  BY <2>3 DEF Range
      <3>3. i \in DOMAIN c /\ Len(a) + j \in DOMAIN c /\ i # Len(a) + j
            /\ c[i] = x /\ c[Len(a) + j] = x
        <4>1. i \in DOMAIN c /\ Len(a) + j \in DOMAIN c /\ i # Len(a) + j
          OBVIOUS
        <4>2. c[i] = a[i] /\ c[Len(a) + j] = b[j]
          OBVIOUS
        <4> QED BY <3>1, <3>2, <4>1, <4>2
      <3> QED BY <1>2, <2>3, <3>3 DEF Once
    <2>4. Range(a) \cap Range(b) \cap Requests = {}
      BY <2>3
    <2> QED BY <2>1, <2>2, <2>4 DEF Once
  <1>3. ASSUME Once(a), Once(b), Range(a) \cap Range(b) \cap Requests = {},
               NEW i \in DOMAIN c, NEW j \in DOMAIN c, c[i] = c[j], c[i] \in Requests
        PROVE  i = j
    <2>1. CASE i \in 1..Len(a) /\ j \in 1..Len(a)
      BY <1>3, <2>1 DEF Once
    <2>2. CASE i \in 1..Len(a) /\ j \notin 1..Len(a)
      <3>1. PICK k \in 1..Len(b) : j = Len(a) + k  BY <2>2
      <3>2. c[i] \in Range(a) /\ c[j] \in Range(b)
        BY <2>2, <3>1 DEF Range
      <3> QED BY <1>3, <3>2
    <2>3. CASE i \notin 1..Len(a) /\ j \in 1..Len(a)
      <3>1. PICK k \in 1..Len(b) : i = Len(a) + k  BY <2>3
      <3>2. c[j] \in Range(a) /\ c[i] \in Range(b)
        BY <2>3, <3>1 DEF Range
      <3> QED BY <1>3, <3>2
    <2>4. CASE i \notin 1..Len(a) /\ j \notin 1..Len(a)
      <3>1. PICK k \in 1..Len(b) : i = Len(a) + k  BY <2>4
      <3>2. PICK l \in 1..Len(b) : j = Len(a) + l  BY <2>4
      <3>3. b[k] = b[l] /\ b[k] \in Requests
        BY <1>3, <3>1, <3>2
      <3>4. k = l
        BY <1>3, <3>3 DEF Once
      <3> QED BY <3>1, <3>2, <3>4
    <2> QED BY <2>1, <2>2, <2>3, <2>4
  <1> QED BY <1>2, <1>3 DEF Once, c

\* Sequences of at most one element are in order, without repetition.
LEMMA ShortSequences ==
  ASSUME NEW q
  PROVE  /\ Ordered(q, <<>>) /\ Once(<<>>)
         /\ \A x : Ordered(q, <<x>>) /\ Once(<<x>>)
  BY DEF Ordered, Once

(***************************************************************************)
(* Keep                                                                    *)
(***************************************************************************)

\* A set of numbers that is not empty has a least element.
LEMMA LeastNatural ==
  ASSUME NEW S \in SUBSET Nat, S # {}
  PROVE  \E m \in S : \A k \in S : m <= k
  <1>1. IsWellFoundedOn(OpToRel(<, Nat), Nat)
    BY NatLessThanWellFounded
  <1>2. PICK m \in S : \A k \in S : ~ (<<k, m>> \in OpToRel(<, Nat))
    BY <1>1, WFMin
  <1>3. \A k \in S : ~ (k < m)
    BY <1>2, Zenon DEF OpToRel
  <1> QED BY <1>3

\* A set that holds 0 and the successor of each of its naturals
LEMMA NatSetInduction ==
  ASSUME NEW S, 0 \in S, \A n \in Nat : n \in S => n + 1 \in S
  PROVE  Nat \subseteq S
  <1> DEFINE T == {n \in Nat : n \notin S}
  <1> SUFFICES ASSUME T # {} PROVE FALSE
    OBVIOUS
  <1>1. PICK m \in T : \A k \in T : m <= k
    BY LeastNatural
  <1> QED BY <1>1

\* The function by which Keep is defined
KeepFcn(q, late, f) ==
  f = [n \in 0..Len(q) |->
         IF n = 0 THEN <<>>
         ELSE IF q[n] \in late THEN f[n-1] ELSE Append(f[n-1], q[n])]

\* There is a function as the recursion of Keep wants it.
LEMMA KeepFcnExists ==
  ASSUME NEW q \in Lines, NEW late
  PROVE  \E f : KeepFcn(q, late, f)
  <1> DEFINE Starts(n, f) ==
               /\ f \in [0..n -> Lines] /\ f[0] = <<>>
               /\ \A i \in 1..n :
                    f[i] = IF q[i] \in late THEN f[i-1] ELSE Append(f[i-1], q[i])
             Known == {n \in Nat : n <= Len(q) => \E f : Starts(n, f)}
  <1>0. Len(q) \in Nat /\ \A i \in 1..Len(q) : q[i] \in Items
    BY LenProperties, ElementOfSeq DEF Lines
  <1>1. 0 \in Known
    <2> DEFINE f == [i \in 0..0 |-> <<>>]
    <2>1. Starts(0, f)
      BY CatEmpty
    <2> QED BY <2>1
  <1>2. ASSUME NEW n \in Nat, n \in Known PROVE n + 1 \in Known
    <2> SUFFICES ASSUME n + 1 <= Len(q) PROVE \E f : Starts(n + 1, f)
      OBVIOUS
    <2>1. PICK f : Starts(n, f)
      BY <1>0, <1>2
    <2> DEFINE x == IF q[n+1] \in late THEN f[n] ELSE Append(f[n], q[n+1])
               g == [i \in 0..(n+1) |-> IF i = n + 1 THEN x ELSE f[i]]
    <2>2. f[n] \in Lines /\ q[n+1] \in Items
      BY <1>0, <2>1
    <2>3. x \in Lines
      BY <2>2, AppendCat
    <2>4. g[n+1] = x /\ \A i \in 0..n : g[i] = f[i]
      OBVIOUS
    <2>5. ASSUME NEW i \in 1..(n+1)
          PROVE  g[i] = IF q[i] \in late THEN g[i-1] ELSE Append(g[i-1], q[i])
      <3>1. CASE i = n + 1
        <4>1. i - 1 = n /\ n \in 0..n
          BY <3>1
        <4>2. g[i-1] = f[n]
          BY <2>4, <4>1
        <4> HIDE DEF g
        <4> QED BY <2>4, <3>1, <4>2
      <3>2. CASE i # n + 1
        <4>1. i \in 1..n /\ i \in 0..n /\ i - 1 \in 0..n
          BY <3>2
        <4>2. g[i] = f[i] /\ g[i-1] = f[i-1]
          BY <2>4, <4>1
        <4> HIDE DEF g
        <4> QED BY <2>1, <4>1, <4>2
      <3> QED BY <3>1, <3>2
    <2>6. g \in [0..(n+1) -> Lines]
      <3> HIDE DEF x
      <3> QED BY <2>1, <2>3
    <2>7. g[0] = <<>>
      BY <2>1, <2>4
    <2> HIDE DEF g
    <2> QED BY <2>5, <2>6, <2>7
  <1> HIDE DEF Known
  <1>3. Len(q) \in Known
    BY <1>0, <1>1, <1>2, NatSetInduction
  <1>4. PICK f : Starts(Len(q), f)
    BY <1>0, <1>3 DEF Known
  <1>5. f = [n \in 0..Len(q) |->
               IF n = 0 THEN <<>>
               ELSE IF q[n] \in late THEN f[n-1] ELSE Append(f[n-1], q[n])]
    <2> DEFINE g == [n \in 0..Len(q) |->
               IF n = 0 THEN <<>>
               ELSE IF q[n] \in late THEN f[n-1] ELSE Append(f[n-1], q[n])]
    <2>1. /\ f[0] = <<>> /\ f = [n \in 0..Len(q) |-> f[n]]
          /\ \A i \in 1..Len(q) :
               f[i] = IF q[i] \in late THEN f[i-1] ELSE Append(f[i-1], q[i])
      BY <1>4
    <2>2. ASSUME NEW n \in 0..Len(q) PROVE f[n] = g[n]
      <3>1. CASE n = 0
        BY <2>1, <3>1
      <3>2. CASE n # 0
        <4>1. n \in 1..Len(q)
          BY <1>0, <3>2
        <4>2. g[n] = IF q[n] \in late THEN f[n-1] ELSE Append(f[n-1], q[n])
          BY <3>2
        <4> QED BY <2>1, <4>1, <4>2, Zenon
      <3> QED BY <3>1, <3>2
    <2>3. g = [n \in 0..Len(q) |-> g[n]]
      OBVIOUS
    <2> HIDE DEF g
    <2>4. f = g
      BY <2>1, <2>2, <2>3
    <2> QED BY <2>4 DEF g
  <1> QED BY <1>5 DEF KeepFcn

\* Keep is the value of such a function at the queue's length.
LEMMA KeepByFcn ==
  ASSUME NEW q \in Lines, NEW late
  PROVE  \E f : KeepFcn(q, late, f) /\ Keep(q, late) = f[Len(q)]
  <1> DEFINE f == CHOOSE g : g = [n \in 0..Len(q) |->
                 IF n = 0 THEN <<>>
                 ELSE IF q[n] \in late THEN g[n-1] ELSE Append(g[n-1], q[n])]
  <1>1. KeepFcn(q, late, f)
    <2>1. PICK g : g = [n \in 0..Len(q) |->
                 IF n = 0 THEN <<>>
                 ELSE IF q[n] \in late THEN g[n-1] ELSE Append(g[n-1], q[n])]
      BY KeepFcnExists, ZenonT(40) DEF KeepFcn
    <2>2. f = [n \in 0..Len(q) |->
                 IF n = 0 THEN <<>>
                 ELSE IF q[n] \in late THEN f[n-1] ELSE Append(f[n-1], q[n])]
      BY <2>1
    <2> QED BY <2>2 DEF KeepFcn
  <1>2. Keep(q, late) = f[Len(q)]
    BY Zenon DEF Keep
  <1> QED BY <1>1, <1>2

\* Keep takes out the items that are late, and leaves the others in their
\* order.
LEMMA KeepKeeps ==
  ASSUME NEW q \in Lines, NEW late
  PROVE  /\ Keep(q, late) \in Lines
         /\ Range(Keep(q, late)) = Range(q) \ late
         /\ Once(q) => Once(Keep(q, late))
         /\ \A h : Ordered(h, q) => Ordered(h, Keep(q, late))
  <1>0. /\ Len(q) \in Nat /\ DOMAIN q = 1..Len(q)
        /\ \A i \in 1..Len(q) : q[i] \in Items
    BY LenProperties, ElementOfSeq DEF Lines
  <1>1. PICK f : KeepFcn(q, late, f) /\ Keep(q, late) = f[Len(q)]
    BY KeepByFcn
  <1>2. /\ f[0] = <<>>
        /\ \A n \in 1..Len(q) :
             f[n] = IF q[n] \in late THEN f[n-1] ELSE Append(f[n-1], q[n])
    <2>1. \A n \in 0..Len(q) :
            f[n] = IF n = 0 THEN <<>>
                   ELSE IF q[n] \in late THEN f[n-1] ELSE Append(f[n-1], q[n])
      BY <1>1, Zenon DEF KeepFcn
    <2>2. f[0] = <<>>
      BY <1>0, <2>1
    <2>3. ASSUME NEW n \in 1..Len(q)
          PROVE  f[n] = IF q[n] \in late THEN f[n-1] ELSE Append(f[n-1], q[n])
      <3>1. n \in 0..Len(q) /\ n # 0
        BY <1>0
      <3> QED BY <2>1, <3>1, Zenon
    <2> QED BY <2>2, <2>3
  <1> DEFINE Initial(n) == {q[i] : i \in 1..n}
             Fine(n) == /\ f[n] \in Lines
                        /\ Range(f[n]) = Initial(n) \ late
                        /\ Once(q) => Once(f[n])
                        /\ \A h : Ordered(h, q) => Ordered(h, f[n])
             Known == {n \in Nat : n <= Len(q) => Fine(n)}
  <1>3. 0 \in Known
    <2>1. Initial(0) = {}
      OBVIOUS
    <2> QED BY <1>2, <2>1, CatEmpty, ShortSequences
  <1>4. ASSUME NEW n \in Nat, n \in Known PROVE n + 1 \in Known
    <2> SUFFICES ASSUME n + 1 <= Len(q) PROVE Fine(n + 1)
      OBVIOUS
    <2>0. Fine(n) /\ n + 1 \in 1..Len(q) /\ (n + 1) - 1 = n
      BY <1>0, <1>4
    <2> DEFINE x == q[n+1]
    <2>1. x \in Items
      BY <1>0, <2>0
    <2>2. Initial(n+1) = Initial(n) \cup {x}
      BY <2>0
    <2>3. CASE x \in late
      <3>1. f[n+1] = f[n]
        BY <1>2, <2>0, <2>3
      <3>2. Initial(n+1) \ late = Initial(n) \ late
        BY <2>2, <2>3
      <3> QED BY <2>0, <3>1, <3>2
    <2>4. CASE x \notin late
      <3>1. f[n+1] = Append(f[n], x)
        BY <1>2, <2>0, <2>4
      <3>2. /\ f[n+1] = Cat(f[n], <<x>>) /\ f[n+1] \in Lines
            /\ f[n] \in Streams /\ <<x>> \in Streams /\ Range(<<x>>) = {x}
        BY <2>0, <2>1, <3>1, AppendCat, OneElement, Inclusions
      <3>3. Range(f[n+1]) = Initial(n+1) \ late
        <4>1. Range(f[n+1]) = Range(f[n]) \cup {x}
          BY <3>2, RangeCat
        <4> QED BY <2>0, <2>2, <2>4, <4>1
      <3>4. ASSUME Once(q) PROVE Once(f[n+1])
        <4>1. \A y \in Initial(n) : y \in Requests => y # x
          BY <1>0, <2>0, <3>4 DEF Once
        <4>2. Range(f[n]) \cap {x} \cap Requests = {}
          BY <2>0, <4>1
        <4> QED BY <2>0, <3>2, <3>4, <4>2, OnceCat, ShortSequences, ZenonT(40)
      <3>5. ASSUME NEW h, Ordered(h, q) PROVE Ordered(h, f[n+1])
        <4>1. \A y \in Initial(n) : ~Late(h, y, x)
          BY <1>0, <2>0, <3>5 DEF Ordered
        <4>2. Before(h, Range(f[n]), {x})
          BY <2>0, <4>1 DEF Before
        <4>3. Ordered(h, f[n]) /\ Ordered(h, <<x>>)
          BY <2>0, <3>5, ShortSequences
        <4> HIDE DEF x
        <4>4. Ordered(h, Cat(f[n], <<x>>))
          BY <3>2, <4>2, <4>3, OrderedCat
        <4> QED BY <3>2, <4>4
      <3> QED BY <3>2, <3>3, <3>4, <3>5
    <2> QED BY <2>3, <2>4
  <1>5. Len(q) \in Known
    <2> HIDE DEF Known
    <2> QED BY <1>0, <1>3, <1>4, NatSetInduction
  <1>6. Initial(Len(q)) = Range(q)
    BY <1>0 DEF Range
  <1> QED BY <1>0, <1>1, <1>5, <1>6

(***************************************************************************)
(* What is in the memory BIO out.  SSL appends to it, and a write hands    *)
(* all of it to libuv.                                                     *)
(***************************************************************************)

Connected(s) == s.state \in {"HANDSHAKEING", "DONE"}

\* What is in BIO out
Out(s) == SubSeq(s.mem, 1, s.out)

\* BIO out is in its memory, and so is what libuv has still to write.
Fits(s) ==
  /\ s.out <= Len(s.mem)
  /\ s.left[1] >= 1
  /\ s.left[1] > s.left[2] \/ s.left[2] <= Len(s.mem)

\* What is in BIO out is as long as the BIO says.
LEMMA OutTyped ==
  ASSUME NEW s \in Tls, Fits(s)
  PROVE  Out(s) \in Streams /\ Len(Out(s)) = s.out /\ s.out \in Nat
  <1>1. s.mem \in Seq(Memory) /\ s.out \in Nat /\ Len(s.mem) \in Nat
    BY LenProperties DEF Tls, Streams, Counts
  <1>2. \A i \in 1..s.out : s.mem[i] \in Memory
    BY <1>1, ElementOfSeq DEF Fits
  <1>3. SubSeq(s.mem, 1, s.out) \in Seq(Memory)
        /\ Len(SubSeq(s.mem, 1, s.out)) = IF 1 <= s.out THEN s.out - 1 + 1 ELSE 0
    BY <1>1, <1>2, SubSeqProperties
  <1> QED BY <1>1, <1>3 DEF Out, Streams

\* An empty BIO out holds nothing.
LEMMA OutEmpty ==
  ASSUME NEW s, s.out = 0
  PROVE  Out(s) = <<>>
  BY SubSeqEmpty DEF Out

\* u is s with recs appended to what SSL has made and to BIO out.
Adds(s, u, recs) ==
  /\ u = [s EXCEPT !.mem = u.mem, !.out = u.out, !.made = u.made,
                   !.ssl = u.ssl, !.in = u.in]
  /\ u.made = Cat(s.made, recs) /\ Out(u) = Cat(Out(s), recs)
  /\ u.out = s.out + Len(recs)

\* A record that SSL writes comes at the end of BIO out, and moves none of
\* what is there.
LEMMA EmitAdds ==
  ASSUME NEW s \in Tls, Fits(s), NEW recs \in Produced
  PROVE  /\ Emit(s, recs) \in Tls /\ Fits(Emit(s, recs))
         /\ Adds(s, Emit(s, recs), recs)
         /\ Emit(s, recs).ssl = s.ssl /\ Emit(s, recs).in = s.in
  <1> DEFINE u == Emit(s, recs)
             k == Len(recs)
             a == SubSeq(s.mem, 1, s.out)
             b == SubSeq(s.mem, s.out + k + 1, Len(s.mem))
             m == Cat(Cat(a, recs), b)
             o == s.out + k
             p == Cat(s.made, recs)
  <1>1. u = [s EXCEPT !.mem = m, !.out = o, !.made = p]
    BY DEF Emit, Cat
  <1>2. /\ s.mem \in Seq(Memory) /\ s.out \in Nat /\ Len(s.mem) \in Nat
        /\ s.made \in Produced /\ s.left[1] \in Nat /\ s.left[2] \in Nat
        /\ s.out <= Len(s.mem)
        /\ \A i \in 1..Len(s.mem) : s.mem[i] \in Memory
    BY LenProperties, ElementOfSeq DEF Tls, Streams, Counts, Spans, Fits
  <1>3. k \in Nat /\ recs \in Streams
    BY LenProperties, Inclusions DEF Produced
  <1>4. a \in Streams /\ Len(a) = s.out
    BY OutTyped DEF Out
  <1>5. b \in Streams
        /\ Len(b) = IF o + 1 <= Len(s.mem) THEN Len(s.mem) - o ELSE 0
    <2>1. \A i \in (s.out + k + 1)..Len(s.mem) : s.mem[i] \in Memory
      BY <1>2, <1>3
    <2>2. s.out + k + 1 \in Int /\ Len(s.mem) \in Int
      BY <1>2, <1>3
    <2>3. b \in Seq(Memory)
          /\ Len(b) = IF s.out + k + 1 <= Len(s.mem)
                        THEN Len(s.mem) - (s.out + k + 1) + 1 ELSE 0
      BY <2>1, <2>2, SubSeqProperties
    <2> HIDE DEF b, k
    <2> QED BY <1>2, <1>3, <2>3 DEF Streams
  <1>6. m \in Streams /\ Len(m) = s.out + k + Len(b) /\ Len(Cat(a, recs)) = o
    <2>1. Cat(a, recs) \in Streams /\ Len(Cat(a, recs)) = s.out + k
      BY <1>3, <1>4, CatTyped, CatLen
    <2> HIDE DEF a, b, k
    <2> QED BY <1>5, <2>1, CatTyped, CatLen
  <1>7. o \in Counts /\ p \in Produced
    BY <1>2, <1>3, CatTyped DEF Counts
  <1>8. SubSeq(m, 1, o) = Cat(a, recs)
    <2> DEFINE c == Cat(a, recs)
    <2>1. c \in Streams /\ b \in Streams /\ Len(c) = o /\ m = Cat(c, b)
          /\ o \in Nat /\ Len(b) \in Nat /\ Len(m) = o + Len(b)
      BY <1>2, <1>3, <1>4, <1>5, <1>6, CatTyped, CatLen, ZenonT(40)
    <2> HIDE DEF c, b, m, o
    <2>2. /\ Len(m) \in Nat
          /\ \A i \in 1..o : m[i] = c[i] /\ m[i] \in Memory
      <3>1. m \in Seq(Memory) /\ Len(m) \in Nat
        BY <1>6, <2>1 DEF Streams
      <3>2. \A i \in 1..Len(c) : m[i] = c[i]
        BY <2>1, CatElements
      <3>3. \A i \in 1..Len(m) : m[i] \in Memory
        BY <3>1, ElementOfSeq
      <3> QED BY <2>1, <3>1, <3>2, <3>3
    <2>3. SubSeq(m, 1, o) \in Seq(Memory) /\ Len(SubSeq(m, 1, o)) = o
          /\ \A i \in 1..o : SubSeq(m, 1, o)[i] = m[i]
      <3>1. /\ SubSeq(m, 1, o) \in Seq(Memory)
            /\ Len(SubSeq(m, 1, o)) = IF 1 <= o THEN o - 1 + 1 ELSE 0
            /\ \A i \in 1..(o - 1 + 1) : SubSeq(m, 1, o)[i] = m[1 + i - 1]
        BY <2>1, <2>2, SubSeqProperties
      <3>2. o - 1 + 1 = o /\ \A i \in 1..o : 1 + i - 1 = i
        BY <2>1
      <3> QED BY <2>1, <3>1, <3>2
    <2> QED BY <2>1, <2>2, <2>3, SeqEqual DEF Streams, c
  <1> HIDE DEF m, o, p, u
  <1>9. u \in Tls
    BY <1>1, <1>6, <1>7 DEF Tls
  <1>10. /\ u.mem = m /\ u.out = o /\ u.made = p /\ u.left = s.left
         /\ u.ssl = s.ssl /\ u.in = s.in
         /\ u = [s EXCEPT !.mem = u.mem, !.out = u.out, !.made = u.made,
                          !.ssl = u.ssl, !.in = u.in]
    BY <1>1 DEF Tls
  <1>11. Fits(u)
    <2>1. Len(m) >= o /\ Len(m) >= Len(s.mem)
      <3> HIDE DEF b, k
      <3> QED BY <1>2, <1>3, <1>5, <1>6 DEF o
    <2>2. o \in Nat /\ Len(m) \in Nat
      BY <1>6, <1>7, LenProperties DEF Counts, Streams
    <2> QED BY <1>2, <1>10, <2>1, <2>2 DEF Fits
  <1>12. Adds(s, u, recs)
    BY <1>8, <1>10 DEF Adds, Out, o, p
  <1> QED BY <1>9, <1>10, <1>11, <1>12 DEF u

\* What was handed to libuv is written from memory that BIO_reset clears.
LEMMA BioResetClears ==
  ASSUME NEW s \in Tls, Fits(s)
  PROVE  /\ BioReset(s) \in Tls /\ Fits(BioReset(s))
         /\ BioReset(s) = [s EXCEPT !.mem = BioReset(s).mem, !.out = 0]
         /\ BioReset(s).out = 0
  <1> DEFINE n == IF s.left[1] > s.left[2] THEN 0 ELSE Len(s.mem)
             m == [i \in 1..n |-> Zero]
             u == BioReset(s)
  <1>1. u = [s EXCEPT !.mem = m, !.out = 0]
    BY DEF BioReset
  <1>2. n \in Nat /\ n <= Len(s.mem) /\ Len(s.mem) \in Nat
        /\ s.left[1] \in Nat /\ s.left[2] \in Nat
    BY LenProperties DEF Tls, Streams, Spans
  <1>3. m \in Streams /\ Len(m) = n
    BY <1>2 DEF Streams, Memory
  <1>4. s.left[1] > s.left[2] \/ s.left[2] <= n
    BY <1>2 DEF Fits
  <1> HIDE DEF m, n, u
  <1>5. u \in Tls
    BY <1>1, <1>3, Zeros DEF Tls
  <1>6. u.mem = m /\ u.out = 0 /\ u.left = s.left
        /\ u = [s EXCEPT !.mem = u.mem, !.out = 0]
    BY <1>1 DEF Tls
  <1>7. Fits(u)
    BY <1>2, <1>3, <1>4, <1>6 DEF Fits
  <1> QED BY <1>5, <1>6, <1>7 DEF u

\* A wake-up changes only the handles that are woken.
LEMMA WakeTyped ==
  ASSUME NEW s \in Tls, NEW a \in Asyncs
  PROVE  Wake(s, a) \in Tls /\ Wake(s, a) = [s EXCEPT !.async = Wake(s, a).async]
  <1> DEFINE x == s.async \cup {a}
  <1>1. x \in AsyncSets
    BY DEF Tls, AsyncSets
  <1>2. CASE s.closed
    BY <1>2 DEF Wake, Tls
  <1>3. CASE ~s.closed
    <2>1. Wake(s, a) = [s EXCEPT !.async = x]
      BY <1>3 DEF Wake
    <2> HIDE DEF x
    <2> QED BY <1>1, <2>1 DEF Tls
  <1> QED BY <1>2, <1>3

\* The part of BIO out that the socket takes at once, and the rest
LEMMA UvWriteWrites ==
  ASSUME NEW s \in Tls, Fits(s), NEW u \in UvWrite(s)
  PROVE  /\ u \in Tls /\ Fits(u) /\ u.is_writing
         /\ u = [s EXCEPT !.is_writing = TRUE, !.wire = u.wire, !.left = u.left]
         /\ ~PartialWrites /\ s.sock # "open"
              => u.wire = Cat(s.wire, Out(s)) /\ u.left[1] > u.left[2]
  <1>1. /\ s.mem \in Seq(Memory) /\ s.out \in Nat /\ Len(s.mem) \in Nat
        /\ s.out <= Len(s.mem) /\ s.wire \in Streams
        /\ \A i \in 1..Len(s.mem) : s.mem[i] \in Memory
    BY LenProperties, ElementOfSeq DEF Tls, Streams, Counts, Fits
  <1>2. PICK k \in IF s.sock = "open" THEN {0}
                   ELSE IF PartialWrites THEN 0..s.out ELSE {s.out} :
          u = [s EXCEPT !.is_writing = TRUE,
                        !.wire = s.wire \o SubSeq(s.mem, 1, k),
                        !.left = <<k + 1, s.out>>]
    BY DEF UvWrite
  <1>3. k \in 0..s.out /\ (~PartialWrites /\ s.sock # "open" => k = s.out)
    BY <1>1, <1>2, TlsAssumption
  <1> DEFINE a == SubSeq(s.mem, 1, k)
             w == Cat(s.wire, a)
             l == <<k + 1, s.out>>
  <1>4. a \in Streams
    <2>1. \A i \in 1..k : s.mem[i] \in Memory
      BY <1>1, <1>3
    <2>2. k \in Int
      BY <1>1, <1>3
    <2> QED BY <2>1, <2>2, SubSeqProperties DEF Streams
  <1>5. u = [s EXCEPT !.is_writing = TRUE, !.wire = w, !.left = l]
    BY <1>2 DEF Cat
  <1>6. ~PartialWrites /\ s.sock # "open" => a = Out(s)
    BY <1>3 DEF Out
  <1>7. /\ l \in Spans /\ l[1] = k + 1 /\ l[2] = s.out
    BY <1>1, <1>3 DEF Spans
  <1> HIDE DEF a, l
  <1>8. w \in Streams
    BY <1>1, <1>4, CatTyped
  <1> HIDE DEF w
  <1>9. u \in Tls
    BY <1>5, <1>7, <1>8, FlagValues DEF Tls
  <1>10. /\ u.is_writing = TRUE /\ u.wire = w /\ u.left = l
         /\ u.mem = s.mem /\ u.out = s.out
         /\ u = [s EXCEPT !.is_writing = TRUE, !.wire = u.wire, !.left = u.left]
    BY <1>5 DEF Tls
  <1>11. Fits(u)
    BY <1>1, <1>3, <1>7, <1>10 DEF Fits
  <1>12. ~PartialWrites /\ s.sock # "open" => u.left[1] > u.left[2]
    BY <1>1, <1>3, <1>7, <1>10
  <1> QED BY <1>6, <1>9, <1>10, <1>11, <1>12 DEF w

\* A write is in progress, or there is nothing to write.
Idle(s, u) ==
  /\ s.is_writing \/ s.out = 0
  /\ u = [s EXCEPT !.async = u.async]

\* BIO out is emptied, with the items it holds the bytes of.
Flushed(s, u) ==
  /\ ~s.is_writing /\ s.out > 0
  /\ u = [s EXCEPT !.writing = Cat(s.writing, s.when_tcp_is_writing),
                   !.when_tcp_is_writing = <<>>,
                   !.mem = u.mem, !.out = 0, !.left = u.left,
                   !.wire = u.wire, !.is_writing = u.is_writing]
  /\ IF s.sock \in {"open", "reading", "stopped"}
       THEN /\ u.is_writing
            /\ ~PartialWrites /\ s.sock # "open"
                 => u.wire = Cat(s.wire, Out(s)) /\ u.left[1] > u.left[2]
       ELSE ~u.is_writing /\ u.wire = s.wire /\ u.left = s.left

\* A write to the socket does nothing, or hands all of BIO out to libuv.
LEMMA WriteToTcp ==
  ASSUME NEW s \in Tls, Fits(s), s.when_tcp_is_writing # <<>> => s.out > 0,
         NEW u \in tls__write_to_tcp(s)
  PROVE  u \in Tls /\ Fits(u) /\ (Idle(s, u) \/ Flushed(s, u))
  <1>1. s.out \in Nat /\ s.writing \in Lines /\ s.when_tcp_is_writing \in Lines
        /\ s.is_writing \in BOOLEAN
    BY DEF Tls, Counts, Flags
  <1>2. CASE s.is_writing
    <2>1. u = s
      BY <1>2 DEF tls__write_to_tcp
    <2> QED BY <1>2, <2>1 DEF Idle, Tls
  <1>3. CASE ~s.is_writing /\ s.out = 0
    <2>1. u = Wake(s, "write")
      BY <1>3 DEF tls__write_to_tcp
    <2>2. "write" \in Asyncs
      BY DEF Asyncs
    <2>3. u \in Tls /\ u = [s EXCEPT !.async = u.async]
      BY <2>1, <2>2, WakeTyped
    <2>4. Fits(u)
      BY <2>3 DEF Fits, Tls
    <2> QED BY <1>3, <2>3, <2>4 DEF Idle
  <1>4. CASE ~s.is_writing /\ s.out > 0
    <2> DEFINE w == Cat(s.writing, s.when_tcp_is_writing)
               t == [s EXCEPT !.writing = w, !.when_tcp_is_writing = <<>>]
    <2>1. w \in Lines /\ <<>> \in Lines
      BY <1>1, CatTyped, CatEmpty
    <2>2. PICK v : /\ v \in IF s.sock \in {"open", "reading", "stopped"}
                             THEN UvWrite(t) ELSE {t}
                   /\ u = BioReset(v)
      BY <1>4, s.out # 0 DEF tls__write_to_tcp, Cat
    <2> HIDE DEF w
    <2>3. /\ t \in Tls /\ t.sock = s.sock /\ t.mem = s.mem /\ t.out = s.out
          /\ t.left = s.left /\ t.wire = s.wire /\ t.is_writing = s.is_writing
          /\ Out(t) = Out(s)
      BY <2>1 DEF Tls, Out
    <2>4. Fits(t)
      BY <2>3 DEF Fits
    <2> DEFINE live == s.sock \in {"open", "reading", "stopped"}
    <2>5. CASE live
      <3>1. /\ v \in Tls /\ Fits(v) /\ v.is_writing
            /\ v = [t EXCEPT !.is_writing = TRUE, !.wire = v.wire, !.left = v.left]
            /\ ~PartialWrites /\ s.sock # "open"
                 => v.wire = Cat(s.wire, Out(s)) /\ v.left[1] > v.left[2]
        BY <2>2, <2>3, <2>4, <2>5, UvWriteWrites
      <3>2. /\ u \in Tls /\ Fits(u) /\ u = [v EXCEPT !.mem = u.mem, !.out = 0]
        BY <2>2, <3>1, BioResetClears
      <3> HIDE DEF live
      <3>3. /\ u.is_writing = v.is_writing /\ u.wire = v.wire /\ u.left = v.left
        BY <3>1, <3>2 DEF Tls
      <3>4. u = [s EXCEPT !.writing = w, !.when_tcp_is_writing = <<>>,
                   !.mem = u.mem, !.out = 0, !.left = u.left,
                   !.wire = u.wire, !.is_writing = u.is_writing]
        BY <2>3, <3>1, <3>2, ZenonT(40) DEF Tls
      <3> QED BY <1>4, <2>5, <3>1, <3>2, <3>3, <3>4 DEF Flushed, w, live
    <2>6. CASE ~live
      <3>1. v = t
        BY <2>2, <2>6
      <3>2. /\ u \in Tls /\ Fits(u) /\ u = [t EXCEPT !.mem = u.mem, !.out = 0]
        BY <2>2, <2>3, <2>4, <3>1, BioResetClears
      <3> HIDE DEF live
      <3>3. /\ u.is_writing = s.is_writing /\ u.wire = s.wire /\ u.left = s.left
        BY <2>3, <3>2, ZenonT(40) DEF Tls
      <3>4. u = [s EXCEPT !.writing = w, !.when_tcp_is_writing = <<>>,
                   !.mem = u.mem, !.out = 0, !.left = u.left,
                   !.wire = u.wire, !.is_writing = u.is_writing]
        BY <2>3, <3>2 DEF Tls
      <3> QED BY <1>4, <2>6, <3>2, <3>3, <3>4 DEF Flushed, w, live
    <2> QED BY <2>5, <2>6
  <1> QED BY <1>1, <1>2, <1>3, <1>4

(***************************************************************************)
(* What holds of the record between any two calls of the worker            *)
(***************************************************************************)

Control(s) ==
  /\ s.when_tcp_is_writing # <<>> => s.out > 0
  /\ s.sock = "reading" <=> Connected(s)
  /\ ~Connected(s) => /\ s.write_wait = <<>> /\ s.in = None /\ s.ssl # "up"
                      /\ s.retry_wb = None /\ s.should_retry = None
  /\ s.sock \in {"none", "open"} => ~s.is_writing /\ s.out = 0
  /\ s.is_connecting => s.sock \in {"open", "closing"} /\ ~s.is_writing
  /\ s.fault # "writeToTcp"

\* Fits speaks only of BIO out and of the write.
LEMMA FitsFor ==
  ASSUME NEW s \in Tls, NEW u, Fits(s),
         u.mem = s.mem, u.out = s.out, u.left = s.left
  PROVE  Fits(u) /\ Out(u) = Out(s)
  BY DEF Fits, Out

\* Nothing is a sequence of records of SSL's own.
LEMMA AddsNothing ==
  ASSUME NEW s \in Tls, Fits(s)
  PROVE  Adds(s, s, <<>>) /\ <<>> \in Produced /\ Range(<<>>) \subseteq Records
  <1>1. Out(s) \in Streams /\ s.made \in Streams /\ s.out \in Nat
    BY OutTyped, Inclusions DEF Tls
  <1>2. Cat(s.made, <<>>) = s.made /\ Cat(Out(s), <<>>) = Out(s)
        /\ s.out + Len(<<>>) = s.out
    BY <1>1, CatEmpty
  <1>3. s = [s EXCEPT !.mem = s.mem, !.out = s.out, !.made = s.made,
                      !.ssl = s.ssl, !.in = s.in]
    BY DEF Tls
  <1> QED BY <1>2, <1>3, CatEmpty DEF Adds

\* Records added twice are added together.
LEMMA AddsTwice ==
  ASSUME NEW s \in Tls, NEW t \in Tls, NEW u \in Tls, Fits(s), Fits(t),
         NEW a \in Produced, NEW b \in Produced,
         Range(a) \subseteq Records, Range(b) \subseteq Records,
         Adds(s, t, a), Adds(t, u, b)
  PROVE  /\ Adds(s, u, Cat(a, b)) /\ Cat(a, b) \in Produced
         /\ Range(Cat(a, b)) \subseteq Records
  <1>1. a \in Streams /\ b \in Streams /\ s.made \in Streams /\ Out(s) \in Streams
        /\ s.out \in Nat
    BY OutTyped, Inclusions DEF Tls
  <1>2. /\ Cat(Cat(s.made, a), b) = Cat(s.made, Cat(a, b))
        /\ Cat(Cat(Out(s), a), b) = Cat(Out(s), Cat(a, b))
    BY <1>1, CatAssociative
  <1>3. s.out + Len(a) + Len(b) = s.out + Len(Cat(a, b))
    <2>1. Len(a) \in Nat /\ Len(b) \in Nat /\ Len(Cat(a, b)) = Len(a) + Len(b)
      BY <1>1, CatLen
    <2> HIDE DEF Out
    <2> QED BY <1>1, <2>1
  <1>4. u = [s EXCEPT !.mem = u.mem, !.out = u.out, !.made = u.made,
                      !.ssl = u.ssl, !.in = u.in]
    <2>1. /\ t = [s EXCEPT !.mem = t.mem, !.out = t.out, !.made = t.made,
                           !.ssl = t.ssl, !.in = t.in]
          /\ u = [t EXCEPT !.mem = u.mem, !.out = u.out, !.made = u.made,
                           !.ssl = u.ssl, !.in = u.in]
      BY DEF Adds
    <2> QED BY <2>1 DEF Tls
  <1>5. Range(Cat(a, b)) \subseteq Records /\ Cat(a, b) \in Produced
    BY <1>1, RangeCat, CatTyped
  <1>6. /\ u.made = Cat(Cat(s.made, a), b) /\ Out(u) = Cat(Cat(Out(s), a), b)
        /\ u.out = s.out + Len(a) + Len(b)
    BY DEF Adds
  <1> HIDE DEF Out
  <1> QED BY <1>2, <1>3, <1>4, <1>5, <1>6 DEF Adds

\* What one step of the handshake makes
LEMMA OneRecord ==
  ASSUME NEW r \in Records
  PROVE  <<r>> \in Produced /\ Range(<<r>>) \subseteq Records /\ Len(<<r>>) = 1
  <1>1. r \in Words
    BY DEF Words
  <1> QED BY <1>1, OneElement

\* A change of ssl and in before SSL adds to BIO out
LEMMA EmitFrom ==
  ASSUME NEW s \in Tls, Fits(s), NEW t \in Tls, NEW r \in Records,
         t = [s EXCEPT !.ssl = t.ssl, !.in = t.in]
  PROVE  /\ Emit(t, <<r>>) \in Tls /\ Fits(Emit(t, <<r>>))
         /\ Adds(s, Emit(t, <<r>>), <<r>>)
         /\ Emit(t, <<r>>).ssl = t.ssl /\ Emit(t, <<r>>).in = t.in
  <1> DEFINE u == Emit(t, <<r>>)
  <1>1. Fits(t) /\ Out(t) = Out(s) /\ t.made = s.made /\ t.out = s.out
    <2>1. t.mem = s.mem /\ t.out = s.out /\ t.left = s.left /\ t.made = s.made
      BY DEF Tls
    <2> QED BY <2>1, FitsFor
  <1>2. /\ u \in Tls /\ Fits(u) /\ Adds(t, u, <<r>>)
        /\ u.ssl = t.ssl /\ u.in = t.in
    BY <1>1, OneRecord, EmitAdds
  <1> HIDE DEF u
  <1>3. u = [s EXCEPT !.mem = u.mem, !.out = u.out, !.made = u.made,
                      !.ssl = u.ssl, !.in = u.in]
    BY <1>2 DEF Adds, Tls
  <1>4. Adds(s, u, <<r>>)
    BY <1>1, <1>2, <1>3 DEF Adds
  <1> QED BY <1>2, <1>4 DEF u

\* What Drive does to ssl and in
Driven(s, u) ==
  /\ s.ssl \notin {"before", "shaking"} => u = s
  /\ s.ssl \in {"before", "shaking"} => u.ssl \in {"shaking", "up", "failed"}
  /\ s.in = None => u.in = None /\ u.ssl \in {s.ssl, "shaking"}
  /\ u.in \in {s.in, None}
  /\ u.ssl = "shaking" => u.in \in {None, "renegotiate"} \cup Packages

\* Nothing is no input.
LEMMA IncomingDistinct ==
  /\ None \notin {"serverHello", "serverFinished", "renegotiated",
                  "tlsError", "closeNotify", "renegotiate"}
  /\ None \notin Packages
  BY TlsAssumption DEF Incoming, Handshakes

\* A package is none of the messages of SSL itself.
LEMMA PackagesApart ==
  Packages \cap {"serverHello", "serverFinished", "renegotiated",
                 "tlsError", "closeNotify"} = {}
  BY TlsAssumption DEF Packages, Handshakes

\* A handshake goes on, or begins and goes on.
LEMMA DriveGoes ==
  ASSUME NEW t, t.ssl = "shaking"
  PROVE  /\ Drive(t) = Shake(t)
         /\ \A s : s.ssl = "before" /\ t = Emit([s EXCEPT !.ssl = "shaking"], <<"hello">>)
                    => Drive(s) = Shake(t)
  <1>1. Drive(t) = Shake(t)
    BY DEF Drive
  <1>2. ASSUME NEW s, s.ssl = "before",
               t = Emit([s EXCEPT !.ssl = "shaking"], <<"hello">>)
        PROVE  Drive(s) = Shake(t)
    BY <1>2 DEF Drive
  <1> QED BY <1>1, <1>2

\* SSL that is not in a handshake has none to go on with.
LEMMA DriveSkips ==
  ASSUME NEW s, s.ssl # "before", s.ssl # "shaking"
  PROVE  Drive(s) = s
  BY DEF Drive

\* The handshake adds only records of SSL's own to BIO out.
LEMMA DriveShaking ==
  ASSUME NEW t \in Tls, Fits(t), t.ssl = "shaking", NEW u, u = Drive(t)
  PROVE  /\ u \in Tls /\ Fits(u)
         /\ \E recs \in Produced : Range(recs) \subseteq Records /\ Adds(t, u, recs)
         /\ Driven(t, u)
  <1>1. u = CASE t.in = "serverHello" -> Emit([t EXCEPT !.in = None], <<"finished">>)
              [] t.in \in {"serverFinished", "renegotiated"}
                   -> [t EXCEPT !.in = None, !.ssl = "up"]
              [] t.in \in {"tlsError", "closeNotify"}
                   -> Emit([t EXCEPT !.in = None, !.ssl = "failed"], <<"alert">>)
              [] OTHER -> t
    BY DriveGoes, Zenon DEF Shake
  <1>2. CASE t.in = "serverHello"
    <2> DEFINE v == [t EXCEPT !.in = None]
    <2>1. v \in Tls /\ v.ssl = t.ssl /\ v.in = None
          /\ v = [t EXCEPT !.ssl = v.ssl, !.in = v.in]
      BY NoneValues DEF Tls
    <2>2. u = Emit(v, <<"finished">>)
      BY <1>1, <1>2
    <2>3. "finished" \in Records
      BY DEF Records
    <2> HIDE DEF v
    <2>4. /\ u \in Tls /\ Fits(u) /\ Adds(t, u, <<"finished">>)
          /\ u.ssl = v.ssl /\ u.in = v.in
      <3>1. v \in Tls /\ v = [t EXCEPT !.ssl = v.ssl, !.in = v.in]
        BY <2>1
      <3> DEFINE e == Emit(v, <<"finished">>)
      <3>2. /\ e \in Tls /\ Fits(e) /\ Adds(t, e, <<"finished">>)
            /\ e.ssl = v.ssl /\ e.in = v.in
        BY <2>3, <3>1, EmitFrom, Zenon
      <3> QED BY <2>2, <3>2, Zenon
    <2>5. Driven(t, u)
      BY <1>2, <2>1, <2>4, IncomingDistinct DEF Driven
    <2> QED BY <2>3, <2>4, <2>5, OneRecord
  <1>3. CASE t.in \in {"serverFinished", "renegotiated"}
    <2>1. u = [t EXCEPT !.in = None, !.ssl = "up"]
      BY <1>1, <1>3
    <2>2. /\ u \in Tls /\ u.mem = t.mem /\ u.out = t.out /\ u.left = t.left
          /\ u.made = t.made /\ u.ssl = "up" /\ u.in = None
          /\ u = [t EXCEPT !.mem = u.mem, !.out = u.out, !.made = u.made,
                           !.ssl = u.ssl, !.in = u.in]
      <3>1. None \in Inputs /\ "up" \in SslStates
        BY NoneValues, SslValues
      <3>2. u \in Tls
        BY <2>1, <3>1, ZenonT(40) DEF Tls
      <3> QED BY <2>1, <3>2 DEF Tls
    <2>3. Fits(u) /\ Out(u) = Out(t)
      BY <2>2, FitsFor
    <2>4. Adds(t, u, <<>>)
      BY <2>2, <2>3, AddsNothing DEF Adds
    <2>5. Driven(t, u)
      BY <1>3, <2>2, IncomingDistinct DEF Driven
    <2> QED BY <2>2, <2>3, <2>4, <2>5, AddsNothing
  <1>4. CASE t.in \in {"tlsError", "closeNotify"}
    <2> DEFINE v == [t EXCEPT !.in = None, !.ssl = "failed"]
    <2>1. v \in Tls /\ v.ssl = "failed" /\ v.in = None
          /\ v = [t EXCEPT !.ssl = v.ssl, !.in = v.in]
      BY NoneValues, SslValues DEF Tls
    <2>2. u = Emit(v, <<"alert">>)
      BY <1>1, <1>4
    <2>3. "alert" \in Records
      BY DEF Records
    <2> HIDE DEF v
    <2>4. /\ u \in Tls /\ Fits(u) /\ Adds(t, u, <<"alert">>)
          /\ u.ssl = v.ssl /\ u.in = v.in
      <3>1. v \in Tls /\ v = [t EXCEPT !.ssl = v.ssl, !.in = v.in]
        BY <2>1
      <3> DEFINE e == Emit(v, <<"alert">>)
      <3>2. /\ e \in Tls /\ Fits(e) /\ Adds(t, e, <<"alert">>)
            /\ e.ssl = v.ssl /\ e.in = v.in
        BY <2>3, <3>1, EmitFrom, Zenon
      <3> QED BY <2>2, <3>2, Zenon
    <2>5. Driven(t, u)
      BY <1>4, <2>1, <2>4, IncomingDistinct DEF Driven
    <2> QED BY <2>3, <2>4, <2>5, OneRecord
  <1>5. CASE t.in \notin {"serverHello", "serverFinished", "renegotiated",
                          "tlsError", "closeNotify"}
    <2>1. u = t
      BY <1>1, <1>5
    <2>2. t.in \in {None, "renegotiate"} \cup Packages
      BY <1>5 DEF Tls, Inputs, Incoming, Handshakes
    <2>3. Driven(t, u)
      BY <2>1, <2>2 DEF Driven
    <2> QED BY <2>1, <2>3, AddsNothing
  <1> QED BY <1>2, <1>3, <1>4, <1>5

\* Driving SSL adds some of its own records to BIO out.
LEMMA DriveDrives ==
  ASSUME NEW s \in Tls, Fits(s), NEW u, u = Drive(s)
  PROVE  /\ u \in Tls /\ Fits(u)
         /\ \E recs \in Produced : Range(recs) \subseteq Records /\ Adds(s, u, recs)
         /\ Driven(s, u)
  <1>1. CASE s.ssl = "shaking"
    BY <1>1, DriveShaking
  <1>2. CASE s.ssl = "before"
    <2> DEFINE v == [s EXCEPT !.ssl = "shaking"]
               t == Emit(v, <<"hello">>)
    <2>1. v \in Tls /\ v.ssl = "shaking" /\ v.in = s.in
          /\ v = [s EXCEPT !.ssl = v.ssl, !.in = v.in]
      BY SslValues DEF Tls
    <2>2. "hello" \in Records
      BY DEF Records
    <2> HIDE DEF v
    <2>3. /\ t \in Tls /\ Fits(t) /\ Adds(s, t, <<"hello">>)
          /\ t.ssl = v.ssl /\ t.in = v.in
      <3>1. v \in Tls /\ v = [s EXCEPT !.ssl = v.ssl, !.in = v.in]
        BY <2>1
      <3> QED BY <2>2, <3>1, EmitFrom, Zenon
    <2>4. u = Drive(t)
      <3>1. t = Emit([s EXCEPT !.ssl = "shaking"], <<"hello">>)
        BY DEF v
      <3> HIDE DEF t
      <3>2. t.ssl = "shaking"
        BY <2>1, <2>3
      <3> QED BY <1>2, <3>1, <3>2, DriveGoes
    <2> HIDE DEF t
    <2>5. /\ u \in Tls /\ Fits(u) /\ Driven(t, u)
          /\ \E recs \in Produced : Range(recs) \subseteq Records /\ Adds(t, u, recs)
      BY <2>1, <2>3, <2>4, DriveShaking
    <2>6. \E recs \in Produced : Range(recs) \subseteq Records /\ Adds(s, u, recs)
      BY <2>2, <2>3, <2>5, AddsTwice, OneRecord
    <2>7. Driven(s, u)
      BY <1>2, <2>1, <2>3, <2>5 DEF Driven
    <2> QED BY <2>5, <2>6, <2>7
  <1>3. CASE s.ssl \notin {"before", "shaking"}
    <2>1. u = s
      BY <1>3, DriveSkips
    <2>2. Driven(s, u)
      BY <1>3, <2>1 DEF Driven
    <2> QED BY <2>1, <2>2, AddsNothing
  <1> QED BY <1>1, <1>2, <1>3

\* SSL that has nothing to do
LEMMA DriveQuiet ==
  ASSUME NEW s \in Tls, s.ssl \in {"shaking", "up"},
         s.ssl = "shaking" => s.in \in {None, "renegotiate"} \cup Packages
  PROVE  Drive(s) = s
  <1>1. CASE s.ssl = "up"
    BY <1>1, DriveSkips
  <1>2. CASE s.ssl = "shaking"
    <2>1. s.in \notin {"serverHello", "serverFinished", "renegotiated",
                          "tlsError", "closeNotify"}
      BY <1>2, IncomingDistinct, PackagesApart
    <2>2. Shake(s) = s
      BY <2>1 DEF Shake
    <2> QED BY <1>2, <2>2, DriveGoes
  <1> QED BY <1>1, <1>2

(***************************************************************************)
(* The invariant of the worker                                             *)
(***************************************************************************)

Reqs(q) == {q[i].req : i \in DOMAIN q}

\* What SSL has made for the connection is what has gone to libuv and what is
\* in BIO out; without a connection there is no request in either.
Wires(s) ==
  /\ s.left[1] > s.left[2]
  /\ Connected(s) => s.made = Cat(s.wire, Out(s))
  /\ ~Connected(s) => /\ Range(s.made) \cap Requests = {}
                      /\ Range(s.wire) \cap Requests = {}
                      /\ Range(Out(s)) \cap Requests = {}

\* Requests pass in their order from a queue to the next, and into SSL.
Orders(s, q) ==
  /\ Ordered(q, s.made) /\ Ordered(q, s.write_wait) /\ Ordered(q, s.conn_pending)
  /\ Before(q, Range(s.made), {s.retry_wb})
  /\ Before(q, Range(s.made), Range(s.write_wait))
  /\ Before(q, Range(s.made), Range(s.conn_pending))
  /\ Before(q, {s.retry_wb}, Range(s.write_wait))
  /\ Before(q, {s.retry_wb}, Range(s.conn_pending))
  /\ Before(q, Range(s.write_wait), Range(s.conn_pending))
  /\ \A i \in DOMAIN q : q[i].req \in Range(s.conn_pending) => ~q[i].ready
  /\ Range(s.made) \cap Requests \subseteq Reqs(q)
  /\ s.retry_wb \in Requests => s.retry_wb \in Reqs(q)

Places(s) ==
  Range(s.conn_pending) \cup Range(s.write_wait) \cup Range(s.writing)
    \cup Range(s.when_tcp_is_writing) \cup {s.should_retry} \cup s.resp_pending

OnePlace(s, r) ==
  /\ r \in Range(s.conn_pending) =>
       r \notin Range(s.write_wait) \cup Range(s.writing)
                \cup Range(s.when_tcp_is_writing) \cup {s.should_retry}
                \cup s.resp_pending
  /\ r \in Range(s.write_wait) =>
       r \notin Range(s.writing) \cup Range(s.when_tcp_is_writing)
                \cup {s.should_retry} \cup s.resp_pending
  /\ r \in Range(s.writing) =>
       r \notin Range(s.when_tcp_is_writing) \cup {s.should_retry}
                \cup s.resp_pending
  /\ r \in Range(s.when_tcp_is_writing) =>
       r \notin {s.should_retry} \cup s.resp_pending
  /\ r \in s.resp_pending => r # s.should_retry

\* A request is in one place at most, and in one until it is answered.
Held(s, q) ==
  /\ Once(s.conn_pending) /\ Once(s.write_wait)
  /\ \A r \in Requests :
       /\ OnePlace(s, r)
       /\ r \in Places(s) => r \in Reqs(q)
       /\ r \in Reqs(q) => r \in Places(s) \cup s.done

\* What holds between any two calls of the worker
Good(s, q) ==
  /\ s \in Tls /\ Fits(s) /\ Control(s)
  /\ PartialWrites \/ Wires(s)
  /\ Orders(s, q)
  /\ Held(s, q)

\* SSL is in a connection, and what it has to repeat is the item to repeat.
Working(s) ==
  /\ Connected(s) => s.ssl \in {"shaking", "up"}
  /\ s.should_retry \in {None, s.retry_wb}

\* The handshake has nothing left to read.
Quiet(s) == s.ssl = "shaking" => s.in \in {None, "renegotiate"} \cup Packages

\* What is in BIO out waits for a write in progress.
Flowing(s) == s.out > 0 => s.is_writing

\* What holds when the worker goes back to its loop
Settled(s) == s.fault = None => Working(s) /\ Quiet(s) /\ Flowing(s)

(***************************************************************************)
(* Frames                                                                  *)
(***************************************************************************)

SameQueues(s, u) ==
  /\ u.conn_pending = s.conn_pending /\ u.write_wait = s.write_wait
  /\ u.writing = s.writing /\ u.when_tcp_is_writing = s.when_tcp_is_writing
  /\ u.should_retry = s.should_retry /\ u.retry_wb = s.retry_wb
  /\ u.resp_pending = s.resp_pending /\ u.done = s.done

SameBytes(s, u) ==
  /\ u.mem = s.mem /\ u.out = s.out /\ u.left = s.left
  /\ u.made = s.made /\ u.wire = s.wire

SamePhase(s, u) ==
  /\ u.state = s.state /\ u.sock = s.sock
  /\ u.is_connecting = s.is_connecting /\ u.is_writing = s.is_writing
  /\ u.ssl = s.ssl /\ u.in = s.in

\* Control speaks of nothing but the phase, the queues and BIO out.
LEMMA ControlKept ==
  ASSUME NEW s, NEW u, Control(s), SamePhase(s, u), SameQueues(s, u),
         u.out = s.out, u.fault # "writeToTcp"
  PROVE  Control(u)
  BY DEF Control, Connected, SamePhase, SameQueues

\* Held speaks of nothing but the queues.
LEMMA HeldKept ==
  ASSUME NEW s, NEW u, NEW q, Held(s, q), SameQueues(s, u)
  PROVE  Held(u, q)
  BY DEF Held, OnePlace, Places, SameQueues

\* Orders speaks of nothing but the queues and what SSL has made.
LEMMA OrdersKept ==
  ASSUME NEW s, NEW u, NEW q, Orders(s, q), SameQueues(s, u), u.made = s.made
  PROVE  Orders(u, q)
  BY DEF Orders, SameQueues

\* Wires speaks of nothing but the bytes and the state.
LEMMA WiresKept ==
  ASSUME NEW s, NEW u, Wires(s), SameBytes(s, u), u.state = s.state
  PROVE  Wires(u)
  BY DEF Wires, Connected, SameBytes, Out

\* A step that touches none of what the invariants are about
Aside(s, u) ==
  /\ u \in Tls
  /\ SameQueues(s, u) /\ SameBytes(s, u) /\ SamePhase(s, u)
  /\ u.fault # "writeToTcp"

\* A step beside what the invariants are about keeps them.
LEMMA AsideKeeps ==
  ASSUME NEW s, NEW u, NEW q, Good(s, q), Aside(s, u)
  PROVE  /\ Good(u, q)
         /\ Working(s) => Working(u)
         /\ Quiet(s) => Quiet(u)
         /\ Flowing(s) => Flowing(u)
         /\ Connected(u) <=> Connected(s)
         /\ u.sock = s.sock
  <1>1. Fits(u)
    BY DEF Good, Aside, SameBytes, Fits
  <1>2. Control(u)
    BY ControlKept DEF Good, Aside, SameBytes
  <1>3. PartialWrites \/ Wires(u)
    <2>1. SameBytes(s, u) /\ u.state = s.state
      BY DEF Aside, SamePhase
    <2> QED BY <2>1, WiresKept DEF Good
  <1>4. Orders(u, q)
    BY OrdersKept DEF Good, Aside, SameBytes
  <1>5. Held(u, q)
    BY HeldKept DEF Good, Aside
  <1>6. Good(u, q)
    BY <1>1, <1>2, <1>3, <1>4, <1>5 DEF Good, Aside
  <1>7. /\ Working(s) => Working(u)
        /\ Quiet(s) => Quiet(u)
        /\ Flowing(s) => Flowing(u)
        /\ Connected(u) <=> Connected(s)
        /\ u.sock = s.sock
    BY DEF Aside, SameQueues, SameBytes, SamePhase, Working, Quiet, Flowing, Connected
  <1> QED BY <1>6, <1>7

\* What is not a request is never late.
LEMMA NoRequests ==
  ASSUME NEW q \in Sends, NEW A, A \cap Requests = {}, NEW B
  PROVE  Before(q, A, B) /\ Before(q, B, A)
  BY LateRequests DEF Before

\* A sequence without requests is in order.
LEMMA RecordsOrdered ==
  ASSUME NEW q \in Sends, NEW seq, Range(seq) \cap Requests = {}
  PROVE  Ordered(q, seq)
  <1>1. \A i \in DOMAIN seq : seq[i] \notin Requests
    BY DEF Range
  <1> QED BY <1>1, LateRequests DEF Ordered

\* Order against a union is order against each of its parts.
LEMMA BeforeUnion ==
  ASSUME NEW q, NEW A, NEW B, NEW C
  PROVE  /\ Before(q, A \cup B, C) <=> Before(q, A, C) /\ Before(q, B, C)
         /\ Before(q, C, A \cup B) <=> Before(q, C, A) /\ Before(q, C, B)
  BY DEF Before

\* SSL adds records of its own to BIO out.
LEMMA AddsKeeps ==
  ASSUME NEW s, NEW u \in Tls, NEW q \in Sends, NEW recs \in Produced, Good(s, q), Fits(u),
         Range(recs) \subseteq Records, Adds(s, u, recs),
         s.sock \in {"none", "open"} => u.out = 0,
         ~Connected(s) => u.in = None /\ u.ssl # "up"
  PROVE  /\ Good(u, q) /\ SameQueues(s, u)
         /\ u.sock = s.sock /\ (Connected(u) <=> Connected(s)) /\ u.fault = s.fault
         /\ u.is_writing = s.is_writing
  <1>0. /\ s \in Tls /\ Fits(s) /\ s.out \in Nat /\ Len(recs) \in Nat
        /\ s.made \in Streams /\ Out(s) \in Streams /\ recs \in Streams
        /\ s.wire \in Streams
    BY OutTyped, Inclusions, LenProperties DEF Good, Tls, Produced
  <1>1. /\ SameQueues(s, u)
        /\ u.state = s.state /\ u.sock = s.sock /\ u.left = s.left
        /\ u.is_connecting = s.is_connecting /\ u.is_writing = s.is_writing
        /\ u.wire = s.wire /\ u.fault = s.fault
    <2>1. u = [s EXCEPT !.mem = u.mem, !.out = u.out, !.made = u.made,
                        !.ssl = u.ssl, !.in = u.in]
      BY DEF Adds
    <2>2. s \in Tls
      BY <1>0
    <2>3. /\ u.conn_pending = s.conn_pending /\ u.write_wait = s.write_wait
          /\ u.writing = s.writing /\ u.when_tcp_is_writing = s.when_tcp_is_writing
          /\ u.should_retry = s.should_retry /\ u.retry_wb = s.retry_wb
      BY <2>1, <2>2, ZenonT(40) DEF Tls
    <2>4. /\ u.resp_pending = s.resp_pending /\ u.done = s.done
          /\ u.state = s.state /\ u.sock = s.sock /\ u.left = s.left
          /\ u.is_connecting = s.is_connecting /\ u.is_writing = s.is_writing
          /\ u.wire = s.wire /\ u.fault = s.fault
      BY <2>1, <2>2, ZenonT(40) DEF Tls
    <2> QED BY <2>3, <2>4 DEF SameQueues
  <1>2. /\ u.made = Cat(s.made, recs) /\ Out(u) = Cat(Out(s), recs)
        /\ u.out = s.out + Len(recs)
    BY DEF Adds
  <1> HIDE DEF Adds
  <1>3. Connected(u) <=> Connected(s)
    BY <1>1 DEF Connected
  <1>4. Control(u)
    <2>1. s.out > 0 => u.out > 0
      BY <1>0, <1>2
    <2> QED BY <1>1, <1>3, <2>1 DEF Good, Control, SameQueues
  <1>5. Range(recs) \cap Requests = {}
    BY Apartness
  <1>6. ASSUME Wires(s) PROVE Wires(u)
    <2>1. CASE Connected(s)
      <3>1. s.made = Cat(s.wire, Out(s))
        BY <1>6, <2>1 DEF Wires
      <3>2. Cat(Cat(s.wire, Out(s)), recs) = Cat(s.wire, Cat(Out(s), recs))
        BY <1>0, CatAssociative
      <3>3. u.made = Cat(u.wire, Out(u))
        BY <1>1, <1>2, <3>1, <3>2
      <3> QED BY <1>1, <1>3, <1>6, <2>1, <3>3 DEF Wires
    <2>2. CASE ~Connected(s)
      <3>1. /\ Range(u.made) = Range(s.made) \cup Range(recs)
            /\ Range(Out(u)) = Range(Out(s)) \cup Range(recs)
        BY <1>0, <1>2, RangeCat
      <3>2. /\ Range(u.made) \cap Requests = {} /\ Range(u.wire) \cap Requests = {}
            /\ Range(Out(u)) \cap Requests = {}
        BY <1>1, <1>5, <1>6, <2>2, <3>1 DEF Wires
      <3> QED BY <1>1, <1>3, <1>6, <2>2, <3>2 DEF Wires
    <2> QED BY <2>1, <2>2
  <1>7. Orders(u, q)
    <2>1. Ordered(q, u.made) /\ Range(u.made) = Range(s.made) \cup Range(recs)
      <3>1. Ordered(q, recs) /\ Before(q, Range(s.made), Range(recs))
        BY <1>5, RecordsOrdered, NoRequests
      <3> QED BY <1>0, <1>2, <3>1, OrderedCat, RangeCat DEF Good, Orders
    <2>2. \A B : Before(q, Range(s.made), B) => Before(q, Range(u.made), B)
      BY <1>5, <2>1, NoRequests, BeforeUnion
    <2>3. Range(u.made) \cap Requests \subseteq Reqs(q)
      BY <1>5, <2>1 DEF Good, Orders
    <2> QED BY <1>1, <2>1, <2>2, <2>3 DEF Good, Orders, SameQueues
  <1>8. Held(u, q)
    BY <1>1, HeldKept DEF Good
  <1>9. Good(u, q)
    BY <1>4, <1>6, <1>7, <1>8 DEF Good
  <1> QED BY <1>1, <1>3, <1>9

(***************************************************************************)
(* Steps that touch one part of the record                                 *)
(***************************************************************************)

\* Nothing is late against nothing.
LEMMA BeforeNothing ==
  ASSUME NEW q, NEW A
  PROVE  Before(q, {}, A) /\ Before(q, A, {})
  BY DEF Before

\* An item of Pomelo's own is never late.
LEMMA NoneLate ==
  ASSUME NEW q \in Sends, NEW A
  PROVE  /\ Before(q, {None}, A) /\ Before(q, A, {None})
         /\ Before(q, {"handshake"}, A) /\ Before(q, A, {"handshake"})
         /\ Before(q, {"ack"}, A) /\ Before(q, A, {"ack"})
  BY NoRequests, Apartness

\* What tls__write_to_tcp leaves
LEMMA WriteToTcpKeeps ==
  ASSUME NEW s, NEW q \in Sends, Good(s, q), NEW u \in tls__write_to_tcp(s)
  PROVE  /\ Good(u, q) /\ Flowing(u)
         /\ Working(s) => Working(u)
         /\ Quiet(s) => Quiet(u)
         /\ u.sock = s.sock /\ (Connected(u) <=> Connected(s)) /\ u.fault = s.fault
         /\ u.ssl = s.ssl
         /\ u.when_tcp_is_writing # <<>> => u.is_writing
  <1>0. /\ s \in Tls /\ Fits(s) /\ s.out \in Nat
        /\ s.when_tcp_is_writing # <<>> => s.out > 0
        /\ s.fault # "writeToTcp"
    BY DEF Good, Control, Tls, Counts
  <1>1. u \in Tls /\ Fits(u) /\ (Idle(s, u) \/ Flushed(s, u))
    BY <1>0, WriteToTcp
  <1>2. CASE Idle(s, u)
    <2>1. u = [s EXCEPT !.async = u.async] /\ (s.is_writing \/ s.out = 0)
      BY <1>2 DEF Idle
    <2>2. /\ SameQueues(s, u) /\ SameBytes(s, u) /\ SamePhase(s, u)
          /\ u.fault = s.fault
      BY <1>0, <2>1 DEF Tls, SameQueues, SameBytes, SamePhase
    <2>3. Aside(s, u)
      BY <1>0, <1>1, <2>2 DEF Aside
    <2>4. Flowing(u) /\ u.ssl = s.ssl /\ (u.when_tcp_is_writing # <<>> => u.is_writing)
      BY <1>0, <2>1, <2>2 DEF Flowing, SameBytes, SamePhase, SameQueues
    <2> QED BY <2>2, <2>3, <2>4, AsideKeeps
  <1>3. CASE Flushed(s, u)
    <2>1. /\ ~s.is_writing /\ s.out > 0
          /\ u = [s EXCEPT !.writing = Cat(s.writing, s.when_tcp_is_writing),
                   !.when_tcp_is_writing = <<>>,
                   !.mem = u.mem, !.out = 0, !.left = u.left,
                   !.wire = u.wire, !.is_writing = u.is_writing]
          /\ IF s.sock \in {"open", "reading", "stopped"}
               THEN /\ u.is_writing
                    /\ ~PartialWrites /\ s.sock # "open"
                         => u.wire = Cat(s.wire, Out(s)) /\ u.left[1] > u.left[2]
               ELSE ~u.is_writing /\ u.wire = s.wire /\ u.left = s.left
      BY <1>3 DEF Flushed
    <2>2. /\ u.state = s.state /\ u.sock = s.sock /\ u.is_connecting = s.is_connecting
          /\ u.ssl = s.ssl /\ u.in = s.in /\ u.fault = s.fault
          /\ u.conn_pending = s.conn_pending /\ u.write_wait = s.write_wait
          /\ u.should_retry = s.should_retry /\ u.retry_wb = s.retry_wb
          /\ u.resp_pending = s.resp_pending /\ u.done = s.done
          /\ u.made = s.made /\ u.out = 0
          /\ u.writing = Cat(s.writing, s.when_tcp_is_writing)
          /\ u.when_tcp_is_writing = <<>>
      <3> DEFINE w == Cat(s.writing, s.when_tcp_is_writing)
      <3>1. u = [s EXCEPT !.writing = w, !.when_tcp_is_writing = <<>>,
                   !.mem = u.mem, !.out = 0, !.left = u.left,
                   !.wire = u.wire, !.is_writing = u.is_writing]
        BY <2>1
      <3>2. s \in Tls
        BY <1>0
      <3> HIDE DEF w
      <3>3. /\ u.state = s.state /\ u.sock = s.sock
            /\ u.is_connecting = s.is_connecting
            /\ u.ssl = s.ssl /\ u.in = s.in /\ u.fault = s.fault
            /\ u.conn_pending = s.conn_pending /\ u.write_wait = s.write_wait
            /\ u.should_retry = s.should_retry /\ u.retry_wb = s.retry_wb
        BY <3>1, <3>2, ZenonT(40) DEF Tls
      <3>4. /\ u.resp_pending = s.resp_pending /\ u.done = s.done
            /\ u.made = s.made /\ u.out = 0
            /\ u.writing = w /\ u.when_tcp_is_writing = <<>>
        BY <3>1, <3>2, ZenonT(40) DEF Tls
      <3> QED BY <3>3, <3>4 DEF w
    <2>3. Connected(u) <=> Connected(s)
      BY <2>2 DEF Connected
    <2>4. s.sock \notin {"none", "open"}
      BY <1>0, <2>1 DEF Good, Control
    <2>5. Control(u)
      BY <1>0, <2>1, <2>2, <2>3, <2>4 DEF Good, Control
    <2>6. Out(u) = <<>>
      BY <2>2, OutEmpty
    <2>7. /\ s.wire \in Streams /\ Out(s) \in Streams /\ u.wire \in Streams
          /\ s.writing \in Streams /\ s.when_tcp_is_writing \in Streams
      BY <1>0, <1>1, OutTyped, Inclusions DEF Tls
    <2>8. ASSUME ~PartialWrites, Wires(s) PROVE Wires(u)
      <3>1. u.left[1] > u.left[2]
        BY <2>1, <2>4, <2>8 DEF Wires
      <3>2. CASE Connected(s)
        <4>1. s.sock = "reading"
          BY <3>2 DEF Good, Control
        <4>2. u.wire = Cat(s.wire, Out(s)) /\ s.made = Cat(s.wire, Out(s))
          BY <2>1, <2>8, <3>2, <4>1 DEF Wires
        <4>3. u.made = Cat(u.wire, Out(u))
          BY <2>2, <2>6, <2>7, <4>2, CatEmpty
        <4> QED BY <2>3, <3>1, <3>2, <4>3 DEF Wires
      <3>3. CASE ~Connected(s)
        <4>1. u.wire \in {s.wire, Cat(s.wire, Out(s))}
          BY <2>1, <2>4, <2>8
        <4>2. Range(u.wire) \cap Requests = {}
          BY <2>7, <2>8, <3>3, <4>1, RangeCat DEF Wires
        <4> QED BY <2>2, <2>3, <2>6, <2>8, <3>1, <3>3, <4>2, CatEmpty DEF Wires
      <3> QED BY <3>2, <3>3
    <2>9. Orders(u, q)
      BY <2>2 DEF Good, Orders
    <2>10. Held(u, q)
      <3>1. Range(u.writing) = Range(s.writing) \cup Range(s.when_tcp_is_writing)
        BY <2>2, <2>7, RangeCat
      <3>2. Range(u.when_tcp_is_writing) = {}
        BY <2>2, CatEmpty
      <3>3. Held(s, q)
        BY DEF Good
      <3>4. ASSUME NEW r \in Requests
            PROVE  /\ OnePlace(u, r)
                   /\ r \in Places(u) <=> r \in Places(s)
        <4>1. OnePlace(s, r)
          BY <3>3 DEF Held
        <4>2. OnePlace(u, r)
          BY <2>2, <3>1, <3>2, <4>1 DEF OnePlace
        <4>3. r \in Places(u) <=> r \in Places(s)
          BY <2>2, <3>1, <3>2 DEF Places
        <4> QED BY <4>2, <4>3
      <3> QED BY <2>2, <3>3, <3>4 DEF Held
    <2>11. Good(u, q)
      BY <1>1, <2>5, <2>8, <2>9, <2>10 DEF Good
    <2>12. /\ Flowing(u) /\ (Working(s) => Working(u)) /\ (Quiet(s) => Quiet(u))
      BY <2>2, <2>3 DEF Flowing, Working, Quiet
    <2> QED BY <2>2, <2>3, <2>11, <2>12
  <1> QED BY <1>1, <1>2, <1>3

\* What the firing of an event leaves
LEMMA FireKeeps ==
  ASSUME NEW s, NEW q \in Sends, Good(s, q), NEW e \in NetEvents, NEW u \in Fire(s, e)
  PROVE  /\ Aside(s, u)
         /\ u = [s EXCEPT !.client = u.client, !.fault = u.fault]
  <1>0. s \in Tls /\ s.fault # "writeToTcp"
    BY DEF Good, Control
  <1>1. CASE s.client \in LegalIn(e)
    <2>1. u = [s EXCEPT !.client = AfterEvent(e, s.client)]
      BY <1>1 DEF Fire
    <2>2. AfterEvent(e, s.client) \in ClientStates
      BY <1>0 DEF AfterEvent, ClientStates, Tls
    <2> HIDE DEF AfterEvent
    <2>3. u \in Tls
      BY <1>0, <2>1, <2>2 DEF Tls
    <2>4. SameQueues(s, u) /\ SameBytes(s, u) /\ SamePhase(s, u) /\ u.fault = s.fault
          /\ u = [s EXCEPT !.client = u.client, !.fault = u.fault]
      BY <1>0, <2>1 DEF Tls, SameQueues, SameBytes, SamePhase
    <2> QED BY <1>0, <2>3, <2>4 DEF Aside
  <1>2. CASE s.client \notin LegalIn(e)
    <2>1. u = [s EXCEPT !.fault = e]
      BY <1>2 DEF Fire, Crash
    <2>2. e \in Failures /\ e # "writeToTcp"
      BY DEF Failures, NetEvents
    <2>3. u \in Tls
      BY <1>0, <2>1, <2>2 DEF Tls
    <2>4. SameQueues(s, u) /\ SameBytes(s, u) /\ SamePhase(s, u) /\ u.fault = e
          /\ u = [s EXCEPT !.client = u.client, !.fault = u.fault]
      BY <1>0, <2>1 DEF Tls, SameQueues, SameBytes, SamePhase
    <2> QED BY <2>2, <2>3, <2>4 DEF Aside
  <1> QED BY <1>1, <1>2

\* A process that dies touches nothing else.
LEMMA CrashKeeps ==
  ASSUME NEW s, NEW q, Good(s, q), NEW f \in Faults \ {"writeToTcp"}, NEW u \in Crash(s, f)
  PROVE  Aside(s, u) /\ u.fault # None
  <1>0. s \in Tls
    BY DEF Good
  <1>1. u = [s EXCEPT !.fault = f] /\ f \in Failures /\ f # None
    BY TlsAssumption DEF Crash, Failures
  <1>2. u \in Tls
    BY <1>0, <1>1 DEF Tls
  <1>3. SameQueues(s, u) /\ SameBytes(s, u) /\ SamePhase(s, u) /\ u.fault = f
    BY <1>0, <1>1 DEF Tls, SameQueues, SameBytes, SamePhase
  <1> QED BY <1>1, <1>2, <1>3 DEF Aside

\* A wake-up touches nothing.
LEMMA WakeKeeps ==
  ASSUME NEW s, NEW q, Good(s, q), NEW a \in Asyncs
  PROVE  Aside(s, Wake(s, a)) /\ Wake(s, a).fault = s.fault
  <1> DEFINE u == Wake(s, a)
  <1>0. s \in Tls /\ s.fault # "writeToTcp"
    BY DEF Good, Control
  <1>1. u \in Tls /\ u = [s EXCEPT !.async = u.async]
    BY <1>0, WakeTyped
  <1> HIDE DEF u
  <1>2. SameQueues(s, u) /\ SameBytes(s, u) /\ SamePhase(s, u) /\ u.fault = s.fault
    BY <1>0, <1>1 DEF Tls, SameQueues, SameBytes, SamePhase
  <1>3. Aside(s, u) /\ u.fault = s.fault
    BY <1>0, <1>1, <1>2 DEF Aside
  <1> QED BY <1>3 DEF u

(***************************************************************************)
(* The end of a connection.  tcp__reset closes the socket; tls__reset also *)
(* starts SSL and its BIOs afresh, and the items they held join the write  *)
(* in progress, where the end of it finds them.                            *)
(***************************************************************************)

\* What a reset leaves
Over(s) ==
  /\ ~Connected(s) /\ s.out = 0
  /\ s.should_retry = None /\ s.retry_wb = None
  /\ s.in = None /\ s.ssl = "before"

\* The transport is not in a connection before or after.
LEMMA Unconnected ==
  ASSUME NEW s, NEW u \in Tls, NEW q, Good(s, q), ~Connected(s), ~Connected(u),
         SameQueues(s, u), SameBytes(s, u), u.sock = s.sock,
         u.is_connecting = s.is_connecting, u.is_writing = s.is_writing,
         u.ssl = s.ssl, u.in = s.in, u.fault # "writeToTcp"
  PROVE  Good(u, q)
  <1>1. Fits(u)
    BY DEF Good, SameBytes, Fits
  <1>2. Control(u)
    BY DEF Good, Control, SameQueues, SameBytes
  <1>3. Wires(s) => Wires(u)
    BY DEF Wires, SameBytes, Out
  <1>4. Orders(u, q)
    BY OrdersKept DEF Good, SameBytes
  <1>5. Held(u, q)
    BY HeldKept DEF Good
  <1> QED BY <1>1, <1>2, <1>3, <1>4, <1>5 DEF Good

\* The items of the four queues, the pending retry and what waits for an
\* answer are reported, whatever tcp__reset finds.
ResetTo(w, u) ==
  /\ u.state = "NOT_CONN" /\ u.ssl = w.ssl /\ u.in = w.in
  /\ u.is_connecting = w.is_connecting /\ u.is_writing = w.is_writing
  /\ u.conn_pending = <<>> /\ u.write_wait = <<>> /\ u.writing = <<>>
  /\ u.resp_pending = {} /\ u.made = <<>> /\ u.wire = <<>>
  /\ u.when_tcp_is_writing = w.when_tcp_is_writing
  /\ u.should_retry = w.should_retry /\ u.retry_wb = w.retry_wb
  /\ u.mem = w.mem /\ u.out = w.out /\ u.left = w.left /\ u.fault = w.fault
  /\ u.done = w.done \cup ((Range(w.conn_pending) \cup Range(w.write_wait)
                             \cup Range(w.writing) \cup w.resp_pending) \cap Requests)
  /\ u.sock \in {w.sock, "stopped", "closing"} /\ u.sock # "reading"
  /\ w.sock \in {"open", "closing"} => u.sock \in {"open", "closing"}
  /\ u.sock = "open" => w.sock = "open"
  /\ u.sock = "none" => w.sock = "none"

\* tcp__reset fails its assertion without a socket, and closes the socket
\* otherwise.
LEMMA ResetResets ==
  ASSUME NEW w \in Tls, NEW u \in tcp__reset(w)
  PROVE  \/ w.sock = "none" /\ u \in Crash(w, "uvClose")
         \/ u \in Tls /\ ResetTo(w, u)
  <1> DEFINE closes == w.client # "INITED" /\ w.sock \notin {"closing", "closed"}
             k == IF closes THEN "closing"
                  ELSE IF w.sock = "reading" THEN "stopped" ELSE w.sock
             d == w.done \cup ((Range(w.conn_pending) \cup Range(w.write_wait)
                             \cup Range(w.writing) \cup w.resp_pending) \cap Requests)
  <1>1. CASE closes /\ w.sock = "none"
    BY <1>1 DEF tcp__reset
  <1>2. CASE ~(closes /\ w.sock = "none")
    <2>1. u = [w EXCEPT !.done = d, !.state = "NOT_CONN", !.timers = {}, !.sock = k,
                   !.conn_pending = <<>>, !.write_wait = <<>>,
                   !.writing = <<>>, !.resp_pending = {},
                   !.made = <<>>, !.wire = <<>>, !.replied = {}]
      <3>1. u = [Answer(w, Range(w.conn_pending) \cup Range(w.write_wait)
                             \cup Range(w.writing) \cup w.resp_pending)
           EXCEPT !.state = "NOT_CONN",
                  !.timers = {},
                  !.sock = IF closes THEN "closing"
                           ELSE IF @ = "reading" THEN "stopped" ELSE @,
                  !.conn_pending = <<>>, !.write_wait = <<>>,
                  !.writing = <<>>, !.resp_pending = {},
                  !.made = <<>>, !.wire = <<>>, !.replied = {}]
        BY <1>2, Zenon DEF tcp__reset
      <3>2. [w EXCEPT !.done = d].sock = w.sock
        <4> HIDE DEF d
        <4> QED BY DEF Tls
      <3> HIDE DEF closes
      <3> QED BY <3>1, <3>2, Zenon DEF Answer
    <2>2. k \in Socks /\ k \in {w.sock, "stopped", "closing"} /\ k # "reading"
          /\ (w.sock \in {"open", "closing"} => k \in {"open", "closing"})
          /\ (k = "open" => w.sock = "open") /\ (k = "none" => w.sock = "none")
      <3>1. w.sock \in Socks
        BY DEF Tls
      <3> QED BY <3>1 DEF Socks
    <2>3. d \in RequestSets
      <3>1. w.done \in RequestSets
        BY DEF Tls
      <3> QED BY <3>1 DEF RequestSets
    <2> DEFINE e == d
    <2> HIDE DEF k, d
    <2>4. u \in Tls
      <3>1. "NOT_CONN" \in States /\ {} \in TimerSets /\ {} \in RequestSets
            /\ {} \in ReplySets /\ <<>> \in Lines /\ <<>> \in Streams
            /\ <<>> \in Produced
        BY StateValues, EmptySets, CatEmpty
      <3> QED BY <2>1, <2>2, <2>3, <3>1 DEF Tls
    <2>5. u.done = d /\ u.sock = k
      BY <2>1 DEF Tls
    <2>6. /\ u.state = "NOT_CONN" /\ u.ssl = w.ssl /\ u.in = w.in
          /\ u.is_connecting = w.is_connecting /\ u.is_writing = w.is_writing
          /\ u.conn_pending = <<>> /\ u.write_wait = <<>> /\ u.writing = <<>>
      BY <2>1 DEF Tls
    <2>7. /\ u.resp_pending = {} /\ u.made = <<>> /\ u.wire = <<>>
          /\ u.when_tcp_is_writing = w.when_tcp_is_writing
          /\ u.should_retry = w.should_retry /\ u.retry_wb = w.retry_wb
      BY <2>1 DEF Tls
    <2>8. u.mem = w.mem /\ u.out = w.out /\ u.left = w.left /\ u.fault = w.fault
      BY <2>1 DEF Tls
    <2> QED BY <2>2, <2>4, <2>5, <2>6, <2>7, <2>8 DEF ResetTo, d
  <1> QED BY <1>1, <1>2

\* What a reset does to SSL and the BIOs, and with the items of SSL
Afresh(v) ==
  [BioReset(v) EXCEPT !.is_handshake_completed = FALSE,
                      !.ssl = "before", !.in = None]

HandedOver(c) ==
  [c EXCEPT !.writing = @ \o (IF c.should_retry = None THEN <<>>
                              ELSE <<c.should_retry>>)
                          \o c.when_tcp_is_writing,
            !.should_retry = None, !.retry_wb = None,
            !.when_tcp_is_writing = <<>>]

\* The transport, with what SSL writes last, before it hands its items over
LEMMA ClearedClears ==
  ASSUME NEW s, NEW q \in Sends, Good(s, q), s.fault = None, NEW c \in Cleared(s)
  PROVE  \E v : /\ Good(v, q) /\ v.fault = None /\ v.sock = s.sock
               /\ c = Afresh(v)
  <1> DEFINE r == IF s.ssl = "up" THEN Emit(s, <<"close">>) ELSE s
  <1>1. Good(r, q) /\ r.fault = None /\ r.sock = s.sock
    <2>1. CASE s.ssl # "up"
      BY <2>1
    <2>2. CASE s.ssl = "up"
      <3>1. "close" \in Records
        BY DEF Records
      <3>2. <<"close">> \in Produced /\ Range(<<"close">>) \subseteq Records
        BY <3>1, OneRecord
      <3>3. s \in Tls /\ Fits(s) /\ Connected(s) /\ s.sock = "reading"
        BY <2>2 DEF Good, Control
      <3>4. /\ Emit(s, <<"close">>) \in Tls /\ Fits(Emit(s, <<"close">>))
            /\ Adds(s, Emit(s, <<"close">>), <<"close">>)
        BY <3>2, <3>3, EmitAdds, Zenon
      <3> DEFINE e == Emit(s, <<"close">>)
      <3>5. r = e
        BY <2>2
      <3> HIDE DEF e, r
      <3>6. Good(r, q) /\ r.sock = s.sock /\ r.fault = s.fault
        BY <3>2, <3>3, <3>4, <3>5, AddsKeeps DEF e
      <3> QED BY <3>6
    <2> QED BY <2>1, <2>2
  <1>2. PICK v \in tls__write_to_tcp(r) :
          c \in IF v.fault = None THEN {Afresh(v)} ELSE {v}
    BY DEF Cleared, Then, Afresh
  <1> HIDE DEF r
  <1>3. Good(v, q) /\ v.fault = None /\ v.sock = s.sock
    BY <1>1, <1>2, WriteToTcpKeeps
  <1> QED BY <1>2, <1>3

\* SSL and the BIOs start afresh, and the items they hold the bytes of join
\* those of the write in progress: w is v, with nothing left in SSL.
Emptied(v, w) ==
  /\ w.state = v.state /\ w.sock = v.sock
  /\ w.is_connecting = v.is_connecting /\ w.is_writing = v.is_writing
  /\ w.conn_pending = v.conn_pending /\ w.write_wait = v.write_wait
  /\ w.resp_pending = v.resp_pending /\ w.done = v.done
  /\ w.made = v.made /\ w.wire = v.wire /\ w.left = v.left /\ w.fault = v.fault
  /\ w.out = 0 /\ w.ssl = "before" /\ w.in = None
  /\ w.should_retry = None /\ w.retry_wb = None /\ w.when_tcp_is_writing = <<>>
  /\ Range(w.writing) = Range(v.writing) \cup ({v.should_retry} \ {None})
                          \cup Range(v.when_tcp_is_writing)
  /\ v.should_retry = None /\ v.when_tcp_is_writing = <<>> => w.writing = v.writing

EmptiedFields(v, w, m, y) ==
  /\ w \in Tls
  /\ w.mem = m /\ w.out = 0 /\ w.left = v.left /\ w.writing = y
  /\ w.state = v.state /\ w.sock = v.sock
  /\ w.is_connecting = v.is_connecting /\ w.is_writing = v.is_writing
  /\ w.conn_pending = v.conn_pending /\ w.write_wait = v.write_wait
  /\ w.resp_pending = v.resp_pending /\ w.done = v.done
  /\ w.made = v.made /\ w.wire = v.wire /\ w.fault = v.fault
  /\ w.ssl = "before" /\ w.in = None
  /\ w.should_retry = None /\ w.retry_wb = None /\ w.when_tcp_is_writing = <<>>

\* The fields of what the reset of SSL leaves.
LEMMA EmptiedRecord ==
  ASSUME NEW v \in Tls, NEW m \in Streams, NEW y \in Lines, NEW w,
         w = [v EXCEPT !.mem = m, !.out = 0,
                   !.is_handshake_completed = FALSE, !.ssl = "before", !.in = None,
                   !.writing = y,
                   !.should_retry = None, !.retry_wb = None,
                   !.when_tcp_is_writing = <<>>]
  PROVE  EmptiedFields(v, w, m, y)
  <1>1. /\ w.mem = m /\ w.out = 0 /\ w.left = v.left /\ w.writing = y
        /\ w.state = v.state /\ w.sock = v.sock
    BY DEF Tls
  <1>2. /\ w.is_connecting = v.is_connecting /\ w.is_writing = v.is_writing
        /\ w.conn_pending = v.conn_pending /\ w.write_wait = v.write_wait
    BY DEF Tls
  <1>3. /\ w.resp_pending = v.resp_pending /\ w.done = v.done
        /\ w.made = v.made /\ w.wire = v.wire /\ w.fault = v.fault
    BY DEF Tls
  <1>4. /\ w.ssl = "before" /\ w.in = None
        /\ w.should_retry = None /\ w.retry_wb = None /\ w.when_tcp_is_writing = <<>>
    BY DEF Tls
  <1>5. w \in Tls
    <2>1. /\ None \in Inputs /\ None \in Retries /\ FALSE \in Flags
          /\ "before" \in SslStates /\ <<>> \in Lines /\ 0 \in Counts
      BY NoneValues, FlagValues, SslValues, CatEmpty, Zeros
    <2> QED BY <2>1 DEF Tls
  <1> QED BY <1>1, <1>2, <1>3, <1>4, <1>5 DEF EmptiedFields

\* The reset of SSL in tls__reset empties BIO out, and gives its items to the
\* write.
LEMMA EmptiedBy ==
  ASSUME NEW v \in Tls, Fits(v), NEW c, NEW w, c = Afresh(v), w = HandedOver(c)
  PROVE  w \in Tls /\ Fits(w) /\ Emptied(v, w)
  <1> DEFINE b == BioReset(v)
             x == IF v.should_retry = None THEN <<>> ELSE <<v.should_retry>>
             y == Cat(Cat(v.writing, x), v.when_tcp_is_writing)
  <1>1. b \in Tls /\ Fits(b) /\ b = [v EXCEPT !.mem = b.mem, !.out = 0]
    BY BioResetClears
  <1> HIDE DEF b
  <1>2. /\ b.writing = v.writing /\ b.should_retry = v.should_retry
        /\ b.when_tcp_is_writing = v.when_tcp_is_writing
        /\ b.left = v.left /\ b.out = 0
    BY <1>1 DEF Tls
  <1>3. c = [b EXCEPT !.is_handshake_completed = FALSE, !.ssl = "before", !.in = None]
    BY DEF b, Afresh
  <1>4. /\ c.writing = v.writing /\ c.should_retry = v.should_retry
        /\ c.when_tcp_is_writing = v.when_tcp_is_writing
    <2>1. b \in Tls
      BY <1>1
    <2>2. /\ c.writing = b.writing /\ c.should_retry = b.should_retry
          /\ c.when_tcp_is_writing = b.when_tcp_is_writing
      BY <1>3, <2>1 DEF Tls
    <2> QED BY <1>2, <2>2
  <1>5. w = [c EXCEPT !.writing = y,
                       !.should_retry = None, !.retry_wb = None,
                       !.when_tcp_is_writing = <<>>]
    <2>1. w = [c EXCEPT !.writing = Cat(Cat(c.writing, IF c.should_retry = None
                                                       THEN <<>>
                                                       ELSE <<c.should_retry>>),
                                        c.when_tcp_is_writing),
                        !.should_retry = None, !.retry_wb = None,
                        !.when_tcp_is_writing = <<>>]
      BY DEF Cat, HandedOver
    <2>2. Cat(Cat(c.writing, IF c.should_retry = None
                               THEN <<>> ELSE <<c.should_retry>>),
              c.when_tcp_is_writing) = y
      BY <1>4
    <2> HIDE DEF y
    <2> QED BY <2>1, <2>2
  <1>6. /\ v.writing \in Lines /\ v.when_tcp_is_writing \in Lines
        /\ v.should_retry \in Retries
    BY DEF Tls
  <1>7. x \in Lines /\ Range(x) = {v.should_retry} \ {None}
    BY <1>6, CatEmpty, OneElement DEF Retries
  <1> HIDE DEF x
  <1>8. Cat(v.writing, x) \in Lines /\ y \in Lines
    BY <1>6, <1>7, CatTyped
  <1>9. Range(y) = Range(v.writing) \cup ({v.should_retry} \ {None})
                     \cup Range(v.when_tcp_is_writing)
    <2>1. /\ v.writing \in Streams /\ x \in Streams
          /\ Cat(v.writing, x) \in Streams /\ v.when_tcp_is_writing \in Streams
      BY <1>6, <1>7, <1>8, Inclusions
    <2>2. Range(y) = Range(Cat(v.writing, x)) \cup Range(v.when_tcp_is_writing)
      BY <2>1, RangeCat
    <2>3. Range(Cat(v.writing, x)) = Range(v.writing) \cup Range(x)
      BY <2>1, RangeCat
    <2> QED BY <1>7, <2>2, <2>3
  <1>10. v.should_retry = None /\ v.when_tcp_is_writing = <<>> => y = v.writing
    <2>1. v.writing \in Streams
      BY <1>6, Inclusions
    <2> QED BY <2>1, CatEmpty DEF x
  <1> HIDE DEF y
  <1>11. w = [v EXCEPT !.mem = b.mem, !.out = 0,
                   !.is_handshake_completed = FALSE, !.ssl = "before", !.in = None,
                   !.writing = y,
                   !.should_retry = None, !.retry_wb = None,
                   !.when_tcp_is_writing = <<>>]
    BY <1>1, <1>3, <1>5, Zenon
  <1>12. b.mem \in Streams
    BY <1>1 DEF Tls
  <1> HIDE DEF b
  <1> HIDE DEF Fits, Emptied
  <1>15. /\ w \in Tls /\ w.mem = b.mem /\ w.out = 0 /\ w.left = v.left /\ w.writing = y
         /\ w.state = v.state /\ w.sock = v.sock
         /\ w.is_connecting = v.is_connecting /\ w.is_writing = v.is_writing
         /\ w.conn_pending = v.conn_pending /\ w.write_wait = v.write_wait
         /\ w.resp_pending = v.resp_pending /\ w.done = v.done
         /\ w.made = v.made /\ w.wire = v.wire /\ w.fault = v.fault
         /\ w.ssl = "before" /\ w.in = None
         /\ w.should_retry = None /\ w.retry_wb = None /\ w.when_tcp_is_writing = <<>>
    <2> DEFINE m == b.mem
    <2>1. m \in Streams /\ y \in Lines
      BY <1>8, <1>12
    <2> HIDE DEF m
    <2>2. w = [v EXCEPT !.mem = m, !.out = 0,
                   !.is_handshake_completed = FALSE, !.ssl = "before", !.in = None,
                   !.writing = y,
                   !.should_retry = None, !.retry_wb = None,
                   !.when_tcp_is_writing = <<>>]
      BY <1>11 DEF m
    <2>3. m = b.mem
      BY DEF m
    <2>4. EmptiedFields(v, w, m, y)
      BY <2>1, <2>2, EmptiedRecord, Zenon
    <2> QED BY <2>3, <2>4 DEF EmptiedFields
  <1>18. Fits(w)
    BY <1>1, <1>2, <1>15 DEF Fits
  <1>19. Emptied(v, w)
    BY <1>9, <1>10, <1>15 DEF Emptied
  <1> QED BY <1>15, <1>18, <1>19

\* Without a socket there is nothing to reset.
LEMMA NoSocket ==
  ASSUME NEW v, NEW w \in Tls, NEW q, Good(v, q), Fits(w), Emptied(v, w), v.sock = "none"
  PROVE  Good(w, q)
  <1>1. /\ ~Connected(v) /\ v.out = 0 /\ v.when_tcp_is_writing = <<>>
        /\ v.should_retry = None /\ v.retry_wb = None /\ v.in = None
    BY DEF Good, Control
  <1>2. SameQueues(v, w) /\ Out(w) = <<>> /\ Out(v) = <<>>
    BY <1>1, OutEmpty DEF SameQueues, Emptied
  <1>3. Control(w)
    BY <1>1 DEF Good, Control, Connected, Emptied
  <1>4. Wires(v) => Wires(w)
    BY <1>2 DEF Wires, Connected, Emptied
  <1>5. Orders(w, q) /\ Held(w, q)
    BY <1>2, OrdersKept, HeldKept DEF Good, Emptied
  <1> QED BY <1>3, <1>4, <1>5 DEF Good

\* All that is held is reported.
LEMMA ResetKeeps ==
  ASSUME NEW v, NEW w \in Tls, NEW u \in Tls, NEW q, Good(v, q), v.fault = None,
         Fits(w), Emptied(v, w), ResetTo(w, u)
  PROVE  Good(u, q) /\ Over(u) /\ u.sock \in {v.sock, "stopped", "closing"}
  <1>3. /\ w.sock = v.sock /\ w.left = v.left /\ w.fault = v.fault
        /\ w.out = 0 /\ w.is_writing = v.is_writing
        /\ w.is_connecting = v.is_connecting
    BY DEF Emptied
  <1>4. /\ u.done = w.done \cup ((Range(w.conn_pending) \cup Range(w.write_wait)
                             \cup Range(w.writing) \cup w.resp_pending) \cap Requests)
        /\ u.sock \in {w.sock, "stopped", "closing"} /\ u.sock # "reading"
        /\ w.sock \in {"open", "closing"} => u.sock \in {"open", "closing"}
        /\ u.sock = "open" => w.sock = "open"
        /\ u.sock = "none" => w.sock = "none"
    BY DEF ResetTo
  <1>5. /\ u.conn_pending = <<>> /\ u.write_wait = <<>> /\ u.writing = <<>>
        /\ u.should_retry = None /\ u.retry_wb = None
        /\ u.when_tcp_is_writing = <<>> /\ u.resp_pending = {}
    BY DEF ResetTo, Emptied
  <1>6. /\ u.state = "NOT_CONN" /\ u.is_connecting = v.is_connecting
        /\ u.is_writing = v.is_writing /\ u.ssl = "before" /\ u.in = None
        /\ u.out = 0 /\ u.left = v.left /\ u.fault = v.fault
        /\ u.made = <<>> /\ u.wire = <<>> /\ u.mem = w.mem
    BY DEF ResetTo, Emptied
  <1>7. Fits(u)
    BY <1>3, <1>6 DEF Fits
  <1>8. ~Connected(u)
    BY <1>6 DEF Connected
  <1>9. Control(u)
    <2>1. v.is_connecting => v.sock \in {"open", "closing"} /\ ~v.is_writing
      BY DEF Good, Control
    <2>2. v.sock \in {"none", "open"} => ~v.is_writing
      BY DEF Good, Control
    <2>3. v.fault # "writeToTcp"
      BY DEF Good, Control
    <2> QED BY <1>3, <1>4, <1>5, <1>6, <1>8, <2>1, <2>2, <2>3 DEF Control
  <1>10. Out(u) = <<>>
    BY <1>6, OutEmpty
  <1>11. Wires(v) => Wires(u)
    BY <1>6, <1>8, <1>10, CatEmpty DEF Wires
  <1>12. Orders(u, q)
    <2>1. /\ Range(u.made) = {} /\ Range(u.write_wait) = {}
          /\ Range(u.conn_pending) = {} /\ u.retry_wb \notin Requests
      BY <1>5, <1>6, CatEmpty, Apartness
    <2>2. Ordered(q, u.made) /\ Ordered(q, u.write_wait) /\ Ordered(q, u.conn_pending)
      BY <1>5, <1>6, ShortSequences
    <2> QED BY <2>1, <2>2, BeforeNothing DEF Orders
  <1>13. Held(u, q)
    <2>1. Once(u.conn_pending) /\ Once(u.write_wait)
      BY <1>5, ShortSequences
    <2>2. /\ Range(u.conn_pending) = {} /\ Range(u.write_wait) = {}
          /\ Range(u.writing) = {} /\ Range(u.when_tcp_is_writing) = {}
      BY <1>5, CatEmpty
    <2>3. ASSUME NEW r \in Requests
          PROVE  /\ OnePlace(u, r) /\ r \notin Places(u)
                 /\ r \in Places(v) \cup v.done => r \in u.done
      <3>1. r # None
        BY Apartness
      <3>2. OnePlace(u, r)
        BY <1>5, <2>2, <3>1 DEF OnePlace
      <3>3. r \notin Places(u)
        BY <1>5, <2>2, <3>1 DEF Places
      <3>4. r \in Places(v) \cup v.done => r \in u.done
        BY <1>4, <3>1 DEF Places, Emptied
      <3> QED BY <3>2, <3>3, <3>4
    <2> QED BY <2>1, <2>3 DEF Held, Good
  <1> QED BY <1>3, <1>4, <1>5, <1>6, <1>7, <1>8, <1>9, <1>11, <1>12, <1>13 DEF Good, Over

\* What an operation that ends the connection leaves, or a process that died
Ends(s, u, q) ==
  /\ Good(u, q)
  /\ u.fault = None => Over(u)
  /\ u.sock \in {s.sock, "stopped", "closing"}

\* tls__reset ends the connection: the items whose bytes SSL held join
\* writing_queue.
LEMMA TlsResetEnds ==
  ASSUME NEW s, NEW q \in Sends, Good(s, q), s.fault = None, NEW u \in tls__reset(s)
  PROVE  Ends(s, u, q)
  <1>1. CASE s.ssl = "none"
    <2>1. u \in Crash(s, "nullSsl") /\ "nullSsl" \in Faults \ {"writeToTcp"}
      BY <1>1 DEF tls__reset, Faults
    <2>2. Aside(s, u) /\ u.fault # None
      BY <2>1, CrashKeeps
    <2> QED BY <2>2, AsideKeeps DEF Ends
  <1>2. CASE s.ssl # "none"
    <2>1. PICK c \in Cleared(s) :
            IF c.fault = None
              THEN u \in tcp__reset(HandedOver(c)) ELSE u = c
      BY <1>2 DEF tls__reset, Then, HandedOver
    <2>2. PICK v : /\ Good(v, q) /\ v.fault = None /\ v.sock = s.sock
                   /\ c = Afresh(v)
      BY ClearedClears
    <2>3. v \in Tls /\ Fits(v)
      BY <2>2 DEF Good
    <2> DEFINE w == HandedOver(c)
    <2>4. w \in Tls /\ Fits(w) /\ Emptied(v, w)
      BY <2>2, <2>3, EmptiedBy
    <2>5. c.fault = None
      <3>1. BioReset(v) \in Tls /\ BioReset(v) = [v EXCEPT !.mem = BioReset(v).mem, !.out = 0]
        BY <2>3, BioResetClears
      <3> DEFINE b == BioReset(v)
      <3>2. b.fault = None
        <4> HIDE DEF b
        <4>1. b = [v EXCEPT !.mem = b.mem, !.out = 0]
          BY <3>1 DEF b
        <4> QED BY <2>2, <2>3, <4>1 DEF Tls
      <3>3. c = [b EXCEPT !.is_handshake_completed = FALSE, !.ssl = "before", !.in = None]
        BY <2>2 DEF Afresh
      <3> HIDE DEF b, w
      <3>4. b \in Tls
        BY <3>1 DEF b
      <3> QED BY <3>2, <3>3, <3>4 DEF Tls
    <2>6. u \in tcp__reset(w)
      BY <2>1, <2>5
    <2> HIDE DEF w
    <2>7. w.sock = s.sock /\ w.fault = None
      BY <2>2, <2>4 DEF Emptied
    <2>8. CASE w.sock = "none" /\ u \in Crash(w, "uvClose")
      <3>1. Good(w, q)
        BY <2>2, <2>4, <2>7, <2>8, NoSocket
      <3>2. "uvClose" \in Faults \ {"writeToTcp"}
        BY DEF Faults
      <3>3. Aside(w, u) /\ u.fault # None
        BY <2>8, <3>1, <3>2, CrashKeeps
      <3> QED BY <2>7, <3>1, <3>3, AsideKeeps DEF Ends
    <2>9. CASE u \in Tls /\ ResetTo(w, u)
      BY <2>2, <2>4, <2>9, ResetKeeps DEF Ends
    <2> QED BY <2>4, <2>6, <2>8, <2>9, ResetResets
  <1> QED BY <1>1, <1>2

\* An event whose handler resets the connection
LEMMA EventThenEnds ==
  ASSUME NEW s, NEW q \in Sends, Good(s, q), s.fault = None, NEW e \in NetEvents,
         NEW u \in Then(Fire(s, e), tls__reset)
  PROVE  Ends(s, u, q)
  <1>1. PICK t \in Fire(s, e) : IF t.fault = None THEN u \in tls__reset(t) ELSE u = t
    BY DEF Then
  <1>2. Good(t, q) /\ t.sock = s.sock
    BY FireKeeps, AsideKeeps
  <1>3. CASE t.fault = None
    BY <1>1, <1>2, <1>3, TlsResetEnds DEF Ends
  <1>4. CASE t.fault # None
    BY <1>1, <1>2, <1>4 DEF Ends
  <1> QED BY <1>3, <1>4

\* tcp__reconn ends the connection, whether it gives up or waits.
LEMMA ReconnEnds ==
  ASSUME NEW s, NEW q \in Sends, Good(s, q), s.fault = None, NEW u \in tcp__reconn(s)
  PROVE  Ends(s, u, q)
  <1>1. PICK t \in tls__reset(s) :
          IF t.fault = None
            THEN \/ u = [t EXCEPT !.state = "CONNECTING",
                           !.timers = IF t.closed THEN @ ELSE @ \cup {"reconn_delay"}]
                 \/ \E v \in Fire(t, "CONNECT_FAILED") :
                      u = [v EXCEPT !.state = IF v.fault = None THEN "NOT_CONN" ELSE @]
            ELSE u = t
    <2>1. PICK t \in tls__reset(s) :
            u \in IF t.fault = None
              THEN {[t EXCEPT !.state = "CONNECTING",
                      !.timers = IF t.closed THEN @ ELSE @ \cup {"reconn_delay"}]}
                   \cup {[v EXCEPT !.state = IF v.fault = None THEN "NOT_CONN" ELSE @]
                           : v \in Fire(t, "CONNECT_FAILED")}
              ELSE {t}
      BY DEF tcp__reconn, Then
    <2> QED BY <2>1, Zenon
  <1>2. Ends(s, t, q)
    BY TlsResetEnds
  <1>3. CASE t.fault # None
    BY <1>1, <1>2, <1>3
  <1>4. CASE t.fault = None /\ u = [t EXCEPT !.state = "CONNECTING",
                           !.timers = IF t.closed THEN @ ELSE @ \cup {"reconn_delay"}]
    <2> DEFINE x == IF t.closed THEN t.timers ELSE t.timers \cup {"reconn_delay"}
    <2>0. t \in Tls /\ Good(t, q) /\ Over(t) /\ t.fault = None
      BY <1>2, <1>4 DEF Ends, Good
    <2>1. u = [t EXCEPT !.state = "CONNECTING", !.timers = x]
      BY <1>4, Zenon
    <2>2. x \in TimerSets
      <3>1. t.timers \in TimerSets
        BY <2>0 DEF Tls
      <3> QED BY <3>1 DEF TimerSets
    <2> HIDE DEF x
    <2>3. u \in Tls
      BY <2>0, <2>1, <2>2, StateValues DEF Tls
    <2>4. /\ SameQueues(t, u) /\ SameBytes(t, u) /\ u.sock = t.sock
          /\ u.is_connecting = t.is_connecting /\ u.is_writing = t.is_writing
      BY <2>0, <2>1 DEF Tls, SameQueues, SameBytes
    <2>5. u.ssl = t.ssl /\ u.in = t.in /\ u.fault = t.fault /\ u.state = "CONNECTING"
      BY <2>0, <2>1 DEF Tls
    <2>6. ~Connected(t) /\ ~Connected(u) /\ u.fault # "writeToTcp"
      BY <2>0, <2>5, NoneValues, TlsAssumption DEF Over, Connected, Faults
    <2>7. Good(u, q)
      BY <2>0, <2>3, <2>4, <2>5, <2>6, Unconnected
    <2>8. Over(u)
      BY <2>0, <2>4, <2>5, <2>6 DEF Over, SameQueues, SameBytes
    <2> QED BY <1>2, <2>4, <2>7, <2>8 DEF Ends
  <1>5. ASSUME t.fault = None, NEW v \in Fire(t, "CONNECT_FAILED"),
               u = [v EXCEPT !.state = IF v.fault = None THEN "NOT_CONN" ELSE @]
        PROVE  Ends(s, u, q)
    <2>0. Good(t, q) /\ Over(t) /\ "CONNECT_FAILED" \in NetEvents
      BY <1>2, <1>5 DEF Ends, NetEvents
    <2>1. Aside(t, v) /\ Good(v, q) /\ v.sock = t.sock /\ v \in Tls
      BY <1>5, <2>0, FireKeeps, AsideKeeps DEF Good
    <2>2. Over(v)
      BY <2>0, <2>1, AsideKeeps DEF Over, Aside, SameQueues, SameBytes, SamePhase
    <2> DEFINE x == IF v.fault = None THEN "NOT_CONN" ELSE v.state
    <2>3. u = [v EXCEPT !.state = x]
      BY <1>5, Zenon
    <2>4. x \in States /\ x \notin {"HANDSHAKEING", "DONE"}
      <3>1. v.state \in States
        BY <2>1 DEF Tls
      <3> QED BY <2>2, <3>1, StateValues DEF Over, Connected
    <2> HIDE DEF x
    <2>5. u \in Tls
      BY <2>1, <2>3, <2>4 DEF Tls
    <2>6. /\ SameQueues(v, u) /\ SameBytes(v, u) /\ u.sock = v.sock
          /\ u.is_connecting = v.is_connecting /\ u.is_writing = v.is_writing
      BY <2>1, <2>3 DEF Tls, SameQueues, SameBytes
    <2>7. u.ssl = v.ssl /\ u.in = v.in /\ u.fault = v.fault /\ u.state = x
      BY <2>1, <2>3 DEF Tls
    <2>8. ~Connected(v) /\ ~Connected(u) /\ v.fault # "writeToTcp"
      BY <2>1, <2>2, <2>4, <2>7 DEF Over, Connected, Aside
    <2>9. Good(u, q)
      BY <2>1, <2>5, <2>6, <2>7, <2>8, Unconnected
    <2>10. Over(u)
      BY <2>2, <2>6, <2>7, <2>8 DEF Over, SameQueues, SameBytes
    <2> QED BY <1>2, <2>1, <2>6, <2>9, <2>10 DEF Ends
  <1> QED BY <1>1, <1>3, <1>4, <1>5

\* An event before tcp__reconn changes none of that.
LEMMA EventThenReconn ==
  ASSUME NEW s, NEW q \in Sends, Good(s, q), s.fault = None, NEW e \in NetEvents,
         NEW u \in Then(Fire(s, e), tcp__reconn)
  PROVE  Ends(s, u, q)
  <1>1. PICK t \in Fire(s, e) : IF t.fault = None THEN u \in tcp__reconn(t) ELSE u = t
    BY DEF Then
  <1>2. Good(t, q) /\ t.sock = s.sock
    BY FireKeeps, AsideKeeps
  <1>3. CASE t.fault = None
    BY <1>1, <1>2, <1>3, ReconnEnds DEF Ends
  <1>4. CASE t.fault # None
    BY <1>1, <1>2, <1>4 DEF Ends
  <1> QED BY <1>3, <1>4

\* The failure of SSL ends the connection.
LEMMA ErrorEnds ==
  ASSUME NEW s, NEW q \in Sends, Good(s, q), s.fault = None,
         NEW u \in tls__emit_error_event(s)
  PROVE  Ends(s, u, q)
  <1>1. "UNEXPECTED_DISCONNECT" \in NetEvents /\ "CONNECT_FAILED" \in NetEvents
    BY DEF NetEvents
  <1>2. \/ u \in Then(Fire(s, "UNEXPECTED_DISCONNECT"), tcp__reconn)
        \/ u \in Then(Fire(s, "CONNECT_FAILED"), tls__reset)
    BY DEF tls__emit_error_event
  <1>3. CASE u \in Then(Fire(s, "UNEXPECTED_DISCONNECT"), tcp__reconn)
    BY <1>1, <1>3, EventThenReconn, Zenon
  <1>4. CASE u \in Then(Fire(s, "CONNECT_FAILED"), tls__reset)
    BY <1>1, <1>4, EventThenEnds, Zenon
  <1> QED BY <1>2, <1>3, <1>4

\* A reset leaves nothing to do.
LEMMA EndsSettled ==
  ASSUME NEW s, NEW u, NEW q, Ends(s, u, q)
  PROVE  Good(u, q) /\ Settled(u) /\ (u.fault = None => ~Connected(u))
  BY DEF Ends, Settled, Over, Working, Quiet, Flowing

(***************************************************************************)
(* Queues.  Items join write_wait_queue at its end, or at its head, and    *)
(* leave it from its head.                                                 *)
(***************************************************************************)

\* Requests that a queue holds are among those queued.
LEMMA HeldQueued ==
  ASSUME NEW s, NEW q, Held(s, q)
  PROVE  /\ Range(s.write_wait) \cap Requests \subseteq Reqs(q)
         /\ Range(s.conn_pending) \cap Requests \subseteq Reqs(q)
  BY DEF Held, Places

\* In phase DONE what waited for the connection joins write_wait_queue.
Ready(s) ==
  IF s.state = "DONE"
    THEN [s EXCEPT !.write_wait = @ \o s.conn_pending, !.conn_pending = <<>>]
    ELSE s

SameRest(s, u) ==
  /\ SameBytes(s, u) /\ SamePhase(s, u) /\ u.fault = s.fault
  /\ u.should_retry = s.should_retry /\ u.retry_wb = s.retry_wb

\* The items that waited for the connection come first, as they were queued
\* first.
LEMMA ReadyKeeps ==
  ASSUME NEW s, NEW q \in Sends, Good(s, q)
  PROVE  Good(Ready(s), q) /\ SameRest(s, Ready(s))
         /\ (s.write_wait # <<>> => Ready(s).write_wait # <<>>)
  <1>0. s \in Tls /\ Fits(s) /\ s.write_wait \in Lines /\ s.conn_pending \in Lines
    BY DEF Good, Tls
  <1>1. CASE s.state # "DONE"
    BY <1>1 DEF Ready, SameRest, SameBytes, SamePhase
  <1>2. CASE s.state = "DONE"
    <2> DEFINE x == Cat(s.write_wait, s.conn_pending)
               u == Ready(s)
    <2>1. u = [s EXCEPT !.write_wait = x, !.conn_pending = <<>>]
      BY <1>2 DEF Ready, Cat
    <2>2. x \in Lines /\ <<>> \in Lines
      BY <1>0, CatTyped, CatEmpty
    <2> HIDE DEF x, u
    <2>3. u \in Tls
      BY <1>0, <2>1, <2>2 DEF Tls
    <2>4. u.write_wait = x /\ u.conn_pending = <<>>
          /\ u.writing = s.writing /\ u.when_tcp_is_writing = s.when_tcp_is_writing
          /\ u.resp_pending = s.resp_pending /\ u.done = s.done
      BY <1>0, <2>1 DEF Tls
    <2>5. SameRest(s, u)
      BY <1>0, <2>1 DEF Tls, SameRest, SameBytes, SamePhase
    <2>6. Connected(s) /\ Connected(u)
      BY <1>2, <2>5 DEF Connected, SameRest, SamePhase
    <2>7. Fits(u)
      BY <1>0, <2>5 DEF Fits, SameRest, SameBytes
    <2>8. Control(u)
      BY <2>4, <2>5, <2>6 DEF Good, Control, SameRest, SameBytes, SamePhase
    <2>9. Wires(s) => Wires(u)
      BY <2>5, WiresKept DEF SameRest, SamePhase
    <2>10. Range(x) = Range(s.write_wait) \cup Range(s.conn_pending) /\ Range(<<>>) = {}
      <3>1. s.write_wait \in Streams /\ s.conn_pending \in Streams
        BY <1>0, Inclusions
      <3> QED BY <3>1, RangeCat, CatEmpty DEF x
    <2>11. Orders(u, q)
      <3>1. Ordered(q, x) /\ Ordered(q, <<>>)
        <4>1. s.write_wait \in Streams /\ s.conn_pending \in Streams
          BY <1>0, Inclusions
        <4>2. Ordered(q, s.write_wait) /\ Ordered(q, s.conn_pending)
              /\ Before(q, Range(s.write_wait), Range(s.conn_pending))
          BY DEF Good, Orders
        <4> QED BY <4>1, <4>2, OrderedCat, ShortSequences DEF x
      <3>2. /\ Before(q, Range(s.made), Range(x))
            /\ Before(q, {s.retry_wb}, Range(x))
        BY <2>10, BeforeUnion DEF Good, Orders
      <3>3. u.made = s.made /\ u.retry_wb = s.retry_wb
        BY <2>5 DEF SameRest, SameBytes
      <3> QED BY <2>4, <2>10, <3>1, <3>2, <3>3, BeforeNothing DEF Good, Orders
    <2>12. Held(u, q)
      <3>1. Held(s, q)
        BY DEF Good
      <3>2. Once(x) /\ Once(<<>>)
        <4>1. s.write_wait \in Streams /\ s.conn_pending \in Streams
          BY <1>0, Inclusions
        <4>2. Range(s.write_wait) \cap Range(s.conn_pending) \cap Requests = {}
          BY <3>1 DEF Held, OnePlace
        <4>3. Once(s.write_wait) /\ Once(s.conn_pending)
          BY <3>1 DEF Held
        <4> QED BY <4>1, <4>2, <4>3, OnceCat, ShortSequences DEF x
      <3>3. u.should_retry = s.should_retry
        BY <2>5 DEF SameRest
      <3>4. ASSUME NEW r \in Requests
            PROVE  OnePlace(u, r) /\ (r \in Places(u) <=> r \in Places(s))
        <4>1. OnePlace(s, r)
          BY <3>1 DEF Held
        <4>2. OnePlace(u, r)
          BY <2>4, <2>10, <3>3, <4>1 DEF OnePlace
        <4>3. r \in Places(u) <=> r \in Places(s)
          BY <2>4, <2>10, <3>3 DEF Places
        <4> QED BY <4>2, <4>3
      <3> QED BY <2>4, <3>1, <3>2, <3>4 DEF Held
    <2>13. ASSUME s.write_wait # <<>>, x = <<>> PROVE FALSE
      <3>1. s.write_wait = Cat(<<Head(s.write_wait)>>, Tail(s.write_wait))
            /\ <<Head(s.write_wait)>> \in Streams /\ Tail(s.write_wait) \in Streams
        BY <1>0, <2>13, HeadAndTail, OneElement, Inclusions
      <3>2. Head(s.write_wait) \in Range(s.write_wait)
        BY <3>1, RangeCat, OneElement
      <3> QED BY <2>10, <2>13, <3>2
    <2> QED BY <2>3, <2>4, <2>5, <2>7, <2>8, <2>9, <2>11, <2>12, <2>13 DEF Good, u
  <1> QED BY <1>1, <1>2

\* The first item waits for SSL_write to be repeated.
LEMMA FirstKeptKeeps ==
  ASSUME NEW s, NEW q \in Sends, Good(s, q), s.write_wait # <<>>,
         s.retry_wb = None, s.should_retry = None
  PROVE  /\ Good(FirstKept(s), q)
         /\ SameBytes(s, FirstKept(s)) /\ SamePhase(s, FirstKept(s))
         /\ FirstKept(s).fault = s.fault
         /\ FirstKept(s).should_retry = FirstKept(s).retry_wb
  <1> DEFINE h == Head(s.write_wait)
             t == Tail(s.write_wait)
             u == FirstKept(s)
  <1>0. s \in Tls /\ Fits(s) /\ s.write_wait \in Lines
    BY DEF Good, Tls
  <1>1. h \in Items /\ t \in Lines /\ s.write_wait = Cat(<<h>>, t) /\ h \in Retries
    BY <1>0, HeadAndTail, NoneValues
  <1>2. u = [s EXCEPT !.should_retry = h, !.retry_wb = h, !.write_wait = t]
    BY DEF FirstKept
  <1> HIDE DEF h, t, u
  <1>3. u \in Tls
    BY <1>0, <1>1, <1>2 DEF Tls
  <1>4. /\ u.write_wait = t /\ u.conn_pending = s.conn_pending
        /\ u.writing = s.writing /\ u.when_tcp_is_writing = s.when_tcp_is_writing
        /\ u.resp_pending = s.resp_pending /\ u.done = s.done
        /\ u.should_retry = h /\ u.retry_wb = h /\ u.fault = s.fault
    BY <1>0, <1>2 DEF Tls
  <1>5. SameBytes(s, u) /\ SamePhase(s, u)
    BY <1>0, <1>2 DEF Tls, SameBytes, SamePhase
  <1>6. Connected(s) /\ Connected(u)
    BY <1>5 DEF Good, Control, Connected, SamePhase
  <1>7. Fits(u)
    BY <1>0, <1>5 DEF Fits, SameBytes
  <1>8. Control(u)
    BY <1>4, <1>5, <1>6 DEF Good, Control, SameBytes, SamePhase
  <1>9. Wires(s) => Wires(u)
    BY <1>5, WiresKept DEF SamePhase
  <1>10. Range(s.write_wait) = {h} \cup Range(t)
    BY <1>1, OneElement, RangeCat, Inclusions
  <1>11. <<h>> \in Streams /\ t \in Streams
    BY <1>1, OneElement, Inclusions
  <1>12. Orders(u, q)
    <2>1. Ordered(q, t) /\ Before(q, {h}, Range(t))
      <3>1. Ordered(q, Cat(<<h>>, t))
        BY <1>1 DEF Good, Orders
      <3>2. Ordered(q, t) /\ Before(q, Range(<<h>>), Range(t))
        BY <1>11, <3>1, OrderedCat
      <3> QED BY <3>2, OneElement
    <2>2. /\ Before(q, Range(s.made), {h}) /\ Before(q, Range(s.made), Range(t))
          /\ Before(q, {h}, Range(s.conn_pending))
          /\ Before(q, Range(t), Range(s.conn_pending))
      BY <1>10, BeforeUnion DEF Good, Orders
    <2>3. h \in Requests => h \in Reqs(q)
      BY <1>10, HeldQueued DEF Good
    <2>4. u.made = s.made
      BY <1>5 DEF SameBytes
    <2> QED BY <1>4, <2>1, <2>2, <2>3, <2>4 DEF Good, Orders
  <1>13. Held(u, q)
    <2>1. Held(s, q)
      BY DEF Good
    <2>2. Once(t) /\ (h \in Requests => h \notin Range(t))
      <3>1. Once(Cat(<<h>>, t))
        BY <1>1, <2>1 DEF Held
      <3>2. Once(t) /\ Range(<<h>>) \cap Range(t) \cap Requests = {}
        BY <1>11, <3>1, OnceCat
      <3> QED BY <3>2, OneElement
    <2>3. ASSUME NEW r \in Requests
          PROVE  OnePlace(u, r) /\ (r \in Places(u) <=> r \in Places(s))
      <3>1. OnePlace(s, r) /\ r # None
        BY <2>1, Apartness DEF Held
      <3>2. OnePlace(u, r)
        BY <1>4, <1>10, <2>2, <3>1 DEF OnePlace
      <3>3. r \in Places(u) <=> r \in Places(s)
        BY <1>4, <1>10, <3>1 DEF Places
      <3> QED BY <3>2, <3>3
    <2> QED BY <1>4, <2>1, <2>2, <2>3 DEF Held
  <1>14. Good(u, q)
    BY <1>3, <1>7, <1>8, <1>9, <1>12, <1>13 DEF Good
  <1> QED BY <1>4, <1>5, <1>14 DEF u

\* Items join those whose bytes the next uv_write takes.
ToHeadFields(x, u, items) ==
  /\ u \in Tls /\ SameBytes(x, u) /\ SamePhase(x, u) /\ u.fault = x.fault
  /\ u.conn_pending = x.conn_pending /\ u.write_wait = x.write_wait
  /\ u.should_retry = x.should_retry /\ u.retry_wb = x.retry_wb
  /\ u.resp_pending = x.resp_pending /\ u.done = x.done
  /\ IF x.is_writing
       THEN /\ u.writing = x.writing
            /\ u.when_tcp_is_writing = Cat(x.when_tcp_is_writing, items)
       ELSE /\ u.writing = Cat(x.writing, items)
            /\ u.when_tcp_is_writing = x.when_tcp_is_writing

\* The fields of what ToHead leaves.
LEMMA ToHeadRecord ==
  ASSUME NEW x \in Tls, NEW items \in Lines
  PROVE  ToHeadFields(x, ToHead(x, items), items)
  <1> DEFINE a == Cat(x.when_tcp_is_writing, items)
             b == Cat(x.writing, items)
             u == ToHead(x, items)
  <1>1. a \in Lines /\ b \in Lines
    <2>1. x.when_tcp_is_writing \in Lines /\ x.writing \in Lines
      BY DEF Tls
    <2> QED BY <2>1, CatTyped
  <1>2. CASE x.is_writing
    <2>1. u = [x EXCEPT !.when_tcp_is_writing = a]
      BY <1>2 DEF ToHead, Cat
    <2> HIDE DEF a, b, u
    <2>2. u \in Tls
      BY <1>1, <2>1 DEF Tls
    <2>3. SameBytes(x, u) /\ SamePhase(x, u) /\ u.fault = x.fault
      BY <2>1 DEF Tls, SameBytes, SamePhase
    <2>4. /\ u.conn_pending = x.conn_pending /\ u.write_wait = x.write_wait
          /\ u.should_retry = x.should_retry /\ u.retry_wb = x.retry_wb
          /\ u.resp_pending = x.resp_pending /\ u.done = x.done
          /\ u.writing = x.writing /\ u.when_tcp_is_writing = a
      BY <2>1 DEF Tls
    <2> QED BY <1>2, <2>2, <2>3, <2>4 DEF ToHeadFields, a, u
  <1>3. CASE ~x.is_writing
    <2>1. u = [x EXCEPT !.writing = b]
      BY <1>3 DEF ToHead, Cat
    <2> HIDE DEF a, b, u
    <2>2. u \in Tls
      BY <1>1, <2>1 DEF Tls
    <2>3. SameBytes(x, u) /\ SamePhase(x, u) /\ u.fault = x.fault
      BY <2>1 DEF Tls, SameBytes, SamePhase
    <2>4. /\ u.conn_pending = x.conn_pending /\ u.write_wait = x.write_wait
          /\ u.should_retry = x.should_retry /\ u.retry_wb = x.retry_wb
          /\ u.resp_pending = x.resp_pending /\ u.done = x.done
          /\ u.writing = b /\ u.when_tcp_is_writing = x.when_tcp_is_writing
      BY <2>1 DEF Tls
    <2> QED BY <1>3, <2>2, <2>3, <2>4 DEF ToHeadFields, b, u
  <1> QED BY <1>2, <1>3

(***************************************************************************)
(* Writing.  SSL_write takes the items of write_wait_queue into BIO out.   *)
(***************************************************************************)

\* What SSL_write has taken is in BIO out, and its items wait for the write.
Taken(s, u, recs, items) ==
  /\ u \in Tls /\ Fits(u)
  /\ u.made = Cat(s.made, recs) /\ Out(u) = Cat(Out(s), recs)
  /\ u.out = s.out + Len(recs)
  /\ u.wire = s.wire /\ u.left = s.left
  /\ SamePhase(s, u) /\ u.fault = s.fault
  /\ u.conn_pending = s.conn_pending
  /\ u.resp_pending = s.resp_pending /\ u.done = s.done
  /\ IF s.is_writing
       THEN /\ u.writing = s.writing
            /\ u.when_tcp_is_writing = Cat(s.when_tcp_is_writing, items)
       ELSE /\ u.writing = Cat(s.writing, items)
            /\ u.when_tcp_is_writing = s.when_tcp_is_writing

\* x is what Emit makes, but for queues of its own
LEMMA TakenBy ==
  ASSUME NEW s \in Tls, NEW e \in Tls, NEW x \in Tls, Fits(s), Fits(e),
         NEW recs, NEW items \in Lines,
         Adds(s, e, recs), e.ssl = s.ssl, e.in = s.in,
         SameBytes(e, x), SamePhase(e, x), x.fault = e.fault,
         x.conn_pending = e.conn_pending, x.resp_pending = e.resp_pending,
         x.done = e.done, x.writing = e.writing,
         x.when_tcp_is_writing = e.when_tcp_is_writing
  PROVE  Taken(s, ToHead(x, items), recs, items)
  <1> DEFINE u == ToHead(x, items)
  <1>1. ToHeadFields(x, u, items)
    BY ToHeadRecord
  <1> HIDE DEF u
  <1>2. /\ e = [s EXCEPT !.mem = e.mem, !.out = e.out, !.made = e.made,
                        !.ssl = e.ssl, !.in = e.in]
        /\ e.made = Cat(s.made, recs) /\ Out(e) = Cat(Out(s), recs)
        /\ e.out = s.out + Len(recs)
    BY DEF Adds
  <1>3. e = [s EXCEPT !.mem = e.mem, !.out = e.out, !.made = e.made,
                        !.ssl = e.ssl, !.in = e.in]
    BY <1>2
  <1>4. /\ e.wire = s.wire /\ e.left = s.left /\ e.fault = s.fault
        /\ e.conn_pending = s.conn_pending
        /\ e.resp_pending = s.resp_pending /\ e.done = s.done
        /\ e.writing = s.writing /\ e.when_tcp_is_writing = s.when_tcp_is_writing
    BY <1>3, ZenonT(40) DEF Tls
  <1>5. /\ e.state = s.state /\ e.sock = s.sock
        /\ e.is_connecting = s.is_connecting /\ e.is_writing = s.is_writing
    BY <1>3, ZenonT(40) DEF Tls
  <1>6. u \in Tls /\ Fits(u)
    BY <1>1 DEF ToHeadFields, Fits, SameBytes
  <1>7. /\ u.made = Cat(s.made, recs) /\ Out(u) = Cat(Out(s), recs)
        /\ u.out = s.out + Len(recs) /\ u.wire = s.wire /\ u.left = s.left
    BY <1>1, <1>2, <1>4 DEF ToHeadFields, SameBytes, Out
  <1>8. SamePhase(s, u) /\ u.fault = s.fault
    BY <1>1, <1>4, <1>5 DEF ToHeadFields, SamePhase
  <1>9. /\ u.conn_pending = s.conn_pending
        /\ u.resp_pending = s.resp_pending /\ u.done = s.done
        /\ IF s.is_writing
             THEN /\ u.writing = s.writing
                  /\ u.when_tcp_is_writing = Cat(s.when_tcp_is_writing, items)
             ELSE /\ u.writing = Cat(s.writing, items)
                  /\ u.when_tcp_is_writing = s.when_tcp_is_writing
    BY <1>1, <1>4, <1>5 DEF ToHeadFields, SamePhase
  <1>10. Taken(s, u, recs, items)
    BY <1>6, <1>7, <1>8, <1>9 DEF Taken
  <1> QED BY <1>10 DEF u

\* What is the same of two such steps: something is in BIO out, and the bytes
\* stay as they are.
LEMMA TakenKeeps ==
  ASSUME NEW s, NEW u, NEW q \in Sends, NEW recs \in Produced, NEW items \in Lines,
         Good(s, q), Taken(s, u, recs, items), Connected(s), recs # <<>>,
         s.fault # "writeToTcp"
  PROVE  /\ u \in Tls /\ Fits(u) /\ Control(u) /\ (Wires(s) => Wires(u))
         /\ Range(u.made) = Range(s.made) \cup Range(recs)
         /\ Range(u.writing) \cup Range(u.when_tcp_is_writing)
              = Range(s.writing) \cup Range(s.when_tcp_is_writing) \cup Range(items)
         /\ \/ /\ Range(u.writing) = Range(s.writing)
               /\ Range(u.when_tcp_is_writing)
                    = Range(s.when_tcp_is_writing) \cup Range(items)
            \/ /\ Range(u.when_tcp_is_writing) = Range(s.when_tcp_is_writing)
               /\ Range(u.writing) = Range(s.writing) \cup Range(items)
         /\ (Ordered(q, recs) /\ Before(q, Range(s.made), Range(recs))
               => Ordered(q, u.made))
  <1>1. /\ s \in Tls /\ Fits(s) /\ recs \in Streams /\ items \in Streams
        /\ s.made \in Streams /\ s.wire \in Streams /\ Out(s) \in Streams
        /\ s.writing \in Streams /\ s.when_tcp_is_writing \in Streams
    BY OutTyped, Inclusions DEF Good, Tls
  <1>2. /\ u \in Tls /\ Fits(u)
        /\ u.made = Cat(s.made, recs) /\ Out(u) = Cat(Out(s), recs)
        /\ u.out = s.out + Len(recs) /\ u.wire = s.wire /\ u.left = s.left
        /\ SamePhase(s, u) /\ u.fault = s.fault
    BY DEF Taken
  <1>3. IF s.is_writing
          THEN /\ u.writing = s.writing
               /\ u.when_tcp_is_writing = Cat(s.when_tcp_is_writing, items)
          ELSE /\ u.writing = Cat(s.writing, items)
               /\ u.when_tcp_is_writing = s.when_tcp_is_writing
    BY DEF Taken
  <1>4. Connected(u)
    BY <1>2 DEF Connected, SamePhase
  <1>5. u.out > 0
    <2>1. Len(recs) \in Nat /\ Len(recs) # 0
      BY EmptySeq, LenProperties DEF Produced
    <2>2. s.out \in Nat
      BY <1>1 DEF Tls, Counts
    <2> DEFINE n == Len(recs)
    <2> HIDE DEF n
    <2>3. n \in Nat /\ n # 0 /\ u.out = s.out + n
      BY <1>2, <2>1 DEF n
    <2> QED BY <2>2, <2>3
  <1>6. Control(u)
    BY <1>2, <1>4, <1>5 DEF Good, Control, SamePhase
  <1>7. Wires(s) => Wires(u)
    <2>1. Cat(Cat(s.wire, Out(s)), recs) = Cat(s.wire, Cat(Out(s), recs))
      BY <1>1, CatAssociative
    <2> QED BY <1>2, <1>4, <2>1 DEF Wires
  <1>8. Range(u.made) = Range(s.made) \cup Range(recs)
    BY <1>1, <1>2, RangeCat
  <1>9. \/ /\ Range(u.writing) = Range(s.writing)
           /\ Range(u.when_tcp_is_writing)
                = Range(s.when_tcp_is_writing) \cup Range(items)
        \/ /\ Range(u.when_tcp_is_writing) = Range(s.when_tcp_is_writing)
           /\ Range(u.writing) = Range(s.writing) \cup Range(items)
    BY <1>1, <1>3, RangeCat
  <1>10. Ordered(q, recs) /\ Before(q, Range(s.made), Range(recs))
               => Ordered(q, u.made)
    BY <1>1, <1>2, OrderedCat DEF Good, Orders
  <1>11. Range(u.writing) \cup Range(u.when_tcp_is_writing)
              = Range(s.writing) \cup Range(s.when_tcp_is_writing) \cup Range(items)
    BY <1>9
  <1> QED BY <1>2, <1>6, <1>7, <1>8, <1>9, <1>10, <1>11

\* SSL_write takes all of write_wait_queue.
LEMMA AllWrittenKeeps ==
  ASSUME NEW s, NEW q \in Sends, Good(s, q), s.write_wait # <<>>, s.retry_wb = None
  PROVE  /\ Good(AllWritten(s), q) /\ SamePhase(s, AllWritten(s))
         /\ AllWritten(s).fault = s.fault
         /\ AllWritten(s).should_retry = s.should_retry
         /\ AllWritten(s).retry_wb = None
  <1> DEFINE recs == s.write_wait
             e == Emit(s, recs)
             x == [e EXCEPT !.write_wait = <<>>, !.is_handshake_completed = TRUE]
             u == AllWritten(s)
  <1>0. /\ s \in Tls /\ Fits(s) /\ recs \in Lines /\ recs \in Produced
        /\ recs \in Streams /\ Connected(s) /\ s.fault # "writeToTcp"
    BY Inclusions DEF Good, Tls, Control
  <1>1. /\ e \in Tls /\ Fits(e) /\ Adds(s, e, recs) /\ e.ssl = s.ssl /\ e.in = s.in
    BY <1>0, EmitAdds
  <1>2. u = ToHead(x, recs)
    BY DEF AllWritten
  <1>3. s.should_retry = e.should_retry /\ s.retry_wb = e.retry_wb
    <2> HIDE DEF e
    <2>1. e = [s EXCEPT !.mem = e.mem, !.out = e.out, !.made = e.made,
                        !.ssl = e.ssl, !.in = e.in]
      BY <1>1 DEF Adds
    <2> QED BY <1>0, <2>1 DEF Tls
  <1> HIDE DEF e, u
  <1>4. x \in Tls
    BY <1>1, CatEmpty, FlagValues DEF Tls
  <1>5. /\ SameBytes(e, x) /\ SamePhase(e, x) /\ x.fault = e.fault
        /\ x.write_wait = <<>> /\ x.should_retry = e.should_retry
        /\ x.retry_wb = e.retry_wb
    BY <1>1 DEF Tls, SameBytes, SamePhase
  <1>6. /\ x.conn_pending = e.conn_pending /\ x.resp_pending = e.resp_pending
        /\ x.done = e.done /\ x.writing = e.writing
        /\ x.when_tcp_is_writing = e.when_tcp_is_writing
    BY <1>1 DEF Tls
  <1> HIDE DEF x, recs
  <1>7. Taken(s, u, recs, recs)
    BY <1>0, <1>1, <1>2, <1>4, <1>5, <1>6, TakenBy
  <1>8. /\ u.write_wait = <<>> /\ u.should_retry = s.should_retry /\ u.retry_wb = None
    BY <1>0, <1>2, <1>3, <1>4, <1>5, ToHeadRecord DEF ToHeadFields
  <1>9. recs = s.write_wait
    BY DEF recs
  <1>10. /\ u \in Tls /\ Fits(u) /\ Control(u) /\ (Wires(s) => Wires(u))
         /\ Range(u.made) = Range(s.made) \cup Range(recs)
         /\ \/ /\ Range(u.writing) = Range(s.writing)
               /\ Range(u.when_tcp_is_writing)
                    = Range(s.when_tcp_is_writing) \cup Range(recs)
            \/ /\ Range(u.when_tcp_is_writing) = Range(s.when_tcp_is_writing)
               /\ Range(u.writing) = Range(s.writing) \cup Range(recs)
         /\ (Ordered(q, recs) /\ Before(q, Range(s.made), Range(recs))
               => Ordered(q, u.made))
    BY <1>0, <1>7, <1>9, TakenKeeps
  <1>11. Range(u.write_wait) = {}
    BY <1>8, CatEmpty
  <1>12. u.conn_pending = s.conn_pending /\ u.resp_pending = s.resp_pending
         /\ u.done = s.done /\ SamePhase(s, u) /\ u.fault = s.fault
    BY <1>7 DEF Taken
  <1>13. Orders(u, q)
    <2>1. Ordered(q, u.made)
      BY <1>9, <1>10 DEF Good, Orders
    <2>2. Ordered(q, u.write_wait)
      BY <1>8, ShortSequences
    <2>3. Before(q, Range(u.made), Range(s.conn_pending))
      <3>1. Before(q, Range(s.made), Range(s.conn_pending))
            /\ Before(q, Range(recs), Range(s.conn_pending))
        BY <1>9 DEF Good, Orders
      <3>2. Before(q, Range(s.made) \cup Range(recs), Range(s.conn_pending))
        BY <3>1, BeforeUnion
      <3>3. Range(u.made) = Range(s.made) \cup Range(recs)
        BY <1>10
      <3> QED BY <3>2, <3>3
    <2>4. Range(u.made) \cap Requests \subseteq Reqs(q)
      BY <1>9, <1>10, HeldQueued DEF Good, Orders
    <2>5. /\ Before(q, Range(u.made), {None}) /\ Before(q, {None}, Range(u.conn_pending))
      BY NoneLate
    <2>6. None \notin Requests
      BY Apartness
    <2> QED BY <1>8, <1>11, <1>12, <2>1, <2>2, <2>3, <2>4, <2>5, <2>6, BeforeNothing
            DEF Good, Orders
  <1>14. Held(u, q)
    <2>1. Held(s, q)
      BY DEF Good
    <2>2. Once(u.write_wait) /\ Once(u.conn_pending)
      BY <1>8, <1>12, <2>1, ShortSequences DEF Held
    <2>3. ASSUME NEW r \in Requests
          PROVE  OnePlace(u, r) /\ (r \in Places(u) <=> r \in Places(s))
      <3>1. OnePlace(s, r)
        BY <2>1 DEF Held
      <3>2. OnePlace(u, r)
        BY <1>8, <1>9, <1>10, <1>11, <1>12, <3>1 DEF OnePlace
      <3>3. r \in Places(u) <=> r \in Places(s)
        BY <1>8, <1>9, <1>10, <1>11, <1>12 DEF Places
      <3> QED BY <3>2, <3>3
    <2> QED BY <1>12, <2>1, <2>2, <2>3 DEF Held
  <1>15. Good(u, q)
    BY <1>10, <1>13, <1>14 DEF Good
  <1> QED BY <1>8, <1>12, <1>15 DEF u

\* SSL_write repeats what it was to repeat.
LEMMA RetriedKeeps ==
  ASSUME NEW s, NEW q \in Sends, Good(s, q), s.retry_wb # None
  PROVE  /\ Good(Retried(s), q) /\ SamePhase(s, Retried(s))
         /\ Retried(s).fault = s.fault
         /\ Retried(s).should_retry = None /\ Retried(s).retry_wb = None
         /\ Retried(s).write_wait = s.write_wait
  <1> DEFINE w == s.retry_wb
             recs == <<w>>
             items == IF s.should_retry = None THEN <<>> ELSE <<s.should_retry>>
             e == Emit(s, recs)
             x == [e EXCEPT !.retry_wb = None, !.should_retry = None,
                            !.is_handshake_completed = TRUE]
             u == Retried(s)
  <1>0. /\ s \in Tls /\ Fits(s) /\ w \in Items /\ s.should_retry \in Retries
        /\ Connected(s) /\ s.fault # "writeToTcp"
    BY DEF Good, Tls, Control, Retries
  <1>1. recs \in Lines /\ Range(recs) = {w} /\ recs # <<>>
    BY <1>0, OneElement, CatEmpty
  <1>2. items \in Lines /\ Range(items) = {s.should_retry} \ {None}
    BY <1>0, OneElement, CatEmpty DEF Retries
  <1>3. recs \in Produced
    BY <1>1, Inclusions
  <1> HIDE DEF items, recs
  <1>4. /\ e \in Tls /\ Fits(e) /\ Adds(s, e, recs) /\ e.ssl = s.ssl /\ e.in = s.in
    BY <1>0, <1>3, EmitAdds
  <1>5. u = ToHead(x, items)
    BY DEF Retried, recs, items
  <1>6. s.write_wait = e.write_wait
    <2> HIDE DEF e
    <2>1. e = [s EXCEPT !.mem = e.mem, !.out = e.out, !.made = e.made,
                        !.ssl = e.ssl, !.in = e.in]
      BY <1>4 DEF Adds
    <2> QED BY <1>0, <2>1 DEF Tls
  <1> HIDE DEF e, u, w
  <1>7. x \in Tls
    <2>1. None \in Retries /\ TRUE \in Flags
      BY NoneValues, FlagValues
    <2> QED BY <1>4, <2>1 DEF Tls
  <1>8. /\ SameBytes(e, x) /\ SamePhase(e, x) /\ x.fault = e.fault
        /\ x.write_wait = e.write_wait /\ x.should_retry = None
        /\ x.retry_wb = None
    BY <1>4 DEF Tls, SameBytes, SamePhase
  <1>9. /\ x.conn_pending = e.conn_pending /\ x.resp_pending = e.resp_pending
        /\ x.done = e.done /\ x.writing = e.writing
        /\ x.when_tcp_is_writing = e.when_tcp_is_writing
    BY <1>4 DEF Tls
  <1> HIDE DEF x
  <1>10. Taken(s, u, recs, items)
    BY <1>0, <1>2, <1>4, <1>5, <1>7, <1>8, <1>9, TakenBy
  <1>11. /\ u.write_wait = s.write_wait /\ u.should_retry = None /\ u.retry_wb = None
    BY <1>2, <1>5, <1>6, <1>7, <1>8, ToHeadRecord DEF ToHeadFields
  <1>12. /\ u \in Tls /\ Fits(u) /\ Control(u) /\ (Wires(s) => Wires(u))
         /\ Range(u.made) = Range(s.made) \cup Range(recs)
         /\ \/ /\ Range(u.writing) = Range(s.writing)
               /\ Range(u.when_tcp_is_writing)
                    = Range(s.when_tcp_is_writing) \cup Range(items)
            \/ /\ Range(u.when_tcp_is_writing) = Range(s.when_tcp_is_writing)
               /\ Range(u.writing) = Range(s.writing) \cup Range(items)
         /\ (Ordered(q, recs) /\ Before(q, Range(s.made), Range(recs))
               => Ordered(q, u.made))
    <2>1. recs \in Produced /\ items \in Lines /\ recs # <<>>
      BY <1>1, <1>2, <1>3
    <2>2. Connected(s) /\ s.fault # "writeToTcp"
      BY <1>0
    <2> QED BY <1>10, <2>1, <2>2, TakenKeeps
  <1>13. u.conn_pending = s.conn_pending /\ u.resp_pending = s.resp_pending
         /\ u.done = s.done /\ SamePhase(s, u) /\ u.fault = s.fault
    BY <1>10 DEF Taken
  <1>14. Orders(u, q)
    <2>0. /\ Before(q, Range(s.made), {w}) /\ Before(q, Range(s.made), Range(s.write_wait))
          /\ Before(q, Range(s.made), Range(s.conn_pending))
          /\ Before(q, {w}, Range(s.write_wait)) /\ Before(q, {w}, Range(s.conn_pending))
          /\ Range(s.made) \cap Requests \subseteq Reqs(q)
          /\ w \in Requests => w \in Reqs(q)
      BY DEF Good, Orders, w
    <2>1. Ordered(q, u.made)
      <3>1. Ordered(q, recs)
        BY ShortSequences DEF recs
      <3> QED BY <1>1, <1>12, <2>0, <3>1
    <2>2. Range(u.made) = Range(s.made) \cup {w}
      BY <1>1, <1>12
    <2>3. /\ Before(q, Range(u.made), Range(s.write_wait))
          /\ Before(q, Range(u.made), Range(s.conn_pending))
      <3>1. /\ Before(q, Range(s.made) \cup {w}, Range(s.write_wait))
            /\ Before(q, Range(s.made) \cup {w}, Range(s.conn_pending))
        BY <2>0, BeforeUnion
      <3> QED BY <2>2, <3>1
    <2>4. Range(u.made) \cap Requests \subseteq Reqs(q)
      BY <2>0, <2>2
    <2>5. /\ Before(q, Range(u.made), {None}) /\ Before(q, {None}, Range(u.conn_pending))
          /\ Before(q, {None}, Range(u.write_wait)) /\ None \notin Requests
      BY NoneLate, Apartness
    <2> QED BY <1>11, <1>13, <2>1, <2>3, <2>4, <2>5 DEF Good, Orders
  <1>15. Held(u, q)
    <2>1. Held(s, q)
      BY DEF Good
    <2>2. Once(u.write_wait) /\ Once(u.conn_pending)
      BY <1>11, <1>13, <2>1 DEF Held
    <2>3. ASSUME NEW r \in Requests
          PROVE  OnePlace(u, r) /\ (r \in Places(u) <=> r \in Places(s))
      <3>1. OnePlace(s, r) /\ r # None
        BY <2>1, Apartness DEF Held
      <3>2. OnePlace(u, r)
        BY <1>2, <1>11, <1>12, <1>13, <3>1 DEF OnePlace
      <3>3. r \in Places(u) <=> r \in Places(s)
        BY <1>2, <1>11, <1>12, <1>13, <3>1 DEF Places
      <3> QED BY <3>2, <3>3
    <2> QED BY <1>13, <2>1, <2>2, <2>3 DEF Held
  <1>16. Good(u, q)
    BY <1>12, <1>14, <1>15 DEF Good
  <1> QED BY <1>11, <1>13, <1>16 DEF u

\* The handshake of SSL keeps the invariants.
LEMMA DriveKeeps ==
  ASSUME NEW s, NEW q \in Sends, Good(s, q), s.sock \notin {"none", "open"}
  PROVE  /\ Good(Drive(s), q) /\ Driven(s, Drive(s)) /\ SameQueues(s, Drive(s))
         /\ Drive(s).sock = s.sock /\ Drive(s).fault = s.fault
         /\ (Connected(Drive(s)) <=> Connected(s))
  <1> DEFINE u == Drive(s)
  <1>1. s \in Tls /\ Fits(s)
    BY DEF Good
  <1>2. /\ u \in Tls /\ Fits(u) /\ Driven(s, u)
        /\ \E recs \in Produced : Range(recs) \subseteq Records /\ Adds(s, u, recs)
    BY <1>1, DriveDrives
  <1> HIDE DEF u
  <1>3. PICK recs \in Produced : Range(recs) \subseteq Records /\ Adds(s, u, recs)
    BY <1>2
  <1>4. ~Connected(s) => u.in = None /\ u.ssl # "up"
    BY <1>2 DEF Driven, Good, Control
  <1>5. /\ Good(u, q) /\ SameQueues(s, u)
        /\ u.sock = s.sock /\ (Connected(u) <=> Connected(s)) /\ u.fault = s.fault
    BY <1>2, <1>3, <1>4, AddsKeeps
  <1> QED BY <1>2, <1>5 DEF u

Checking(s) == [s EXCEPT !.timers = @ \cup {"check"}]

\* The timeout check is none of what the invariants are about.
LEMMA CheckingKeeps ==
  ASSUME NEW s, NEW q, Good(s, q)
  PROVE  Aside(s, Checking(s)) /\ Checking(s).fault = s.fault
  <1> DEFINE x == s.timers \cup {"check"}
             u == Checking(s)
  <1>0. s \in Tls /\ s.fault # "writeToTcp"
    BY DEF Good, Control
  <1>1. u = [s EXCEPT !.timers = x]
    BY DEF Checking
  <1>2. x \in TimerSets
    BY <1>0 DEF Tls, TimerSets
  <1> HIDE DEF x, u
  <1>3. u \in Tls
    BY <1>0, <1>1, <1>2 DEF Tls
  <1>4. SameQueues(s, u) /\ SameBytes(s, u) /\ SamePhase(s, u) /\ u.fault = s.fault
    BY <1>0, <1>1 DEF Tls, SameQueues, SameBytes, SamePhase
  <1> QED BY <1>0, <1>3, <1>4 DEF Aside, u

\* The bytes to be repeated are given up, before a reset.
LEMMA RetryDropped ==
  ASSUME NEW s, NEW q \in Sends, Good(s, q)
  PROVE  /\ Good([s EXCEPT !.retry_wb = None], q)
         /\ [s EXCEPT !.retry_wb = None].sock = s.sock
         /\ [s EXCEPT !.retry_wb = None].fault = s.fault
  <1> DEFINE u == [s EXCEPT !.retry_wb = None]
  <1>0. s \in Tls /\ Fits(s)
    BY DEF Good
  <1>1. u \in Tls
    BY <1>0, NoneValues DEF Tls
  <1>2. /\ u.conn_pending = s.conn_pending /\ u.write_wait = s.write_wait
        /\ u.writing = s.writing /\ u.when_tcp_is_writing = s.when_tcp_is_writing
        /\ u.should_retry = s.should_retry
        /\ u.resp_pending = s.resp_pending /\ u.done = s.done
    BY <1>0 DEF Tls
  <1>3. SameBytes(s, u) /\ SamePhase(s, u) /\ u.fault = s.fault /\ u.retry_wb = None
    BY <1>0 DEF Tls, SameBytes, SamePhase
  <1> HIDE DEF u
  <1>4. Fits(u)
    BY <1>0, <1>3 DEF Fits, SameBytes
  <1>5. Control(u)
    BY <1>2, <1>3 DEF Good, Control, Connected, SameBytes, SamePhase
  <1>6. Wires(s) => Wires(u)
    BY <1>3, WiresKept DEF SamePhase
  <1>7. Orders(u, q)
    <2>1. u.made = s.made
      BY <1>3 DEF SameBytes
    <2> QED BY <1>2, <1>3, <2>1, NoneLate, Apartness DEF Good, Orders
  <1>8. Held(u, q)
    BY <1>2 DEF Good, Held, OnePlace, Places
  <1> QED BY <1>1, <1>3, <1>4, <1>5, <1>6, <1>7, <1>8 DEF Good, u, SamePhase

\* What tls__write_to_bio leaves
Writes(s, v, q) ==
  /\ Good(v, q)
  /\ v.sock \in {s.sock, "stopped", "closing"}
  /\ v.fault = None =>
       /\ Working(v)
       /\ Quiet(s) /\ Flowing(s) => Quiet(v) /\ Flowing(v)

\* A failure in tls__write_to_bio keeps the invariants.
LEMMA ErrorWrites ==
  ASSUME NEW s, NEW x, NEW q \in Sends, Good(x, q), x.fault = None, x.sock = s.sock,
         NEW v \in tls__emit_error_event(x)
  PROVE  Writes(s, v, q)
  <1>1. Ends(x, v, q)
    BY ErrorEnds
  <1> QED BY <1>1, EndsSettled DEF Writes, Ends, Settled

\* So does the write to the socket at its end.
LEMMA FlushWrites ==
  ASSUME NEW s, NEW x, NEW q \in Sends, Good(x, q), x.fault = None, x.sock = s.sock,
         x.ssl = "up", Working(x), NEW v \in tls__write_to_tcp(Checking(x))
  PROVE  Writes(s, v, q)
  <1> DEFINE c == Checking(x)
  <1>1. Aside(x, c) /\ c.fault = None
    BY CheckingKeeps
  <1>2. Good(c, q) /\ Working(c) /\ c.sock = x.sock /\ c.ssl = "up"
    BY <1>1, AsideKeeps DEF Aside, SamePhase
  <1> HIDE DEF c
  <1>3. v \in tls__write_to_tcp(c)
    BY DEF c
  <1>4. /\ Good(v, q) /\ Flowing(v) /\ Working(v) /\ v.sock = c.sock
        /\ v.fault = c.fault /\ v.ssl = c.ssl
    BY <1>2, <1>3, WriteToTcpKeeps
  <1> QED BY <1>2, <1>4 DEF Writes, Quiet

\* tls__write_to_bio takes the items in their order, each once, and keeps the
\* invariants.
LEMMA WriteToBioWrites ==
  ASSUME NEW s, NEW q \in Sends, Good(s, q), s.fault = None, Working(s),
         NEW v \in tls__write_to_bio(s)
  PROVE  Writes(s, v, q)
  <1> DEFINE a == Ready(s)
             r == IF s.retry_wb = None THEN a ELSE Drive(a)
             repeated == r.retry_wb # None /\ r.ssl = "up"
             t == IF repeated THEN Retried(r) ELSE r
             tried == t.retry_wb = None /\ t.write_wait # <<>>
             u == IF tried THEN Drive(t) ELSE t
             w == IF ~tried THEN u
                  ELSE IF u.ssl = "up" THEN AllWritten(u) ELSE FirstKept(u)
             lost == [u EXCEPT !.should_retry = Head(u.write_wait),
                               !.write_wait = Tail(@)]
  <1>1. v \in IF s.state = "NOT_CONN" THEN {s}
              ELSE IF r.retry_wb # None /\ r.ssl = "failed"
                THEN tls__emit_error_event([r EXCEPT !.retry_wb = None])
              ELSE IF tried /\ u.ssl = "failed"
                THEN tls__emit_error_event(lost)
              ELSE IF repeated \/ (tried /\ u.ssl = "up")
                THEN tls__write_to_tcp(Checking(w))
              ELSE {Checking(w)}
    BY Zenon DEF tls__write_to_bio, Ready, Checking
  <1>2. Good(a, q) /\ SameRest(s, a)
    BY ReadyKeeps
  <1> HIDE DEF a
  <1>3. /\ a.sock = s.sock /\ a.fault = None /\ a.retry_wb = s.retry_wb
        /\ a.should_retry = s.should_retry /\ a.ssl = s.ssl /\ a.in = s.in
        /\ Working(a) /\ (Quiet(s) => Quiet(a)) /\ (Flowing(s) => Flowing(a))
    BY <1>2 DEF SameRest, SamePhase, SameBytes, Working, Connected, Quiet, Flowing
  <1>4. CASE s.state = "NOT_CONN"
    BY <1>1, <1>4 DEF Writes
  <1>5. ASSUME NEW b, Good(b, q), b.fault = None, b.sock = s.sock, Working(b),
               Quiet(s) /\ Flowing(s) => Quiet(b) /\ Flowing(b)
        PROVE  Writes(s, Checking(b), q)
    <2>1. Aside(b, Checking(b)) /\ Checking(b).fault = None
      BY <1>5, CheckingKeeps
    <2> QED BY <1>5, <2>1, AsideKeeps DEF Writes
  \* What drives SSL, in a connection
  <1>6. ASSUME Connected(a)
        PROVE  /\ Good(Drive(a), q) /\ SameQueues(a, Drive(a))
               /\ Drive(a).sock = s.sock /\ Drive(a).fault = None
               /\ Drive(a).ssl \in {"shaking", "up", "failed"}
               /\ (Quiet(s) => Drive(a) = a)
               /\ (Drive(a).ssl # "failed" => Working(Drive(a)))
    <2>1. a.sock = "reading" /\ a \in Tls
      BY <1>2, <1>6 DEF Good, Control
    <2>2. /\ Good(Drive(a), q) /\ Driven(a, Drive(a)) /\ SameQueues(a, Drive(a))
          /\ Drive(a).sock = a.sock /\ Drive(a).fault = a.fault
          /\ (Connected(Drive(a)) <=> Connected(a))
      BY <1>2, <2>1, DriveKeeps
    <2>3. a.ssl \in {"shaking", "up"}
      BY <1>3, <1>6 DEF Working
    <2>4. Drive(a).ssl \in {"shaking", "up", "failed"}
      BY <2>2, <2>3 DEF Driven
    <2>5. Quiet(a) => Drive(a) = a
      BY <2>1, <2>3, DriveQuiet DEF Quiet
    <2>6. Drive(a).ssl # "failed" => Working(Drive(a))
      BY <1>3, <2>2, <2>4 DEF Working, SameQueues
    <2> QED BY <1>3, <2>2, <2>4, <2>5, <2>6
  <1>7. CASE s.state # "NOT_CONN" /\ s.retry_wb = None /\ a.write_wait = <<>>
    <2>1. r = a /\ ~repeated /\ t = a /\ ~tried /\ u = a /\ w = a
      BY <1>3, <1>7
    <2>2. v = Checking(a)
      BY <1>1, <1>3, <1>7, <2>1
    <2> QED BY <1>2, <1>3, <1>5, <2>2
  <1>8. CASE s.state # "NOT_CONN" /\ s.retry_wb = None /\ a.write_wait # <<>>
    <2> DEFINE d == Drive(a)
    <2>1. r = a /\ ~repeated /\ t = a /\ tried /\ u = d
      BY <1>3, <1>8
    <2>2. Connected(a)
      BY <1>2, <1>8 DEF Good, Control
    <2> HIDE DEF d
    <2>3. /\ Good(d, q) /\ SameQueues(a, d) /\ d.sock = s.sock /\ d.fault = None
          /\ d.ssl \in {"shaking", "up", "failed"}
          /\ (Quiet(s) => d = a) /\ (d.ssl # "failed" => Working(d))
      BY <1>6, <2>2 DEF d
    <2>4. d.retry_wb = None /\ d.should_retry = None /\ d.write_wait # <<>>
      BY <1>3, <1>8, <2>3 DEF SameQueues, Working
    <2>5. v \in IF d.ssl = "failed" THEN tls__emit_error_event(lost)
                ELSE IF d.ssl = "up" THEN tls__write_to_tcp(Checking(AllWritten(d)))
                ELSE {Checking(FirstKept(d))}
      BY <1>1, <1>3, <1>8, <2>1
    <2>6. CASE d.ssl = "failed"
      <3> DEFINE f == FirstKept(d)
      <3>1. Good(f, q) /\ SamePhase(d, f) /\ f.fault = None
        BY <2>3, <2>4, FirstKeptKeeps
      <3>2. lost = [f EXCEPT !.retry_wb = None]
        <4>1. d \in Tls /\ f \in Tls
          BY <2>3, <3>1 DEF Good
        <4>2. f = [d EXCEPT !.should_retry = Head(d.write_wait),
                            !.retry_wb = Head(d.write_wait),
                            !.write_wait = Tail(d.write_wait)]
          BY DEF FirstKept
        <4>3. lost = [d EXCEPT !.should_retry = Head(d.write_wait),
                               !.write_wait = Tail(d.write_wait)]
          BY <2>1
        <4> HIDE DEF f, lost
        <4> QED BY <2>4, <4>1, <4>2, <4>3 DEF Tls
      <3> HIDE DEF f, lost
      <3>3. Good(lost, q) /\ lost.sock = s.sock /\ lost.fault = None
        BY <2>3, <3>1, <3>2, RetryDropped DEF SamePhase
      <3>4. v \in tls__emit_error_event(lost)
        BY <2>5, <2>6
      <3> QED BY <3>3, <3>4, ErrorWrites
    <2>7. CASE d.ssl = "up"
      <3> DEFINE f == AllWritten(d)
      <3>1. /\ Good(f, q) /\ SamePhase(d, f) /\ f.fault = None
            /\ f.should_retry = None
        BY <2>3, <2>4, AllWrittenKeeps
      <3>2. v \in tls__write_to_tcp(Checking(f))
        BY <2>5, <2>7
      <3> HIDE DEF f
      <3>3. f.ssl = "up" /\ f.sock = s.sock /\ Working(f)
        BY <2>3, <2>7, <3>1 DEF SamePhase, Working
      <3> QED BY <3>1, <3>2, <3>3, FlushWrites
    <2>8. CASE d.ssl = "shaking"
      <3> DEFINE f == FirstKept(d)
      <3>1. /\ Good(f, q) /\ SamePhase(d, f) /\ f.fault = None /\ SameBytes(d, f)
            /\ f.should_retry = f.retry_wb
        BY <2>3, <2>4, FirstKeptKeeps
      <3>2. v = Checking(f)
        BY <2>5, <2>8
      <3> HIDE DEF f
      <3>3. f.sock = s.sock /\ Working(f)
        BY <2>3, <2>8, <3>1 DEF SamePhase, Working
      <3>4. Quiet(s) /\ Flowing(s) => Quiet(f) /\ Flowing(f)
        BY <1>3, <2>3, <3>1 DEF SamePhase, SameBytes, Quiet, Flowing
      <3> QED BY <1>5, <3>1, <3>2, <3>3, <3>4
    <2> QED BY <2>3, <2>6, <2>7, <2>8
  <1>9. CASE s.state # "NOT_CONN" /\ s.retry_wb # None
    <2> DEFINE d == Drive(a)
    <2>1. r = d
      BY <1>9
    <2>2. Connected(a)
      BY <1>2, <1>3, <1>9 DEF Good, Control
    <2> HIDE DEF d
    <2>3. /\ Good(d, q) /\ SameQueues(a, d) /\ d.sock = s.sock /\ d.fault = None
          /\ d.ssl \in {"shaking", "up", "failed"}
          /\ (Quiet(s) => d = a) /\ (d.ssl # "failed" => Working(d))
      BY <1>6, <2>2 DEF d
    <2>4. d.retry_wb # None
      BY <1>3, <1>9, <2>3 DEF SameQueues
    <2>5. CASE d.ssl = "failed"
      <3>1. v \in tls__emit_error_event([d EXCEPT !.retry_wb = None])
        BY <1>1, <1>9, <2>1, <2>4, <2>5
      <3> DEFINE f == [d EXCEPT !.retry_wb = None]
      <3>2. Good(f, q) /\ f.sock = s.sock /\ f.fault = None
        BY <2>3, RetryDropped
      <3> HIDE DEF f
      <3>3. v \in tls__emit_error_event(f)
        BY <3>1 DEF f
      <3> QED BY <3>2, <3>3, ErrorWrites
    <2>6. CASE d.ssl = "shaking"
      <3>1. ~repeated /\ t = d /\ ~tried /\ u = d /\ w = d
        BY <2>1, <2>4, <2>6
      <3>2. v = Checking(d)
        BY <1>1, <1>9, <2>1, <2>6, <3>1
      <3>3. Quiet(s) /\ Flowing(s) => Quiet(d) /\ Flowing(d)
        BY <1>3, <2>3
      <3> QED BY <1>5, <2>3, <2>6, <3>2, <3>3
    <2>7. CASE d.ssl = "up"
      <3> DEFINE f == Retried(d)
      <3>1. /\ Good(f, q) /\ SamePhase(d, f) /\ f.fault = None
            /\ f.should_retry = None /\ f.retry_wb = None
        BY <2>3, <2>4, RetriedKeeps
      <3>2. repeated /\ t = f
        BY <2>1, <2>4, <2>7
      <3> HIDE DEF f, t, repeated
      <3>3. f.ssl = "up" /\ f.sock = s.sock /\ f \in Tls
        BY <2>3, <2>7, <3>1 DEF SamePhase, Good
      <3>4. Drive(f) = f
        BY <3>3, DriveQuiet
      <3>5. CASE f.write_wait = <<>>
        <4>1. ~tried /\ u = f /\ w = f
          BY <3>2, <3>5
        <4>2. v \in tls__write_to_tcp(Checking(f))
          BY <1>1, <1>9, <2>1, <2>7, <3>2, <4>1
        <4> QED BY <3>1, <3>3, <4>2, FlushWrites DEF Working
      <3>6. CASE f.write_wait # <<>>
        <4> DEFINE g == AllWritten(f)
        <4>1. tried /\ u = f /\ w = g
          BY <3>1, <3>2, <3>3, <3>4, <3>6
        <4>2. /\ Good(g, q) /\ SamePhase(f, g) /\ g.fault = None
              /\ g.should_retry = None
          BY <3>1, <3>6, AllWrittenKeeps
        <4>3. v \in tls__write_to_tcp(Checking(g))
          BY <1>1, <1>9, <2>1, <2>7, <3>2, <3>3, <4>1
        <4> HIDE DEF g
        <4> QED BY <3>3, <4>2, <4>3, FlushWrites DEF Working, SamePhase
      <3> QED BY <3>5, <3>6
    <2> QED BY <2>3, <2>5, <2>6, <2>7
  <1> QED BY <1>4, <1>7, <1>8, <1>9

(***************************************************************************)
(* Packages of the server                                                  *)
(***************************************************************************)

\* An item of Pomelo's own goes to the head of write_wait_queue.
Headed(s, u, x) ==
  /\ u.write_wait = Cat(<<x>>, s.write_wait)
  /\ u.conn_pending = s.conn_pending
  /\ u.writing = s.writing /\ u.when_tcp_is_writing = s.when_tcp_is_writing
  /\ u.should_retry = s.should_retry /\ u.retry_wb = s.retry_wb
  /\ u.resp_pending = s.resp_pending /\ u.done = s.done

\* What the queue holds with an item at its head.
LEMMA HeadedRanges ==
  ASSUME NEW s \in Tls, NEW u, NEW x \in {"handshake", "ack"}, Headed(s, u, x)
  PROVE  /\ Range(u.write_wait) = {x} \cup Range(s.write_wait)
         /\ <<x>> \in Lines /\ <<x>> \in Streams /\ Range(<<x>>) = {x}
         /\ s.write_wait \in Streams /\ s.write_wait \in Lines /\ x \notin Requests
  <1>1. x \in Items /\ x \notin Requests
    BY Apartness
  <1>2. <<x>> \in Lines /\ Range(<<x>>) = {x}
    BY <1>1, OneElement
  <1>3. s.write_wait \in Lines
    BY DEF Tls
  <1>4. <<x>> \in Streams /\ s.write_wait \in Streams
    BY <1>2, <1>3, Inclusions
  <1>5. u.write_wait = Cat(<<x>>, s.write_wait)
    BY DEF Headed
  <1> QED BY <1>1, <1>2, <1>3, <1>4, <1>5, RangeCat

\* An item of Pomelo's own at the head moves no request.
LEMMA HeadedHeld ==
  ASSUME NEW s \in Tls, NEW u, NEW q, NEW x \in {"handshake", "ack"},
         Headed(s, u, x), Held(s, q)
  PROVE  Held(u, q)
  <1>1. /\ Range(u.write_wait) = {x} \cup Range(s.write_wait)
        /\ <<x>> \in Streams /\ Range(<<x>>) = {x}
        /\ s.write_wait \in Streams /\ x \notin Requests
    BY HeadedRanges
  <1>2. Once(u.write_wait)
    <2>1. Once(<<x>>) /\ Once(s.write_wait)
      BY ShortSequences DEF Held
    <2>2. Range(<<x>>) \cap Range(s.write_wait) \cap Requests = {}
      BY <1>1
    <2>3. Once(Cat(<<x>>, s.write_wait))
      BY <1>1, <2>1, <2>2, OnceCat
    <2> QED BY <2>3 DEF Headed
  <1>3. ASSUME NEW r \in Requests
        PROVE  /\ OnePlace(u, r)
               /\ r \in Places(u) => r \in Reqs(q)
               /\ r \in Reqs(q) => r \in Places(u) \cup u.done
    <2>1. r \in Range(u.write_wait) <=> r \in Range(s.write_wait)
      BY <1>1
    <2>2. /\ OnePlace(s, r)
          /\ r \in Places(s) => r \in Reqs(q)
          /\ r \in Reqs(q) => r \in Places(s) \cup s.done
      BY DEF Held
    <2>3. OnePlace(u, r)
      BY <2>1, <2>2 DEF OnePlace, Headed
    <2>4. r \in Places(u) <=> r \in Places(s)
      BY <2>1 DEF Places, Headed
    <2>5. u.done = s.done
      BY DEF Headed
    <2> QED BY <2>2, <2>3, <2>4, <2>5
  <1>4. Once(u.conn_pending)
    BY DEF Headed, Held
  <1> QED BY <1>2, <1>3, <1>4 DEF Held

\* What has been made stays, or is made anew.
LEMMA HeadedOrders ==
  ASSUME NEW s \in Tls, NEW u, NEW q \in Sends, NEW x \in {"handshake", "ack"},
         Headed(s, u, x), Orders(s, q), u.made \in {s.made, <<>>}
  PROVE  Orders(u, q)
  <1>1. /\ Range(u.write_wait) = {x} \cup Range(s.write_wait)
        /\ <<x>> \in Streams /\ Range(<<x>>) = {x}
        /\ s.write_wait \in Streams /\ x \notin Requests
    BY HeadedRanges
  <1>2. \A A : Before(q, {x}, A) /\ Before(q, A, {x})
    BY NoneLate
  <1>3. Ordered(q, u.write_wait)
    <2>1. Ordered(q, <<x>>) /\ Ordered(q, s.write_wait)
      BY ShortSequences DEF Orders
    <2>2. Ordered(q, Cat(<<x>>, s.write_wait))
      <3>1. Before(q, Range(<<x>>), Range(s.write_wait))
        BY <1>1, <1>2
      <3> QED BY <1>1, <2>1, <3>1, OrderedCat
    <2> QED BY <2>2 DEF Headed
  <1>4. Ordered(q, u.made) /\ Range(u.made) \subseteq Range(s.made)
    BY ShortSequences, CatEmpty DEF Orders
  <1>5. \A A : Before(q, Range(s.made), A) => Before(q, Range(u.made), A)
    BY <1>4 DEF Before
  <1>6. \A A : Before(q, A, Range(s.write_wait)) => Before(q, A, Range(u.write_wait))
    BY <1>1, <1>2 DEF Before
  <1>7. Before(q, Range(u.write_wait), Range(s.conn_pending))
    BY <1>1, <1>2 DEF Before, Orders
  <1>8. u.conn_pending = s.conn_pending /\ u.retry_wb = s.retry_wb
    BY DEF Headed
  <1>9. /\ Before(q, Range(u.made), {u.retry_wb})
        /\ Before(q, Range(u.made), Range(u.write_wait))
        /\ Before(q, Range(u.made), Range(u.conn_pending))
        /\ Before(q, {u.retry_wb}, Range(u.write_wait))
        /\ Before(q, {u.retry_wb}, Range(u.conn_pending))
    BY <1>5, <1>6, <1>8 DEF Orders
  <1> QED BY <1>3, <1>4, <1>7, <1>8, <1>9 DEF Orders

\* The handshake of Pomelo is over, and its ack waits to be written.
LEMMA AckKeeps ==
  ASSUME NEW s, NEW q \in Sends, Good(s, q), Connected(s), NEW u,
         u = [s EXCEPT !.state = "DONE", !.write_wait = <<"ack">> \o @]
  PROVE  /\ Good(u, q) /\ u.fault = s.fault /\ Connected(u)
         /\ u.ssl = s.ssl /\ u.in = s.in /\ u.sock = s.sock
         /\ u.should_retry = s.should_retry /\ u.retry_wb = s.retry_wb
  <1> DEFINE w == Cat(<<"ack">>, s.write_wait)
  <1>0. s \in Tls
    BY DEF Good
  <1>1. u = [s EXCEPT !.state = "DONE", !.write_wait = w]
    BY DEF Cat
  <1>2. w \in Lines
    <2>1. s.write_wait \in Lines /\ <<"ack">> \in Lines
      BY <1>0, Apartness, OneElement DEF Tls
    <2> QED BY <2>1, CatTyped
  <1>w. w = Cat(<<"ack">>, s.write_wait)
    OBVIOUS
  <1> HIDE DEF w
  <1>3. u \in Tls
    BY <1>0, <1>1, <1>2, StateValues, ZenonT(40) DEF Tls
  <1>4. /\ u.write_wait = w /\ u.conn_pending = s.conn_pending
        /\ u.writing = s.writing /\ u.when_tcp_is_writing = s.when_tcp_is_writing
        /\ u.should_retry = s.should_retry /\ u.retry_wb = s.retry_wb
    BY <1>0, <1>1 DEF Tls
  <1>5. /\ u.resp_pending = s.resp_pending /\ u.done = s.done
        /\ u.is_connecting = s.is_connecting /\ u.is_writing = s.is_writing
        /\ u.fault = s.fault
    BY <1>0, <1>1 DEF Tls
  <1>6. SameBytes(s, u)
    BY <1>0, <1>1 DEF Tls, SameBytes
  <1>7. u.state = "DONE" /\ u.sock = s.sock /\ u.ssl = s.ssl /\ u.in = s.in
    BY <1>0, <1>1 DEF Tls
  <1>8. Headed(s, u, "ack")
    BY <1>w, <1>4, <1>5 DEF Headed
  <1>9. Held(u, q)
    BY <1>0, <1>8, HeadedHeld DEF Good
  <1>10. Orders(u, q)
    BY <1>0, <1>6, <1>8, HeadedOrders DEF Good, SameBytes
  <1>11. Connected(u)
    BY <1>7 DEF Connected
  <1>12. Control(u)
    BY <1>4, <1>5, <1>6, <1>7, <1>11 DEF Good, Control, SameBytes
  <1>13. Fits(u) /\ Out(u) = Out(s)
    BY <1>0, <1>6, FitsFor DEF Good, SameBytes
  <1>14. Wires(s) => Wires(u)
    BY <1>6, <1>11, <1>13 DEF Wires, SameBytes
  <1> QED BY <1>3, <1>4, <1>5, <1>7, <1>9, <1>10, <1>11, <1>12, <1>13, <1>14 DEF Good

\* A response: the request it names is answered and no longer waits.
Responded(s, p) == [Answer(s, {p}) EXCEPT !.resp_pending = @ \ {p}]

\* A response moves a request from those that wait for one to the done.
LEMMA ResponseKeeps ==
  ASSUME NEW s, NEW q \in Sends, Good(s, q), NEW p, NEW u,
         u = Responded(s, p)
  PROVE  /\ Good(u, q) /\ u.fault = s.fault /\ (Connected(u) <=> Connected(s))
         /\ u.ssl = s.ssl /\ u.in = s.in /\ u.sock = s.sock
         /\ u.should_retry = s.should_retry /\ u.retry_wb = s.retry_wb
  <1> DEFINE d == s.done \cup ({p} \cap Requests)
             w == s.resp_pending \ {p}
  <1>0. s \in Tls
    BY DEF Good
  <1>1. u = [s EXCEPT !.done = d, !.resp_pending = w]
    BY <1>0 DEF Responded, Answer, Tls
  <1>2. d \in RequestSets /\ w \in RequestSets
    <2>1. s.done \in RequestSets /\ s.resp_pending \in RequestSets
      BY <1>0 DEF Tls
    <2> QED BY <2>1 DEF RequestSets
  <1>w. d = s.done \cup ({p} \cap Requests) /\ w = s.resp_pending \ {p}
    OBVIOUS
  <1> HIDE DEF d, w
  <1>3. u \in Tls
    BY <1>0, <1>1, <1>2, ZenonT(40) DEF Tls
  <1>4. /\ u.write_wait = s.write_wait /\ u.conn_pending = s.conn_pending
        /\ u.writing = s.writing /\ u.when_tcp_is_writing = s.when_tcp_is_writing
        /\ u.should_retry = s.should_retry /\ u.retry_wb = s.retry_wb
    BY <1>0, <1>1 DEF Tls
  <1>5. u.resp_pending = w /\ u.done = d /\ u.fault = s.fault
    BY <1>0, <1>1 DEF Tls
  <1>6. SameBytes(s, u)
    BY <1>0, <1>1 DEF Tls, SameBytes
  <1>7. SamePhase(s, u)
    BY <1>0, <1>1 DEF Tls, SamePhase
  <1>8. ASSUME NEW r \in Requests
        PROVE  /\ OnePlace(u, r)
               /\ r \in Places(u) => r \in Reqs(q)
               /\ r \in Reqs(q) => r \in Places(u) \cup u.done
    <2>1. /\ OnePlace(s, r)
          /\ r \in Places(s) => r \in Reqs(q)
          /\ r \in Reqs(q) => r \in Places(s) \cup s.done
      BY DEF Good, Held
    <2>2. u.resp_pending \subseteq s.resp_pending
          /\ (r \in s.resp_pending => r \in u.resp_pending \/ r \in u.done)
          /\ s.done \subseteq u.done
      BY <1>w, <1>5
    <2>3. OnePlace(u, r)
      BY <1>4, <2>1, <2>2 DEF OnePlace
    <2>4. r \in Places(u) => r \in Places(s)
      BY <1>4, <2>2 DEF Places
    <2>5. r \in Places(s) => r \in Places(u) \cup u.done
      BY <1>4, <2>2 DEF Places
    <2> QED BY <2>1, <2>2, <2>3, <2>4, <2>5
  <1>9. Once(u.conn_pending) /\ Once(u.write_wait)
    BY <1>4 DEF Good, Held
  <1>10. Held(u, q)
    BY <1>8, <1>9 DEF Held
  <1>11. Orders(u, q)
    BY <1>4, <1>6 DEF Good, Orders, SameBytes
  <1>12. Control(u)
    BY <1>4, <1>5, <1>6, <1>7 DEF Good, Control, Connected, SameBytes, SamePhase
  <1>13. Fits(u) /\ Out(u) = Out(s)
    BY <1>0, <1>6, FitsFor DEF Good, SameBytes
  <1>14. Wires(s) => Wires(u)
    BY <1>6, <1>7, <1>13 DEF Wires, SameBytes, SamePhase, Connected
  <1> QED BY <1>3, <1>4, <1>5, <1>7, <1>10, <1>11, <1>12, <1>13, <1>14
          DEF Good, SamePhase, Connected

\* What the handler of a package leaves
Handled(s, u, q) ==
  /\ Good(u, q)
  /\ u.sock \in {s.sock, "stopped", "closing"}
  /\ u.fault = None =>
       /\ u.in = None /\ u.ssl \in {"before", "up"}
       /\ Connected(u) => u.ssl = "up"
       /\ u.should_retry \in {None, u.retry_wb}

\* A package may end the connection.
LEMMA EndsHandled ==
  ASSUME NEW s, NEW u, NEW q, Ends(s, u, q)
  PROVE  Handled(s, u, q)
  BY DEF Ends, Over, Handled

\* What a package leads to keeps the invariants, whatever package it is.
LEMMA HandleHandles ==
  ASSUME NEW s, NEW q \in Sends, Good(s, q), s.fault = None, Connected(s),
         s.ssl = "up", s.in = None, Working(s), NEW p, NEW u \in Handle(s, p)
  PROVE  Handled(s, u, q)
  <1>0. /\ "CONNECTED" \in NetEvents /\ "CONNECT_FAILED" \in NetEvents
        /\ "KICKED_BY_SERVER" \in NetEvents /\ "PROTO_ERROR" \in NetEvents
    BY DEF NetEvents
  <1>1. CASE p = "handshakeOk"
    <2> DEFINE a == [s EXCEPT !.state = "DONE", !.write_wait = <<"ack">> \o @]
               b == Wake(a, "write")
    <2>1. /\ Good(a, q) /\ a.fault = s.fault /\ Connected(a)
          /\ a.ssl = s.ssl /\ a.in = s.in /\ a.sock = s.sock
          /\ a.should_retry = s.should_retry /\ a.retry_wb = s.retry_wb
      BY AckKeeps
    <2>2. u \in Fire(b, "CONNECTED")
      BY <1>1 DEF Handle
    <2> HIDE DEF a
    <2>3. Aside(a, b)
      BY <2>1, WakeKeeps DEF Asyncs
    <2>4. Good(b, q)
      BY <2>1, <2>3, AsideKeeps
    <2> HIDE DEF b
    <2>5. Aside(b, u)
      BY <1>0, <2>2, <2>4, FireKeeps
    <2>6. Good(u, q)
      BY <2>4, <2>5, AsideKeeps
    <2>7. /\ u.ssl = "up" /\ u.in = None /\ u.sock = s.sock
          /\ u.should_retry = s.should_retry /\ u.retry_wb = s.retry_wb
      BY <2>1, <2>3, <2>5 DEF Aside, SamePhase, SameQueues
    <2> QED BY <2>6, <2>7 DEF Handled, Working
  <1>2. CASE p = "handshakeRefused"
    <2>1. u \in Then(Fire(s, "CONNECT_FAILED"), tls__reset)
      BY <1>2 DEF Handle
    <2> QED BY <1>0, <2>1, EventThenEnds, EndsHandled, Zenon
  <1>3. CASE p = "kick"
    <2>1. u \in Then(Fire(s, "KICKED_BY_SERVER"), tls__reset)
      BY <1>3 DEF Handle
    <2> QED BY <1>0, <2>1, EventThenEnds, EndsHandled, Zenon
  <1>4. CASE p = "badData"
    <2>1. u \in Then(Fire(s, "PROTO_ERROR"), tcp__reconn)
      BY <1>4 DEF Handle
    <2> QED BY <1>0, <2>1, EventThenReconn, EndsHandled, Zenon
  <1>5. CASE p \notin {"handshakeOk", "handshakeRefused", "kick", "badData"}
    <2>2. u = Responded(s, p)
      BY <1>5 DEF Handle, Responded
    <2>3. /\ Good(u, q) /\ u.fault = s.fault /\ (Connected(u) <=> Connected(s))
          /\ u.ssl = s.ssl /\ u.in = s.in /\ u.sock = s.sock
          /\ u.should_retry = s.should_retry /\ u.retry_wb = s.retry_wb
      BY <2>2, ResponseKeeps
    <2> QED BY <2>3 DEF Handled, Working
  <1> QED BY <1>1, <1>2, <1>3, <1>4, <1>5

\* What has come in is read.
Took(s, c) == [s EXCEPT !.in = None, !.is_handshake_completed = c]

\* A read of SSL that takes its input keeps the invariants.
LEMMA TookKeeps ==
  ASSUME NEW s, NEW q, Good(s, q), NEW c \in Flags
  PROVE  /\ Good(Took(s, c), q) /\ Took(s, c).fault = s.fault
         /\ (Connected(Took(s, c)) <=> Connected(s))
         /\ Took(s, c).ssl = s.ssl /\ Took(s, c).in = None
         /\ Took(s, c).sock = s.sock
         /\ Took(s, c).should_retry = s.should_retry
         /\ Took(s, c).retry_wb = s.retry_wb
  <1> DEFINE u == Took(s, c)
  <1>0. s \in Tls
    BY DEF Good
  <1>1. u = [s EXCEPT !.in = None, !.is_handshake_completed = c]
    BY DEF Took
  <1> HIDE DEF u
  <1>2. u \in Tls
    BY <1>0, <1>1, NoneValues DEF Tls
  <1>3. SameQueues(s, u)
    BY <1>0, <1>1 DEF Tls, SameQueues
  <1>4. SameBytes(s, u)
    BY <1>0, <1>1 DEF Tls, SameBytes
  <1>5. /\ u.state = s.state /\ u.sock = s.sock /\ u.ssl = s.ssl /\ u.in = None
        /\ u.is_connecting = s.is_connecting /\ u.is_writing = s.is_writing
        /\ u.fault = s.fault
    BY <1>0, <1>1 DEF Tls
  <1>6. Connected(u) <=> Connected(s)
    BY <1>5 DEF Connected
  <1>7. Control(u)
    BY <1>3, <1>4, <1>5, <1>6 DEF Good, Control, SameQueues, SameBytes
  <1>8. Fits(u)
    BY <1>0, <1>4, FitsFor DEF Good, SameBytes
  <1>9. Wires(s) => Wires(u)
    BY <1>4, <1>5, WiresKept
  <1>10. Orders(u, q) /\ Held(u, q)
    BY <1>3, <1>4, OrdersKept, HeldKept DEF Good, SameBytes
  <1>11. Good(u, q)
    BY <1>2, <1>7, <1>8, <1>9, <1>10 DEF Good
  <1>12. u.should_retry = s.should_retry /\ u.retry_wb = s.retry_wb
    BY <1>3 DEF SameQueues
  <1> QED BY <1>5, <1>6, <1>11, <1>12 DEF u

\* SSL answers what it has read with a record of its own.
Turned(s, l, r) == Emit([s EXCEPT !.in = None, !.ssl = l], <<r>>)

\* So does one to which SSL answers with a record.
LEMMA ReplyKeeps ==
  ASSUME NEW s, NEW q \in Sends, Good(s, q), Connected(s),
         NEW l \in {"failed", "shaking"}, NEW r \in Records
  PROVE  /\ Good(Turned(s, l, r), q) /\ Turned(s, l, r).fault = s.fault
         /\ Turned(s, l, r).ssl = l /\ Turned(s, l, r).in = None
         /\ Turned(s, l, r).sock = s.sock
         /\ Turned(s, l, r).should_retry = s.should_retry
         /\ Turned(s, l, r).retry_wb = s.retry_wb
  <1> DEFINE u == Turned(s, l, r)
  <1> DEFINE t == [s EXCEPT !.in = None, !.ssl = l]
  <1>0. s \in Tls /\ Fits(s) /\ s.sock = "reading"
    BY DEF Good, Control
  <1>1. t \in Tls /\ t = [s EXCEPT !.ssl = t.ssl, !.in = t.in]
    BY <1>0, NoneValues, SslValues DEF Tls
  <1>2. t.in = None /\ t.ssl = l
    BY <1>0 DEF Tls
  <1>u. u = Emit(t, <<r>>)
    BY DEF Turned
  <1> HIDE DEF t, u
  <1>3. /\ Emit(t, <<r>>) \in Tls /\ Fits(Emit(t, <<r>>))
        /\ Adds(s, Emit(t, <<r>>), <<r>>)
        /\ Emit(t, <<r>>).ssl = t.ssl /\ Emit(t, <<r>>).in = t.in
    BY <1>0, <1>1, EmitFrom
  <1>4. u \in Tls /\ Fits(u) /\ Adds(s, u, <<r>>) /\ u.ssl = l /\ u.in = None
    BY <1>u, <1>2, <1>3
  <1>5. <<r>> \in Produced /\ Range(<<r>>) \subseteq Records
    BY OneRecord
  <1>6. /\ Good(u, q) /\ SameQueues(s, u)
        /\ u.sock = s.sock /\ (Connected(u) <=> Connected(s)) /\ u.fault = s.fault
    BY <1>0, <1>4, <1>5, AddsKeeps
  <1> QED BY <1>4, <1>6 DEF SameQueues, u

\* What tls__read_from_bio leaves
Reads(s, u, q) ==
  /\ Good(u, q)
  /\ u.sock \in {s.sock, "stopped", "closing"}
  /\ u.fault = None => Working(u) /\ Quiet(u)

\* A read may end the connection.
LEMMA EndsReads ==
  ASSUME NEW s, NEW t, NEW u, NEW q, Ends(t, u, q), t.sock = s.sock
  PROVE  Reads(s, u, q)
  BY DEF Ends, Over, Reads, Working, Quiet

\* tls__read_from_bio keeps the invariants, and leaves SSL with nothing it
\* must read.
LEMMA ReadFromBioReads ==
  ASSUME NEW s, NEW q \in Sends, Good(s, q), s.fault = None,
         s.sock \notin {"none", "open"},
         Connected(s) => s.ssl \in {"before", "shaking", "up"},
         s.should_retry \in {None, s.retry_wb},
         NEW u \in tls__read_from_bio(s)
  PROVE  Reads(s, u, q)
  <1> DEFINE t == Drive(s)
  <1>1. u \in IF t.ssl = "failed" THEN tls__emit_error_event(t)
              ELSE IF t.ssl # "up" \/ t.in = None THEN {t}
              ELSE CASE t.in = "closeNotify" ->
                          tls__emit_error_event([t EXCEPT !.in = None])
                     [] t.in = "tlsError" ->
                          tls__emit_error_event(
                            Emit([t EXCEPT !.in = None, !.ssl = "failed"], <<"alert">>))
                     [] t.in = "renegotiate" ->
                          {Emit([t EXCEPT !.in = None, !.ssl = "shaking"], <<"hello">>)}
                     [] OTHER ->
                          Then(Handle([t EXCEPT !.in = None,
                                                !.is_handshake_completed = TRUE], t.in),
                               LAMBDA v : {Drive(v)})
    BY Zenon DEF tls__read_from_bio
  <1>2. /\ Good(t, q) /\ Driven(s, t) /\ SameQueues(s, t)
        /\ t.sock = s.sock /\ t.fault = s.fault /\ (Connected(t) <=> Connected(s))
    BY DriveKeeps
  <1> HIDE DEF t
  <1>3. t.should_retry \in {None, t.retry_wb}
    BY <1>2 DEF SameQueues
  <1>r. "alert" \in Records /\ "hello" \in Records
    BY DEF Records
  <1>4. CASE t.ssl = "failed"
    <2>1. u \in tls__emit_error_event(t)
      BY <1>1, <1>4
    <2>2. Ends(t, u, q)
      BY <1>2, <2>1, ErrorEnds
    <2> QED BY <1>2, <2>2, EndsReads
  <1>5. CASE t.ssl # "failed" /\ (t.ssl # "up" \/ t.in = None)
    <2>1. u = t
      BY <1>1, <1>5
    <2>2. Connected(t) => t.ssl \in {"shaking", "up"}
      BY <1>2, <1>5 DEF Driven
    <2>3. Quiet(t)
      BY <1>2 DEF Driven, Quiet
    <2> QED BY <1>2, <1>3, <2>1, <2>2, <2>3 DEF Reads, Working
  <1>6. CASE t.ssl = "up" /\ t.in # None
    <2>1. Connected(t)
      BY <1>2, <1>6 DEF Good, Control
    <2>2. CASE t.in = "closeNotify"
      <3> DEFINE x == Took(t, t.is_handshake_completed)
      <3>1. u \in tls__emit_error_event([t EXCEPT !.in = None])
        BY <1>1, <1>6, <2>2
      <3>2. t \in Tls /\ t.is_handshake_completed \in Flags
        BY <1>2 DEF Good, Tls
      <3>3. [t EXCEPT !.in = None] = x
        BY <3>2 DEF Took, Tls
      <3>4. Good(x, q) /\ x.fault = None /\ x.sock = s.sock
        BY <1>2, <3>2, TookKeeps
      <3>5. u \in tls__emit_error_event(x)
        BY <3>1, <3>3
      <3> HIDE DEF x
      <3>6. Ends(x, u, q)
        BY <3>4, <3>5, ErrorEnds
      <3> QED BY <3>4, <3>6, EndsReads
    <2>3. CASE t.in = "tlsError"
      <3> DEFINE x == Turned(t, "failed", "alert")
      <3>1. u \in tls__emit_error_event(x)
        BY <1>1, <1>6, <2>3 DEF Turned
      <3>2. Good(x, q) /\ x.fault = t.fault /\ x.sock = t.sock
        BY <1>2, <1>r, <2>1, ReplyKeeps
      <3> HIDE DEF x
      <3>3. Good(x, q) /\ x.fault = None /\ x.sock = s.sock
        BY <1>2, <3>2
      <3>4. Ends(x, u, q)
        BY <3>1, <3>3, ErrorEnds
      <3> QED BY <3>3, <3>4, EndsReads
    <2>4. CASE t.in = "renegotiate"
      <3>1. u = Turned(t, "shaking", "hello")
        BY <1>1, <1>6, <2>4 DEF Turned
      <3>2. /\ Good(u, q) /\ u.ssl = "shaking" /\ u.in = None /\ u.sock = t.sock
            /\ u.should_retry = t.should_retry /\ u.retry_wb = t.retry_wb
        BY <1>2, <1>r, <2>1, <3>1, ReplyKeeps
      <3> QED BY <1>2, <1>3, <3>2 DEF Reads, Working, Quiet
    <2>5. CASE t.in \notin {"closeNotify", "tlsError", "renegotiate"}
      <3> DEFINE x == Took(t, TRUE)
      <3>1. u \in Then(Handle(x, t.in), LAMBDA v : {Drive(v)})
        BY <1>1, <1>6, <2>5 DEF Took
      <3>2. /\ Good(x, q) /\ x.fault = None /\ Connected(x) /\ x.ssl = "up"
            /\ x.in = None /\ x.sock = s.sock
            /\ x.should_retry = t.should_retry /\ x.retry_wb = t.retry_wb
        BY <1>2, <1>6, <2>1, TookKeeps, FlagValues
      <3> HIDE DEF x
      <3>3. Working(x)
        BY <1>3, <3>2 DEF Working
      <3>4. PICK v \in Handle(x, t.in) : IF v.fault = None THEN u = Drive(v) ELSE u = v
        <4>1. PICK v \in Handle(x, t.in) :
                u \in IF v.fault = None THEN {Drive(v)} ELSE {v}
          BY <3>1 DEF Then
        <4> QED BY <4>1
      <3>5. Handled(x, v, q)
        BY <3>2, <3>3, HandleHandles
      <3>6. CASE v.fault # None
        BY <3>2, <3>4, <3>5, <3>6 DEF Handled, Reads
      <3>7. CASE v.fault = None
        <4>1. /\ Good(v, q) /\ v.sock \in {s.sock, "stopped", "closing"}
              /\ v.in = None /\ v.ssl \in {"before", "up"}
              /\ (Connected(v) => v.ssl = "up")
              /\ v.should_retry \in {None, v.retry_wb}
          BY <3>2, <3>5, <3>7 DEF Handled
        <4>2. v.sock \notin {"none", "open"}
          BY <4>1
        <4>3. /\ Good(Drive(v), q) /\ Driven(v, Drive(v)) /\ SameQueues(v, Drive(v))
              /\ Drive(v).sock = v.sock /\ Drive(v).fault = v.fault
              /\ (Connected(Drive(v)) <=> Connected(v))
          BY <4>1, <4>2, DriveKeeps
        <4>4. u = Drive(v)
          BY <3>4, <3>7
        <4>5. Good(u, q) /\ u.sock \in {s.sock, "stopped", "closing"}
          BY <4>1, <4>3, <4>4
        <4>6. Quiet(u)
          BY <4>1, <4>3, <4>4 DEF Driven, Quiet
        <4>7. Connected(u) => u.ssl \in {"shaking", "up"}
          BY <4>1, <4>3, <4>4 DEF Driven
        <4>8. u.should_retry \in {None, u.retry_wb}
          BY <4>1, <4>3, <4>4 DEF SameQueues
        <4> QED BY <4>5, <4>6, <4>7, <4>8 DEF Reads, Working
      <3> QED BY <3>6, <3>7
    <2> QED BY <2>2, <2>3, <2>4, <2>5
  <1> QED BY <1>4, <1>5, <1>6

(***************************************************************************)
(* Steps that touch none of what the invariants are about                  *)
(***************************************************************************)

\* The fields the invariants are not about
Elsewhere(s, client, async, pos, timers, closed) ==
  [s EXCEPT !.client = client, !.async = async, !.pos = pos,
            !.timers = timers, !.closed = closed]

\* Those fields may change as they like.
LEMMA ElsewhereAside ==
  ASSUME NEW s \in Tls, s.fault # "writeToTcp",
         NEW c \in ClientStates, NEW a \in AsyncSets, NEW p \in Ranks,
         NEW m \in TimerSets, NEW b \in Flags
  PROVE  /\ Aside(s, Elsewhere(s, c, a, p, m, b))
         /\ Elsewhere(s, c, a, p, m, b).fault = s.fault
  <1> DEFINE u == Elsewhere(s, c, a, p, m, b)
  <1>1. u = [s EXCEPT !.client = c, !.async = a, !.pos = p,
                      !.timers = m, !.closed = b]
    BY DEF Elsewhere
  <1> HIDE DEF u
  <1>2. u \in Tls
    BY <1>1 DEF Tls
  <1>3. SameQueues(s, u)
    BY <1>1 DEF Tls, SameQueues
  <1>4. SameBytes(s, u)
    BY <1>1 DEF Tls, SameBytes
  <1>5. SamePhase(s, u) /\ u.fault = s.fault
    BY <1>1 DEF Tls, SamePhase
  <1> QED BY <1>2, <1>3, <1>4, <1>5 DEF Aside, u

\* The invariants between the callbacks of a running worker
Steady(s, q) ==
  Good(s, q) /\ s.fault = None /\ Working(s) /\ Quiet(s) /\ Flowing(s)

\* Steady is Good, Settled and no fault.
LEMMA SteadySettled ==
  ASSUME NEW s, NEW q
  PROVE  /\ Steady(s, q) => Good(s, q) /\ Settled(s)
         /\ Good(s, q) /\ Settled(s) /\ s.fault = None => Steady(s, q)
  BY DEF Steady, Settled

\* A step beside the invariants changes nothing of them.
LEMMA AsideSteady ==
  ASSUME NEW s, NEW u, NEW q, Steady(s, q), Aside(s, u), u.fault = s.fault
  PROVE  /\ Steady(u, q) /\ u.sock = s.sock /\ (Connected(u) <=> Connected(s))
         /\ u.is_connecting = s.is_connecting /\ u.is_writing = s.is_writing
         /\ SameQueues(s, u) /\ SameBytes(s, u) /\ SamePhase(s, u)
  <1>1. Good(s, q) /\ Working(s) /\ Quiet(s) /\ Flowing(s) /\ s.fault = None
    BY DEF Steady
  <1>2. /\ Good(u, q)
        /\ Working(s) => Working(u)
        /\ Quiet(s) => Quiet(u)
        /\ Flowing(s) => Flowing(u)
        /\ Connected(u) <=> Connected(s)
        /\ u.sock = s.sock
    BY <1>1, AsideKeeps
  <1>3. u.is_connecting = s.is_connecting /\ u.is_writing = s.is_writing
        /\ SameQueues(s, u) /\ SameBytes(s, u) /\ SamePhase(s, u)
    BY DEF Aside, SamePhase
  <1> QED BY <1>1, <1>2, <1>3 DEF Steady

\* A handle that wakes the worker is no event of the socket.
LEMMA ElsewhereSteady ==
  ASSUME NEW s, NEW q, Steady(s, q),
         NEW c \in ClientStates, NEW a \in AsyncSets, NEW p \in Ranks,
         NEW m \in TimerSets, NEW b \in Flags
  PROVE  LET u == Elsewhere(s, c, a, p, m, b) IN
         /\ Steady(u, q) /\ u.sock = s.sock
         /\ u.is_connecting = s.is_connecting /\ u.is_writing = s.is_writing
         /\ SameQueues(s, u) /\ SameBytes(s, u) /\ SamePhase(s, u)
  <1>1. s \in Tls /\ s.fault # "writeToTcp"
    BY DEF Steady, Good, Control
  <1>2. Aside(s, Elsewhere(s, c, a, p, m, b))
        /\ Elsewhere(s, c, a, p, m, b).fault = s.fault
    BY <1>1, ElsewhereAside
  <1> QED BY <1>2, AsideSteady

\* The loop serves a handle.
LEMMA ServedSteady ==
  ASSUME Steady(tls, queued), NEW a \in Asyncs
  PROVE  LET u == Served(a) IN
         /\ Steady(u, queued) /\ u.sock = tls.sock
         /\ u.is_connecting = tls.is_connecting /\ u.is_writing = tls.is_writing
  <1> DEFINE x == tls.async \ {a}
             p == Rank[a]
  <1>0. tls \in Tls
    BY DEF Steady, Good
  <1>1. /\ x \in AsyncSets /\ tls.client \in ClientStates /\ tls.timers \in TimerSets
        /\ tls.closed \in Flags
    <2>1. tls.async \in AsyncSets /\ tls.client \in ClientStates
          /\ tls.timers \in TimerSets /\ tls.closed \in Flags
      BY <1>0 DEF Tls
    <2> QED BY <2>1 DEF AsyncSets
  <1>2. p \in Ranks
    BY DEF Rank, Asyncs, Ranks
  <1>3. Served(a) = [tls EXCEPT !.async = x, !.pos = p]
    BY DEF Served
  <1> HIDE DEF x, p
  <1>4. Served(a) = Elsewhere(tls, tls.client, x, p, tls.timers, tls.closed)
    BY <1>0, <1>1, <1>2, <1>3 DEF Elsewhere, Tls
  <1> QED BY <1>1, <1>2, <1>4, ElsewhereSteady

\* The loop has polled.
LEMMA PolledSteady ==
  ASSUME Steady(tls, queued)
  PROVE  /\ Steady(Polled, queued) /\ Polled.sock = tls.sock
         /\ Polled.is_connecting = tls.is_connecting
         /\ Polled.is_writing = tls.is_writing
         /\ SameQueues(tls, Polled) /\ SameBytes(tls, Polled)
         /\ SamePhase(tls, Polled)
  <1>0. tls \in Tls
    BY DEF Steady, Good
  <1>1. /\ tls.async \in AsyncSets /\ tls.client \in ClientStates
        /\ tls.timers \in TimerSets /\ tls.closed \in Flags
    BY <1>0 DEF Tls
  <1>2. 0 \in Ranks
    BY DEF Ranks
  <1>3. Polled = Elsewhere(tls, tls.client, tls.async, 0, tls.timers, tls.closed)
    BY <1>0, <1>1, <1>2 DEF Polled, Elsewhere, Tls
  <1> QED BY <1>1, <1>2, <1>3, ElsewhereSteady

\* A handle is woken.
LEMMA WakeSteady ==
  ASSUME NEW s, NEW q, Steady(s, q), NEW a \in Asyncs
  PROVE  /\ Steady(Wake(s, a), q) /\ SameQueues(s, Wake(s, a))
         /\ SameBytes(s, Wake(s, a)) /\ SamePhase(s, Wake(s, a))
  BY WakeKeeps, AsideSteady DEF Steady

\* Without a fault, what the invariants hold on is steady.
LEMMA StepsSteady ==
  ASSUME Good(tls, queued), Settled(tls), Running
  PROVE  Steady(tls, queued)
  BY DEF Steady, Settled, Running

(***************************************************************************)
(* The application                                                         *)
(***************************************************************************)

\* The client changes its state, and wakes the worker.
LEMMA ClientSteady ==
  ASSUME NEW c \in ClientStates, NEW a \in Asyncs, Steady(tls, queued)
  PROVE  Steady(Wake([tls EXCEPT !.client = c], a), queued)
  <1>0. tls \in Tls
    BY DEF Steady, Good
  <1>1. /\ tls.async \in AsyncSets /\ tls.pos \in Ranks
        /\ tls.timers \in TimerSets /\ tls.closed \in Flags
    BY <1>0 DEF Tls
  <1> DEFINE x == [tls EXCEPT !.client = c]
  <1>2. x = Elsewhere(tls, c, tls.async, tls.pos, tls.timers, tls.closed)
    BY <1>0, <1>1 DEF Elsewhere, Tls
  <1>3. Steady(x, queued)
    BY <1>1, <1>2, ElsewhereSteady
  <1> HIDE DEF x
  <1>4. Steady(Wake(x, a), queued)
    BY <1>3, WakeSteady
  <1> QED BY <1>4 DEF x

\* The handles that are used are handles.
LEMMA AsyncValues ==
  /\ "conn" \in Asyncs /\ "write" \in Asyncs
  /\ "disconnect" \in Asyncs /\ "cleanup" \in Asyncs
  BY DEF Asyncs

\* pc_client_connect keeps the invariant.
LEMMA ConnectSettles ==
  ASSUME Steady(tls, queued), Connect
  PROVE  Steady(tls', queued')
  <1>1. "CONNECTING" \in ClientStates /\ "conn" \in Asyncs
    BY ClientValues, AsyncValues
  <1>2. Steady(Wake([tls EXCEPT !.client = "CONNECTING"], "conn"), queued)
    BY <1>1, ClientSteady
  <1> QED BY <1>2 DEF Connect

\* pc_client_disconnect keeps the invariant.
LEMMA DisconnectSettles ==
  ASSUME Steady(tls, queued), Disconnect
  PROVE  Steady(tls', queued')
  <1>1. "DISCONNECTING" \in ClientStates /\ "disconnect" \in Asyncs
    BY ClientValues, AsyncValues
  <1>2. Steady(Wake([tls EXCEPT !.client = "DISCONNECTING"], "disconnect"), queued)
    BY <1>1, ClientSteady
  <1> QED BY <1>2 DEF Disconnect

\* pc_client_cleanup keeps the invariant.
LEMMA CleanupSettles ==
  ASSUME Steady(tls, queued), Cleanup
  PROVE  Steady(tls', queued')
  BY AsyncValues, WakeSteady DEF Cleanup

\* The end of the delay before a reconnection keeps the invariant.
LEMMA ReconnDelaySettles ==
  ASSUME Steady(tls, queued), ReconnDelayTimer
  PROVE  Steady(tls', queued')
  <1> DEFINE m == Polled.timers \ {"reconn_delay"}
             x == [Polled EXCEPT !.timers = m]
  <1>1. Steady(Polled, queued) /\ Polled \in Tls
    BY PolledSteady DEF Steady, Good
  <1>2. /\ Polled.async \in AsyncSets /\ Polled.pos \in Ranks
        /\ Polled.client \in ClientStates /\ Polled.closed \in Flags
        /\ Polled.timers \in TimerSets
    BY <1>1 DEF Tls
  <1>3. m \in TimerSets
    BY <1>2 DEF TimerSets
  <1>4. tls' = Wake(x, "conn") /\ queued' = queued
    BY DEF ReconnDelayTimer
  <1> HIDE DEF m
  <1>5. x = Elsewhere(Polled, Polled.client, Polled.async, Polled.pos, m, Polled.closed)
    BY <1>1, <1>2, <1>3 DEF Elsewhere, Tls
  <1>6. Steady(x, queued)
    BY <1>1, <1>2, <1>3, <1>5, ElsewhereSteady
  <1> HIDE DEF x
  <1> QED BY <1>4, <1>6, AsyncValues, WakeSteady

(***************************************************************************)
(* Callbacks that end the connection, and the one that writes              *)
(***************************************************************************)

\* The wake-up to write keeps the invariant.
LEMMA WriteAsyncSettles ==
  ASSUME Steady(tls, queued), queued \in Sends, WriteAsync
  PROVE  Good(tls', queued') /\ Settled(tls')
  <1> DEFINE s == Served("write")
  <1>1. Steady(s, queued)
    BY ServedSteady, AsyncValues
  <1>2. tls' \in tls__write_to_bio(s) /\ queued' = queued
    BY DEF WriteAsync, Becomes
  <1> HIDE DEF s
  <1>3. Writes(s, tls', queued)
    BY <1>1, <1>2, WriteToBioWrites DEF Steady
  <1> QED BY <1>1, <1>2, <1>3 DEF Writes, Steady, Settled

\* A read that fails keeps the invariant.
LEMMA ReadFailedSettles ==
  ASSUME Steady(tls, queued), queued \in Sends, ReadFailed
  PROVE  Good(tls', queued') /\ Settled(tls')
  <1>1. tls' \in Then(Fire(Polled, "UNEXPECTED_DISCONNECT"), tcp__reconn)
        /\ queued' = queued
    BY DEF ReadFailed, Becomes
  <1>2. Good(Polled, queued) /\ Polled.fault = None
    BY PolledSteady DEF Steady
  <1>3. "UNEXPECTED_DISCONNECT" \in NetEvents
    BY DEF NetEvents
  <1>4. Ends(Polled, tls', queued)
    BY <1>1, <1>2, <1>3, EventThenReconn, Zenon
  <1> QED BY <1>1, <1>4, EndsSettled

\* The wake-up to disconnect keeps the invariant.
LEMMA DisconnectAsyncSettles ==
  ASSUME Steady(tls, queued), queued \in Sends, DisconnectAsync
  PROVE  Good(tls', queued') /\ Settled(tls')
  <1> DEFINE s == Served("disconnect")
  <1>1. Good(s, queued) /\ s.fault = None
    BY ServedSteady, AsyncValues DEF Steady
  <1>2. tls' \in Then(tls__reset(s), LAMBDA t : Fire(t, "DISCONNECT"))
        /\ queued' = queued
    BY DEF DisconnectAsync, Becomes
  <1> HIDE DEF s
  <1>3. PICK t \in tls__reset(s) :
          tls' \in IF t.fault = None THEN Fire(t, "DISCONNECT") ELSE {t}
    BY <1>2 DEF Then
  <1>4. Ends(s, t, queued)
    BY <1>1, TlsResetEnds
  <1>5. Good(t, queued) /\ Settled(t)
    BY <1>4, EndsSettled
  <1>6. CASE t.fault # None
    BY <1>2, <1>3, <1>5, <1>6
  <1>7. CASE t.fault = None
    <2>1. tls' \in Fire(t, "DISCONNECT") /\ "DISCONNECT" \in NetEvents
      BY <1>3, <1>7 DEF NetEvents
    <2>2. Aside(t, tls')
      BY <1>5, <2>1, FireKeeps
    <2>3. /\ Good(tls', queued)
          /\ Working(t) => Working(tls')
          /\ Quiet(t) => Quiet(tls')
          /\ Flowing(t) => Flowing(tls')
      BY <1>5, <2>2, AsideKeeps
    <2> QED BY <1>2, <1>5, <1>7, <2>3 DEF Settled
  <1> QED BY <1>6, <1>7

\* SSL and the BIOs are freed, and no handle is left.
Freed(t) ==
  [t EXCEPT !.closed = TRUE, !.async = {}, !.timers = {}, !.ssl = "none"]

\* What the cleanup frees was empty.
LEMMA FreedSettled ==
  ASSUME NEW t, NEW q \in Sends, Good(t, q), t.fault = None, Over(t)
  PROVE  Good(Freed(t), q) /\ Settled(Freed(t))
  <1> DEFINE y == [t EXCEPT !.ssl = "none"]
             u == Freed(t)
  <1>0. t \in Tls /\ Fits(t)
    BY DEF Good
  <1>1. y \in Tls
    BY <1>0, SslValues DEF Tls
  <1>y. y = [t EXCEPT !.ssl = "none"]
    OBVIOUS
  <1> HIDE DEF y
  <1>2. /\ y.ssl = "none" /\ y.in = t.in /\ y.mem = t.mem /\ y.out = t.out
        /\ y.left = t.left /\ y.made = t.made
    BY <1>0, <1>y DEF Tls
  <1>3. y.is_writing = t.is_writing /\ y.state = t.state /\ y.pos = t.pos
        /\ y.client = t.client
    BY <1>0, <1>y DEF Tls
  <1>4. y = [t EXCEPT !.mem = y.mem, !.out = y.out, !.made = y.made,
                      !.ssl = y.ssl, !.in = y.in]
    BY <1>0, <1>1, <1>2, <1>y DEF Tls
  <1>5. Fits(y) /\ Out(y) = Out(t)
    BY <1>0, <1>2, FitsFor
  <1>6. Adds(t, y, <<>>) /\ <<>> \in Produced /\ Range(<<>>) \subseteq Records
    <2>1. Adds(t, t, <<>>) /\ <<>> \in Produced /\ Range(<<>>) \subseteq Records
      BY <1>0, AddsNothing
    <2> QED BY <1>2, <1>4, <1>5, <2>1 DEF Adds
  <1>7. Good(y, q) /\ SameQueues(t, y) /\ y.fault = t.fault
    BY <1>0, <1>1, <1>2, <1>5, <1>6, AddsKeeps DEF Over
  <1>8. Steady(y, q)
    BY <1>2, <1>3, <1>7 DEF Over, Steady, Working, Connected, Quiet, Flowing, SameQueues
  <1>9. u = [t EXCEPT !.closed = TRUE, !.async = {}, !.timers = {}, !.ssl = "none"]
    BY DEF Freed
  <1> HIDE DEF u
  <1>10. u = Elsewhere(y, y.client, {}, y.pos, {}, TRUE)
    BY <1>0, <1>1, <1>3, <1>y, <1>9 DEF Elsewhere, Tls
  <1>11. y.client \in ClientStates /\ y.pos \in Ranks
    BY <1>1 DEF Tls
  <1>12. Steady(u, q)
    BY <1>8, <1>10, <1>11, EmptySets, FlagValues, ElsewhereSteady
  <1> QED BY <1>12, SteadySettled DEF u

\* The wake-up to clean up keeps the invariant.
LEMMA CleanupAsyncSettles ==
  ASSUME Steady(tls, queued), queued \in Sends, CleanupAsync
  PROVE  Good(tls', queued') /\ Settled(tls')
  <1> DEFINE s == Served("cleanup")
  <1>1. Good(s, queued) /\ s.fault = None
    BY ServedSteady, AsyncValues DEF Steady
  <1>2. PICK t \in tls__reset(s) :
          tls' \in IF t.fault = None THEN {Freed(t)} ELSE {t}
    BY DEF CleanupAsync, Becomes, Then, Freed
  <1> HIDE DEF s
  <1>3. Ends(s, t, queued)
    BY <1>1, TlsResetEnds
  <1>4. Good(t, queued) /\ Settled(t) /\ (t.fault = None => Over(t))
    BY <1>3, EndsSettled DEF Ends
  <1>5. queued' = queued
    BY DEF CleanupAsync, Becomes
  <1>6. CASE t.fault = None
    BY <1>2, <1>4, <1>5, <1>6, FreedSettled
  <1>7. CASE t.fault # None
    BY <1>2, <1>4, <1>5, <1>7
  <1> QED BY <1>6, <1>7

(***************************************************************************)
(* Connecting and closing                                                  *)
(***************************************************************************)

\* The socket changes outside a connection, with nothing in BIO out.
Socket(s, state, sock, c, n) ==
  [s EXCEPT !.state = state, !.sock = sock, !.is_connecting = c, !.conns = n]

\* Outside a connection the socket may come and go.
LEMMA SocketSteady ==
  ASSUME NEW s, NEW q, Steady(s, q), NEW l \in States, NEW k \in Socks,
         NEW c \in Flags, NEW n \in Counts,
         ~Connected(s), l \notin {"HANDSHAKEING", "DONE"}, k # "reading",
         k \in {"none", "open"} => ~s.is_writing,
         c => k \in {"open", "closing"} /\ ~s.is_writing
  PROVE  LET u == Socket(s, l, k, c, n) IN
         /\ Steady(u, q) /\ u.sock = k /\ u.is_connecting = c
         /\ u.is_writing = s.is_writing /\ ~Connected(u)
  <1> DEFINE u == Socket(s, l, k, c, n)
  <1>0. s \in Tls /\ Good(s, q) /\ Control(s) /\ Fits(s) /\ s.fault = None
        /\ Working(s) /\ Flowing(s)
    BY DEF Steady, Good
  <1>1. u = [s EXCEPT !.state = l, !.sock = k, !.is_connecting = c, !.conns = n]
    BY DEF Socket
  <1> HIDE DEF u
  <1>2. u \in Tls
    BY <1>0, <1>1 DEF Tls
  <1>3. SameQueues(s, u)
    BY <1>0, <1>1 DEF Tls, SameQueues
  <1>4. SameBytes(s, u)
    BY <1>0, <1>1 DEF Tls, SameBytes
  <1>5. /\ u.state = l /\ u.sock = k /\ u.is_connecting = c
        /\ u.is_writing = s.is_writing /\ u.ssl = s.ssl /\ u.in = s.in
    BY <1>0, <1>1 DEF Tls
  <1>6. u.fault = s.fault
    BY <1>0, <1>1 DEF Tls
  <1>7. ~Connected(u)
    BY <1>5 DEF Connected
  <1>8. s.out \in Nat
    BY <1>0 DEF Tls, Counts
  <1>9. k \in {"none", "open"} => s.out = 0
    BY <1>0, <1>8 DEF Flowing
  <1>10. Control(u)
    BY <1>0, <1>3, <1>4, <1>5, <1>6, <1>7, <1>9 DEF Control, SameQueues, SameBytes
  <1>11. Fits(u) /\ Out(u) = Out(s)
    BY <1>0, <1>4, FitsFor DEF SameBytes
  <1>12. Wires(s) => Wires(u)
    BY <1>4, <1>7, <1>11 DEF Wires, SameBytes
  <1>13. Orders(u, q) /\ Held(u, q)
    BY <1>0, <1>3, <1>4, OrdersKept, HeldKept DEF Good, SameBytes
  <1>14. Good(u, q)
    BY <1>0, <1>2, <1>10, <1>11, <1>12, <1>13 DEF Good
  <1>15. Working(u) /\ Flowing(u)
    BY <1>0, <1>3, <1>4, <1>5, <1>7 DEF Working, Flowing, SameQueues, SameBytes
  <1>16. Quiet(u)
    BY <1>0, <1>5 DEF Control, Quiet
  <1> QED BY <1>0, <1>5, <1>6, <1>7, <1>14, <1>15, <1>16 DEF Steady, u

\* A connection that ends is such a change.
LEMMA SocketSame ==
  ASSUME NEW s \in Tls
  PROVE  /\ s.state \in States /\ s.sock \in Socks /\ s.is_connecting \in Flags
         /\ s.conns \in Counts /\ s.conns + 1 \in Counts
         /\ [s EXCEPT !.is_connecting = FALSE]
              = Socket(s, s.state, s.sock, FALSE, s.conns)
  <1>1. /\ s.state \in States /\ s.sock \in Socks /\ s.is_connecting \in Flags
        /\ s.conns \in Counts
    BY DEF Tls
  <1>2. [s EXCEPT !.is_connecting = FALSE]
          = Socket(s, s.state, s.sock, FALSE, s.conns)
    BY <1>1 DEF Socket, Tls
  <1> QED BY <1>1, <1>2 DEF Counts

\* An attempt that failed is followed by another, or is the last.
LEMMA RefusedSettles ==
  ASSUME NEW s, NEW q \in Sends, Steady([s EXCEPT !.is_connecting = FALSE], q),
         NEW u \in ConnRefused(s)
  PROVE  Good(u, q) /\ Settled(u)
  <1> DEFINE x == [s EXCEPT !.is_connecting = FALSE]
  <1>1. u \in Then(Fire(x, "CONNECT_ERROR"), tcp__reconn)
    BY DEF ConnRefused
  <1>2. Good(x, q) /\ x.fault = None
    BY DEF Steady
  <1>3. "CONNECT_ERROR" \in NetEvents
    BY DEF NetEvents
  <1> HIDE DEF x
  <1>4. Ends(x, u, q)
    BY <1>1, <1>2, <1>3, EventThenReconn, Zenon
  <1> QED BY <1>4, EndsSettled

\* A connection that fails keeps the invariant.
LEMMA ConnFailedSettles ==
  ASSUME Steady(tls, queued), queued \in Sends, ConnFailed
  PROVE  Good(tls', queued') /\ Settled(tls')
  <1>1. /\ tls' \in ConnRefused(Polled) /\ queued' = queued
        /\ tls.sock = "open"
    BY DEF ConnFailed, Becomes, Polls
  <1>2. Steady(Polled, queued) /\ Polled.sock = "open" /\ Polled \in Tls
    BY <1>1, PolledSteady DEF Steady, Good
  <1>3. ~Connected(Polled) /\ ~Polled.is_writing
        /\ Polled.state \notin {"HANDSHAKEING", "DONE"}
    BY <1>2 DEF Steady, Good, Control, Connected
  <1>4. Steady([Polled EXCEPT !.is_connecting = FALSE], queued)
    <2>1. /\ Polled.state \in States /\ Polled.sock \in Socks
          /\ Polled.conns \in Counts
          /\ [Polled EXCEPT !.is_connecting = FALSE]
               = Socket(Polled, Polled.state, Polled.sock, FALSE, Polled.conns)
      BY <1>2, SocketSame
    <2>2. Polled.sock # "reading" /\ FALSE \in Flags
      BY <1>2, FlagValues
    <2>3. Steady(Socket(Polled, Polled.state, Polled.sock, FALSE, Polled.conns), queued)
      BY <1>2, <1>3, <2>1, <2>2, SocketSteady
    <2> QED BY <2>1, <2>3
  <1> QED BY <1>1, <1>4, RefusedSettles

\* The wake-up to connect keeps the invariant.
LEMMA ConnAsyncSettles ==
  ASSUME Steady(tls, queued), queued \in Sends, ConnAsync
  PROVE  Good(tls', queued') /\ Settled(tls')
  <1> DEFINE s == Served("conn")
             t == [s EXCEPT !.state = "CONNECTING", !.sock = "open"]
             v == [t EXCEPT !.is_connecting = TRUE, !.conns = @ + 1]
  <1>1. /\ tls' \in IF s.is_connecting THEN {s}
                    ELSE IF s.sock = "closing" THEN Crash(s, "finishClose")
                    ELSE IF s.sock = "reading" \/ s.is_writing THEN Crash(s, "reinit")
                    ELSE {v} \cup Then(Fire(t, "CONNECT_ERROR"), tcp__reconn)
        /\ queued' = queued
    BY DEF ConnAsync, Becomes
  <1>2. Steady(s, queued) /\ s \in Tls
    BY ServedSteady, AsyncValues DEF Steady, Good
  <1>s. t = [s EXCEPT !.state = "CONNECTING", !.sock = "open"]
        /\ v = [t EXCEPT !.is_connecting = TRUE, !.conns = @ + 1]
    OBVIOUS
  <1> HIDE DEF s, t, v
  <1>3. CASE s.is_connecting
    BY <1>1, <1>2, <1>3, SteadySettled
  <1>4. ASSUME NEW f \in {"finishClose", "reinit"}, tls' \in Crash(s, f)
        PROVE  Good(tls', queued') /\ Settled(tls')
    <2>1. f \in Faults \ {"writeToTcp"}
      BY <1>4 DEF Faults
    <2>2. Good(s, queued)
      BY <1>2 DEF Steady
    <2>3. Aside(s, tls') /\ tls'.fault # None
      BY <1>4, <2>1, <2>2, CrashKeeps
    <2> QED BY <1>1, <2>2, <2>3, AsideKeeps DEF Settled
  <1>5. CASE /\ s.is_connecting = FALSE /\ s.sock # "reading" /\ ~s.is_writing
             /\ s.sock # "closing"
    <2>1. ~Connected(s)
      BY <1>2, <1>5 DEF Steady, Good, Control
    <2>2. /\ "CONNECTING" \in States /\ "open" \in Socks /\ TRUE \in Flags
          /\ FALSE \in Flags /\ s.conns \in Counts /\ s.conns + 1 \in Counts
      BY <1>2, StateValues, SockValues, FlagValues, SocketSame
    <2>3. t = Socket(s, "CONNECTING", "open", FALSE, s.conns)
      BY <1>2, <1>5, <1>s, <2>2 DEF Socket, Tls
    <2>4. v = Socket(s, "CONNECTING", "open", TRUE, s.conns + 1)
      <3>1. t \in Tls /\ t.conns = s.conns
        BY <1>2, <1>s, <2>2 DEF Tls
      <3>2. v = [t EXCEPT !.is_connecting = TRUE, !.conns = s.conns + 1]
        BY <1>s, <3>1
      <3> QED BY <1>2, <1>s, <2>2, <3>1, <3>2 DEF Socket, Tls
    <2>5. Steady(t, queued)
      BY <1>2, <1>5, <2>1, <2>2, <2>3, SocketSteady
    <2>6. Steady(v, queued)
      BY <1>2, <1>5, <2>1, <2>2, <2>4, SocketSteady
    <2>7. tls' = v \/ tls' \in Then(Fire(t, "CONNECT_ERROR"), tcp__reconn)
      BY <1>1, <1>5
    <2>8. CASE tls' = v
      BY <1>1, <2>6, <2>8, SteadySettled
    <2>9. CASE tls' \in Then(Fire(t, "CONNECT_ERROR"), tcp__reconn)
      <3>1. Good(t, queued) /\ t.fault = None
        BY <2>5 DEF Steady
      <3>2. "CONNECT_ERROR" \in NetEvents
        BY DEF NetEvents
      <3>3. Ends(t, tls', queued)
        BY <2>9, <3>1, <3>2, EventThenReconn, Zenon
      <3> QED BY <1>1, <3>3, EndsSettled
    <2> QED BY <2>7, <2>8, <2>9
  <1>6. s.is_connecting \in BOOLEAN
    BY <1>2 DEF Tls, Flags
  <1> QED BY <1>1, <1>3, <1>4, <1>5, <1>6

(***************************************************************************)
(* The end of a write                                                      *)
(***************************************************************************)

\* What is left of a write is in the memory of BIO out; unless a write may be
\* partial, nothing is left.
LEMMA RestTyped ==
  ASSUME NEW s \in Tls, Fits(s)
  PROVE  /\ Rest(s) \in Streams
         /\ s.left[1] > s.left[2] => Rest(s) = <<>>
  <1>1. /\ s.mem \in Seq(Memory) /\ Len(s.mem) \in Nat
        /\ s.left[1] \in Nat /\ s.left[2] \in Nat
    BY LenProperties DEF Tls, Streams, Spans
  <1>2. \A i \in s.left[1]..s.left[2] : s.mem[i] \in Memory
    BY <1>1, ElementOfSeq DEF Fits
  <1>3. Rest(s) \in Seq(Memory)
        /\ Len(Rest(s)) = IF s.left[1] <= s.left[2] THEN s.left[2] - s.left[1] + 1 ELSE 0
    BY <1>1, <1>2, SubSeqProperties DEF Rest
  <1>4. s.left[1] > s.left[2] => Rest(s) = <<>>
    BY <1>1, <1>3, EmptySeq
  <1> QED BY <1>3, <1>4 DEF Streams

\* The items whose bytes were written wait for an answer, or are reported.
FinishedFields(s, u, w, d, x) ==
  /\ u \in Tls
  /\ u.state = s.state /\ u.sock = s.sock /\ u.fault = s.fault
  /\ u.is_connecting = s.is_connecting /\ u.is_writing = FALSE
  /\ u.ssl = s.ssl /\ u.in = s.in
  /\ u.conn_pending = s.conn_pending /\ u.write_wait = s.write_wait
  /\ u.writing = <<>> /\ u.when_tcp_is_writing = s.when_tcp_is_writing
  /\ u.should_retry = s.should_retry /\ u.retry_wb = s.retry_wb
  /\ u.resp_pending = w /\ u.done = d
  /\ u.mem = s.mem /\ u.out = s.out /\ u.left = <<1, 0>>
  /\ u.made = s.made /\ u.wire = x

\* The fields of what a finished write leaves.
LEMMA FinishedRecord ==
  ASSUME NEW s \in Tls, NEW w \in RequestSets, NEW d \in RequestSets, NEW x \in Streams,
         NEW u, u = [s EXCEPT !.is_writing = FALSE, !.writing = <<>>,
                              !.resp_pending = w, !.done = d,
                              !.left = <<1, 0>>, !.wire = x]
  PROVE  FinishedFields(s, u, w, d, x)
  <1>0. <<>> \in Lines /\ FALSE \in Flags /\ <<1, 0>> \in Spans
    BY CatEmpty, FlagValues, Zeros
  <1>1. u \in Tls
    BY <1>0 DEF Tls
  <1>2. /\ u.state = s.state /\ u.sock = s.sock /\ u.fault = s.fault
        /\ u.is_connecting = s.is_connecting /\ u.is_writing = FALSE
        /\ u.ssl = s.ssl /\ u.in = s.in
    BY DEF Tls
  <1>3. /\ u.conn_pending = s.conn_pending /\ u.write_wait = s.write_wait
        /\ u.writing = <<>> /\ u.when_tcp_is_writing = s.when_tcp_is_writing
        /\ u.should_retry = s.should_retry /\ u.retry_wb = s.retry_wb
    BY DEF Tls
  <1>4. u.resp_pending = w /\ u.done = d
    BY DEF Tls
  <1>5. u.mem = s.mem /\ u.out = s.out /\ u.left = <<1, 0>>
    BY DEF Tls
  <1>6. u.made = s.made /\ u.wire = x
    BY DEF Tls
  <1> QED BY <1>1, <1>2, <1>3, <1>4, <1>5, <1>6 DEF FinishedFields

\* The requests of a finished write wait for their responses, or have failed.
LEMMA FinishedKeeps ==
  ASSUME NEW s, NEW q \in Sends, Steady(s, q), NEW ok \in BOOLEAN, s.is_writing
  PROVE  /\ Good(Finished(s, ok), q) /\ Finished(s, ok).fault = None
         /\ Working(Finished(s, ok)) /\ Quiet(Finished(s, ok))
  <1> DEFINE u == Finished(s, ok)
             kept == IF ok THEN Range(s.writing) \cap Requests ELSE {}
             w == s.resp_pending \cup kept
             d == s.done \cup ((Range(s.writing) \ kept) \cap Requests)
             x == IF ok THEN Cat(s.wire, Rest(s)) ELSE s.wire
  <1>0. /\ s \in Tls /\ Good(s, q) /\ Control(s) /\ Fits(s) /\ s.fault = None
        /\ Orders(s, q) /\ Held(s, q)
    BY DEF Steady, Good
  <1>1. w \in RequestSets /\ d \in RequestSets
    <2>1. s.resp_pending \in RequestSets /\ s.done \in RequestSets
      BY <1>0 DEF Tls
    <2> QED BY <2>1 DEF RequestSets
  <1>2. x \in Streams /\ (s.left[1] > s.left[2] => x = s.wire)
    <2>1. s.wire \in Streams
      BY <1>0 DEF Tls
    <2>2. Rest(s) \in Streams /\ (s.left[1] > s.left[2] => Rest(s) = <<>>)
      BY <1>0, RestTyped
    <2>3. Cat(s.wire, Rest(s)) \in Streams
      BY <2>1, <2>2, CatTyped
    <2>4. s.left[1] > s.left[2] => Cat(s.wire, Rest(s)) = s.wire
      BY <2>1, <2>2, CatEmpty
    <2> QED BY <2>1, <2>3, <2>4
  <1>3. u = [s EXCEPT !.is_writing = FALSE, !.writing = <<>>,
                      !.resp_pending = w, !.done = d, !.left = <<1, 0>>, !.wire = x]
    BY <1>0 DEF Finished, Answer, Cat, Tls
  <1>k. /\ kept \subseteq Range(s.writing) \cap Requests
        /\ w = s.resp_pending \cup kept
        /\ d = s.done \cup ((Range(s.writing) \ kept) \cap Requests)
    OBVIOUS
  <1> HIDE DEF u, w, d, x, kept
  <1>4. FinishedFields(s, u, w, d, x)
    BY <1>0, <1>1, <1>2, <1>3, FinishedRecord
  <1>5. u \in Tls
    BY <1>4 DEF FinishedFields
  <1>6. Connected(u) <=> Connected(s)
    BY <1>4 DEF FinishedFields, Connected
  <1>7. Control(u)
    BY <1>0, <1>4, <1>6 DEF Control, FinishedFields
  <1>8. Fits(u) /\ Out(u) = Out(s)
    <2>1. u.left[1] = 1 /\ u.left[2] = 0
      BY <1>4 DEF FinishedFields
    <2> QED BY <1>0, <1>4, <2>1 DEF Fits, FinishedFields, Out
  <1>9. Wires(s) => Wires(u)
    <2>1. u.left[1] = 1 /\ u.left[2] = 0
      BY <1>4 DEF FinishedFields
    <2>2. Wires(s) => u.wire = s.wire
      BY <1>2, <1>4 DEF FinishedFields, Wires
    <2> QED BY <1>4, <1>6, <1>8, <2>1, <2>2 DEF Wires, FinishedFields
  <1>10. Orders(u, q)
    BY <1>0, <1>4 DEF Orders, FinishedFields
  <1>11. Held(u, q)
    <2>1. ASSUME NEW r \in Requests
          PROVE  /\ OnePlace(u, r)
                 /\ r \in Places(u) => r \in Reqs(q)
                 /\ r \in Reqs(q) => r \in Places(u) \cup u.done
      <3>1. /\ OnePlace(s, r)
            /\ r \in Places(s) => r \in Reqs(q)
            /\ r \in Reqs(q) => r \in Places(s) \cup s.done
        BY <1>0 DEF Held
      <3>2. /\ Range(u.writing) = {}
            /\ r \in u.resp_pending => r \in s.resp_pending \/ r \in Range(s.writing)
            /\ r \in s.resp_pending => r \in u.resp_pending
            /\ r \in Range(s.writing) => r \in u.resp_pending \/ r \in u.done
            /\ r \in s.done => r \in u.done
        BY <1>k, <1>4, CatEmpty DEF FinishedFields
      <3>3. /\ Range(u.conn_pending) = Range(s.conn_pending)
            /\ Range(u.write_wait) = Range(s.write_wait)
            /\ Range(u.when_tcp_is_writing) = Range(s.when_tcp_is_writing)
            /\ u.should_retry = s.should_retry
        BY <1>4 DEF FinishedFields
      <3>4. OnePlace(u, r)
        BY <3>1, <3>2, <3>3 DEF OnePlace
      <3>5. r \in Places(u) => r \in Places(s)
        BY <3>2, <3>3 DEF Places
      <3>6. r \in Places(s) => r \in Places(u) \cup u.done
        BY <3>2, <3>3 DEF Places
      <3> QED BY <3>1, <3>2, <3>4, <3>5, <3>6
    <2>2. Once(u.conn_pending) /\ Once(u.write_wait)
      BY <1>0, <1>4 DEF Held, FinishedFields
    <2> QED BY <2>1, <2>2 DEF Held
  <1>12. Good(u, q)
    BY <1>0, <1>5, <1>7, <1>8, <1>9, <1>10, <1>11 DEF Good
  <1>13. Working(u) /\ Quiet(u) /\ u.fault = None
    BY <1>0, <1>4, <1>6 DEF Steady, Working, Quiet, FinishedFields
  <1> QED BY <1>12, <1>13 DEF u

\* tls__write_done_cb keeps the invariant, the write that follows included.
LEMMA WriteDoneCbSettles ==
  ASSUME NEW s, NEW q \in Sends, Steady(s, q), NEW ok \in BOOLEAN, s.is_writing,
         NEW v \in tls__write_done_cb(s, ok)
  PROVE  Steady(v, q)
  <1> DEFINE u == Finished(s, ok)
  <1>1. Good(u, q) /\ u.fault = None /\ Working(u) /\ Quiet(u)
    BY FinishedKeeps
  <1>2. v \in tls__write_to_tcp(u)
    BY DEF tls__write_done_cb
  <1> HIDE DEF u
  <1> QED BY <1>1, <1>2, WriteToTcpKeeps DEF Steady

\* The end of a write keeps the invariant.
LEMMA WriteDoneSettles ==
  ASSUME Steady(tls, queued), queued \in Sends, NEW ok \in BOOLEAN, WriteDone(ok)
  PROVE  Steady(tls', queued')
  <1>1. tls' \in tls__write_done_cb(Polled, ok) /\ queued' = queued /\ tls.is_writing
    BY DEF WriteDone, Becomes
  <1>2. Steady(Polled, queued) /\ Polled.is_writing
    BY <1>1, PolledSteady
  <1> QED BY <1>1, <1>2, WriteDoneCbSettles

\* The loop's closing phase keeps the invariant.
LEMMA ClosingPhaseSettles ==
  ASSUME Steady(tls, queued), queued \in Sends, ClosingPhase
  PROVE  Good(tls', queued') /\ Settled(tls')
  <1> DEFINE p == Polled
             s == [p EXCEPT !.sock = "closed"]
             x == [s EXCEPT !.is_connecting = FALSE]
  <1>1. /\ tls' \in IF s.is_connecting THEN ConnRefused(s)
                    ELSE IF s.is_writing THEN tls__write_done_cb(s, FALSE)
                    ELSE {s}
        /\ queued' = queued /\ tls.sock = "closing"
    BY DEF ClosingPhase, Becomes, Polls
  <1>2. Steady(p, queued) /\ p.sock = "closing" /\ p \in Tls
    BY <1>1, PolledSteady DEF Steady, Good
  <1>x. s = [p EXCEPT !.sock = "closed"] /\ x = [s EXCEPT !.is_connecting = FALSE]
    OBVIOUS
  <1> HIDE DEF p, s, x
  <1>3. ~Connected(p) /\ p.state \notin {"HANDSHAKEING", "DONE"}
    BY <1>2 DEF Steady, Good, Control, Connected
  <1>4. s \in Tls /\ s.is_connecting = p.is_connecting /\ s.is_writing = p.is_writing
    BY <1>2, <1>x, SockValues DEF Tls
  <1>5. p.state \in States /\ p.conns \in Counts /\ p.is_connecting \in Flags
    BY <1>2 DEF Tls
  <1>6. x = Socket(p, p.state, "closed", FALSE, p.conns)
    BY <1>2, <1>x, <1>4, <1>5, SockValues, FlagValues DEF Socket, Tls
  <1>7. Steady(x, queued) /\ x.is_writing = p.is_writing
    <2>1. "closed" \in Socks /\ FALSE \in Flags
      BY SockValues, FlagValues
    <2> DEFINE y == Socket(p, p.state, "closed", FALSE, p.conns)
    <2>2. Steady(y, queued) /\ y.is_writing = p.is_writing
      <3>1. PICK k \in Socks : k = "closed"
        BY <2>1
      <3>2. k # "reading" /\ k \notin {"none", "open"}
        BY <3>1
      <3>3. Steady(Socket(p, p.state, k, FALSE, p.conns), queued)
        BY <1>2, <1>3, <1>5, <2>1, <3>2, SocketSteady
      <3>4. Socket(p, p.state, k, FALSE, p.conns).is_writing = p.is_writing
        BY <1>2 DEF Socket, Tls
      <3> QED BY <3>1, <3>3, <3>4
    <2> HIDE DEF y
    <2> QED BY <1>6, <2>2 DEF y
  <1>8. CASE s.is_connecting
    BY <1>1, <1>7, <1>8, <1>x, RefusedSettles
  <1>9. CASE s.is_connecting = FALSE
    <2>1. x = s
      BY <1>4, <1>9, <1>x DEF Tls
    <2>2. CASE s.is_writing
      BY <1>1, <1>7, <1>9, <2>1, <2>2, WriteDoneCbSettles, SteadySettled
    <2>3. CASE ~s.is_writing
      BY <1>1, <1>7, <1>9, <2>1, <2>3, SteadySettled
    <2> QED BY <2>2, <2>3
  <1>10. s.is_connecting \in BOOLEAN
    BY <1>4 DEF Tls, Flags
  <1> QED BY <1>8, <1>9, <1>10

(***************************************************************************)
(* Reading                                                                 *)
(***************************************************************************)

\* What the transport may be in when SSL is read from
Readable(s, q) ==
  /\ Good(s, q) /\ s.fault = None
  /\ s.sock \notin {"none", "open"}
  /\ Connected(s) => s.ssl \in {"before", "shaking", "up"}
  /\ s.should_retry \in {None, s.retry_wb}

\* A read of SSL and the write that follows keep the invariant.
LEMMA ReadThenWrite ==
  ASSUME NEW s, NEW q \in Sends, Readable(s, q),
         NEW t \in tls__read_from_bio(s),
         NEW u, u \in IF t.fault = None THEN tls__write_to_tcp(t) ELSE {t}
  PROVE  Good(u, q) /\ Settled(u)
  <1>1. Reads(s, t, q)
    BY ReadFromBioReads DEF Readable
  <1>2. CASE t.fault # None
    BY <1>1, <1>2 DEF Reads, Settled
  <1>3. CASE t.fault = None
    <2>1. Good(t, q) /\ Working(t) /\ Quiet(t) /\ u \in tls__write_to_tcp(t)
      BY <1>1, <1>3 DEF Reads
    <2>2. /\ Good(u, q) /\ Flowing(u)
          /\ Working(t) => Working(u)
          /\ Quiet(t) => Quiet(u)
      BY <2>1, WriteToTcpKeeps
    <2> QED BY <2>1, <2>2 DEF Settled
  <1> QED BY <1>2, <1>3

\* tls__cycle keeps the invariant.
LEMMA CycleSettles ==
  ASSUME NEW s, NEW q \in Sends, Good(s, q), s.fault = None, Working(s),
         s.sock = "reading", NEW u \in tls__cycle(s)
  PROVE  Good(u, q) /\ Settled(u)
  <1>1. PICK t \in Then(tls__write_to_bio(s), tls__read_from_bio) :
          u \in IF t.fault = None THEN tls__write_to_tcp(t) ELSE {t}
    BY DEF tls__cycle, Then
  <1>2. PICK v \in tls__write_to_bio(s) :
          t \in IF v.fault = None THEN tls__read_from_bio(v) ELSE {v}
    BY <1>1 DEF Then
  <1>3. Writes(s, v, q)
    BY WriteToBioWrites
  <1>4. CASE v.fault # None
    <2>1. t = v /\ u = v
      BY <1>1, <1>2, <1>4
    <2> QED BY <1>3, <1>4, <2>1 DEF Writes, Settled
  <1>5. CASE v.fault = None
    <2>1. t \in tls__read_from_bio(v)
      BY <1>2, <1>5
    <2>2. Readable(v, q)
      BY <1>3, <1>5 DEF Writes, Working, Readable
    <2> QED BY <1>1, <2>1, <2>2, ReadThenWrite
  <1> QED BY <1>4, <1>5

\* Something has come in.
Fed(s, m) == [s EXCEPT !.in = m, !.replied = @ \cup {m}]

\* What has come from the socket waits for SSL.
LEMMA FedKeeps ==
  ASSUME NEW s, NEW q, Good(s, q), s.sock = "reading", NEW m \in Incoming
  PROVE  /\ Good(Fed(s, m), q) /\ Fed(s, m).fault = s.fault
         /\ Fed(s, m).sock = s.sock
         /\ Working(s) => Working(Fed(s, m))
  <1> DEFINE u == Fed(s, m)
             a == s.replied \cup {m}
  <1>0. s \in Tls /\ Connected(s)
    BY DEF Good, Control
  <1>1. u = [s EXCEPT !.in = m, !.replied = a]
    BY DEF Fed
  <1>2. a \in ReplySets /\ m \in Inputs
    <2>1. s.replied \in ReplySets
      BY <1>0 DEF Tls
    <2> QED BY <2>1, NoneValues DEF ReplySets
  <1> HIDE DEF u, a
  <1>3. u \in Tls
    BY <1>0, <1>1, <1>2 DEF Tls
  <1>4. SameQueues(s, u)
    BY <1>0, <1>1 DEF Tls, SameQueues
  <1>5. SameBytes(s, u)
    BY <1>0, <1>1 DEF Tls, SameBytes
  <1>6. /\ u.state = s.state /\ u.sock = s.sock /\ u.ssl = s.ssl
        /\ u.is_connecting = s.is_connecting /\ u.is_writing = s.is_writing
        /\ u.fault = s.fault
    BY <1>0, <1>1 DEF Tls
  <1>7. Connected(u)
    BY <1>0, <1>6 DEF Connected
  <1>8. Control(u)
    BY <1>0, <1>4, <1>5, <1>6, <1>7 DEF Good, Control, SameQueues, SameBytes
  <1>9. Fits(u)
    BY <1>0, <1>5, FitsFor DEF Good, SameBytes
  <1>10. Wires(s) => Wires(u)
    BY <1>5, <1>6, WiresKept
  <1>11. Orders(u, q) /\ Held(u, q)
    BY <1>4, <1>5, OrdersKept, HeldKept DEF Good, SameBytes
  <1>12. Good(u, q)
    BY <1>3, <1>8, <1>9, <1>10, <1>11 DEF Good
  <1>13. Working(s) => Working(u)
    BY <1>0, <1>4, <1>6, <1>7 DEF Working, SameQueues
  <1> QED BY <1>6, <1>12, <1>13 DEF u

\* A read of the socket keeps the invariant.
LEMMA ReadSettles ==
  ASSUME Steady(tls, queued), queued \in Sends, NEW m \in Incoming, Read(m)
  PROVE  Good(tls', queued') /\ Settled(tls')
  <1> DEFINE x == Fed(Polled, m)
  <1>1. tls' \in tls__cycle(x) /\ queued' = queued /\ tls.sock = "reading"
    BY DEF Read, Becomes, Polls, Fed
  <1>2. Good(Polled, queued) /\ Polled.fault = None /\ Working(Polled)
        /\ Polled.sock = "reading"
    BY <1>1, PolledSteady DEF Steady
  <1>3. Good(x, queued) /\ x.fault = None /\ x.sock = "reading" /\ Working(x)
    BY <1>2, FedKeeps
  <1> HIDE DEF x
  <1> QED BY <1>1, <1>3, CycleSettles

(***************************************************************************)
(* A new connection                                                        *)
(***************************************************************************)

Opened(p) ==
  [p EXCEPT !.is_connecting = FALSE, !.state = "HANDSHAKEING",
            !.sock = "reading", !.write_wait = <<"handshake">> \o @,
            !.ssl = "before", !.made = <<>>, !.wire = <<>>, !.replied = {}]

OpenedFields(p, u) ==
  /\ u \in Tls
  /\ u.state = "HANDSHAKEING" /\ u.sock = "reading" /\ u.is_connecting = FALSE
  /\ u.is_writing = p.is_writing /\ u.ssl = "before" /\ u.in = p.in
  /\ u.fault = p.fault
  /\ Headed(p, u, "handshake")
  /\ u.mem = p.mem /\ u.out = p.out /\ u.left = p.left
  /\ u.made = <<>> /\ u.wire = <<>>

\* The fields of a connection that has just been made.
LEMMA OpenedRecord ==
  ASSUME NEW p \in Tls
  PROVE  OpenedFields(p, Opened(p))
  <1> DEFINE w == Cat(<<"handshake">>, p.write_wait)
             u == Opened(p)
  <1>1. u = [p EXCEPT !.is_connecting = FALSE, !.state = "HANDSHAKEING",
                      !.sock = "reading", !.write_wait = w,
                      !.ssl = "before", !.made = <<>>, !.wire = <<>>, !.replied = {}]
    BY DEF Opened, Cat
  <1>2. w \in Lines
    <2>1. p.write_wait \in Lines /\ <<"handshake">> \in Lines
      BY Apartness, OneElement DEF Tls
    <2> QED BY <2>1, CatTyped
  <1>w. w = Cat(<<"handshake">>, p.write_wait)
    OBVIOUS
  <1> HIDE DEF w, u
  <1>3. /\ FALSE \in Flags /\ "HANDSHAKEING" \in States /\ "reading" \in Socks
        /\ "before" \in SslStates /\ <<>> \in Produced /\ <<>> \in Streams
        /\ {} \in ReplySets
    BY FlagValues, StateValues, SockValues, SslValues, CatEmpty, EmptySets
  <1>4. u \in Tls
    BY <1>1, <1>2, <1>3 DEF Tls
  <1>5. /\ u.state = "HANDSHAKEING" /\ u.sock = "reading" /\ u.is_connecting = FALSE
        /\ u.is_writing = p.is_writing /\ u.ssl = "before" /\ u.in = p.in
    BY <1>1 DEF Tls
  <1>6. /\ u.write_wait = w /\ u.conn_pending = p.conn_pending
        /\ u.writing = p.writing /\ u.when_tcp_is_writing = p.when_tcp_is_writing
        /\ u.should_retry = p.should_retry /\ u.retry_wb = p.retry_wb
    BY <1>1 DEF Tls
  <1>7. u.resp_pending = p.resp_pending /\ u.done = p.done /\ u.fault = p.fault
    BY <1>1 DEF Tls
  <1>8. u.mem = p.mem /\ u.out = p.out /\ u.left = p.left
    BY <1>1 DEF Tls
  <1>9. u.made = <<>> /\ u.wire = <<>>
    BY <1>1 DEF Tls
  <1> QED BY <1>w, <1>4, <1>5, <1>6, <1>7, <1>8, <1>9 DEF OpenedFields, Headed, u

\* The handshake of Pomelo waits for that of SSL, and nothing of the
\* connection before is left.
LEMMA OpenedReadable ==
  ASSUME NEW p, NEW q \in Sends, Steady(p, q), p.sock = "open"
  PROVE  Readable(Opened(p), q)
  <1> DEFINE u == Opened(p)
  <1>0. /\ p \in Tls /\ Good(p, q) /\ Control(p) /\ Fits(p) /\ p.fault = None
        /\ Orders(p, q) /\ Held(p, q)
    BY DEF Steady, Good
  <1>1. OpenedFields(p, u)
    BY <1>0, OpenedRecord
  <1> HIDE DEF u
  <1>2. u \in Tls /\ Headed(p, u, "handshake") /\ Connected(u)
    BY <1>1 DEF OpenedFields, Connected
  <1>3. /\ ~p.is_writing /\ p.out = 0 /\ ~Connected(p)
        /\ p.when_tcp_is_writing = <<>>
        /\ p.retry_wb = None /\ p.should_retry = None
    BY <1>0 DEF Control
  <1>4. Control(u)
    BY <1>0, <1>1, <1>2, <1>3 DEF Control, OpenedFields, Headed
  <1>5. Fits(u)
    BY <1>0, <1>1, <1>2, FitsFor DEF OpenedFields
  <1>6. Wires(p) => Wires(u)
    <2>1. Out(u) = <<>>
      BY <1>1, <1>3, OutEmpty DEF OpenedFields
    <2>2. Cat(<<>>, <<>>) = <<>>
      BY CatEmpty
    <2> QED BY <1>1, <1>2, <2>1, <2>2 DEF Wires, OpenedFields
  <1>7. Held(u, q)
    BY <1>0, <1>2, HeadedHeld
  <1>8. Orders(u, q)
    <2>1. u.made \in {p.made, <<>>}
      BY <1>1 DEF OpenedFields
    <2> QED BY <1>0, <1>2, <2>1, HeadedOrders
  <1>9. Good(u, q)
    BY <1>0, <1>2, <1>4, <1>5, <1>6, <1>7, <1>8 DEF Good
  <1>10. u.should_retry \in {None, u.retry_wb}
    BY <1>2, <1>3 DEF Headed
  <1> QED BY <1>0, <1>1, <1>9, <1>10 DEF Readable, OpenedFields, u

\* A connection that is made keeps the invariant.
LEMMA ConnDoneSettles ==
  ASSUME Steady(tls, queued), queued \in Sends, ConnDone
  PROVE  Good(tls', queued') /\ Settled(tls')
  <1> DEFINE x == Opened(Polled)
             s == Wake(x, "write")
  <1>1. /\ tls' \in Then(tls__read_from_bio(s), tls__write_to_tcp)
        /\ queued' = queued /\ tls.sock = "open"
    BY DEF ConnDone, Becomes, Polls, Opened
  <1>2. Steady(Polled, queued) /\ Polled.sock = "open"
    BY <1>1, PolledSteady
  <1>3. Readable(x, queued)
    BY <1>2, OpenedReadable
  <1> HIDE DEF x
  <1>4. Aside(x, s) /\ s.fault = x.fault /\ Good(x, queued)
    BY <1>3, WakeKeeps, AsyncValues DEF Readable
  <1>5. Good(s, queued) /\ (Connected(s) <=> Connected(x)) /\ s.sock = x.sock
    BY <1>4, AsideKeeps
  <1>6. Readable(s, queued)
    BY <1>3, <1>4, <1>5 DEF Readable, Aside, SamePhase, SameQueues
  <1> HIDE DEF s
  <1>7. PICK t \in tls__read_from_bio(s) :
          tls' \in IF t.fault = None THEN tls__write_to_tcp(t) ELSE {t}
    BY <1>1 DEF Then
  <1> QED BY <1>1, <1>6, <1>7, ReadThenWrite

(***************************************************************************)
(* A request is queued                                                     *)
(***************************************************************************)

\* h is the history q with a request that was not in it.
Lengthened(q, h, r, b) ==
  /\ h \in Sends /\ Reqs(h) = Reqs(q) \cup {r}
  /\ \A x, y : x # r /\ Late(h, x, y) => Late(q, x, y)
  /\ \A x : ~Late(h, x, r)
  /\ \A y : Late(h, r, y) => \E i \in DOMAIN q : q[i].req = y /\ q[i].ready = b
  /\ \A i \in DOMAIN h :
       \/ i \in DOMAIN q /\ h[i] = q[i]
       \/ h[i].req = r /\ h[i].ready = b
  /\ \A i \in DOMAIN h : h[i].req = r => \A j \in DOMAIN h : j <= i

Longer(q, r, b) == Append(q, [req |-> r, ready |-> b])

\* A request at the end of the history is later than no other.
LEMMA LateAppend ==
  ASSUME NEW q \in Sends, NEW r \in Requests, NEW b \in BOOLEAN, r \notin Reqs(q)
  PROVE  Lengthened(q, Longer(q, r, b), r, b)
  <1> DEFINE h == Longer(q, r, b)
  <1> DEFINE e == [req |-> r, ready |-> b]
             n == Len(q)
  <1>1. /\ n \in Nat /\ DOMAIN q = 1..n /\ h \in Sends
        /\ Len(h) = n + 1 /\ DOMAIN h = 1..(n + 1)
        /\ h[n + 1] = e /\ \A i \in 1..n : h[i] = q[i]
    <2>1. q \in Seq([req : Requests, ready : BOOLEAN])
          /\ e \in [req : Requests, ready : BOOLEAN]
      BY DEF Sends
    <2>2. h = Append(q, e)
      BY DEF Longer
    <2> HIDE DEF e, h
    <2> QED BY <2>1, <2>2, AppendProperties, LenProperties DEF Sends
  <1>2. e.req = r /\ e.ready = b
    OBVIOUS
  <1> HIDE DEF e, n, h
  <1>3. \A i \in DOMAIN q : q[i].req # r
    BY DEF Reqs
  <1>4. \A i \in DOMAIN h : i \in DOMAIN q \/ i = n + 1
    BY <1>1
  <1>5. Reqs(h) = Reqs(q) \cup {r}
    <2>1. ASSUME NEW i \in DOMAIN h PROVE h[i].req \in Reqs(q) \cup {r}
      BY <1>1, <1>2, <1>4 DEF Reqs
    <2>2. ASSUME NEW i \in DOMAIN q PROVE q[i].req \in Reqs(h)
      <3>1. i \in DOMAIN h /\ h[i] = q[i]
        BY <1>1
      <3> QED BY <3>1 DEF Reqs
    <2>3. r \in Reqs(h)
      <3>1. n + 1 \in DOMAIN h
        BY <1>1
      <3> QED BY <1>1, <1>2, <3>1 DEF Reqs
    <2>4. Reqs(h) \subseteq Reqs(q) \cup {r}
      BY <2>1 DEF Reqs
    <2>5. Reqs(q) \subseteq Reqs(h)
      BY <2>2 DEF Reqs
    <2> QED BY <2>3, <2>4, <2>5
  <1>6. ASSUME NEW x, NEW y, Late(h, x, y)
        PROVE  /\ x # r => Late(q, x, y)
               /\ y # r
               /\ x = r => \E i \in DOMAIN q : q[i].req = y /\ q[i].ready = b
    <2>1. PICK i \in DOMAIN h, j \in DOMAIN h :
            i < j /\ h[i].ready = h[j].ready /\ x = h[j].req /\ y = h[i].req
      BY <1>6 DEF Late
    <2>2. i \in DOMAIN q /\ h[i] = q[i]
      BY <1>1, <2>1
    <2>3. y # r
      BY <1>3, <2>1, <2>2
    <2>4. CASE j \in DOMAIN q
      <3>1. h[j] = q[j]
        BY <1>1, <2>4
      <3>2. Late(q, x, y) /\ x # r
        BY <1>3, <2>1, <2>2, <2>4, <3>1 DEF Late
      <3> QED BY <2>3, <3>2
    <2>5. CASE j = n + 1
      <3>1. x = r /\ h[j].ready = b
        BY <1>1, <1>2, <2>1, <2>5
      <3> QED BY <2>1, <2>2, <2>3, <3>1
    <2> QED BY <1>4, <2>4, <2>5
  <1>7. \A i \in DOMAIN h :
          \/ i \in DOMAIN q /\ h[i] = q[i]
          \/ h[i].req = r /\ h[i].ready = b
    BY <1>1, <1>2, <1>4
  <1>8. \A i \in DOMAIN h : h[i].req = r => \A j \in DOMAIN h : j <= i
    BY <1>1, <1>2, <1>3, <1>4
  <1> QED BY <1>1, <1>5, <1>6, <1>7, <1>8 DEF Lengthened, h

\* No request is queued twice.
Distinct(q) == \A i, j \in DOMAIN q : q[i].req = q[j].req => i = j

\* The history stays without repetition.
LEMMA DistinctAppend ==
  ASSUME NEW q \in Sends, NEW r \in Requests, NEW b \in BOOLEAN, r \notin Reqs(q),
         Distinct(q), NEW h, Lengthened(q, h, r, b)
  PROVE  Distinct(h)
  <1>1. /\ \A i \in DOMAIN h :
             \/ i \in DOMAIN q /\ h[i] = q[i]
             \/ h[i].req = r /\ h[i].ready = b
        /\ \A i \in DOMAIN h : h[i].req = r => \A j \in DOMAIN h : j <= i
    BY DEF Lengthened
  <1>2. \A i \in DOMAIN q : q[i].req # r
    BY DEF Reqs
  <1>3. h \in Sends
    BY DEF Lengthened
  <1>4. DOMAIN h \subseteq Nat
    BY <1>3, LenProperties DEF Sends
  <1>5. ASSUME NEW i \in DOMAIN h, NEW j \in DOMAIN h, h[i].req = h[j].req
        PROVE  i = j
    <2>1. CASE h[i].req = r
      <3>1. j <= i /\ i <= j
        BY <1>1, <1>5, <2>1
      <3>2. i \in Nat /\ j \in Nat
        BY <1>4
      <3> QED BY <3>1, <3>2
    <2>2. CASE h[i].req # r
      BY <1>1, <1>5, <2>2 DEF Distinct
    <2> QED BY <2>1, <2>2
  <1> QED BY <1>5 DEF Distinct

\* The request joins one queue, at its end.
QueuedFields(s, u, w, c) ==
  /\ u \in Tls /\ SameBytes(s, u) /\ SamePhase(s, u) /\ u.fault = s.fault
  /\ u.conn_pending = c /\ u.write_wait = w
  /\ u.writing = s.writing /\ u.when_tcp_is_writing = s.when_tcp_is_writing
  /\ u.should_retry = s.should_retry /\ u.retry_wb = s.retry_wb
  /\ u.resp_pending = s.resp_pending /\ u.done = s.done

\* The fields of what a new request changes.
LEMMA QueuedRecord ==
  ASSUME NEW s \in Tls, NEW w \in Lines, NEW c \in Lines, NEW u,
         u = [s EXCEPT !.write_wait = w, !.conn_pending = c]
  PROVE  QueuedFields(s, u, w, c)
  <1>1. u \in Tls
    BY DEF Tls
  <1>2. SameBytes(s, u)
    BY DEF Tls, SameBytes
  <1>3. SamePhase(s, u) /\ u.fault = s.fault
    BY DEF Tls, SamePhase
  <1>4. /\ u.conn_pending = c /\ u.write_wait = w
        /\ u.writing = s.writing /\ u.when_tcp_is_writing = s.when_tcp_is_writing
        /\ u.should_retry = s.should_retry /\ u.retry_wb = s.retry_wb
    BY DEF Tls
  <1>5. u.resp_pending = s.resp_pending /\ u.done = s.done
    BY DEF Tls
  <1> QED BY <1>1, <1>2, <1>3, <1>4, <1>5 DEF QueuedFields

\* A request joins write_wait_queue in phase DONE, and conn_pending_queue
\* before.
LEMMA QueueFields ==
  ASSUME NEW s \in Tls, NEW r \in Requests
  PROVE  IF s.state = "DONE"
           THEN QueuedFields(s, Queue(s, r), Cat(s.write_wait, <<r>>), s.conn_pending)
           ELSE QueuedFields(s, Queue(s, r), s.write_wait, Cat(s.conn_pending, <<r>>))
  <1>0. s.write_wait \in Lines /\ s.conn_pending \in Lines /\ r \in Items
    BY Apartness DEF Tls
  <1>1. CASE s.state = "DONE"
    <2> DEFINE w == Append(s.write_wait, r)
               u == Queue(s, r)
    <2>1. w = Cat(s.write_wait, <<r>>) /\ w \in Lines
      BY <1>0, AppendCat
    <2>2. Queue(s, r) = [s EXCEPT !.write_wait = w]
      BY <1>1 DEF Queue
    <2> HIDE DEF w, u
    <2>3. u = [s EXCEPT !.write_wait = w, !.conn_pending = s.conn_pending]
      BY <1>0, <2>1, <2>2 DEF Tls, u
    <2>4. QueuedFields(s, u, w, s.conn_pending)
      BY <1>0, <2>1, <2>3, QueuedRecord
    <2> QED BY <1>1, <2>1, <2>4 DEF u
  <1>2. CASE s.state # "DONE"
    <2> DEFINE c == Append(s.conn_pending, r)
               u == Queue(s, r)
    <2>1. c = Cat(s.conn_pending, <<r>>) /\ c \in Lines
      BY <1>0, AppendCat
    <2>2. Queue(s, r) = [s EXCEPT !.conn_pending = c]
      BY <1>2 DEF Queue
    <2> HIDE DEF c, u
    <2>3. u = [s EXCEPT !.write_wait = s.write_wait, !.conn_pending = c]
      BY <1>0, <2>1, <2>2 DEF Tls, u
    <2>4. QueuedFields(s, u, s.write_wait, c)
      BY <1>0, <2>1, <2>3, QueuedRecord
    <2> QED BY <1>2, <2>1, <2>4 DEF u
  <1> QED BY <1>1, <1>2

\* The queue that the request does not join is the same, and of the other it
\* is the last.
LEMMA QueueKeeps ==
  ASSUME NEW s, NEW q \in Sends, Steady(s, q), NEW r \in Requests, r \notin Reqs(q),
         NEW h, Lengthened(q, h, r, s.state = "DONE")
  PROVE  Steady(Queue(s, r), h)
  <1> DEFINE u == Queue(s, r)
             b == s.state = "DONE"
  <1>0. /\ s \in Tls /\ Good(s, q) /\ Control(s) /\ Fits(s) /\ s.fault = None
        /\ Orders(s, q) /\ Held(s, q) /\ Working(s) /\ Quiet(s) /\ Flowing(s)
    BY DEF Steady, Good
  <1>1. /\ h \in Sends /\ Reqs(h) = Reqs(q) \cup {r}
        /\ \A x, y : x # r /\ Late(h, x, y) => Late(q, x, y)
        /\ \A x : ~Late(h, x, r)
        /\ \A y : Late(h, r, y) =>
              \E i \in DOMAIN q : q[i].req = y /\ q[i].ready = b
        /\ \A i \in DOMAIN h :
             \/ i \in DOMAIN q /\ h[i] = q[i]
             \/ h[i].req = r /\ h[i].ready = b
    BY DEF Lengthened
  \* The request is nowhere yet.
  <1>2. /\ r \notin Places(s) /\ r \notin Range(s.made) /\ r # s.retry_wb
        /\ r \notin Range(s.write_wait) /\ r \notin Range(s.conn_pending)
    BY <1>0 DEF Held, Orders, Places
  <1>3. \A A, B : r \notin A /\ Before(q, A, B) => Before(h, A, B \cup {r})
    BY <1>1 DEF Before
  <1>4. \A A, B : r \notin A /\ Before(q, A, B) => Before(h, A, B)
    BY <1>1 DEF Before
  <1>5. \A seq : r \notin Range(seq) /\ Ordered(q, seq) => Ordered(h, seq)
    <2> SUFFICES ASSUME NEW seq, r \notin Range(seq), Ordered(q, seq),
                        NEW i \in DOMAIN seq, NEW j \in DOMAIN seq, i < j
                 PROVE  ~Late(h, seq[i], seq[j])
      BY DEF Ordered
    <2>1. seq[i] # r
      BY DEF Range
    <2> QED BY <1>1, <2>1 DEF Ordered
  <1>6. /\ s.write_wait \in Streams /\ s.conn_pending \in Streams
        /\ <<r>> \in Streams /\ Range(<<r>>) = {r}
    <2>1. s.write_wait \in Lines /\ s.conn_pending \in Lines /\ r \in Items
      BY <1>0, Apartness DEF Tls
    <2> QED BY <2>1, OneElement, Inclusions
  \* What joins a queue that has the invariants
  <1>7. ASSUME NEW a \in Streams, r \notin Range(a), Ordered(q, a), Once(a)
        PROVE  /\ Range(Cat(a, <<r>>)) = Range(a) \cup {r}
               /\ Ordered(h, Cat(a, <<r>>)) /\ Once(Cat(a, <<r>>))
    <2>1. Range(Cat(a, <<r>>)) = Range(a) \cup {r}
      BY <1>6, <1>7, RangeCat
    <2>2. Ordered(h, a) /\ Ordered(h, <<r>>) /\ Once(<<r>>)
      BY <1>5, <1>7, ShortSequences
    <2>3. Before(h, Range(a), Range(<<r>>))
      BY <1>1, <1>6 DEF Before
    <2>4. Ordered(h, Cat(a, <<r>>))
      BY <1>6, <1>7, <2>2, <2>3, OrderedCat
    <2>5. Range(a) \cap Range(<<r>>) \cap Requests = {}
      BY <1>6, <1>7
    <2>6. Once(Cat(a, <<r>>))
      BY <1>6, <1>7, <2>2, <2>5, OnceCat
    <2> QED BY <2>1, <2>4, <2>6
  <1>q. IF b THEN QueuedFields(s, u, Cat(s.write_wait, <<r>>), s.conn_pending)
             ELSE QueuedFields(s, u, s.write_wait, Cat(s.conn_pending, <<r>>))
    BY <1>0, QueueFields
  <1> HIDE DEF u
  <1>8. /\ u \in Tls /\ SameBytes(s, u) /\ SamePhase(s, u) /\ u.fault = s.fault
        /\ u.writing = s.writing /\ u.when_tcp_is_writing = s.when_tcp_is_writing
        /\ u.should_retry = s.should_retry /\ u.retry_wb = s.retry_wb
        /\ u.resp_pending = s.resp_pending /\ u.done = s.done
    <2>1. CASE b
      BY <1>q, <2>1 DEF QueuedFields
    <2>2. CASE ~b
      BY <1>q, <2>2 DEF QueuedFields
    <2> QED BY <2>1, <2>2
  <1>9. \/ /\ b /\ u.conn_pending = s.conn_pending
           /\ Range(u.write_wait) = Range(s.write_wait) \cup {r}
           /\ Ordered(h, u.write_wait) /\ Once(u.write_wait)
           /\ Ordered(h, u.conn_pending) /\ Once(u.conn_pending)
        \/ /\ ~b /\ u.write_wait = s.write_wait
           /\ Range(u.conn_pending) = Range(s.conn_pending) \cup {r}
           /\ Ordered(h, u.write_wait) /\ Once(u.write_wait)
           /\ Ordered(h, u.conn_pending) /\ Once(u.conn_pending)
    <2>0. /\ Ordered(q, s.write_wait) /\ Ordered(q, s.conn_pending)
          /\ Once(s.write_wait) /\ Once(s.conn_pending)
      BY <1>0 DEF Orders, Held
    <2>1. CASE b
      <3>1. u.conn_pending = s.conn_pending
            /\ u.write_wait = Cat(s.write_wait, <<r>>)
        BY <1>q, <2>1 DEF QueuedFields
      <3>2. Ordered(h, s.conn_pending)
        BY <1>2, <1>5, <2>0
      <3> QED BY <1>2, <1>6, <1>7, <2>0, <2>1, <3>1, <3>2
    <2>2. CASE ~b
      <3>1. u.write_wait = s.write_wait
            /\ u.conn_pending = Cat(s.conn_pending, <<r>>)
        BY <1>q, <2>2 DEF QueuedFields
      <3>2. Ordered(h, s.write_wait)
        BY <1>2, <1>5, <2>0
      <3> QED BY <1>2, <1>6, <1>7, <2>0, <2>2, <3>1, <3>2
    <2> QED BY <2>1, <2>2
  <1>10. Connected(u) <=> Connected(s)
    BY <1>8 DEF SamePhase, Connected
  <1>11. Control(u)
    <2>1. ~Connected(s) => u.write_wait = s.write_wait
      BY <1>9 DEF Connected
    <2> QED BY <1>0, <1>8, <1>10, <2>1 DEF Control, SamePhase, SameBytes
  <1>12. Held(u, h)
    <2>1. ASSUME NEW x \in Requests
          PROVE  /\ OnePlace(u, x)
                 /\ x \in Places(u) => x \in Reqs(h)
                 /\ x \in Reqs(h) => x \in Places(u) \cup u.done
      <3>1. /\ OnePlace(s, x)
            /\ x \in Places(s) => x \in Reqs(q)
            /\ x \in Reqs(q) => x \in Places(s) \cup s.done
        BY <1>0 DEF Held
      <3>2. CASE x = r
        <4>1. /\ r \notin Range(s.writing) /\ r \notin Range(s.when_tcp_is_writing)
              /\ r # s.should_retry /\ r \notin s.resp_pending
          BY <1>2 DEF Places
        <4>2. OnePlace(u, r)
          BY <1>2, <1>8, <1>9, <4>1 DEF OnePlace
        <4>3. r \in Places(u) /\ r \in Reqs(h)
          BY <1>1, <1>9 DEF Places
        <4> QED BY <3>2, <4>2, <4>3
      <3>3. CASE x # r
        <4>1. /\ x \in Range(u.write_wait) <=> x \in Range(s.write_wait)
              /\ x \in Range(u.conn_pending) <=> x \in Range(s.conn_pending)
          BY <1>9, <3>3
        <4>2. OnePlace(u, x)
          BY <1>8, <3>1, <4>1 DEF OnePlace
        <4>3. x \in Places(u) <=> x \in Places(s)
          BY <1>8, <4>1 DEF Places
        <4> QED BY <1>1, <1>8, <3>1, <3>3, <4>2, <4>3
      <3> QED BY <3>2, <3>3
    <2>2. Once(u.write_wait) /\ Once(u.conn_pending)
      BY <1>9
    <2> QED BY <2>1, <2>2 DEF Held
  <1>13. Orders(u, h)
    <2>0. /\ Before(q, Range(s.made), {s.retry_wb})
          /\ Before(q, Range(s.made), Range(s.write_wait))
          /\ Before(q, Range(s.made), Range(s.conn_pending))
          /\ Before(q, {s.retry_wb}, Range(s.write_wait))
          /\ Before(q, {s.retry_wb}, Range(s.conn_pending))
          /\ Before(q, Range(s.write_wait), Range(s.conn_pending))
          /\ Ordered(q, s.made)
      BY <1>0 DEF Orders
    <2>1. u.made = s.made /\ u.retry_wb = s.retry_wb /\ r \notin {s.retry_wb}
      BY <1>2, <1>8 DEF SameBytes
    <2>2. Ordered(h, u.made) /\ Before(h, Range(u.made), {u.retry_wb})
      BY <1>2, <1>4, <1>5, <2>0, <2>1
    <2>3. /\ Before(h, Range(u.made), Range(u.write_wait))
          /\ Before(h, Range(u.made), Range(u.conn_pending))
      <3>1. CASE b
        BY <1>2, <1>3, <1>4, <1>9, <2>0, <2>1, <3>1
      <3>2. CASE ~b
        BY <1>2, <1>3, <1>4, <1>9, <2>0, <2>1, <3>2
      <3> QED BY <3>1, <3>2
    <2>4. /\ Before(h, {u.retry_wb}, Range(u.write_wait))
          /\ Before(h, {u.retry_wb}, Range(u.conn_pending))
      <3>1. CASE b
        BY <1>2, <1>3, <1>4, <1>9, <2>0, <2>1, <3>1
      <3>2. CASE ~b
        BY <1>2, <1>3, <1>4, <1>9, <2>0, <2>1, <3>2
      <3> QED BY <3>1, <3>2
    \* What still waits for the connection was queued before it was ready.
    <2>5. Before(h, Range(u.write_wait), Range(u.conn_pending))
      <3>1. CASE b
        <4>1. ASSUME NEW y \in Range(s.conn_pending), Late(h, r, y) PROVE FALSE
          <5>1. PICK i \in DOMAIN q : q[i].req = y /\ q[i].ready = b
            BY <1>1, <4>1
          <5>2. ~q[i].ready
            BY <1>0, <4>1, <5>1 DEF Orders
          <5> QED BY <3>1, <5>1, <5>2
        <4>2. Before(h, {r}, Range(s.conn_pending))
          BY <4>1 DEF Before
        <4>3. Before(h, Range(s.write_wait), Range(s.conn_pending))
          BY <1>2, <1>4, <2>0
        <4>4. Before(h, Range(s.write_wait) \cup {r}, Range(s.conn_pending))
          BY <4>2, <4>3, BeforeUnion
        <4> QED BY <1>9, <3>1, <4>4
      <3>2. CASE ~b
        BY <1>2, <1>3, <1>9, <2>0, <3>2
      <3> QED BY <3>1, <3>2
    <2>6. Ordered(h, u.write_wait) /\ Ordered(h, u.conn_pending)
      BY <1>9
    <2>7. ASSUME NEW i \in DOMAIN h, h[i].req \in Range(u.conn_pending)
          PROVE  ~h[i].ready
      <3>0. \A k \in DOMAIN q : q[k].req \in Range(s.conn_pending) => ~q[k].ready
        BY <1>0 DEF Orders
      <3>1. CASE h[i].req = r
        <4>1. ~b
          BY <1>2, <1>9, <2>7, <3>1
        <4>2. h[i].ready = b
          <5>1. \A k \in DOMAIN q : q[k].req # r
            BY DEF Reqs
          <5> QED BY <1>1, <3>1, <5>1
        <4> QED BY <4>1, <4>2
      <3>2. CASE h[i].req # r
        <4>1. i \in DOMAIN q /\ h[i] = q[i]
          BY <1>1, <3>2
        <4>2. h[i].req \in Range(s.conn_pending)
          BY <1>9, <2>7, <3>2
        <4> QED BY <3>0, <4>1, <4>2
      <3> QED BY <3>1, <3>2
    <2>8. /\ Range(u.made) \cap Requests \subseteq Reqs(h)
          /\ u.retry_wb \in Requests => u.retry_wb \in Reqs(h)
      BY <1>0, <1>1, <2>1 DEF Orders
    <2> QED BY <2>2, <2>3, <2>4, <2>5, <2>6, <2>7, <2>8 DEF Orders
  <1>14. Fits(u)
    BY <1>0, <1>8, FitsFor DEF SameBytes
  <1>15. Wires(s) => Wires(u)
    BY <1>8, WiresKept DEF SamePhase
  <1>16. Good(u, h)
    BY <1>0, <1>8, <1>11, <1>12, <1>13, <1>14, <1>15 DEF Good
  <1>17. Working(u) /\ Quiet(u) /\ Flowing(u) /\ u.fault = None
    BY <1>0, <1>8, <1>10 DEF Working, Quiet, Flowing, SamePhase, SameBytes
  <1> QED BY <1>16, <1>17 DEF Steady, u

\* tr_uv_tcp_send keeps the invariant: the new request is later than the
\* others.
LEMMA SendSettles ==
  ASSUME Steady(tls, queued), queued \in Sends, Distinct(queued),
         NEW r \in Requests, Send(r)
  PROVE  Steady(tls', queued') /\ queued' \in Sends /\ Distinct(queued')
  <1>1. /\ tls' = Wake(Queue(tls, r), "write")
        /\ queued' = Longer(queued, r, tls.state = "DONE")
        /\ \A i \in DOMAIN queued : queued[i].req # r
    BY DEF Send, Longer
  <1>2. r \notin Reqs(queued)
    BY <1>1 DEF Reqs
  <1>3. PICK b \in BOOLEAN : b = (tls.state = "DONE")
    OBVIOUS
  <1>4. Lengthened(queued, queued', r, b)
    BY <1>1, <1>2, <1>3, LateAppend
  <1>5. Steady(Queue(tls, r), queued')
    BY <1>2, <1>3, <1>4, QueueKeeps
  <1>6. Steady(tls', queued')
    BY <1>1, <1>5, AsyncValues, WakeSteady
  <1>7. queued' \in Sends /\ Distinct(queued')
    BY <1>2, <1>4, DistinctAppend DEF Lengthened
  <1> QED BY <1>6, <1>7

(***************************************************************************)
(* The timeout check                                                       *)
(***************************************************************************)

\* A sequence that holds nothing is empty.
LEMMA EmptyRange ==
  ASSUME NEW a \in Lines, Range(a) = {}
  PROVE  a = <<>>
  <1>1. Len(a) \in Nat /\ DOMAIN a = 1..Len(a) /\ a \in Seq(Items)
    BY LenProperties DEF Lines
  <1>2. SUFFICES ASSUME Len(a) # 0 PROVE FALSE
    BY <1>1, EmptySeq
  <1>3. 1 \in DOMAIN a
    BY <1>1, <1>2
  <1>4. a[1] \in Range(a)
    BY <1>3 DEF Range
  <1> QED BY <1>4

CheckedFields(s, u, late) ==
  /\ u \in Tls /\ SameBytes(s, u) /\ SamePhase(s, u) /\ u.fault = s.fault
  /\ u.conn_pending = Keep(s.conn_pending, late)
  /\ u.write_wait = Keep(s.write_wait, late)
  /\ u.when_tcp_is_writing = Keep(s.when_tcp_is_writing, late)
  /\ u.writing = s.writing /\ u.retry_wb = s.retry_wb
  /\ u.should_retry = (IF s.should_retry \in late THEN None ELSE s.should_retry)
  /\ u.resp_pending = s.resp_pending \ late
  /\ u.done = s.done \cup late

CheckedTo(s, late, m) ==
  [Answer(s, late) EXCEPT
     !.should_retry = IF @ \in late THEN None ELSE @,
     !.when_tcp_is_writing = Keep(@, late),
     !.conn_pending = Keep(@, late),
     !.write_wait = Keep(@, late),
     !.resp_pending = @ \ late,
     !.timers = m]

\* The fields of what the check leaves.
LEMMA CheckedRecord ==
  ASSUME NEW s \in Tls, NEW late \in SUBSET Requests, NEW m \in TimerSets
  PROVE  CheckedFields(s, CheckedTo(s, late, m), late)
  <1> DEFINE u == CheckedTo(s, late, m)
  <1> DEFINE k == IF s.should_retry \in late THEN None ELSE s.should_retry
             a == Keep(s.when_tcp_is_writing, late)
             b == Keep(s.conn_pending, late)
             c == Keep(s.write_wait, late)
             p == s.resp_pending \ late
             d == s.done \cup late
  <1>1. u = [s EXCEPT !.done = d, !.should_retry = k, !.when_tcp_is_writing = a,
                      !.conn_pending = b, !.write_wait = c, !.resp_pending = p,
                      !.timers = m]
    <2>1. late \cap Requests = late
      OBVIOUS
    <2>2. Answer(s, late) = [s EXCEPT !.done = d]
      BY <2>1 DEF Answer
    <2> DEFINE y == [s EXCEPT !.done = d]
    <2>3. /\ y.should_retry = s.should_retry /\ y.resp_pending = s.resp_pending
          /\ y.when_tcp_is_writing = s.when_tcp_is_writing
          /\ y.conn_pending = s.conn_pending /\ y.write_wait = s.write_wait
      BY DEF Tls
    <2>4. u = [y EXCEPT !.should_retry = IF y.should_retry \in late THEN None
                                         ELSE y.should_retry,
                 !.when_tcp_is_writing = Keep(y.when_tcp_is_writing, late),
                 !.conn_pending = Keep(y.conn_pending, late),
                 !.write_wait = Keep(y.write_wait, late),
                 !.resp_pending = y.resp_pending \ late,
                 !.timers = m]
      BY <2>2, Zenon DEF CheckedTo
    <2>5. u = [y EXCEPT !.should_retry = k, !.when_tcp_is_writing = a,
                        !.conn_pending = b, !.write_wait = c, !.resp_pending = p,
                        !.timers = m]
      BY <2>3, <2>4, Zenon
    <2> HIDE DEF k, a, b, c, p, d
    <2> QED BY <2>5 DEF Tls
  <1>2. s.when_tcp_is_writing \in Lines /\ s.conn_pending \in Lines
        /\ s.write_wait \in Lines
    BY DEF Tls
  <1>3. a \in Lines /\ b \in Lines /\ c \in Lines
    BY <1>2, KeepKeeps
  <1>4. k \in Retries /\ p \in RequestSets /\ d \in RequestSets
    <2>1. s.should_retry \in Retries /\ s.resp_pending \in RequestSets
          /\ s.done \in RequestSets
      BY DEF Tls
    <2> QED BY <2>1, NoneValues DEF RequestSets
  <1>5. /\ k = (IF s.should_retry \in late THEN None ELSE s.should_retry)
        /\ a = Keep(s.when_tcp_is_writing, late) /\ b = Keep(s.conn_pending, late)
        /\ c = Keep(s.write_wait, late)
        /\ p = s.resp_pending \ late /\ d = s.done \cup late
    OBVIOUS
  <1> HIDE DEF k, a, b, c, p, d, u
  <1>6. CheckedFields(s, u, late)
    <2>e. u = [s EXCEPT !.done = d, !.should_retry = k, !.when_tcp_is_writing = a,
                      !.conn_pending = b, !.write_wait = c, !.resp_pending = p,
                      !.timers = m]
      BY <1>1
    <2>1. u \in Tls
      BY <2>e, <1>3, <1>4 DEF Tls
    <2>2. SameBytes(s, u)
      BY <2>e DEF Tls, SameBytes
    <2>3. SamePhase(s, u) /\ u.fault = s.fault
      BY <2>e DEF Tls, SamePhase
    <2>4. u.conn_pending = b /\ u.write_wait = c /\ u.when_tcp_is_writing = a
      BY <2>e DEF Tls
    <2>5. u.writing = s.writing /\ u.retry_wb = s.retry_wb /\ u.should_retry = k
      BY <2>e DEF Tls
    <2>6. u.resp_pending = p /\ u.done = d
      BY <2>e DEF Tls
    <2> QED BY <1>5, <2>1, <2>2, <2>3, <2>4, <2>5, <2>6 DEF CheckedFields
  <1> QED BY <1>6 DEF u

\* The late items are reported and taken out, the others keep their order.
LEMMA CheckedSteady ==
  ASSUME NEW s, NEW q \in Sends, Steady(s, q), NEW late \in SUBSET Requests, NEW u,
         CheckedFields(s, u, late)
  PROVE  Steady(u, q)
  <1>0. /\ s \in Tls /\ Good(s, q) /\ Control(s) /\ Fits(s) /\ s.fault = None
        /\ Orders(s, q) /\ Held(s, q) /\ Working(s) /\ Quiet(s) /\ Flowing(s)
    BY DEF Steady, Good
  <1>1. s.when_tcp_is_writing \in Lines /\ s.conn_pending \in Lines
        /\ s.write_wait \in Lines
    BY <1>0 DEF Tls
  <1>2. /\ u \in Tls /\ SameBytes(s, u) /\ SamePhase(s, u) /\ u.fault = s.fault
        /\ u.writing = s.writing /\ u.retry_wb = s.retry_wb
        /\ u.should_retry = (IF s.should_retry \in late THEN None ELSE s.should_retry)
        /\ u.resp_pending = s.resp_pending \ late
        /\ u.done = s.done \cup late
    BY DEF CheckedFields
  <1>3. /\ Range(u.conn_pending) = Range(s.conn_pending) \ late
        /\ Range(u.write_wait) = Range(s.write_wait) \ late
        /\ Range(u.when_tcp_is_writing) = Range(s.when_tcp_is_writing) \ late
    BY <1>1, KeepKeeps DEF CheckedFields
  <1>4. /\ Once(s.conn_pending) => Once(u.conn_pending)
        /\ Once(s.write_wait) => Once(u.write_wait)
        /\ Ordered(q, s.conn_pending) => Ordered(q, u.conn_pending)
        /\ Ordered(q, s.write_wait) => Ordered(q, u.write_wait)
    BY <1>1, KeepKeeps DEF CheckedFields
  <1>5. /\ s.write_wait = <<>> => u.write_wait = <<>>
        /\ s.when_tcp_is_writing = <<>> => u.when_tcp_is_writing = <<>>
    <2>1. u.write_wait \in Lines /\ u.when_tcp_is_writing \in Lines
      BY <1>2 DEF Tls
    <2>2. Range(<<>>) = {}
      BY CatEmpty
    <2>3. /\ s.write_wait = <<>> => Range(u.write_wait) = {}
          /\ s.when_tcp_is_writing = <<>> => Range(u.when_tcp_is_writing) = {}
      BY <1>3, <2>2
    <2> QED BY <2>1, <2>3, EmptyRange
  <1>6. u.should_retry \in {s.should_retry, None}
    BY <1>2
  <1>7. Connected(u) <=> Connected(s)
    BY <1>2 DEF SamePhase, Connected
  <1>8. Control(u)
    BY <1>0, <1>2, <1>5, <1>6, <1>7 DEF Control, SamePhase, SameBytes
  <1>9. Held(u, q)
    <2>1. ASSUME NEW r \in Requests
          PROVE  /\ OnePlace(u, r)
                 /\ r \in Places(u) => r \in Reqs(q)
                 /\ r \in Reqs(q) => r \in Places(u) \cup u.done
      <3>1. /\ OnePlace(s, r)
            /\ r \in Places(s) => r \in Reqs(q)
            /\ r \in Reqs(q) => r \in Places(s) \cup s.done
        BY <1>0 DEF Held
      <3>2. r # None
        BY Apartness
      <3>3. r = u.should_retry => r = s.should_retry
        BY <1>6, <3>2
      <3>4. OnePlace(u, r)
        BY <1>2, <1>3, <3>1, <3>3 DEF OnePlace
      <3>5. r \in Places(u) => r \in Places(s)
        BY <1>2, <1>3, <3>3 DEF Places
      <3>6. CASE r \in late
        BY <1>2, <3>1, <3>4, <3>5, <3>6
      <3>7. CASE r \notin late
        <4>1. r = s.should_retry => r = u.should_retry
          BY <1>2, <3>7
        <4>2. r \in Places(s) => r \in Places(u)
          BY <1>2, <1>3, <3>7, <4>1 DEF Places
        <4> QED BY <1>2, <3>1, <3>4, <3>5, <4>2
      <3> QED BY <3>6, <3>7
    <2>2. Once(u.write_wait) /\ Once(u.conn_pending)
      BY <1>0, <1>4 DEF Held
    <2> QED BY <2>1, <2>2 DEF Held
  <1>10. Orders(u, q)
    <2>1. u.made = s.made /\ u.retry_wb = s.retry_wb
      BY <1>2 DEF SameBytes
    <2>2. Range(u.write_wait) \subseteq Range(s.write_wait)
          /\ Range(u.conn_pending) \subseteq Range(s.conn_pending)
      BY <1>3
    <2>3. \A A, B, C, D : Before(q, A, B) /\ C \subseteq A /\ D \subseteq B
                            => Before(q, C, D)
      BY DEF Before
    <2>4. /\ Before(q, Range(u.made), {u.retry_wb})
          /\ Before(q, Range(u.made), Range(u.write_wait))
          /\ Before(q, Range(u.made), Range(u.conn_pending))
      BY <1>0, <2>1, <2>2, <2>3 DEF Orders
    <2>5. /\ Before(q, {u.retry_wb}, Range(u.write_wait))
          /\ Before(q, {u.retry_wb}, Range(u.conn_pending))
          /\ Before(q, Range(u.write_wait), Range(u.conn_pending))
      BY <1>0, <2>1, <2>2, <2>3 DEF Orders
    <2>6. /\ Ordered(q, u.made) /\ Ordered(q, u.write_wait)
          /\ Ordered(q, u.conn_pending)
      BY <1>0, <1>4, <2>1 DEF Orders
    <2>7. \A i \in DOMAIN q : q[i].req \in Range(u.conn_pending) => ~q[i].ready
      BY <1>0, <2>2 DEF Orders
    <2>8. /\ Range(u.made) \cap Requests \subseteq Reqs(q)
          /\ u.retry_wb \in Requests => u.retry_wb \in Reqs(q)
      BY <1>0, <2>1 DEF Orders
    <2> QED BY <2>4, <2>5, <2>6, <2>7, <2>8 DEF Orders
  <1>11. Fits(u)
    BY <1>0, <1>2, FitsFor DEF SameBytes
  <1>12. Wires(s) => Wires(u)
    BY <1>2, WiresKept DEF SamePhase
  <1>13. Good(u, q)
    BY <1>0, <1>2, <1>8, <1>9, <1>10, <1>11, <1>12 DEF Good
  <1>14. Working(u) /\ Quiet(u) /\ Flowing(u) /\ u.fault = None
    BY <1>0, <1>2, <1>6, <1>7 DEF Working, Quiet, Flowing, SamePhase, SameBytes
  <1> QED BY <1>13, <1>14 DEF Steady

\* The timeout check keeps the invariant.
LEMMA CheckTimerSettles ==
  ASSUME Steady(tls, queued), queued \in Sends, CheckTimer
  PROVE  Steady(tls', queued')
  <1> DEFINE checked == Timed \cap (Range(tls.when_tcp_is_writing)
                          \cup Range(tls.conn_pending) \cup Range(tls.write_wait)
                          \cup tls.resp_pending)
  <1>1. PICK late \in SUBSET (checked \cup ({tls.should_retry} \cap Timed)) :
          tls' = [Answer(Polled, late) EXCEPT
                 !.should_retry = IF @ \in late THEN None ELSE @,
                 !.when_tcp_is_writing = Keep(@, late),
                 !.conn_pending = Keep(@, late),
                 !.write_wait = Keep(@, late),
                 !.resp_pending = @ \ late,
                 !.timers = IF checked \subseteq late THEN @ \ {"check"} ELSE @]
    BY Zenon DEF CheckTimer
  <1>2. late \in SUBSET Requests
    BY TlsAssumption
  <1> DEFINE y == Answer(Polled, late)
             m == IF checked \subseteq late THEN y.timers \ {"check"} ELSE y.timers
  <1>3. Steady(Polled, queued) /\ Polled \in Tls
    BY PolledSteady DEF Steady, Good
  <1>4. m \in TimerSets
    <2>1. y.timers = Polled.timers
      BY <1>3 DEF Answer, Tls
    <2>2. Polled.timers \in TimerSets
      BY <1>3 DEF Tls
    <2> HIDE DEF y
    <2> QED BY <2>1, <2>2 DEF TimerSets
  <1>5. tls' = CheckedTo(Polled, late, m)
    BY <1>1, Zenon DEF CheckedTo
  <1> HIDE DEF m, checked, y
  <1>6. CheckedFields(Polled, tls', late)
    BY <1>2, <1>3, <1>4, <1>5, CheckedRecord
  <1>7. queued' = queued
    BY DEF CheckTimer
  <1> QED BY <1>2, <1>3, <1>6, <1>7, CheckedSteady

(***************************************************************************)
(* The inductive invariant                                                 *)
(***************************************************************************)

TlsInv ==
  /\ queued \in Sends /\ Distinct(queued)
  /\ Good(tls, queued) /\ Settled(tls)

\* The initial state has its types.
LEMMA InitTyped ==
  ASSUME Init
  PROVE  tls \in Tls /\ queued \in Sends /\ Distinct(queued)
  <1>1. /\ FALSE \in Flags /\ "NOT_CONN" \in States /\ "none" \in Socks
        /\ "INITED" \in ClientStates /\ "before" \in SslStates
        /\ <<>> \in Lines /\ <<>> \in Produced /\ <<>> \in Streams
        /\ {} \in TimerSets /\ {} \in AsyncSets /\ {} \in RequestSets
        /\ {} \in ReplySets /\ None \in Inputs /\ None \in Retries
        /\ None \in Failures /\ 0 \in Counts /\ 0 \in Ranks /\ <<1, 0>> \in Spans
    BY FlagValues, StateValues, SockValues, ClientValues, SslValues, CatEmpty,
       EmptySets, NoneValues, Zeros
  <1>2. tls \in Tls
    BY <1>1 DEF Init, Tls
  <1>3. queued = <<>>
    BY DEF Init
  <1>4. queued \in Sends
    BY <1>3, EmptySeq DEF Sends
  <1>5. DOMAIN queued = {}
    BY <1>3
  <1> QED BY <1>2, <1>4, <1>5 DEF Distinct

\* The initial state is good.
LEMMA InitGood ==
  ASSUME Init
  PROVE  Good(tls, queued) /\ Settled(tls)
  <1>1. tls \in Tls /\ queued \in Sends
    BY InitTyped
  <1>2. /\ tls.state = "NOT_CONN" /\ tls.sock = "none" /\ tls.is_connecting = FALSE
        /\ tls.is_writing = FALSE /\ tls.ssl = "before" /\ tls.in = None
        /\ tls.fault = None
    BY DEF Init
  <1>3. /\ tls.conn_pending = <<>> /\ tls.write_wait = <<>> /\ tls.writing = <<>>
        /\ tls.resp_pending = {} /\ tls.when_tcp_is_writing = <<>>
        /\ tls.should_retry = None /\ tls.retry_wb = None
    BY DEF Init
  <1>4. /\ tls.mem = <<>> /\ tls.out = 0 /\ tls.left = <<1, 0>>
        /\ tls.made = <<>> /\ tls.wire = <<>>
    BY DEF Init
  <1>5. queued = <<>>
    BY DEF Init
  <1>6. ~Connected(tls)
    BY <1>2 DEF Connected
  <1>7. Control(tls)
    BY <1>2, <1>3, <1>4, <1>6, TlsAssumption DEF Control, Faults
  <1>8. tls.left[1] = 1 /\ tls.left[2] = 0
    BY <1>4
  <1>9. Fits(tls)
    BY <1>4, <1>8, CatEmpty DEF Fits
  <1>10. Out(tls) = <<>> /\ Range(<<>>) = {}
    BY <1>4, OutEmpty, CatEmpty
  <1>11. Wires(tls)
    BY <1>4, <1>6, <1>8, <1>10 DEF Wires
  <1>12. DOMAIN queued = {} /\ Reqs(queued) = {}
    BY <1>5 DEF Reqs
  <1>13. Orders(tls, queued)
    <2>1. Ordered(queued, <<>>)
      BY ShortSequences
    <2>2. \A A, B : Before(queued, A, B)
      BY <1>12 DEF Before, Late
    <2>3. None \notin Requests
      BY Apartness
    <2> QED BY <1>3, <1>4, <1>10, <1>12, <2>1, <2>2, <2>3 DEF Orders
  <1>14. Held(tls, queued)
    <2>1. Once(<<>>)
      BY ShortSequences
    <2>2. Places(tls) = {None}
      BY <1>3, <1>10 DEF Places
    <2>3. ASSUME NEW r \in Requests
          PROVE  OnePlace(tls, r) /\ r \notin Places(tls)
      <3>1. r # None
        BY Apartness
      <3> QED BY <1>3, <1>10, <2>2, <3>1 DEF OnePlace
    <2> QED BY <1>3, <1>12, <2>1, <2>3 DEF Held
  <1>15. Good(tls, queued)
    BY <1>1, <1>7, <1>9, <1>11, <1>13, <1>14 DEF Good
  <1>16. Settled(tls)
    BY <1>2, <1>3, <1>4, <1>6 DEF Settled, Working, Quiet, Flowing
  <1> QED BY <1>15, <1>16

\* The invariant holds at the start.
LEMMA TlsInit == Init => TlsInv
  BY InitTyped, InitGood DEF TlsInv

\* What each of the callbacks and operations leaves, one step per action
LEMMA TlsStep ==
  ASSUME TlsInv, Next
  PROVE  TlsInv'
  <1>0. /\ queued \in Sends /\ Distinct(queued)
        /\ Good(tls, queued) /\ Settled(tls)
    BY DEF TlsInv
  <1>1. ASSUME Running PROVE Steady(tls, queued)
    BY <1>0, <1>1, StepsSteady
  <1>2. ASSUME queued' = queued, Good(tls', queued') /\ Settled(tls')
        PROVE  TlsInv'
    BY <1>0, <1>2 DEF TlsInv
  <1>3. ASSUME queued' = queued, Steady(tls', queued')
        PROVE  TlsInv'
    BY <1>2, <1>3, SteadySettled
  <1>4. CASE Connect
    BY <1>1, <1>3, <1>4, ConnectSettles DEF Connect
  <1>5. CASE Disconnect
    BY <1>1, <1>3, <1>5, DisconnectSettles DEF Disconnect
  <1>6. CASE Cleanup
    BY <1>1, <1>3, <1>6, CleanupSettles DEF Cleanup
  <1>7. ASSUME NEW r \in Requests, Send(r)
        PROVE  TlsInv'
    <2>1. Steady(tls', queued') /\ queued' \in Sends /\ Distinct(queued')
      BY <1>0, <1>1, <1>7, SendSettles DEF Send
    <2> QED BY <2>1, SteadySettled DEF TlsInv
  <1>8. CASE ConnAsync
    BY <1>0, <1>1, <1>2, <1>8, ConnAsyncSettles DEF ConnAsync, Serves, Becomes
  <1>9. CASE WriteAsync
    BY <1>0, <1>1, <1>2, <1>9, WriteAsyncSettles DEF WriteAsync, Serves, Becomes
  <1>10. CASE DisconnectAsync
    BY <1>0, <1>1, <1>2, <1>10, DisconnectAsyncSettles
       DEF DisconnectAsync, Serves, Becomes
  <1>11. CASE CleanupAsync
    BY <1>0, <1>1, <1>2, <1>11, CleanupAsyncSettles DEF CleanupAsync, Serves, Becomes
  <1>12. CASE ConnDone
    BY <1>0, <1>1, <1>2, <1>12, ConnDoneSettles DEF ConnDone, Polls, Becomes
  <1>13. CASE ConnFailed
    BY <1>0, <1>1, <1>2, <1>13, ConnFailedSettles DEF ConnFailed, Polls, Becomes
  <1>14. CASE ReadFailed
    BY <1>0, <1>1, <1>2, <1>14, ReadFailedSettles DEF ReadFailed, Polls, Becomes
  <1>15. CASE ClosingPhase
    BY <1>0, <1>1, <1>2, <1>15, ClosingPhaseSettles DEF ClosingPhase, Polls, Becomes
  <1>16. ASSUME NEW ok \in BOOLEAN, WriteDone(ok)
         PROVE  TlsInv'
    BY <1>0, <1>1, <1>3, <1>16, WriteDoneSettles DEF WriteDone, Polls, Becomes
  <1>17. ASSUME NEW m \in Incoming, Read(m)
         PROVE  TlsInv'
    BY <1>0, <1>1, <1>2, <1>17, ReadSettles DEF Read, Polls, Becomes
  <1>18. CASE ReconnDelayTimer
    BY <1>1, <1>3, <1>18, ReconnDelaySettles DEF ReconnDelayTimer, Polls
  <1>19. CASE CheckTimer
    BY <1>0, <1>1, <1>3, <1>19, CheckTimerSettles DEF CheckTimer, Polls
  <1>20. CASE Ended
    BY <1>0, <1>2, <1>20 DEF Ended, vars
  <1> QED BY <1>4, <1>5, <1>6, <1>7, <1>8, <1>9, <1>10, <1>11, <1>12, <1>13, <1>14,
             <1>15, <1>16, <1>17, <1>18, <1>19, <1>20 DEF Next

\* The inductive invariant holds in every state that an observer can see:
\* after the whole of any callback of the worker, whichever threads call the
\* client in between.
THEOREM TlsInvariant == Spec => []TlsInv
  <1>1. TlsInv /\ UNCHANGED vars => TlsInv'
    BY DEF TlsInv, vars
  <1>2. TlsInv /\ [Next]_vars => TlsInv'
    BY <1>1, TlsStep
  <1> QED BY TlsInit, <1>2, PTL DEF Spec

(***************************************************************************)
(* The properties                                                          *)
(***************************************************************************)

\* Every queue, flag, counter and BIO keeps to its type, in any sequence of
\* callbacks.
THEOREM TlsTypeOK == Spec => []TypeOK
  <1>1. ASSUME TlsInv PROVE TypeOK
    <2>0. tls \in Tls /\ Fits(tls) /\ queued \in Sends
      BY <1>1 DEF TlsInv, Good
    <2>1. /\ tls.state \in States /\ tls.sock \in Socks /\ tls.ssl \in SslStates
          /\ tls.should_retry \in Retries /\ tls.retry_wb \in Retries
          /\ tls.async \in AsyncSets
      BY <2>0 DEF Tls
    <2>2. /\ tls.conn_pending \in Lines /\ tls.write_wait \in Lines
          /\ tls.writing \in Lines /\ tls.when_tcp_is_writing \in Lines
          /\ tls.resp_pending \in RequestSets
      BY <2>0 DEF Tls
    <2>3. tls.mem \in Streams /\ tls.out \in Counts
      BY <2>0 DEF Tls
    <2>4. tls.out \in 0..Len(tls.mem)
      <3>1. Len(tls.mem) \in Nat
        BY <2>3, LenProperties DEF Streams
      <3> QED BY <2>0, <2>3, <3>1 DEF Fits, Counts
    <2>5. /\ tls.should_retry \in Items \cup {None} /\ tls.retry_wb \in Items \cup {None}
          /\ tls.async \subseteq Asyncs /\ tls.resp_pending \subseteq Requests
      BY <2>1, <2>2 DEF Retries, AsyncSets, RequestSets
    <2>6. {tls.conn_pending, tls.write_wait, tls.writing, tls.when_tcp_is_writing}
            \subseteq Seq(Items)
      BY <2>2 DEF Lines
    <2>7. tls.mem \in Seq(Items \cup Records \cup {Zero})
      BY <2>3 DEF Streams, Memory, Words
    <2>8. queued \in Seq([req : Requests, ready : BOOLEAN])
      BY <2>0 DEF Sends
    <2>9. /\ tls.state \in {"NOT_CONN", "CONNECTING", "HANDSHAKEING", "DONE"}
          /\ tls.sock \in {"none", "open", "reading", "stopped", "closing", "closed"}
          /\ tls.ssl \in {"before", "shaking", "up", "failed", "none"}
      BY <2>1 DEF States, Socks, SslStates
    <2> QED BY <2>4, <2>5, <2>6, <2>7, <2>8, <2>9, Zenon DEF TypeOK
  <1> QED BY <1>1, TlsInvariant, PTL

\* The assertion of tls__write_to_tcp holds: nothing waits in
\* when_tcp_is_writing_queue when BIO out is empty (tr_uv_tls_aux.c).
THEOREM TlsWriteAssert == Spec => []WriteAssert
  <1>1. TlsInv => WriteAssert
    BY DEF TlsInv, Good, Control, WriteAssert
  <1> QED BY <1>1, TlsInvariant, PTL

\* What SSL has left in BIO out has a write in progress, whose callback will
\* write it: no callback ends with bytes that nobody will hand to libuv.
THEOREM TlsNothingStuck == Spec => []NothingStuck
  <1>1. TlsInv => NothingStuck
    BY DEF TlsInv, Settled, Flowing, NothingStuck, Running
  <1> QED BY <1>1, TlsInvariant, PTL

\* No write item is lost or held in two places: each request that is not done
\* is in exactly one of the places that may hold it, so that it is freed
\* once.
THEOREM TlsItemsHeld == Spec => []ItemsHeld
  <1>1. ASSUME TlsInv PROVE ItemsHeld
    <2> DEFINE P == [conn_pending |-> Range(tls.conn_pending),
                     write_wait |-> Range(tls.write_wait),
                     writing |-> Range(tls.writing),
                     when_tcp_is_writing |-> Range(tls.when_tcp_is_writing),
                     should_retry |-> {tls.should_retry},
                     resp_pending |-> tls.resp_pending]
               N == {"conn_pending", "write_wait", "writing",
                     "when_tcp_is_writing", "should_retry", "resp_pending"}
    <2>1. /\ P.conn_pending = Range(tls.conn_pending)
          /\ P.write_wait = Range(tls.write_wait)
          /\ P.writing = Range(tls.writing)
          /\ P.when_tcp_is_writing = Range(tls.when_tcp_is_writing)
          /\ P.should_retry = {tls.should_retry}
          /\ P.resp_pending = tls.resp_pending
          /\ DOMAIN P = N
      OBVIOUS
    <2>2. ItemsHeld <=>
            \A i \in DOMAIN queued :
              queued[i].req \notin tls.done
                => \E p \in DOMAIN P :
                     {o \in DOMAIN P : queued[i].req \in P[o]} = {p}
      BY Zenon DEF ItemsHeld
    <2> HIDE DEF P
    <2>3. ASSUME NEW i \in DOMAIN queued, queued[i].req \notin tls.done
          PROVE  \E p \in DOMAIN P :
                   {o \in DOMAIN P : queued[i].req \in P[o]} = {p}
      <3> DEFINE r == queued[i].req
                 H == {o \in DOMAIN P : r \in P[o]}
      <3>1. r \in Requests
        <4>1. queued[i] \in [req : Requests, ready : BOOLEAN]
          BY <1>1, <2>3, ElementOfSeq, LenProperties DEF TlsInv, Sends
        <4> QED BY <4>1
      <3>2. r \in Reqs(queued)
        BY DEF Reqs
      <3>3. OnePlace(tls, r) /\ r \in Places(tls)
        BY <1>1, <2>3, <3>1, <3>2 DEF TlsInv, Good, Held
      <3> HIDE DEF r
      <3>4. PICK p \in N : r \in P[p]
        BY <2>1, <3>3 DEF Places
      <3>5. ASSUME NEW o \in N, r \in P[o] PROVE o = p
        BY <2>1, <3>3, <3>4, <3>5 DEF OnePlace
      <3>6. H = {p}
        BY <2>1, <3>4, <3>5
      <3> QED BY <2>1, <3>4, <3>6 DEF r
    <2> QED BY <2>2, <2>3
  <1> QED BY <1>1, TlsInvariant, PTL

\* A sequence is a prefix of itself with more behind it.
LEMMA PrefixCat ==
  ASSUME NEW a \in Streams, NEW b \in Streams
  PROVE  IsPrefix(a, Cat(a, b))
  <1> DEFINE c == Cat(a, b)
  <1>1. /\ DOMAIN a = 1..Len(a) /\ Len(a) \in Nat /\ Len(b) \in Nat
        /\ \A i \in 1..Len(a) : c[i] = a[i]
    BY CatElements
  <1>2. c \in Streams /\ Len(c) = Len(a) + Len(b)
    BY CatTyped, CatLen
  <1> HIDE DEF c
  <1>3. Len(a) <= Len(c) /\ Len(c) \in Nat
    BY <1>1, <1>2
  <1>4. \A i \in 1..Len(a) : c[i] \in Memory
    BY <1>2, <1>3, ElementOfSeq DEF Streams
  <1>5. /\ SubSeq(c, 1, Len(a)) \in Seq(Memory) /\ Len(SubSeq(c, 1, Len(a))) = Len(a)
        /\ \A i \in 1..Len(a) : SubSeq(c, 1, Len(a))[i] = c[i]
    <2>1. CASE Len(a) = 0
      BY <1>4, <2>1, SubSeqProperties
    <2>2. CASE Len(a) > 0
      BY <1>1, <1>4, <2>2, SubSeqProperties
    <2> QED BY <1>1, <2>1, <2>2
  <1>6. a = SubSeq(c, 1, Len(a))
    BY <1>1, <1>5, SeqEqual DEF Streams
  <1> QED BY <1>3, <1>6 DEF IsPrefix, c

\* Where uv_write takes a write whole, the socket carries what SSL has made
\* for the connection, in that order and without a gap.  With partial writes it
\* does not: tls__write_to_tcp resets the memory that libuv still reads.
THEOREM TlsWireFaithful == ~PartialWrites => (Spec => []WireFaithful)
  <1> SUFFICES ASSUME ~PartialWrites PROVE Spec => []WireFaithful
    OBVIOUS
  <1>1. ASSUME TlsInv, Connected(tls) PROVE IsPrefix(tls.wire, tls.made)
    <2>1. tls \in Tls /\ Fits(tls) /\ tls.made = Cat(tls.wire, Out(tls))
      BY <1>1 DEF TlsInv, Good, Wires
    <2>2. tls.wire \in Streams /\ Out(tls) \in Streams
      BY <2>1, OutTyped DEF Tls
    <2> QED BY <2>1, <2>2, PrefixCat
  <1>2. TlsInv => WireFaithful
    BY <1>1 DEF WireFaithful, Connected
  <1> QED BY <1>2, TlsInvariant, PTL

\* Where uv_write takes a write whole, requests that were queued in the same
\* phase reach the server in the order in which they were queued, over an
\* SSL_write to be repeated, a reset and the check that removes some of them.
THEOREM TlsOrderKept == ~PartialWrites => (Spec => []OrderKept)
  <1> SUFFICES ASSUME ~PartialWrites PROVE Spec => []OrderKept
    OBVIOUS
  <1>1. ASSUME TlsInv PROVE OrderKept
    <2>0. /\ tls \in Tls /\ Fits(tls) /\ Wires(tls) /\ Orders(tls, queued)
          /\ queued \in Sends /\ Distinct(queued)
      BY <1>1 DEF TlsInv, Good
    <2>1. tls.wire \in Streams /\ Out(tls) \in Streams
      BY <2>0, OutTyped DEF Tls
    <2>2. /\ DOMAIN tls.wire = 1..Len(tls.wire) /\ Len(tls.wire) \in Nat
          /\ DOMAIN queued = 1..Len(queued) /\ Len(queued) \in Nat
      BY <2>0, <2>1, LenProperties DEF Streams, Sends
    <2>3. Connected(tls) => Ordered(queued, tls.wire)
      BY <2>0, <2>1, OrderedCat DEF Wires, Orders
    <2> SUFFICES ASSUME NEW i \in DOMAIN queued, NEW j \in DOMAIN queued, i < j,
                        queued[i].ready = queued[j].ready,
                        NEW k \in DOMAIN tls.wire, NEW l \in DOMAIN tls.wire,
                        tls.wire[k] = queued[i].req, tls.wire[l] = queued[j].req,
                        ~(k < l)
                 PROVE  FALSE
      BY DEF OrderKept
    <2>4. Connected(tls)
      <3>1. queued[i] \in [req : Requests, ready : BOOLEAN]
        BY <2>0, <2>2, ElementOfSeq DEF Sends
      <3>2. tls.wire[k] \in Range(tls.wire) \cap Requests
        BY <3>1 DEF Range
      <3> QED BY <2>0, <3>2 DEF Wires
    <2>5. Late(queued, tls.wire[l], tls.wire[k])
      BY DEF Late
    <2>6. ~(l < k)
      BY <2>3, <2>4, <2>5 DEF Ordered
    <2>7. k = l
      BY <2>2, <2>6
    <2>8. i = j
      BY <2>0, <2>7 DEF Distinct
    <2> QED BY <2>2, <2>8
  <1> QED BY <1>1, TlsInvariant, PTL
===============================================================================
