------------------------------ MODULE MsgCodec ------------------------------
(***************************************************************************)
(* The message layer (src/tr/uv/pr_msg.c): what a data package contains.   *)
(*                                                                         *)
(*    flag   id (requests and responses)   route (all others)   body       *)
(*                                                                         *)
(* The flag holds the type and whether the route is replaced by its code   *)
(* from the dictionary.  The id is written in digits of one bit less than  *)
(* a byte, lowest first; the top bit says that another one follows.        *)
(***************************************************************************)
EXTENDS Bytes, Sequences

CONSTANTS
  IdWidth,     \* the bits of a message id (32)
  CharSigned,  \* char is signed, as it is on x86
  Routes,      \* routes: sequences of characters
  Dictionary,  \* route_to_code: the codes of some of the routes
  Bodies       \* texts that are JSON: sequences of characters

ASSUME CodecAssumption ==
  /\ IdWidth \in Nat \ {0}
  /\ CharSigned \in BOOLEAN
  /\ \A r \in Routes \cup Bodies : r \in Seq(1..(Half - 1))
  /\ DOMAIN Dictionary \subseteq Routes
  /\ \A r \in DOMAIN Dictionary : Dictionary[r] \in 1..(Power(2, ByteBits) * Power(2, ByteBits) - 1)
  /\ \A r, s \in DOMAIN Dictionary : Dictionary[r] = Dictionary[s] => r = s

REQUEST  == 0
NOTIFY   == 1
RESPONSE == 2
PUSH     == 3

HasId(type)    == type \in {REQUEST, RESPONSE}
HasRoute(type) == type # RESPONSE

PC_NOTIFY_PUSH_REQ_ID == 0
PC_INVALID_REQ_ID     == Power(2, IdWidth) - 1

(***************************************************************************)
(* Encoding                                                                *)
(***************************************************************************)

\* Faulty: an id that is a power of Half counts one digit less
IdLength_short(id) ==
  CHOOSE n \in 1..IdWidth : id <= Power(Half, n) /\ (n > 1 => id > Power(Half, n-1))

\* pc__msg_id_length: how often id can be shifted before it is zero
IdLength(id) ==
  CHOOSE n \in 1..IdWidth : id < Power(Half, n) /\ (n > 1 => id >= Power(Half, n-1))

\* Faulty: the digits are written highest first
EncodeId_high(id) ==
  LET n == IdLength(id)
  IN [i \in 1..n |-> ((id \div Power(Half, n-i)) % Half) + (IF i < n THEN Half ELSE 0)]

\* pc__msg_encode_id
EncodeId(id) ==
  LET n == CHOOSE k \in 1..IdWidth : id < Power(Half, k) /\ \A j \in 1..(k-1) : id >= Power(Half, j)
  IN [i \in 1..n |-> ((id \div Power(Half, i-1)) % Half) + (IF i < n THEN Half ELSE 0)]

\* pc__msg_encode_route: only the low byte of the length is written
EncodeRoute(route) == <<Len(route) % Power(2, ByteBits)>> \o route

EncodeCode(code) == <<(code \div Power(2, ByteBits)) % Power(2, ByteBits), code % Power(2, ByteBits)>>

Compressed(m) == HasRoute(m.type) /\ m.route \in DOMAIN Dictionary

\* pc_msg_encode_route and pc_msg_encode_code
Encode(m) ==
  <<2 * m.type + (IF Compressed(m) THEN 1 ELSE 0)>>
  \o (IF HasId(m.type) THEN EncodeId(m.id) ELSE <<>>)
  \o (IF ~HasRoute(m.type) THEN <<>>
      ELSE IF Compressed(m) THEN EncodeCode(Dictionary[m.route])
      ELSE EncodeRoute(m.route))
  \o m.body

\* The size of the buffer they allocate
Allocated(m) ==
  1 + (IF HasId(m.type) THEN IdLength(m.id) ELSE 0)
    + (IF Compressed(m) THEN 2
       ELSE 1 + (IF HasRoute(m.type) THEN Len(m.route) ELSE 0))
    + Len(m.body)

(***************************************************************************)
(* Decoding (pc_msg_decode_to_raw, pc_default_msg_decode)                  *)
(***************************************************************************)

Rest(n, data) == SubSeq(data, n + 1, Len(data))

\* What is given back for a message that is not understood
Invalid == [id |-> PC_INVALID_REQ_ID, route |-> <<>>, body |-> <<>>]

\* The digits of an id end at the first one without the top bit.
IdEnds(data) == {n \in DOMAIN data : data[n] < Half}
IdEnd(data)  == CHOOSE n \in IdEnds(data) : \A k \in IdEnds(data) : n <= k

\* The digits are added up in IdWidth bits.
DecodeId(data) ==
  LET sum[n \in 0..IdEnd(data)] ==
        IF n = 0 THEN 0
        ELSE (sum[n-1] + (data[n] % Half) * Power(Half, n-1)) % Power(2, IdWidth)
  IN sum[IdEnd(data)]

\* The body of a message that has arrived whole up to there
DecodeBody(id, route, data) ==
  IF data = <<>> \/ data \in Bodies
    THEN [id |-> id, route |-> route, body |-> data]
    ELSE Invalid

\* A code is looked up in code_to_route, which must have it.  A route length
\* with its top bit set is negative where char is signed, and as a size_t
\* too large.
DecodeRoute(id, compressed, data) ==
  IF compressed
    THEN IF Len(data) < 2 THEN Invalid
         ELSE LET code == data[1] * Power(2, ByteBits) + data[2]
                  route == CHOOSE r \in DOMAIN Dictionary : Dictionary[r] = code
              IN DecodeBody(id, route, Rest(2, data))
  ELSE IF data = <<>> THEN Invalid
  ELSE IF (CharSigned /\ data[1] >= Half) \/ Len(data) - 1 < data[1] THEN Invalid
  ELSE DecodeBody(id, SubSeq(data, 2, 1 + data[1]), Rest(1 + data[1], data))

Decode(data) ==
  IF data = <<>> THEN Invalid
  ELSE
    LET type       == data[1] \div 2
        compressed == data[1] % 2 = 1
        tail       == Tail(data)
    IN
    IF type \notin REQUEST..PUSH THEN Invalid
    ELSE IF ~HasId(type)
      THEN DecodeRoute(PC_NOTIFY_PUSH_REQ_ID, compressed, tail)
    ELSE IF IdEnds(tail) = {} THEN Invalid
    ELSE LET id == DecodeId(tail)
             left == Rest(IdEnd(tail), tail)
         IN IF HasRoute(type) THEN DecodeRoute(id, compressed, left)
                              ELSE DecodeBody(id, <<>>, left)

\* Faulty: a message without a body is taken
Accepted_empty(r) == r.id # PC_INVALID_REQ_ID

\* tcp__on_data_recieved refuses a message that was not decoded, and one
\* without a body.
Accepted(r) == r.id # PC_INVALID_REQ_ID /\ r.body # <<>>
=============================================================================
