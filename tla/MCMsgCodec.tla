------------------------------ MODULE MCMsgCodec ------------------------------
(***************************************************************************)
(* Every message that MsgCodec can encode is encoded, perhaps cut short,   *)
(* and decoded.                                                            *)
(***************************************************************************)
EXTENDS MsgCodec

CONSTANTS MaxRoute  \* bound on the length of a route

\* Routes of every length up to MaxRoute, the first two in the dictionary
ROUTES     == {[i \in 1..n |-> 1] : n \in 0..MaxRoute}
DICTIONARY == [r \in {<<>>, <<1>>} |->
                 IF r = <<>> THEN 1 ELSE Power(2, ByteBits) + 1]
BODIES     == {<<2, 3>>, <<2, 1, 1, 3>>}

Ids == 1..(PC_INVALID_REQ_ID - 1)

Messages ==
  [type : {REQUEST}, id : Ids, route : Routes, body : Bodies]
    \cup [type : {NOTIFY, PUSH}, id : {0}, route : Routes, body : Bodies]
    \cup [type : {RESPONSE}, id : Ids, route : {<<>>}, body : Bodies]

VARIABLES
  item,     \* the message
  data,     \* what has arrived of its bytes
  decoded,  \* whether they have been decoded
  result    \* and to what

vars == <<item, data, decoded, result>>

Init ==
  /\ item \in Messages
  /\ data = Encode(item)
  /\ decoded = FALSE
  /\ result = Invalid

Cut ==
  /\ ~decoded
  /\ Len(data) > 1
  /\ data' = SubSeq(data, 1, Len(data) - 1)
  /\ UNCHANGED <<item, decoded, result>>

DecodeIt ==
  /\ ~decoded
  /\ decoded' = TRUE
  /\ result' = Decode(data)
  /\ UNCHANGED <<item, data>>

Next == Cut \/ DecodeIt

Spec == Init /\ [][Next]_vars

Whole == data = Encode(item)

\* A route whose length fits into a char, or that is replaced by its code
Short(m) == Compressed(m) \/ Len(m.route) < Half

\* A message that arrives whole is decoded to what was encoded, for every id
\* of IdWidth bits: the digits come back in order and none is lost.
RoundTrip ==
  decoded /\ Whole /\ Short(item) =>
    result = [id |-> item.id, route |-> item.route, body |-> item.body]

\* A message that was cut short is refused by tcp__on_data_recieved wherever
\* the cut is, and never taken for another one.
CutRefused == decoded /\ ~Whole /\ Short(item) => ~Accepted(result)

\* The buffer of a request or a notification is exactly as large as what is
\* written to it, for routes of every length.
BufferExact ==
  item.type \in {REQUEST, NOTIFY} => Allocated(item) = Len(Encode(item))
=============================================================================
