------------------------------ MODULE Protobuf ------------------------------
(***************************************************************************)
(* The bodies of messages whose route has a protobuf definition            *)
(* (src/tr/uv/pb_encode.c, pb_decode.c, pb_i.c, pr_msg_pb.c).              *)
(*                                                                         *)
(* A JSON value is a record with one field, number, string, array or       *)
(* object; an object is a sequence of keys with their values, in the order *)
(* of the list that pc_JSON keeps.  A definition has the fields of a       *)
(* message, each with its option, type and tag, and the messages that are  *)
(* declared inside it; __tags is the inverse of the tags.                  *)
(***************************************************************************)
EXTENDS Bytes, Sequences, SequencesExt

CONSTANTS
  IntBits,   \* the width of int and uint32_t (32)
  WideBits,  \* the width of uint64_t (64)
  Gprotos,   \* gprotos: the messages at the top level, by name
  None

ASSUME ProtobufAssumption == IntBits \in 4..WideBits /\ WideBits \in Nat

Num(n) == [number |-> n]
Str(s) == [string |-> s]
Arr(s) == [array |-> s]
Obj(s) == [object |-> s]
Pair(k, v) == [key |-> k, value |-> v]

\* valueint: a number out of the range of int becomes what the conversion
\* gives on x86.
ToInt(n) ==
  IF n \in -2^(IntBits - 1)..(2^(IntBits - 1) - 1) THEN n ELSE -2^(IntBits - 1)

\* A double that becomes a float loses digits: here, the last one.
ToFloat(n) == n - (n % 2)

(***************************************************************************)
(* Types                                                                   *)
(***************************************************************************)

\* pb_get_type, without PB_string
Simple(type) == type \in {"uInt32", "int32", "sInt32", "float", "double"}

pb_get_constant_type(type) ==
  CASE type \in {"uInt32", "int32", "sInt32"} -> 0
    [] type = "double" -> 1
    [] type = "float" -> 5
    [] OTHER -> 2

Single(proto) == proto.option \in {"required", "optional"}

\* A type that is a message is looked up in the definition around it, then
\* at the top level.
SubMessage(protos, type) ==
  IF type \in DOMAIN protos.messages THEN protos.messages[type]
  ELSE IF type \in DOMAIN Gprotos THEN Gprotos[type]
  ELSE None

(***************************************************************************)
(* Encoding.  Bad stands for the failure of a step, which every caller     *)
(* passes on.  The sizing pass of pb_encode_submessage writes what the     *)
(* second one writes, so that it is the length of it.                      *)
(***************************************************************************)

Bad == -1
Encoded(s) == Bad \notin Range(s)

pb_encode_varint(v) ==
  LET n == CHOOSE k \in 1..WideBits : v < Half^k /\ (k > 1 => v >= Half^(k-1))
  IN [i \in 1..n |-> ((v \div Half^(i-1)) % Half) + (IF i < n THEN Half ELSE 0)]

\* Zig-zag: the sign is the lowest bit.
pb_encode_svarint(v) == pb_encode_varint(IF v < 0 THEN -2 * v - 1 ELSE 2 * v)

\* The bytes of a float or a double, whose value fits into the first
pb_encode_fixed(n, v) == [i \in 1..n |-> IF i = 1 THEN v ELSE 0]

pb_encode_tag_for_field(proto) ==
  pb_encode_varint((pb_get_constant_type(proto.type) + 8 * proto.tag)
                     % 2^IntBits)

RECURSIVE pb_encode(_, _)

\* An int that is written as a varint is extended to uint64_t with its sign.
\* Without __messages a message is not written, but its tag is.
pb_encode_proto(protos, proto, value) ==
  CASE proto.type = "uInt32" ->
         pb_encode_varint(ToInt(value.number) % 2^WideBits)
    [] proto.type \in {"int32", "sInt32"} ->
         pb_encode_svarint(ToInt(value.number))
    [] proto.type = "float" -> pb_encode_fixed(4, ToFloat(value.number))
    [] proto.type = "double" -> pb_encode_fixed(8, value.number)
    [] proto.type = "string" ->
         pb_encode_varint(Len(value.string)) \o value.string
    [] OTHER ->
         IF protos.messages = None THEN <<>>
         ELSE LET sub == SubMessage(protos, proto.type)
                  body == pb_encode(sub, value)
              IN IF sub = None THEN <<Bad>>
                 ELSE pb_encode_varint(Len(body)) \o body

\* Numbers share one tag and are counted; others have a tag each.
pb_encode_array(protos, proto, array) ==
  LET tag == pb_encode_tag_for_field(proto)
      item(i) == pb_encode_proto(protos, proto, array[i])
  IN IF Simple(proto.type)
       THEN tag \o pb_encode_varint(Len(array))
              \o FlattenSeq([i \in DOMAIN array |-> item(i)])
       ELSE FlattenSeq([i \in DOMAIN array |-> tag \o item(i)])

pb_encode(protos, msg) ==
  LET field(pair) ==
        IF pair.key \notin DOMAIN protos.fields THEN <<Bad>>
        ELSE LET proto == protos.fields[pair.key] IN
             IF Single(proto)
               THEN pb_encode_tag_for_field(proto)
                      \o pb_encode_proto(protos, proto, pair.value)
             ELSE IF "array" \in DOMAIN pair.value
               THEN pb_encode_array(protos, proto, pair.value.array)
             ELSE <<>>
  IN FlattenSeq([i \in DOMAIN msg.object |-> field(msg.object[i])])

(***************************************************************************)
(* Decoding.  A stream has read pos bytes of the data and may read left    *)
(* more of them; a step says whether it succeeded, what it has got and     *)
(* where the stream then is.                                               *)
(***************************************************************************)

Stream(pos, left) == [pos |-> pos, left |-> left]
R(ok, val, s) == [ok |-> ok, val |-> val, s |-> s]

\* What is read past the data is not known; it is 0 here.
At(data, i) == IF i \in DOMAIN data THEN data[i] ELSE 0

Skip(s, n) == Stream(s.pos + n, s.left - n)

\* Faulty: more is read than is left
pb_read_past(data, s, n) ==
  R(TRUE, [i \in 1..n |-> At(data, s.pos + i)],
    Stream(s.pos + n, IF s.left < n THEN 0 ELSE s.left - n))

pb_read(data, s, n) ==
  IF s.left < n THEN R(FALSE, <<>>, s)
  ELSE R(TRUE, [i \in 1..n |-> At(data, s.pos + i)], Skip(s, n))

\* The digits of WideBits bits
MaxDigits == (WideBits + ByteBits - 2) \div (ByteBits - 1)

\* It fails without a last digit, having read what it may.
pb_decode_varint(data, s) ==
  LET most == IF s.left < MaxDigits THEN s.left ELSE MaxDigits
      ends == {n \in 1..most : At(data, s.pos + n) < Half}
      n    == CHOOSE k \in ends : \A j \in ends : k <= j
      sum[i \in 0..most] ==
        IF i = 0 THEN 0
        ELSE sum[i-1] + (At(data, s.pos + i) % Half) * Half^(i-1)
  IN IF ends = {} THEN R(FALSE, 0, Skip(s, most))
     ELSE R(TRUE, sum[n] % 2^WideBits, Skip(s, n))

pb_decode_varint32(data, s) ==
  LET r == pb_decode_varint(data, s) IN [r EXCEPT !.val = @ % 2^IntBits]

pb_decode_svarint(data, s) ==
  LET r == pb_decode_varint(data, s)
  IN [r EXCEPT !.val = IF @ % 2 = 1 THEN -(@ \div 2) - 1 ELSE @ \div 2]

pb_decode_fixed(data, s, n) ==
  LET r == pb_read(data, s, n)
  IN IF r.ok THEN [r EXCEPT !.val = Num(@[1])] ELSE r

pb_decode_string(data, s) ==
  LET len == pb_decode_varint32(data, s)
      r   == pb_read(data, len.s, len.val)
  IN IF len.ok THEN [r EXCEPT !.val = Str(@)] ELSE len

RECURSIVE pb_decode(_, _, _, _)

\* Faulty: the length of the substream is not compared with what is left
LongerThan_never(len) == FALSE

\* pb_make_string_substream: the substream would be longer than its stream
LongerThan(len) == len.s.left < len.val

\* The substream is cut off from the stream, which goes on where it stopped
\* reading.
pb_decode_submessage(data, s, protos) ==
  LET len == pb_decode_varint32(data, s)
      r   == pb_decode(data, Stream(len.s.pos, len.val), protos, <<>>)
  IN IF ~len.ok \/ LongerThan(len) THEN R(FALSE, None, len.s)
     ELSE R(r.ok, Obj(r.val), Stream(r.s.pos, len.s.left - len.val))

\* Without __messages nothing is read.
pb_decode_proto(data, s, protos, proto) ==
  LET number(r) == IF r.ok THEN [r EXCEPT !.val = Num(@)] ELSE r IN
  CASE proto.type = "uInt32" -> number(pb_decode_varint(data, s))
    [] proto.type \in {"int32", "sInt32"} -> number(pb_decode_svarint(data, s))
    [] proto.type = "float" -> pb_decode_fixed(data, s, 4)
    [] proto.type = "double" -> pb_decode_fixed(data, s, 8)
    [] proto.type = "string" -> pb_decode_string(data, s)
    [] OTHER ->
         IF protos.messages = None THEN R(TRUE, None, s)
         ELSE LET sub == SubMessage(protos, proto.type)
              IN IF sub = None THEN R(FALSE, None, s)
                 ELSE pb_decode_submessage(data, s, sub)

\* The loop of pb_decode_array over n numbers
RECURSIVE DecodeNumbers(_, _, _, _, _, _)
DecodeNumbers(data, s, protos, proto, n, vals) ==
  IF n = 0 THEN R(TRUE, vals, s)
  ELSE LET r == pb_decode_proto(data, s, protos, proto)
       IN IF ~r.ok THEN R(FALSE, vals, r.s)
          ELSE DecodeNumbers(data, r.s, protos, proto, n - 1,
                             Append(vals, r.val))

\* What the next occurrence of the field adds to its array
pb_decode_array(data, s, protos, proto) ==
  IF Simple(proto.type)
    THEN LET size == pb_decode_varint32(data, s)
         IN IF size.ok
              THEN DecodeNumbers(data, size.s, protos, proto, size.val, <<>>)
              ELSE size
    ELSE LET r == pb_decode_proto(data, s, protos, proto)
         IN [r EXCEPT !.val = <<IF @ = None THEN Obj(<<>>) ELSE @>>]

\* Faulty: an array starts anew with every occurrence of its field
AddToArray_anew(result, name, vals) == Append(result, Pair(name, Arr(vals)))

\* The array of a field is found in the result, or added to it.
AddToArray(result, name, vals) ==
  LET found == {i \in DOMAIN result : result[i].key = name}
  IN IF found = {} THEN Append(result, Pair(name, Arr(vals)))
     ELSE [result EXCEPT ![CHOOSE i \in found : TRUE].value.array = @ \o vals]

\* A tag that is cut short by the end of the data ends the message, as 0 does.
pb_decode(data, s, protos, result) ==
  IF s.left = 0 THEN R(TRUE, result, s)
  ELSE
    LET t     == pb_decode_varint32(data, s)
        names == {k \in DOMAIN protos.fields : protos.fields[k].tag = t.val \div 8}
        name  == CHOOSE k \in names : TRUE
        proto == protos.fields[name]
        r     == IF Single(proto) THEN pb_decode_proto(data, t.s, protos, proto)
                                  ELSE pb_decode_array(data, t.s, protos, proto)
    IN IF ~t.ok THEN R(t.s.left = 0, result, t.s)
       ELSE IF t.val = 0 THEN R(TRUE, result, t.s)
       ELSE IF names = {} THEN R(FALSE, result, t.s)
       ELSE IF ~r.ok THEN R(FALSE, result, r.s)
       ELSE pb_decode(data, r.s, protos,
              IF ~Single(proto) THEN AddToArray(result, name, r.val)
              ELSE IF r.val = None THEN result
              ELSE Append(result, Pair(name, r.val)))

\* pc_body_pb_decode
pc_pb_decode(data, protos) == pb_decode(data, Stream(0, Len(data)), protos, <<>>)
=============================================================================
