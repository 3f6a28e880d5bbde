-------------------------------- MODULE MCCodec -------------------------------
(***************************************************************************)
(* Both codecs for one run: every message that MCMsgCodec encodes, or      *)
(* every body of a small instance of Protobuf, which is encoded, perhaps   *)
(* cut short or changed, and decoded.                                      *)
(***************************************************************************)
EXTENDS MCMsgCodec, Protobuf

\* A definition with every option and kind of type: "inner" is declared in
\* it, "outer" at the top level, from where "inner" uses it too.
Field(option, type, tag) == [option |-> option, type |-> type, tag |-> tag]
GPROTOS ==
  [m \in {"outer"} |-> [fields |-> [z |-> Field("required", "float", 2)],
                        messages |-> <<>>]]
INNER ==
  [fields   |-> [x |-> Field("required", "int32", 1),
                 o |-> Field("optional", "outer", 3)],
   messages |-> <<>>]
PROTOS ==
  [fields |-> [a |-> Field("required", "uInt32", 1),
               b |-> Field("optional", "sInt32", 2),
               c |-> Field("repeated", "double", 3),
               d |-> Field("repeated", "string", 4),
               e |-> Field("optional", "inner", 5),
               g |-> Field("repeated", "outer", 6)],
   messages |-> [m \in {"inner"} |-> INNER]]

\* The top and the bottom of int, and one that does not fit; "u" is in
\* no definition, and pc_body_pb_encode fails
IntMax == 2^(IntBits - 1) - 1
Z(n) == Obj(<<Pair("z", Num(n))>>)
VALUES ==
  [a |-> {Num(0), Num(IntMax), Num(IntMax + 1)},
   b |-> {Num(-1), Num(-IntMax - 1)},
   c |-> {Arr(<<>>), Arr(<<Num(1), Num(3)>>)},
   d |-> {Arr(<<>>), Arr(<<Str(<<>>), Str(<<1, 2>>)>>), Str(<<1>>)},
   e |-> {Obj(<<Pair("x", Num(-3)), Pair("o", Z(3))>>), Obj(<<>>)},
   g |-> {Arr(<<Z(1), Obj(<<>>), Z(2)>>)},
   u |-> {Num(1)}]

\* Objects with at most two of the keys, in any order
Pairs == UNION {{Pair(k, v) : v \in VALUES[k]} : k \in DOMAIN VALUES}
Objects ==
  {Obj(<<p>>) : p \in Pairs}
    \cup {Obj(<<p, q>>) : <<p, q>> \in
            {w \in Pairs \X Pairs : w[1].key # w[2].key}}

VARIABLES
  layer,    \* which codec is at work: that of messages or that of bodies
  body,     \* the body
  bytes,    \* what has arrived of its bytes
  change,   \* and what happened to them on the way
  done,     \* whether they have been decoded
  outcome   \* and to what

pbVars == <<body, bytes, change, done, outcome>>

InitMsg ==
  /\ layer = "msg" /\ Init
  /\ body = Obj(<<>>) /\ bytes = <<>>
  /\ change = "none" /\ done = FALSE /\ outcome = None

InitPb ==
  /\ layer = "pb"
  /\ body \in Objects
  /\ bytes = pb_encode(PROTOS, body) /\ Encoded(bytes)
  /\ change = "none" /\ done = FALSE /\ outcome = None
  /\ item = CHOOSE m \in Messages : TRUE
  /\ data = Encode(item) /\ decoded = FALSE /\ result = Invalid

StepMsg == layer = "msg" /\ Next /\ UNCHANGED <<layer, pbVars>>

CutPb ==
  /\ layer = "pb" /\ ~done /\ change \in {"none", "cut"}
  /\ Len(bytes) > 1
  /\ bytes' = SubSeq(bytes, 1, Len(bytes) - 1)
  /\ change' = "cut"
  /\ UNCHANGED <<layer, vars, body, done, outcome>>

\* One byte of a body is another one.
Corrupt ==
  /\ layer = "pb" /\ ~done /\ change = "none"
  /\ \E i \in DOMAIN bytes, b \in Byte : bytes' = [bytes EXCEPT ![i] = b]
  /\ change' = "corrupt"
  /\ UNCHANGED <<layer, vars, body, done, outcome>>

DecodePb ==
  /\ layer = "pb" /\ ~done
  /\ done' = TRUE
  /\ outcome' = pc_pb_decode(bytes, PROTOS)
  /\ UNCHANGED <<layer, vars, body, bytes, change>>

InitBoth == InitMsg \/ InitPb

NextBoth == StepMsg \/ CutPb \/ Corrupt \/ DecodePb

BothSpec == InitBoth /\ [][NextBoth]_<<layer, vars, pbVars>>

\* What a peer that knows the definition should get: floats are rounded, and
\* of an array without numbers nothing is sent when it is empty, or no array.
RECURSIVE Meant(_, _)
Meant(protos, msg) ==
  LET value(p, v) ==
        IF p.type = "float" THEN Num(ToFloat(v.number))
        ELSE IF "object" \in DOMAIN v
          THEN Obj(Meant(SubMessage(protos, p.type), v))
        ELSE v
      sent(pair) ==
        LET p == protos.fields[pair.key] IN
        Single(p) \/ ("array" \in DOMAIN pair.value
                      /\ (Simple(p.type) \/ pair.value.array # <<>>))
      one(pair) ==
        LET p == protos.fields[pair.key]
            v == pair.value
        IN Pair(pair.key,
                IF Single(p) THEN value(p, v)
                ELSE Arr([i \in DOMAIN v.array |-> value(p, v.array[i])]))
      kept == SelectSeq(msg.object, sent)
  IN [i \in DOMAIN kept |-> one(kept[i])]

\* Without a number that int does not hold
InRange == \A i \in DOMAIN body.object : body.object[i].value # Num(IntMax + 1)

\* A body that arrives whole is decoded to what was encoded: the two passes of
\* a nested message, the counts of arrays, lengths and zig-zag numbers agree
\* between pb_encode and pb_decode, whatever the order of the fields.
PbRoundTrip ==
  done /\ change = "none" /\ InRange
    => outcome.ok /\ outcome.val = Meant(PROTOS, body)

\* s is t without some fields, or elements of the last array, at the end.
Begins(s, t) ==
  /\ Len(s) <= Len(t)
  /\ \A i \in DOMAIN s :
       \/ s[i] = t[i]
       \/ /\ i = Len(s) /\ s[i].key = t[i].key
          /\ "array" \in DOMAIN s[i].value /\ "array" \in DOMAIN t[i].value
          /\ IsPrefix(s[i].value.array, t[i].value.array)

\* No length is checked against the end of a field, and a tag that is cut in
\* the middle passes for the end: a body that was cut short is refused or lacks
\* fields at its end, and no field has another value than it was sent with.
PbCutShort ==
  done /\ change = "cut" /\ InRange /\ outcome.ok
    => Begins(outcome.val, Meant(PROTOS, body))

\* Whatever byte is changed, counts and lengths never make pb_decode read
\* past the end of the data.
PbInside == done => outcome.s.pos <= Len(bytes)
=============================================================================
