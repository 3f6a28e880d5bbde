--------------------------- MODULE PkgParserProofs ---------------------------
(***************************************************************************)
(* The package parser hands over what the server sent, for any bytes, any  *)
(* packages, any number of them and any cutting of the stream into reads,  *)
(* as long as the server is quiet after a kick.                            *)
(***************************************************************************)
EXTENDS PkgParser, SequenceTheorems, TLAPS

Bytes == Seq(Byte)

(***************************************************************************)
(* Sequences of bytes                                                      *)
(***************************************************************************)

LEMMA FirstAndRest ==
  ASSUME NEW data \in Bytes, NEW n \in Nat
  PROVE  /\ First(n, data) \in Bytes /\ Rest(n, data) \in Bytes
         /\ Len(First(n, data)) = (IF n < Len(data) THEN n ELSE Len(data))
         /\ First(n, data) \o Rest(n, data) = data
         /\ Len(Rest(n, data)) = (IF n < Len(data) THEN Len(data) - n ELSE 0)
  <1> DEFINE L == Len(data)
             k == IF n < L THEN n ELSE L
  <1>0. /\ L \in Nat /\ k \in 0..L /\ n + 1 \in Int
        /\ \A i \in 1..L : data[i] \in Byte
    BY LenProperties, ElementOfSeq DEF Bytes
  <1>1. /\ SubSeq(data, 1, k) \in Bytes
        /\ Len(SubSeq(data, 1, k)) = k
    BY <1>0, SubSeqProperties DEF Bytes
  <1>2. /\ SubSeq(data, n + 1, L) \in Bytes
        /\ Len(SubSeq(data, n + 1, L)) = (IF n < L THEN L - n ELSE 0)
    <2>1. \A i \in (n + 1)..L : data[i] \in Byte
      BY <1>0
    <2> QED BY <1>0, <2>1, SubSeqProperties DEF Bytes
  <1>3. SubSeq(data, 1, k) \o SubSeq(data, n + 1, L) = data
    <2>1. CASE n < L
      <3>1. /\ 1 \in 1..(Len(data) + 1) /\ n \in (1 - 1)..Len(data)
            /\ Len(data) \in n..Len(data) /\ k = n
        BY <1>0, <2>1
      <3> HIDE DEF k
      <3>2. SubSeq(data, 1, n) \o SubSeq(data, n + 1, L) = SubSeq(data, 1, L)
        BY <3>1, ConcatAdjacentSubSeq, Zenon DEF Bytes
      <3>3. SubSeq(data, 1, L) = data
        BY SubSeqFull DEF Bytes
      <3> QED BY <3>1, <3>2, <3>3
    <2>2. CASE ~(n < L)
      <3>1. SubSeq(data, n + 1, L) = <<>>
        BY <1>0, <2>2, SubSeqEmpty
      <3>2. SubSeq(data, 1, k) = data
        BY <2>2, SubSeqFull DEF Bytes
      <3> QED BY <3>1, <3>2, ConcatEmptySeq DEF Bytes
    <2> QED BY <2>1, <2>2
  <1> QED BY <1>1, <1>2, <1>3 DEF First, Rest

\* Two splits of a sequence after the same number of bytes
LEMMA SplitOnce ==
  ASSUME NEW a \in Bytes, NEW b \in Bytes, NEW c \in Bytes, NEW d \in Bytes,
         a \o b = c \o d, Len(a) = Len(c)
  PROVE  a = c /\ b = d
  <1>0. /\ Len(a) \in Nat /\ Len(b) \in Nat /\ Len(c) \in Nat /\ Len(d) \in Nat
        /\ Len(a \o b) = Len(a) + Len(b)
        /\ Len(c \o d) = Len(c) + Len(d)
        /\ \A i \in 1..(Len(a) + Len(b)) :
             (a \o b)[i] = IF i <= Len(a) THEN a[i] ELSE b[i - Len(a)]
        /\ \A i \in 1..(Len(c) + Len(d)) :
             (c \o d)[i] = IF i <= Len(c) THEN c[i] ELSE d[i - Len(c)]
    BY LenProperties, ConcatProperties DEF Bytes
  <1>1. Len(b) = Len(d)
    BY <1>0
  <1>2. \A i \in 1..Len(a) : a[i] = c[i]
    BY <1>0, <1>1
  <1>3. a = c
    BY <1>2, SeqEqual DEF Bytes
  <1>4. \A i \in 1..Len(b) : b[i] = d[i]
    <2> SUFFICES ASSUME NEW i \in 1..Len(b) PROVE b[i] = d[i]
      OBVIOUS
    <2>1. (a \o b)[Len(a) + i] = b[i] /\ (c \o d)[Len(c) + i] = d[i]
      BY <1>0, <1>1
    <2> QED BY <2>1
  <1>5. b = d
    BY <1>1, <1>4, SeqEqual DEF Bytes
  <1> QED BY <1>3, <1>5

\* Concatenation, for the provers to see it as one symbol
Cat(a, b) == a \o b

LEMMA CatTyped ==
  ASSUME NEW a \in Bytes, NEW b \in Bytes
  PROVE  Cat(a, b) \in Bytes /\ Len(Cat(a, b)) = Len(a) + Len(b)
  BY ConcatProperties, LenProperties DEF Bytes, Cat

LEMMA CatAssociative ==
  ASSUME NEW a \in Bytes, NEW b \in Bytes, NEW c \in Bytes
  PROVE  Cat(Cat(a, b), c) = Cat(a, Cat(b, c))
  BY ConcatAssociative DEF Bytes, Cat

LEMMA CatSplits ==
  ASSUME NEW a \in Bytes, NEW b \in Bytes, NEW c \in Bytes, NEW d \in Bytes,
         Cat(a, b) = Cat(c, d), Len(a) = Len(c)
  PROVE  a = c /\ b = d
  BY SplitOnce, Zenon DEF Cat

LEMMA CatEmpty ==
  /\ <<>> \in Bytes /\ Len(<<>>) = 0
  /\ \A a \in Bytes : Cat(a, <<>>) = a /\ Cat(<<>>, a) = a
  /\ \A a \in Bytes : Len(a) \in Nat /\ (Len(a) = 0 => a = <<>>)
  BY EmptySeq, ConcatEmptySeq, LenProperties DEF Bytes, Cat

(***************************************************************************)
(* The encoding of a package                                               *)
(***************************************************************************)

MaxBody == ByteBase * ByteBase * ByteBase - 1

IsHead(head) == head \in Bytes /\ Len(head) = PC_PKG_HEAD_BYTES

\* Three digits are less than the cube of their base.
LEMMA DigitsFit ==
  ASSUME NEW b \in Nat \ {0}, NEW x \in 0..(b - 1), NEW y \in 0..(b - 1),
         NEW z \in 0..(b - 1)
  PROVE  x + b * y + b * b * z \in 0..(b * b * b - 1)
  <1>1. y + b * z \in Nat /\ b * z \in Nat
    OBVIOUS
  <1>2. b * z <= b * (b - 1)
    OBVIOUS
  <1>3. y + b * z <= b * b - 1
    BY <1>1, <1>2
  <1> DEFINE w == y + b * z
             c == b * b
  <1>4. c \in Nat
    OBVIOUS
  <1>5. x + b * w \in Nat
    OBVIOUS
  <1>6. b * w <= b * (c - 1)
    BY <1>1, <1>3, <1>4
  <1>7. x + b * w <= b * c - 1
    BY <1>1, <1>4, <1>6
  <1>8. b * w = b * y + b * b * z /\ b * c = b * b * b
    OBVIOUS
  <1> QED BY <1>5, <1>7, <1>8

\* The digits of a number below the cube of their base
LEMMA DigitsOf ==
  ASSUME NEW b \in Nat \ {0}, NEW n \in 0..(b * b * b - 1)
  PROVE  /\ n % b \in 0..(b - 1) /\ (n \div b) % b \in 0..(b - 1)
         /\ n \div (b * b) \in 0..(b - 1)
         /\ (n % b) + b * ((n \div b) % b) + b * b * (n \div (b * b)) = n
  <1> DEFINE x == n \div b
             c == b * b
             y == n \div c
  <1>0. n \in Nat
    OBVIOUS
  <1>1. x \in Nat /\ n % b \in 0..(b - 1) /\ n = b * x + (n % b)
    BY <1>0
  <1>2. x % b \in 0..(b - 1) /\ x \div b \in Nat /\ x = b * (x \div b) + (x % b)
    BY <1>1
  <1>3. y = x \div b
    BY <1>0
  <1>4. c \in Nat \ {0}
    OBVIOUS
  <1>5. y \in Nat /\ c * y <= n
    BY <1>0, <1>4
  <1>6. y < b
    <2> SUFFICES ASSUME b <= y PROVE FALSE
      BY <1>5
    <2>1. c * b <= c * y
      BY <1>4, <1>5
    <2>2. c * b = b * b * b
      OBVIOUS
    <2> QED BY <1>5, <2>1, <2>2
  <1>7. n = b * (b * y + (x % b)) + (n % b)
    BY <1>1, <1>2, <1>3
  <1>8. b * (b * y + (x % b)) = b * b * y + b * (x % b)
    <2> DEFINE r == x % b
    <2>1. y \in Nat /\ r \in Nat
      BY <1>2, <1>5
    <2> HIDE DEF x, y, r
    <2>2. b * (b * y + r) = b * b * y + b * r
      BY <2>1
    <2> QED BY <2>2 DEF r
  <1> QED BY <1>1, <1>2, <1>5, <1>6, <1>7, <1>8

LEMMA HeadLength ==
  ASSUME NEW head, IsHead(head)
  PROVE  BodyLength(head) \in 0..MaxBody
  <1>1. ByteBase \in Nat \ {0}
    BY ParserAssumption DEF PC_PKG_KICK
  <1>2. \A i \in 1..4 : head[i] \in 0..(ByteBase - 1)
    BY ElementOfSeq DEF IsHead, Bytes, Byte, PC_PKG_HEAD_BYTES
  <1> DEFINE b == ByteBase
  <1>3. /\ b \in Nat \ {0} /\ head[4] \in 0..(b - 1)
        /\ head[3] \in 0..(b - 1) /\ head[2] \in 0..(b - 1)
    BY <1>1, <1>2
  <1> HIDE DEF b
  <1>4. head[4] + b * head[3] + b * b * head[2] \in 0..(b * b * b - 1)
    BY <1>3, DigitsFit
  <1> QED BY <1>4 DEF b, BodyLength, MaxBody

\* What BodyLength reads is what Encoded wrote.
LEMMA EncodedHead ==
  ASSUME NEW p \in Packages
  PROVE  \E head : /\ IsHead(head) /\ Encoded(p) = Cat(head, p.body)
                   /\ head[1] = p.type /\ BodyLength(head) = Len(p.body)
                   /\ p.body \in Bytes /\ p.type \in Byte
  <1> DEFINE b == ByteBase
             n == Len(p.body)
             x == n \div (b * b)
             y == (n \div b) % b
             z == n % b
             head == <<p.type, x, y, z>>
  <1>1. /\ b \in Nat \ {0} /\ p.body \in Bytes /\ p.type \in Byte
        /\ n < b * b * b
    BY ParserAssumption DEF PC_PKG_KICK, Bytes, Byte
  <1>2. n \in 0..(b * b * b - 1)
    BY <1>1, LenProperties DEF Bytes
  <1>3. /\ x \in 0..(b - 1) /\ y \in 0..(b - 1) /\ z \in 0..(b - 1)
        /\ z + b * y + b * b * x = n
    BY <1>1, <1>2, DigitsOf
  <1>4. Encoded(p) = Cat(head, p.body)
    BY DEF Encoded, Cat
  <1> HIDE DEF n, x, y, z
  <1>5. IsHead(head) /\ head[1] = p.type
    BY <1>1, <1>3 DEF IsHead, Bytes, Byte, PC_PKG_HEAD_BYTES
  <1>6. BodyLength(head) = n
    BY <1>3 DEF BodyLength
  <1> HIDE DEF head
  <1> QED BY <1>1, <1>4, <1>5, <1>6 DEF n

(***************************************************************************)
(* A turn of the parser                                                    *)
(***************************************************************************)

ParserTyped(p) ==
  p \in [state : {"HEAD", "BODY"}, head_buf : Bytes, pkg_buf : Bytes,
         pkg_size : 0..MaxBody]

\* The head is there, and at most the whole of the body.
HasHead(p) ==
  /\ ParserTyped(p)
  /\ p.state = "BODY" /\ IsHead(p.head_buf)
  /\ p.pkg_size = BodyLength(p.head_buf)
  /\ Len(p.pkg_buf) <= p.pkg_size

LacksHead(p) ==
  /\ ParserTyped(p)
  /\ p.state = "HEAD" /\ p.pkg_buf = <<>>
  /\ Len(p.head_buf) < PC_PKG_HEAD_BYTES

\* Between two turns: what is buffered is less than a package.
ParserOK(p) == LacksHead(p) \/ (HasHead(p) /\ Len(p.pkg_buf) < p.pkg_size)

Buffered(p) == Cat(p.head_buf, p.pkg_buf)

\* t is a turn that moved bytes from data to the buffers of p, and lost none.
Moved(t, p, data) ==
  /\ t.left \in Bytes /\ Len(t.left) <= Len(data)
  /\ Cat(Buffered(t.next), t.left) = Cat(Buffered(p), data)

\* What a turn takes from data, and what it leaves
LEMMA Taken ==
  ASSUME NEW data \in Bytes, NEW n \in Nat
  PROVE  \E f, r \in Bytes :
           /\ f = First(n, data) /\ r = Rest(n, data) /\ Cat(f, r) = data
           /\ Len(f) \in 0..n /\ Len(r) <= Len(data)
           /\ Len(f) < n => r = <<>>
  <1>1. Len(data) \in Nat
    BY LenProperties DEF Bytes
  <1>2. \A r \in Bytes : Len(r) = 0 => r = <<>>
    BY EmptySeq DEF Bytes
  <1> QED BY <1>1, <1>2, FirstAndRest DEF Cat

LEMMA SizeIsNat == ASSUME NEW p, ParserTyped(p)
                   PROVE  p.pkg_size \in Nat /\ p.pkg_size <= MaxBody
  <1>1. MaxBody \in Int
    BY ParserAssumption DEF MaxBody
  <1> HIDE DEF MaxBody
  <1> QED BY <1>1 DEF ParserTyped

LEMMA UpToHead ==
  /\ \A k \in Nat : k < PC_PKG_HEAD_BYTES => k \in 0..PC_PKG_HEAD_BYTES
  /\ \A k \in 0..PC_PKG_HEAD_BYTES :
       k # PC_PKG_HEAD_BYTES => k < PC_PKG_HEAD_BYTES
  BY DEF PC_PKG_HEAD_BYTES

LEMMA BodyTurnMoves ==
  ASSUME NEW p, HasHead(p), NEW data \in Bytes
  PROVE  /\ Moved(BodyTurn(p, data), p, data)
         /\ HasHead(BodyTurn(p, data).next)
         /\ BodyTurn(p, data).ends
              <=> Len(BodyTurn(p, data).next.pkg_buf)
                    = BodyTurn(p, data).next.pkg_size
  <1> DEFINE n == p.pkg_size - Len(p.pkg_buf)
             t == BodyTurn(p, data)
  <1>1. /\ p.head_buf \in Bytes /\ p.pkg_buf \in Bytes /\ p.pkg_size \in Nat
        /\ Len(p.pkg_buf) \in Nat /\ Len(p.pkg_buf) <= p.pkg_size
    BY SizeIsNat, LenProperties DEF HasHead, ParserTyped, Bytes
  <1>2. n \in Nat
    BY <1>1
  <1>3. PICK f, r \in Bytes :
          /\ f = First(n, data) /\ r = Rest(n, data) /\ Cat(f, r) = data
          /\ Len(f) \in 0..n /\ Len(r) <= Len(data)
    <2> HIDE DEF n
    <2> QED BY <1>2, Taken
  <1> DEFINE q == [p EXCEPT !.pkg_buf = p.pkg_buf \o f]
  <1>4. /\ t.next = q /\ t.left = r
        /\ t.ends <=> Len(q.pkg_buf) = q.pkg_size
    BY <1>3 DEF BodyTurn, ParseBody, Needed, Complete, HasHead
  <1>5. /\ q.head_buf = p.head_buf /\ q.pkg_buf = p.pkg_buf \o f
        /\ q.state = p.state /\ q.pkg_size = p.pkg_size
        /\ q.pkg_buf \in Bytes => ParserTyped(q)
    BY DEF HasHead, ParserTyped
  <1>6. /\ p.pkg_buf \o f \in Bytes
        /\ Len(p.pkg_buf \o f) = Len(p.pkg_buf) + Len(f)
    BY <1>1, CatTyped DEF Cat
  <1> HIDE DEF q, t
  <1>7. HasHead(q)
    <2>1. Len(f) \in 0..(p.pkg_size - Len(p.pkg_buf))
      BY <1>3
    <2>2. p.pkg_size \in Nat /\ Len(p.pkg_buf) \in 0..p.pkg_size
      BY <1>1
    <2>3. Len(p.pkg_buf \o f) <= p.pkg_size
      BY <1>6, <2>1, <2>2
    <2> QED BY <1>5, <1>6, <2>3 DEF HasHead
  <1>8. Cat(Buffered(q), r) = Cat(Buffered(p), data)
    <2>1. PICK h, b \in Bytes : h = p.head_buf /\ b = p.pkg_buf
      BY <1>1
    <2>2. Buffered(q) = Cat(h, Cat(b, f)) /\ Buffered(p) = Cat(h, b)
      BY <1>5, <2>1 DEF Buffered, Cat
    <2>3. Cat(Cat(h, Cat(b, f)), r) = Cat(Cat(h, b), Cat(f, r))
      BY CatAssociative, CatTyped
    <2> QED BY <1>3, <2>2, <2>3
  <1>9. Moved(t, p, data) /\ HasHead(t.next)
    BY <1>3, <1>4, <1>7, <1>8 DEF Moved
  <1> QED BY <1>4, <1>9 DEF t

LEMMA HeadTurnMoves ==
  ASSUME NEW p, LacksHead(p), NEW data \in Bytes
  PROVE  /\ Moved(HeadTurn(p, data), p, data)
         /\ \/ LacksHead(HeadTurn(p, data).next)
            \/ /\ HasHead(HeadTurn(p, data).next)
               /\ HeadTurn(p, data).next.pkg_buf = <<>>
         /\ ~HeadTurn(p, data).ends
  <1> DEFINE n == PC_PKG_HEAD_BYTES - Len(p.head_buf)
             q == ParseHead(p, data)
             t == HeadTurn(p, data)
  <1>1. /\ p.head_buf \in Bytes /\ Len(p.head_buf) \in Nat
        /\ Len(p.head_buf) < PC_PKG_HEAD_BYTES /\ p.pkg_buf = <<>>
    BY LenProperties DEF LacksHead, ParserTyped, Bytes
  <1>2. n \in Nat /\ Needed(p) = n
    BY <1>1 DEF Needed, LacksHead, PC_PKG_HEAD_BYTES
  <1>3. PICK f, r \in Bytes :
          /\ f = First(n, data) /\ r = Rest(n, data) /\ Cat(f, r) = data
          /\ Len(f) \in 0..n /\ Len(r) <= Len(data)
    <2> HIDE DEF n
    <2> QED BY <1>2, Taken
  <1> DEFINE head == p.head_buf \o f
  <1>4. t.next = q /\ t.left = r /\ ~t.ends
    BY <1>2, <1>3 DEF HeadTurn
  <1>5. q = IF Len(head) = PC_PKG_HEAD_BYTES
              THEN [state |-> "BODY", head_buf |-> head,
                    pkg_buf |-> <<>>, pkg_size |-> BodyLength(head)]
              ELSE [p EXCEPT !.head_buf = head]
    BY <1>2, <1>3 DEF ParseHead
  <1>6. head \in Bytes /\ Len(head) = Len(p.head_buf) + Len(f)
    BY <1>1, CatTyped DEF Cat
  <1>7. Len(head) \in 0..PC_PKG_HEAD_BYTES
    <2>1. Len(f) \in 0..(PC_PKG_HEAD_BYTES - Len(p.head_buf))
      BY <1>3
    <2>2. Len(p.head_buf) \in 0..PC_PKG_HEAD_BYTES
      BY <1>1, UpToHead
    <2> HIDE DEF head
    <2> QED BY <1>6, <2>1, <2>2 DEF PC_PKG_HEAD_BYTES
  <1>8. Cat(head, r) = Cat(p.head_buf, data)
    <2>1. PICK h \in Bytes : h = p.head_buf
      BY <1>1
    <2>2. Cat(Cat(h, f), r) = Cat(h, Cat(f, r))
      BY CatAssociative
    <2>3. head = Cat(h, f)
      BY <2>1 DEF Cat
    <2> HIDE DEF head
    <2> QED BY <1>3, <2>1, <2>2, <2>3
  <1> HIDE DEF head, t, q
  <1>9. q.head_buf = head /\ q.pkg_buf = <<>> /\ (LacksHead(q) \/ HasHead(q))
    <2>1. CASE Len(head) = PC_PKG_HEAD_BYTES
      <3>1. BodyLength(head) \in 0..MaxBody /\ IsHead(head)
        BY <1>6, <2>1, HeadLength DEF IsHead
      <3>2. /\ q.head_buf = head /\ q.pkg_buf = <<>> /\ q.state = "BODY"
            /\ q.pkg_size = BodyLength(head) /\ ParserTyped(q)
        BY <1>5, <1>6, <2>1, <3>1, CatEmpty DEF ParserTyped
      <3>3. Len(q.pkg_buf) <= q.pkg_size
        <4>1. q.pkg_size \in Nat
          BY <3>2, SizeIsNat
        <4> QED BY <3>2, <4>1, CatEmpty
      <3> QED BY <3>1, <3>2, <3>3 DEF HasHead
    <2>2. CASE Len(head) # PC_PKG_HEAD_BYTES
      <3>1. Len(head) < PC_PKG_HEAD_BYTES
        BY <1>7, <2>2, UpToHead
      <3>2. /\ q.head_buf = head /\ q.pkg_buf = p.pkg_buf /\ q.state = p.state
            /\ ParserTyped(q)
        BY <1>5, <1>6, <2>2 DEF LacksHead, ParserTyped
      <3> QED BY <1>1, <3>1, <3>2 DEF LacksHead
    <2> QED BY <2>1, <2>2
  <1>10. Cat(Buffered(q), r) = Cat(Buffered(p), data)
    BY <1>1, <1>6, <1>8, <1>9, CatEmpty DEF Buffered
  <1>11. Moved(t, p, data)
    BY <1>3, <1>4, <1>10 DEF Moved
  <1> QED BY <1>4, <1>9, <1>11 DEF t

LEMMA MovedTwice ==
  ASSUME NEW p, NEW t, NEW u, NEW data \in Bytes,
         Moved(t, p, data), Moved(u, t.next, t.left)
  PROVE  Moved(u, p, data)
  <1>1. Len(data) \in Nat /\ Len(t.left) \in Nat /\ Len(u.left) \in Nat
    BY LenProperties DEF Bytes, Moved
  <1> QED BY <1>1 DEF Moved

LEMMA TurnMoves ==
  ASSUME NEW p, ParserOK(p), NEW data \in Bytes
  PROVE  /\ Moved(Turn(p, data), p, data)
         /\ ~Turn(p, data).ends => ParserOK(Turn(p, data).next)
         /\ Turn(p, data).ends => /\ HasHead(Turn(p, data).next)
                                  /\ Len(Turn(p, data).next.pkg_buf)
                                       = Turn(p, data).next.pkg_size
  <1>1. ASSUME NEW q, HasHead(q), NEW left \in Bytes
        PROVE  LET u == BodyTurn(q, left)
               IN /\ Moved(u, q, left)
                  /\ ~u.ends => ParserOK(u.next)
                  /\ u.ends => HasHead(u.next) /\ Len(u.next.pkg_buf) = u.next.pkg_size
    <2> DEFINE u == BodyTurn(q, left)
    <2>1. /\ Moved(u, q, left) /\ HasHead(u.next)
          /\ u.ends <=> Len(u.next.pkg_buf) = u.next.pkg_size
      BY <1>1, BodyTurnMoves
    <2> HIDE DEF u
    <2>2. /\ u.next.pkg_size \in Nat /\ Len(u.next.pkg_buf) \in Nat
          /\ Len(u.next.pkg_buf) <= u.next.pkg_size
      BY <2>1, SizeIsNat, LenProperties DEF HasHead, ParserTyped, Bytes
    <2>3. ~u.ends => Len(u.next.pkg_buf) < u.next.pkg_size
      BY <2>1, <2>2
    <2> QED BY <2>1, <2>3 DEF ParserOK, u
  <1>2. CASE p.state = "BODY"
    <2> DEFINE u == BodyTurn(p, data)
    <2>1. HasHead(p) /\ Turn(p, data) = u
      BY <1>2 DEF ParserOK, LacksHead, Turn
    <2>2. /\ Moved(u, p, data)
          /\ ~u.ends => ParserOK(u.next)
          /\ u.ends => HasHead(u.next) /\ Len(u.next.pkg_buf) = u.next.pkg_size
      BY <1>1, <2>1
    <2> HIDE DEF u
    <2> QED BY <2>1, <2>2
  <1>3. CASE p.state # "BODY"
    <2> DEFINE t == HeadTurn(p, data)
               u == BodyTurn(t.next, t.left)
    <2>1. LacksHead(p)
      BY <1>3 DEF ParserOK, HasHead
    <2>2. /\ Moved(t, p, data) /\ ~t.ends
          /\ LacksHead(t.next) \/ (HasHead(t.next) /\ t.next.pkg_buf = <<>>)
      BY <2>1, HeadTurnMoves
    <2>3. Turn(p, data) = IF t.next.state = "BODY" THEN u ELSE t
      BY <1>3 DEF Turn
    <2> HIDE DEF t
    <2>4. CASE t.next.state = "BODY"
      <3>1. HasHead(t.next) /\ t.left \in Bytes
        BY <2>2, <2>4 DEF LacksHead, Moved
      <3>2. /\ Moved(u, t.next, t.left)
            /\ ~u.ends => ParserOK(u.next)
            /\ u.ends => HasHead(u.next) /\ Len(u.next.pkg_buf) = u.next.pkg_size
        BY <1>1, <3>1
      <3>3. Turn(p, data) = u
        BY <2>3, <2>4
      <3> HIDE DEF u
      <3>4. Moved(u, p, data)
        BY <2>2, <3>2, MovedTwice
      <3> QED BY <3>2, <3>3, <3>4
    <2>5. CASE t.next.state # "BODY"
      <3>1. Turn(p, data) = t
        BY <2>3, <2>5
      <3>2. LacksHead(t.next)
        BY <2>2, <2>5 DEF HasHead
      <3> QED BY <2>2, <3>1, <3>2 DEF ParserOK
    <2> QED BY <2>4, <2>5
  <1> QED BY <1>2, <1>3

(***************************************************************************)
(* What the bytes of a connection spell                                    *)
(***************************************************************************)

LEMMA HeadAndBody ==
  ASSUME NEW h, IsHead(h), NEW b \in Bytes, Len(b) = BodyLength(h),
         NEW more \in Bytes, NEW k \in Packages, NEW rest \in Bytes,
         Cat(Cat(h, b), more) = Cat(Encoded(k), rest)
  PROVE  h[1] = k.type /\ b = k.body /\ more = rest
  <1>1. PICK head : /\ IsHead(head) /\ Encoded(k) = Cat(head, k.body)
                    /\ head[1] = k.type /\ BodyLength(head) = Len(k.body)
                    /\ k.body \in Bytes
    BY EncodedHead
  <1>2. PICK body \in Bytes : body = k.body
    BY <1>1
  <1>3. head \in Bytes /\ h \in Bytes /\ Len(h) = Len(head)
    BY <1>1 DEF IsHead
  <1>4. Cat(h, Cat(b, more)) = Cat(head, Cat(body, rest))
    BY <1>1, <1>2, <1>3, CatAssociative
  <1>5. h = head /\ Cat(b, more) = Cat(body, rest)
    <2>1. Cat(b, more) \in Bytes /\ Cat(body, rest) \in Bytes
      BY CatTyped
    <2> QED BY <1>3, <1>4, <2>1, CatSplits
  <1>6. Len(b) = Len(body)
    BY <1>1, <1>2, <1>5
  <1>7. b = body /\ more = rest
    BY <1>5, <1>6, CatSplits
  <1> QED BY <1>1, <1>2, <1>5, <1>7

\* A parser that has the whole of a package has the one that comes first, and
\* what it has not read is what comes after it.
LEMMA EndsGivePackage ==
  ASSUME NEW q, HasHead(q), Len(q.pkg_buf) = q.pkg_size, NEW k \in Packages,
         NEW more \in Bytes, NEW rest \in Bytes,
         Cat(Buffered(q), more) = Cat(Encoded(k), rest)
  PROVE  [type |-> q.head_buf[1], body |-> q.pkg_buf] = k /\ more = rest
  <1>1. PICK h, b : h = q.head_buf /\ b = q.pkg_buf
    OBVIOUS
  <1>2. IsHead(h) /\ b \in Bytes /\ Len(b) = BodyLength(h)
    BY <1>1 DEF HasHead, ParserTyped
  <1>3. Cat(Cat(h, b), more) = Cat(Encoded(k), rest)
    BY <1>1 DEF Buffered
  <1>4. h[1] = k.type /\ b = k.body /\ more = rest
    BY <1>2, <1>3, HeadAndBody
  <1>5. k = [type |-> k.type, body |-> k.body]
    BY ParserAssumption
  <1> QED BY <1>1, <1>4, <1>5

\* What is between two turns is less than a package.
LEMMA BufferedIsLess ==
  ASSUME NEW q, ParserOK(q), NEW k \in Packages, NEW rest \in Bytes
  PROVE  Buffered(q) # Cat(Encoded(k), rest)
  <1> SUFFICES ASSUME Buffered(q) = Cat(Encoded(k), rest) PROVE FALSE
    OBVIOUS
  <1>1. PICK head : /\ IsHead(head) /\ Encoded(k) = Cat(head, k.body)
                    /\ BodyLength(head) = Len(k.body) /\ k.body \in Bytes
    BY EncodedHead
  <1>2. PICK body \in Bytes : body = k.body
    BY <1>1
  <1>3. head \in Bytes /\ Len(head) = 4
    BY <1>1 DEF IsHead, PC_PKG_HEAD_BYTES
  <1>4. PICK h, b \in Bytes : h = q.head_buf /\ b = q.pkg_buf
    BY DEF ParserOK, HasHead, LacksHead, ParserTyped
  <1>5. Cat(h, b) = Cat(head, Cat(body, rest))
    BY <1>1, <1>2, <1>3, <1>4, CatAssociative DEF Buffered
  <1>6. Cat(body, rest) \in Bytes
    BY CatTyped
  <1>7. Len(Cat(body, rest)) = Len(body) + Len(rest)
        /\ Len(Cat(h, b)) = Len(h) + Len(b)
        /\ Len(Cat(h, b)) = Len(head) + Len(Cat(body, rest))
    BY <1>3, <1>5, <1>6, CatTyped
  <1>8. Len(h) \in Nat /\ Len(b) \in Nat /\ Len(body) \in Nat /\ Len(rest) \in Nat
    BY CatEmpty
  <1>9. CASE LacksHead(q)
    <2>1. b = <<>> /\ Len(h) < 4
      BY <1>4, <1>9 DEF LacksHead, PC_PKG_HEAD_BYTES
    <2>2. Len(b) = 0
      BY <2>1, CatEmpty
    <2> QED BY <1>3, <1>7, <1>8, <2>1, <2>2
  <1>10. CASE HasHead(q) /\ Len(q.pkg_buf) < q.pkg_size
    <2>1. Len(h) = Len(head) /\ Len(b) < BodyLength(h)
      BY <1>1, <1>4, <1>10 DEF HasHead, IsHead
    <2>2. h = head
      BY <1>3, <1>5, <1>6, <2>1, CatSplits
    <2>3. Len(b) < Len(body)
      BY <1>1, <1>2, <2>1, <2>2
    <2> QED BY <1>7, <1>8, <2>1, <2>3
  <1> QED BY <1>9, <1>10 DEF ParserOK

LEMMA EncodedTyped ==
  ASSUME NEW k \in Packages
  PROVE  Encoded(k) \in Bytes /\ Encoded(k) # <<>>
  <1>1. PICK head : /\ IsHead(head) /\ Encoded(k) = Cat(head, k.body)
                    /\ k.body \in Bytes
    BY EncodedHead
  <1>2. head \in Bytes /\ Len(head) = 4
    BY <1>1 DEF IsHead, PC_PKG_HEAD_BYTES
  <1>3. /\ Encoded(k) \in Bytes /\ Len(Encoded(k)) = Len(head) + Len(k.body)
        /\ Len(k.body) \in Nat
    BY <1>1, <1>2, CatTyped, CatEmpty
  <1>4. Len(Encoded(k)) # 0
    BY <1>2, <1>3
  <1> QED BY <1>3, <1>4, CatEmpty

\* The bytes are the encodings of the packages of s after the first d: there
\* is, after each of them, a rest of the bytes.
Spells(s, d, bytes) ==
  \E rest \in [d..Len(s) -> Bytes] :
    /\ rest[d] = bytes /\ rest[Len(s)] = <<>>
    /\ \A i \in (d + 1)..Len(s) : rest[i - 1] = Cat(Encoded(s[i]), rest[i])

LEMMA SpellsNothing ==
  ASSUME NEW s, Len(s) \in Nat, NEW bytes, Spells(s, Len(s), bytes)
  PROVE  bytes = <<>>
  BY DEF Spells

LEMMA NothingSpelled ==
  ASSUME NEW s, Len(s) \in Nat
  PROVE  Spells(s, Len(s), <<>>)
  <1> DEFINE n == Len(s)
             rest == [i \in n..n |-> <<>>]
  <1>1. rest \in [n..n -> Bytes]
    BY CatEmpty
  <1>2. rest[n] = <<>> /\ (n + 1)..n = {}
    OBVIOUS
  <1> HIDE DEF rest
  <1> QED BY <1>1, <1>2 DEF Spells

LEMMA SpellsFirst ==
  ASSUME NEW s, Len(s) \in Nat, NEW d \in 0..(Len(s) - 1), NEW bytes,
         Spells(s, d, bytes)
  PROVE  \E more \in Bytes : /\ bytes = Cat(Encoded(s[d + 1]), more)
                             /\ Spells(s, d + 1, more)
  <1> DEFINE n == Len(s)
  <1>1. PICK rest \in [d..n -> Bytes] :
          /\ rest[d] = bytes /\ rest[n] = <<>>
          /\ \A i \in (d + 1)..n : rest[i - 1] = Cat(Encoded(s[i]), rest[i])
    BY DEF Spells
  <1> DEFINE tail == [i \in (d + 1)..n |-> rest[i]]
  <1>2. /\ d \in Nat /\ n \in Nat /\ d + 1 \in (d + 1)..n /\ n \in (d + 1)..n
        /\ (d + 1) - 1 = d
    OBVIOUS
  <1>3. tail \in [(d + 1)..n -> Bytes]
    OBVIOUS
  <1>4. tail[n] = <<>> /\ tail[d + 1] = rest[d + 1]
    BY <1>1, <1>2
  <1>5. \A i \in ((d + 1) + 1)..n : tail[i - 1] = Cat(Encoded(s[i]), tail[i])
    BY <1>1, <1>2
  <1>6. bytes = Cat(Encoded(s[d + 1]), rest[d + 1]) /\ rest[d + 1] \in Bytes
    BY <1>1, <1>2
  <1> HIDE DEF tail
  <1>7. Spells(s, d + 1, rest[d + 1])
    BY <1>3, <1>4, <1>5 DEF Spells
  <1> QED BY <1>6, <1>7

LEMMA SpellsMore ==
  ASSUME NEW s \in Seq(Packages), NEW d \in 0..Len(s), NEW bytes \in Bytes,
         Spells(s, d, bytes), NEW p \in Packages
  PROVE  Spells(Append(s, p), d, Cat(bytes, Encoded(p)))
  <1> DEFINE n == Len(s)
             s2 == Append(s, p)
             e == Encoded(p)
  <1>1. /\ n \in Nat /\ Len(s2) = n + 1 /\ s2[n + 1] = p
        /\ \A i \in 1..n : s2[i] = s[i] /\ s[i] \in Packages
    BY AppendProperties, LenProperties, ElementOfSeq
  <1>2. e \in Bytes
    BY EncodedTyped
  <1>3. PICK rest \in [d..n -> Bytes] :
          /\ rest[d] = bytes /\ rest[n] = <<>>
          /\ \A i \in (d + 1)..n : rest[i - 1] = Cat(Encoded(s[i]), rest[i])
    BY DEF Spells
  <1> DEFINE more == [i \in d..(n + 1) |->
                        IF i = n + 1 THEN <<>> ELSE Cat(rest[i], e)]
  <1> HIDE DEF s2, e, n
  <1>4. more \in [d..(n + 1) -> Bytes]
    <2> SUFFICES ASSUME NEW i \in d..(n + 1), i # n + 1
                 PROVE  Cat(rest[i], e) \in Bytes
      BY CatEmpty
    <2>1. rest[i] \in Bytes
      BY <1>1 DEF n
    <2> QED BY <1>2, <2>1, CatTyped
  <1>5. /\ more[d] = Cat(bytes, e) /\ more[n + 1] = <<>>
        /\ more[n] = Cat(<<>>, e)
    BY <1>1, <1>3 DEF n
  <1>6. ASSUME NEW i \in (d + 1)..(n + 1)
        PROVE  more[i - 1] = Cat(Encoded(s2[i]), more[i])
    <2>1. CASE i = n + 1
      <3>1. i - 1 = n
        BY <1>1, <2>1
      <3> HIDE DEF more
      <3>2. Cat(<<>>, e) = e /\ Cat(e, <<>>) = e
        BY <1>2, CatEmpty
      <3> QED BY <1>1, <1>5, <2>1, <3>1, <3>2 DEF e
    <2>2. CASE i # n + 1
      <3>1. i \in (d + 1)..n /\ i \in 1..n /\ i - 1 \in d..n /\ i \in d..n
        BY <1>1, <2>2 DEF n
      <3>2. more[i - 1] = Cat(rest[i - 1], e) /\ more[i] = Cat(rest[i], e)
        BY <1>1, <2>2, <3>1
      <3> HIDE DEF more
      <3>3. s2[i] = s[i] /\ Encoded(s[i]) \in Bytes /\ rest[i] \in Bytes
        BY <1>1, <3>1, EncodedTyped
      <3>4. rest[i - 1] = Cat(Encoded(s[i]), rest[i])
        BY <1>3, <3>1
      <3>5. Cat(Cat(Encoded(s[i]), rest[i]), e) = Cat(Encoded(s[i]), Cat(rest[i], e))
        BY <1>2, <3>3, CatAssociative
      <3> QED BY <3>2, <3>3, <3>4, <3>5
    <2> QED BY <2>1, <2>2
  <1> HIDE DEF more
  <1>7. Spells(s2, d, Cat(bytes, e))
    BY <1>1, <1>4, <1>5, <1>6 DEF Spells
  <1> QED BY <1>7 DEF s2, e

(***************************************************************************)
(* The invariant                                                           *)
(***************************************************************************)

\* The bytes of this connection that no package was made of yet
Pending == Cat(Buffered(parser), Cat(chunk, wire))

\* Nothing is left of a connection that is down.
Down ==
  /\ parser = Fresh /\ chunk = <<>> /\ wire = <<>>
  /\ sent = <<>> /\ delivered = <<>>

InvTyped ==
  /\ ParserOK(parser) /\ up \in BOOLEAN
  /\ chunk \in Bytes /\ Len(chunk) <= MaxRead /\ wire \in Bytes
  /\ sent \in Seq(Packages) /\ delivered \in Seq(Packages)

\* delivered is the beginning of sent.
Begins ==
  /\ Len(delivered) \in 0..Len(sent)
  /\ \A i \in 1..Len(delivered) : delivered[i] = sent[i]

KickIsLast == \A i \in 1..(Len(sent) - 1) : sent[i].type # PC_PKG_KICK

Inv ==
  /\ InvTyped /\ Begins /\ KickIsLast
  /\ Spells(sent, Len(delivered), Pending)
  /\ ~up => Down

LEMMA BufferedTyped ==
  ASSUME NEW p, ParserTyped(p)
  PROVE  Buffered(p) \in Bytes
  BY CatTyped DEF ParserTyped, Buffered

LEMMA FreshIsOK == ParserOK(Fresh) /\ Buffered(Fresh) = <<>>
  <1>1. MaxBody \in Nat
    <2>1. ByteBase \in Nat \ {0}
      BY ParserAssumption DEF PC_PKG_KICK
    <2>2. 0 + ByteBase * 0 + ByteBase * ByteBase * 0
            \in 0..(ByteBase * ByteBase * ByteBase - 1)
      BY <2>1, DigitsFit
    <2>3. ByteBase * ByteBase * ByteBase - 1 \in Int
      BY <2>1
    <2> QED BY <2>2, <2>3 DEF MaxBody
  <1> HIDE DEF MaxBody
  <1>2. 0 \in 0..MaxBody /\ 0 < PC_PKG_HEAD_BYTES
    BY <1>1 DEF PC_PKG_HEAD_BYTES
  <1>3. ParserTyped(Fresh)
    BY <1>2, CatEmpty DEF Fresh, ParserTyped
  <1>4. LacksHead(Fresh)
    BY <1>2, <1>3, CatEmpty DEF Fresh, LacksHead
  <1> QED BY <1>4, CatEmpty DEF ParserOK, Buffered, Fresh

LEMMA OKIsTyped == ASSUME NEW p, ParserOK(p) PROVE ParserTyped(p)
  BY DEF ParserOK, LacksHead, HasHead

\* A connection that is down, or has just been made
LEMMA DownInv == ASSUME Down, up \in BOOLEAN PROVE Inv
  <1>1. <<>> \in Seq(Packages) /\ Len(<<>>) = 0
    OBVIOUS
  <1>2. InvTyped
    BY <1>1, FreshIsOK, CatEmpty, ParserAssumption DEF Down, InvTyped
  <1>3. Begins /\ KickIsLast
    BY <1>1 DEF Down, Begins, KickIsLast
  <1>4. Pending = <<>>
    BY FreshIsOK, CatEmpty DEF Down, Pending
  <1>5. Spells(sent, Len(delivered), Pending)
    BY <1>1, <1>4, NothingSpelled DEF Down
  <1> QED BY <1>2, <1>3, <1>5 DEF Inv, Down

\* A turn that ends no package keeps what is pending; one that ends a package
\* ends the first that is pending.
TurnKeeps ==
  /\ ParserOK(parser') /\ Pending' = Pending
  /\ UNCHANGED <<up, wire, sent, delivered>>

TurnDelivers ==
  /\ Len(delivered) < Len(sent)
  /\ parser' = Fresh /\ Spells(sent, Len(delivered) + 1, Pending')
  /\ delivered' = Append(delivered, sent[Len(delivered) + 1])
  /\ UNCHANGED <<up, wire, sent>>

TurnKicks == Down' /\ up' = FALSE

LEMMA FeedTurns ==
  ASSUME Inv, Feed
  PROVE  /\ chunk' \in Bytes /\ Len(chunk') <= MaxRead
         /\ TurnKeeps \/ TurnDelivers \/ TurnKicks
  <1> DEFINE t == Turn(parser, chunk)
             package == [type |-> t.next.head_buf[1], body |-> t.next.pkg_buf]
             d == Len(delivered)
             B0 == Buffered(parser)
             B1 == Buffered(t.next)
  <1>1. /\ ParserOK(parser) /\ chunk \in Bytes /\ wire \in Bytes
        /\ Len(chunk) <= MaxRead
        /\ sent \in Seq(Packages) /\ d \in 0..Len(sent) /\ Len(sent) \in Nat
        /\ \A i \in 1..Len(sent) : sent[i] \in Packages
        /\ chunk # <<>> /\ up
    BY LenProperties, ElementOfSeq DEF Inv, InvTyped, Begins, Feed, Down
  <1>2. /\ Moved(t, parser, chunk)
        /\ ~t.ends => ParserOK(t.next)
        /\ t.ends => HasHead(t.next) /\ Len(t.next.pkg_buf) = t.next.pkg_size
    BY <1>1, TurnMoves
  <1>3. /\ chunk' = t.left
        /\ ~t.ends => parser' = t.next /\ UNCHANGED <<up, wire, sent, delivered>>
        /\ t.ends /\ t.next.head_buf[1] = PC_PKG_KICK
             => /\ parser' = Fresh /\ up' = FALSE
                /\ wire' = <<>> /\ sent' = <<>> /\ delivered' = <<>>
        /\ t.ends /\ t.next.head_buf[1] # PC_PKG_KICK
             => /\ parser' = Fresh /\ delivered' = Append(delivered, package)
                /\ UNCHANGED <<up, wire, sent>>
    BY <1>1 DEF Feed, Resets
  <1> HIDE DEF t
  <1>4. B0 \in Bytes /\ B1 \in Bytes /\ t.left \in Bytes
    <2>1. ParserTyped(t.next)
      BY <1>2, OKIsTyped DEF HasHead
    <2> QED BY <1>1, <1>2, <2>1, OKIsTyped, BufferedTyped DEF Moved
  <1>5. Len(chunk') <= MaxRead /\ chunk' \in Bytes
    BY <1>1, <1>2, <1>3, CatEmpty, ParserAssumption DEF Moved
  <1>6. Pending = Cat(B1, Cat(t.left, wire)) /\ Pending = Cat(B0, Cat(chunk, wire))
    <2>1. Cat(B1, t.left) = Cat(B0, chunk)
      BY <1>2 DEF Moved
    <2>2. Pending = Cat(B0, Cat(chunk, wire))
      BY DEF Pending
    <2> HIDE DEF B0, B1
    <2>3. Cat(B0, Cat(chunk, wire)) = Cat(B1, Cat(t.left, wire))
      BY <1>1, <1>4, <2>1, CatAssociative
    <2> QED BY <2>2, <2>3
  <1>7. CASE ~t.ends
    BY <1>2, <1>3, <1>5, <1>6, <1>7 DEF TurnKeeps, Pending
  <1>8. CASE t.ends
    <2>1. d < Len(sent)
      <3> SUFFICES ASSUME d = Len(sent) PROVE FALSE
        BY <1>1
      <3>1. Pending = <<>>
        BY <1>1, SpellsNothing DEF Inv
      <3> HIDE DEF B0, B1
      <3>2. /\ Len(Pending) = Len(B0) + Len(Cat(chunk, wire))
            /\ Len(Cat(chunk, wire)) = Len(chunk) + Len(wire)
        BY <1>1, <1>4, <1>6, CatTyped
      <3>3. Len(chunk) # 0 /\ Len(Pending) = 0
        BY <1>1, <3>1, CatEmpty
      <3>4. Len(B0) \in Nat /\ Len(chunk) \in Nat /\ Len(wire) \in Nat
        BY <1>1, <1>4, CatEmpty
      <3> QED BY <3>2, <3>3, <3>4
    <2>2. PICK more \in Bytes : /\ Pending = Cat(Encoded(sent[d + 1]), more)
                                /\ Spells(sent, d + 1, more)
      BY <1>1, <2>1, SpellsFirst DEF Inv
    <2>3. sent[d + 1] \in Packages
      BY <1>1, <2>1
    <2>4. Cat(t.left, wire) \in Bytes
      BY <1>1, <1>4, CatTyped
    <2>5. package = sent[d + 1] /\ Cat(t.left, wire) = more
      <3>1. PICK q, k, rest : /\ q = t.next /\ k = sent[d + 1]
                              /\ rest = Cat(t.left, wire)
        OBVIOUS
      <3>2. /\ HasHead(q) /\ Len(q.pkg_buf) = q.pkg_size
            /\ k \in Packages /\ rest \in Bytes
        BY <1>2, <1>8, <2>3, <2>4, <3>1
      <3>3. Cat(Buffered(q), rest) = Cat(Encoded(k), more)
        BY <1>6, <2>2, <3>1
      <3>4. [type |-> q.head_buf[1], body |-> q.pkg_buf] = k /\ rest = more
        BY <3>2, <3>3, EndsGivePackage
      <3> QED BY <3>1, <3>4
    <2>6. package.type = t.next.head_buf[1]
      OBVIOUS
    <2> HIDE DEF package
    <2>7. CASE t.next.head_buf[1] = PC_PKG_KICK
      <3>1. d + 1 = Len(sent)
        BY <1>1, <2>1, <2>5, <2>6, <2>7 DEF Inv, KickIsLast
      <3>2. more = <<>>
        BY <1>1, <2>2, <3>1, SpellsNothing
      <3>3. /\ Len(Cat(t.left, wire)) = Len(t.left) + Len(wire)
            /\ Len(Cat(t.left, wire)) = 0
            /\ Len(t.left) \in Nat /\ Len(wire) \in Nat
        BY <1>1, <1>4, <2>5, <3>2, CatTyped, CatEmpty
      <3>4. Len(t.left) = 0
        <4>1. \A m, n \in Nat : m + n = 0 => m = 0
          OBVIOUS
        <4> QED BY <3>3, <4>1
      <3>5. chunk' = <<>>
        BY <1>3, <1>4, <3>4, CatEmpty
      <3>6. TurnKicks
        BY <1>3, <1>8, <2>7, <3>5 DEF TurnKicks, Down, Fresh
      <3> QED BY <1>5, <3>6
    <2>8. CASE t.next.head_buf[1] # PC_PKG_KICK
      <3>1. /\ parser' = Fresh /\ delivered' = Append(delivered, sent[d + 1])
            /\ UNCHANGED <<up, wire, sent>> /\ chunk' = t.left
        BY <1>3, <1>8, <2>5, <2>8 DEF package
      <3>2. Pending' = Cat(Buffered(Fresh), Cat(t.left, wire))
        BY <3>1 DEF Pending, Fresh
      <3>3. Pending' = more
        BY <2>4, <2>5, <3>2, FreshIsOK, CatEmpty
      <3>4. TurnDelivers
        BY <2>1, <2>2, <3>1, <3>3 DEF TurnDelivers
      <3> QED BY <1>5, <3>4
    <2> QED BY <2>7, <2>8
  <1> QED BY <1>7, <1>8

LEMMA FeedInv == ASSUME Inv, Feed PROVE Inv'
  <1>1. /\ chunk' \in Bytes /\ Len(chunk') <= MaxRead
        /\ TurnKeeps \/ TurnDelivers \/ TurnKicks
    BY FeedTurns
  <1>2. up
    BY DEF Inv, Feed, Down
  <1>3. CASE TurnKeeps
    <2>1. /\ ParserOK(parser') /\ Pending' = Pending
          /\ up' = up /\ wire' = wire /\ sent' = sent /\ delivered' = delivered
      BY <1>3 DEF TurnKeeps
    <2>2. InvTyped'
      BY <1>1, <2>1 DEF Inv, InvTyped
    <2>3. Begins' /\ KickIsLast'
      BY <2>1 DEF Inv, Begins, KickIsLast
    <2>4. Spells(sent, Len(delivered), Pending)'
      BY <2>1 DEF Inv, Spells
    <2> QED BY <1>2, <2>1, <2>2, <2>3, <2>4 DEF Inv
  <1>4. CASE TurnDelivers
    <2> DEFINE d == Len(delivered)
    <2>1. /\ d < Len(sent) /\ parser' = Fresh /\ Spells(sent, d + 1, Pending')
          /\ delivered' = Append(delivered, sent[d + 1])
          /\ up' = up /\ wire' = wire /\ sent' = sent
      BY <1>4 DEF TurnDelivers
    <2>2. /\ d \in Nat /\ Len(sent) \in Nat /\ sent[d + 1] \in Packages
          /\ delivered \in Seq(Packages)
      BY <2>1, LenProperties, ElementOfSeq DEF Inv, InvTyped, Begins
    <2>3. /\ delivered' \in Seq(Packages) /\ Len(delivered') = d + 1
          /\ \A i \in 1..d : delivered'[i] = delivered[i]
          /\ delivered'[d + 1] = sent[d + 1]
      BY <2>1, <2>2, AppendProperties
    <2>4. InvTyped'
      BY <1>1, <2>1, <2>3, FreshIsOK DEF Inv, InvTyped
    <2>5. Begins' /\ KickIsLast'
      BY <2>1, <2>2, <2>3 DEF Inv, Begins, KickIsLast
    <2>6. Spells(sent, Len(delivered), Pending)'
      BY <2>1, <2>3 DEF Spells
    <2> QED BY <1>2, <2>1, <2>4, <2>5, <2>6 DEF Inv
  <1>5. CASE TurnKicks
    <2>1. (Down /\ up \in BOOLEAN)'
      BY <1>5 DEF TurnKicks
    <2> QED BY <2>1, DownInv, PTL
  <1> QED BY <1>1, <1>3, <1>4, <1>5

LEMMA ReadInv == ASSUME Inv, Read PROVE Inv'
  <1>1. PICK n \in 1..MaxRead :
          /\ n <= Len(wire) /\ chunk' = SubSeq(wire, 1, n) /\ wire' = Rest(n, wire)
    BY DEF Read
  <1>2. n \in Nat /\ wire \in Bytes /\ Len(wire) \in Nat /\ chunk = <<>> /\ up
        /\ MaxRead \in Nat /\ parser' = parser /\ up' = up
        /\ sent' = sent /\ delivered' = delivered
    BY ParserAssumption, LenProperties DEF Inv, InvTyped, Read, Bytes
  <1>3. chunk' = First(n, wire)
    BY <1>1, <1>2 DEF First
  <1>4. /\ chunk' \in Bytes /\ wire' \in Bytes /\ Cat(chunk', wire') = wire
        /\ Len(chunk') \in 0..n
    <2>1. PICK f, r \in Bytes : /\ f = First(n, wire) /\ r = Rest(n, wire)
                                /\ Cat(f, r) = wire /\ Len(f) \in 0..n
      BY <1>2, Taken
    <2> QED BY <1>1, <1>3, <2>1
  <1>5. Pending' = Pending
    BY <1>2, <1>4, CatEmpty DEF Pending
  <1>6. InvTyped'
    <2>1. Len(chunk') <= MaxRead
      <3>1. \A l \in 0..n : l <= MaxRead
        BY <1>2
      <3> QED BY <1>4, <3>1
    <2> QED BY <1>2, <1>4, <2>1 DEF Inv, InvTyped
  <1>7. Begins' /\ KickIsLast'
    BY <1>2 DEF Inv, Begins, KickIsLast
  <1>8. Spells(sent, Len(delivered), Pending)'
    BY <1>2, <1>5 DEF Inv, Spells
  <1> QED BY <1>2, <1>6, <1>7, <1>8 DEF Inv

LEMMA SendInv ==
  ASSUME QuietAfterKick, Inv, NEW p \in Packages, Send(p)
  PROVE  Inv'
  <1> DEFINE n == Len(sent)
             d == Len(delivered)
  <1>1. /\ up /\ up' = up /\ parser' = parser /\ chunk' = chunk
        /\ delivered' = delivered /\ sent' = Append(sent, p)
        /\ wire' = wire \o Encoded(p)
        /\ \A i \in DOMAIN sent : sent[i].type # PC_PKG_KICK
    BY DEF Send
  <1>2. /\ sent \in Seq(Packages) /\ n \in Nat /\ d \in 0..n
        /\ DOMAIN sent = 1..n
        /\ chunk \in Bytes /\ wire \in Bytes /\ Encoded(p) \in Bytes
        /\ Buffered(parser) \in Bytes
    BY LenProperties, EncodedTyped, OKIsTyped, BufferedTyped
       DEF Inv, InvTyped, Begins
  <1>3. /\ sent' \in Seq(Packages) /\ Len(sent') = n + 1
        /\ \A i \in 1..n : sent'[i] = sent[i]
    BY <1>1, <1>2, AppendProperties
  <1>4. wire' = Cat(wire, Encoded(p)) /\ wire' \in Bytes
    <2>1. wire' = Cat(wire, Encoded(p))
      BY <1>1 DEF Cat
    <2> QED BY <1>2, <2>1, CatTyped
  <1>5. Pending \in Bytes /\ Pending' = Cat(Pending, Encoded(p))
    <2>1. Cat(chunk, wire) \in Bytes
      BY <1>2, CatTyped
    <2>2. Pending' = Cat(Buffered(parser), Cat(chunk, Cat(wire, Encoded(p))))
      BY <1>1, <1>4 DEF Pending, Buffered
    <2> QED BY <1>2, <2>1, <2>2, CatAssociative, CatTyped DEF Pending
  <1>6. InvTyped'
    BY <1>1, <1>3, <1>4 DEF Inv, InvTyped
  <1>7. Begins'
    BY <1>1, <1>2, <1>3 DEF Inv, Begins
  <1>8. KickIsLast'
    BY <1>1, <1>2, <1>3 DEF KickIsLast
  <1>9. Spells(sent, d, Pending)'
    <2>1. Spells(Append(sent, p), d, Cat(Pending, Encoded(p)))
      BY <1>2, <1>5, SpellsMore DEF Inv
    <2> QED BY <1>1, <1>5, <2>1
  <1> QED BY <1>1, <1>6, <1>7, <1>8, <1>9 DEF Inv

LEMMA InitInv == Init => Inv
  BY DownInv DEF Init, Down

LEMMA NextInv == QuietAfterKick /\ Inv /\ [Next]_vars => Inv'
  <1> SUFFICES ASSUME QuietAfterKick, Inv, [Next]_vars PROVE Inv'
    OBVIOUS
  <1>1. CASE Feed
    BY <1>1, FeedInv
  <1>2. CASE Read
    BY <1>2, ReadInv
  <1>3. CASE ResetConnection
    <2>1. (Down /\ up \in BOOLEAN)'
      BY <1>3 DEF ResetConnection, AfterReset, Down, Fresh
    <2> QED BY <2>1, DownInv, PTL
  <1>4. CASE Connect
    <2>1. (Down /\ up \in BOOLEAN)'
      BY <1>4 DEF Connect, Inv, Down, Fresh
    <2> QED BY <2>1, DownInv, PTL
  <1>5. ASSUME NEW p \in Packages, Send(p) PROVE Inv'
    BY <1>5, SendInv
  <1>6. CASE UNCHANGED vars
    BY <1>6 DEF vars, Inv, InvTyped, Begins, KickIsLast, Pending, Spells, Down
  <1> QED BY <1>1, <1>2, <1>3, <1>4, <1>5, <1>6 DEF Next

LEMMA SpecInv ==
  ASSUME QuietAfterKick
  PROVE  Spec => []Inv
  BY InitInv, NextInv, PTL DEF Spec

(***************************************************************************)
(* The theorems                                                            *)
(***************************************************************************)

LEMMA InvTypeOK == Inv => TypeOK
  <1> SUFFICES ASSUME Inv PROVE TypeOK
    OBVIOUS
  <1>1. ParserOK(parser) /\ ParserTyped(parser)
    BY OKIsTyped DEF Inv, InvTyped
  <1>2. /\ parser.state \in {"HEAD", "BODY"}
        /\ parser.head_buf \in Bytes /\ parser.pkg_buf \in Bytes
        /\ parser.pkg_size \in 0..(ByteBase * ByteBase * ByteBase - 1)
        /\ parser.pkg_size \in Nat
    BY <1>1, SizeIsNat DEF ParserTyped, MaxBody
  <1>3. Len(parser.head_buf) <= PC_PKG_HEAD_BYTES
    <2>1. \A k \in Nat : k < PC_PKG_HEAD_BYTES \/ k = PC_PKG_HEAD_BYTES
                           => k <= PC_PKG_HEAD_BYTES
      BY DEF PC_PKG_HEAD_BYTES
    <2> QED BY <1>1, <1>2, <2>1, CatEmpty DEF ParserOK, LacksHead, HasHead, IsHead
  <1>4. Len(parser.pkg_buf) <= parser.pkg_size
    <2>1. CASE LacksHead(parser)
      <3>1. Len(parser.pkg_buf) = 0
        BY <2>1, CatEmpty DEF LacksHead
      <3> QED BY <1>2, <3>1
    <2>2. CASE HasHead(parser)
      BY <2>2 DEF HasHead
    <2> QED BY <1>1, <2>1, <2>2 DEF ParserOK
  <1> QED BY <1>2, <1>3, <1>4 DEF TypeOK, Inv, InvTyped

\* The parser never buffers more than a head or than the body that the head
\* announces, and hands over only packages that the server sent.
THEOREM ParserTypeCorrect ==
  ASSUME QuietAfterKick
  PROVE  Spec => []TypeOK
  BY SpecInv, InvTypeOK, PTL

LEMMA InvPrompt == Inv => Prompt
  <1> SUFFICES ASSUME Inv, up, wire = <<>>, chunk = <<>>
               PROVE  delivered = sent
    BY DEF Prompt
  <1> DEFINE d == Len(delivered)
  <1>1. /\ ParserOK(parser) /\ sent \in Seq(Packages) /\ delivered \in Seq(Packages)
        /\ d \in 0..Len(sent) /\ Len(sent) \in Nat
        /\ \A i \in 1..Len(sent) : sent[i] \in Packages
        /\ \A i \in 1..d : delivered[i] = sent[i]
    BY LenProperties, ElementOfSeq DEF Inv, InvTyped, Begins
  <1>2. Pending = Buffered(parser)
    BY <1>1, OKIsTyped, BufferedTyped, CatEmpty DEF Pending
  <1>3. d = Len(sent)
    <2> SUFFICES ASSUME d \in 0..(Len(sent) - 1) PROVE FALSE
      BY <1>1
    <2>1. PICK more \in Bytes : Pending = Cat(Encoded(sent[d + 1]), more)
      BY <1>1, SpellsFirst DEF Inv
    <2>2. sent[d + 1] \in Packages
      BY <1>1
    <2> QED BY <1>1, <1>2, <2>1, <2>2, BufferedIsLess
  <1> QED BY <1>1, <1>3, SeqEqual

\* A package that is complete never waits for the next byte: when all that was
\* sent has been read and parsed, the handler has been called for every
\* package of the connection.
THEOREM NoPackageWaits ==
  ASSUME QuietAfterKick
  PROVE  Spec => []Prompt
  BY SpecInv, InvPrompt, PTL

\* Every step of the parser is a step of the channel that PkgChannel promises,
\* or none: what the handler is called for is whole, in order and without
\* gaps.  (That all of it arrives is checked by TLC.)
THEOREM ParserImplementsChannel ==
  ASSUME QuietAfterKick
  PROVE  Spec => Channel!Safety
  <1>1. Init => Channel!Init
    BY DEF Init, Channel!Init
  <1>2. Inv /\ [Next]_vars => [Channel!Next]_(Channel!chanVars)
    <2> SUFFICES ASSUME Inv, [Next]_vars
                 PROVE  Channel!Next \/ UNCHANGED <<sent, delivered>>
      BY DEF Channel!chanVars
    <2>1. CASE Feed
      <3>1. CASE TurnKeeps
        BY <3>1 DEF TurnKeeps
      <3>2. CASE TurnDelivers
        BY <3>2 DEF TurnDelivers, Channel!Next, Channel!Deliver
      <3>3. CASE TurnKicks
        BY <3>3 DEF TurnKicks, Down, Channel!Next, Channel!Reset
      <3> QED BY <2>1, <3>1, <3>2, <3>3, FeedTurns
    <2>2. CASE Read
      BY <2>2 DEF Read
    <2>3. CASE ResetConnection
      BY <2>3 DEF ResetConnection, Channel!Next, Channel!Reset
    <2>4. CASE Connect
      BY <2>4 DEF Connect
    <2>5. ASSUME NEW p \in Packages, Send(p)
          PROVE  Channel!Next
      BY <2>5 DEF Send, Channel!Next, Channel!Send
    <2>6. CASE UNCHANGED vars
      BY <2>6 DEF vars
    <2> QED BY <2>1, <2>2, <2>3, <2>4, <2>5, <2>6 DEF Next
  <1> QED BY <1>1, <1>2, SpecInv, PTL DEF Spec, Channel!Safety
=============================================================================
