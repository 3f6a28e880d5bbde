---------------------------- MODULE MsgCodecProofs ----------------------------
(***************************************************************************)
(* The message layer gives back every message it encoded, whatever the     *)
(* widths, the routes, the dictionary and the bodies are.                  *)
(***************************************************************************)
EXTENDS MCMsgCodec, SequenceTheorems, WellFoundedInduction, TLAPS

(***************************************************************************)
(* Recursion over the naturals                                             *)
(***************************************************************************)

\* A set of numbers that is not empty has a least element.
LEMMA LeastNatural ==
  ASSUME NEW S \in SUBSET Nat, S # {}
  PROVE  \E m \in S : \A k \in S : m <= k
  <1>1. IsWellFoundedOn(OpToRel(<, Nat), Nat)
    BY NatLessThanWellFounded
  <1>2. PICK m \in S : \A k \in S : ~ (<<k, m>> \in OpToRel(<, Nat))
    BY <1>1, WFMin
  <1>3. \A k \in S : ~ (k < m)
    BY <1>2, Zenon DEF OpToRel
  <1> QED BY <1>3

\* A set that holds 0 and the successor of each of its naturals
LEMMA NatSetInduction ==
  ASSUME NEW S, 0 \in S, \A n \in Nat : n \in S => n + 1 \in S
  PROVE  Nat \subseteq S
  <1> DEFINE T == {n \in Nat : n \notin S}
  <1> SUFFICES ASSUME T # {} PROVE FALSE
    OBVIOUS
  <1>1. PICK m \in T : \A k \in T : m <= k
    BY LeastNatural
  <1> QED BY <1>1

\* f goes from step to step as g says, up to n.
Runs(f, g, n) ==
  /\ f \in [0..n -> Nat] /\ f[0] = g[0][0]
  /\ \A i \in 1..n : f[i] = g[i][f[i-1]]

LEMMA RunsExist ==
  ASSUME NEW g \in [Nat -> [Nat -> Nat]], NEW n \in Nat
  PROVE  \E f : Runs(f, g, n)
  <1> DEFINE Known == {k \in Nat : \E f : Runs(f, g, k)}
  <1>1. 0 \in Known
    <2> DEFINE f == [i \in 0..0 |-> g[0][0]]
    <2>1. Runs(f, g, 0)
      BY DEF Runs
    <2> QED BY <2>1
  <1>2. ASSUME NEW k \in Nat, k \in Known PROVE k + 1 \in Known
    <2>1. PICK f : Runs(f, g, k)
      BY <1>2
    <2> DEFINE x == g[k+1][f[k]]
               h == [i \in 0..(k+1) |-> IF i = k + 1 THEN x ELSE f[i]]
    <2>2. f[k] \in Nat /\ x \in Nat
      BY <2>1 DEF Runs
    <2>3. h[k+1] = x /\ \A i \in 0..k : h[i] = f[i]
      OBVIOUS
    <2>4. h \in [0..(k+1) -> Nat]
      <3>1. f \in [0..k -> Nat]
        BY <2>1 DEF Runs
      <3>2. ASSUME NEW i \in 0..(k+1) PROVE h[i] \in Nat
        <4>1. i = k + 1 \/ i \in 0..k
          OBVIOUS
        <4> HIDE DEF h, x
        <4>2. CASE i = k + 1
          BY <2>2, <2>3, <4>2
        <4>3. CASE i \in 0..k
          BY <2>3, <3>1, <4>3
        <4> QED BY <4>1, <4>2, <4>3
      <3> QED BY <3>2
    <2> HIDE DEF h
    <2>5. ASSUME NEW i \in 1..(k+1) PROVE h[i] = g[i][h[i-1]]
      <3>1. CASE i = k + 1
        <4>1. i - 1 = k /\ k \in 0..k
          BY <3>1
        <4>2. h[i-1] = f[k]
          BY <2>3, <4>1
        <4> QED BY <2>3, <3>1, <4>2
      <3>2. CASE i # k + 1
        <4>1. i \in 1..k /\ i \in 0..k /\ i - 1 \in 0..k
          BY <3>2
        <4>2. h[i] = f[i] /\ h[i-1] = f[i-1]
          BY <2>3, <4>1
        <4> QED BY <2>1, <4>1, <4>2 DEF Runs
      <3> QED BY <3>1, <3>2
    <2>6. h[0] = g[0][0]
      <3>1. 0 \in 0..k
        OBVIOUS
      <3> QED BY <2>1, <2>3, <3>1 DEF Runs
    <2>7. Runs(h, g, k + 1)
      BY <2>4, <2>5, <2>6 DEF Runs
    <2> QED BY <2>7
  <1> HIDE DEF Known
  <1>3. n \in Known
    BY <1>1, <1>2, NatSetInduction
  <1> QED BY <1>3 DEF Known

LEMMA RunsOnce ==
  ASSUME NEW g \in [Nat -> [Nat -> Nat]], NEW n \in Nat,
         NEW f, NEW h, Runs(f, g, n), Runs(h, g, n + 1)
  PROVE  h[n] = f[n]
  <1> DEFINE Same == {k \in Nat : k <= n => f[k] = h[k]}
  <1>1. 0 \in Same
    BY DEF Runs
  <1>2. ASSUME NEW k \in Nat, k \in Same PROVE k + 1 \in Same
    <2> SUFFICES ASSUME k + 1 <= n PROVE f[k+1] = h[k+1]
      OBVIOUS
    <2>1. /\ k + 1 \in 1..n /\ k + 1 \in 1..(n + 1) /\ (k + 1) - 1 = k
          /\ f[k] = h[k]
      BY <1>2
    <2>2. f[k+1] = g[k+1][f[k]] /\ h[k+1] = g[k+1][h[k]]
      BY <2>1 DEF Runs
    <2> QED BY <2>1, <2>2
  <1> HIDE DEF Same
  <1>3. n \in Same
    BY <1>1, <1>2, NatSetInduction
  <1> QED BY <1>3 DEF Same

\* The steps of g can be run for ever.
LEMMA RunsForEver ==
  ASSUME NEW g \in [Nat -> [Nat -> Nat]]
  PROVE  \E f \in [Nat -> Nat] :
           f[0] = g[0][0] /\ \A n \in Nat : f[n+1] = g[n+1][f[n]]
  <1> DEFINE run(n) == CHOOSE f : Runs(f, g, n)
             f == [n \in Nat |-> run(n)[n]]
  <1>1. \A n \in Nat : Runs(run(n), g, n)
    BY RunsExist
  <1> HIDE DEF run
  <1>2. f \in [Nat -> Nat]
    BY <1>1 DEF Runs
  <1>3. f[0] = g[0][0]
    BY <1>1 DEF Runs
  <1>4. ASSUME NEW n \in Nat PROVE f[n+1] = g[n+1][f[n]]
    <2>1. Runs(run(n), g, n) /\ Runs(run(n+1), g, n + 1)
      BY <1>1
    <2> DEFINE a == run(n)
               b == run(n+1)
    <2>2. f[n] = a[n] /\ f[n+1] = b[n+1]
      OBVIOUS
    <2>3. Runs(a, g, n) /\ Runs(b, g, n + 1)
      BY <2>1
    <2> HIDE DEF a, b, f
    <2>4. b[n] = a[n]
      BY <2>3, RunsOnce, Zenon
    <2>5. b[n+1] = g[n+1][b[(n+1)-1]] /\ (n+1)-1 = n
      BY <2>3 DEF Runs
    <2> QED BY <2>2, <2>4, <2>5
  <1> QED BY <1>2, <1>3, <1>4

(***************************************************************************)
(* Powers                                                                  *)
(***************************************************************************)

\* The function by which Power is defined
PowerFcn(b, p) == p = [k \in Nat |-> IF k = 0 THEN 1 ELSE b * p[k-1]]

LEMMA PowerFcnExists ==
  ASSUME NEW b \in Nat
  PROVE  \E p : PowerFcn(b, p)
  <1> DEFINE step == [k \in Nat |-> [x \in Nat |-> IF k = 0 THEN 1 ELSE b * x]]
  <1>1. step \in [Nat -> [Nat -> Nat]]
    OBVIOUS
  <1>2. PICK p \in [Nat -> Nat] :
          p[0] = step[0][0] /\ \A n \in Nat : p[n+1] = step[n+1][p[n]]
    BY <1>1, RunsForEver
  <1>3. p[0] = 1 /\ \A n \in Nat : p[n+1] = b * p[n]
    <2>1. p[0] = 1
      BY <1>2
    <2>2. ASSUME NEW n \in Nat PROVE p[n+1] = b * p[n]
      <3>1. n + 1 \in Nat /\ n + 1 # 0 /\ p[n] \in Nat
        BY <1>2
      <3>2. step[n+1] = [x \in Nat |-> IF n + 1 = 0 THEN 1 ELSE b * x]
        BY <3>1
      <3>3. step[n+1][p[n]] = b * p[n]
        BY <3>1, <3>2
      <3> HIDE DEF step
      <3> QED BY <1>2, <3>3
    <2> QED BY <2>1, <2>2
  <1> HIDE DEF step
  <1> DEFINE q == [k \in Nat |-> IF k = 0 THEN 1 ELSE b * p[k-1]]
  <1>4. ASSUME NEW k \in Nat PROVE p[k] = q[k]
    <2>1. CASE k = 0
      BY <1>3, <2>1
    <2>2. CASE k # 0
      <3>1. k - 1 \in Nat /\ (k - 1) + 1 = k
        BY <2>2
      <3>2. p[(k - 1) + 1] = b * p[k-1]
        BY <1>3, <3>1
      <3> QED BY <2>2, <3>1, <3>2
    <2> QED BY <2>1, <2>2
  <1>5. p = [k \in Nat |-> p[k]] /\ q = [k \in Nat |-> q[k]]
    BY <1>2
  <1> HIDE DEF q
  <1>6. p = q
    BY <1>4, <1>5
  <1> QED BY <1>6 DEF q, PowerFcn

LEMMA PowerSteps ==
  ASSUME NEW b \in Nat
  PROVE  Power(b, 0) = 1 /\ \A n \in Nat : Power(b, n + 1) = b * Power(b, n)
  <1> DEFINE p == CHOOSE q : q = [k \in Nat |-> IF k = 0 THEN 1 ELSE b * q[k-1]]
  <1>1. p = [k \in Nat |-> IF k = 0 THEN 1 ELSE b * p[k-1]]
    <2>1. PICK q : q = [k \in Nat |-> IF k = 0 THEN 1 ELSE b * q[k-1]]
      BY PowerFcnExists, ZenonT(40) DEF PowerFcn
    <2> QED BY <2>1
  <1>2. \A n : Power(b, n) = p[n]
    BY Zenon DEF Power
  <1> HIDE DEF p
  <1>3. \A k \in Nat : p[k] = IF k = 0 THEN 1 ELSE b * p[k-1]
    BY <1>1, Zenon
  <1>4. p[0] = 1
    BY <1>3
  <1>5. ASSUME NEW n \in Nat PROVE p[n+1] = b * p[n]
    <2>1. n + 1 \in Nat /\ n + 1 # 0 /\ (n + 1) - 1 = n
      OBVIOUS
    <2>2. p[n+1] = IF n + 1 = 0 THEN 1 ELSE b * p[(n+1)-1]
      BY <1>3, <2>1, Zenon
    <2> QED BY <2>1, <2>2
  <1> QED BY <1>2, <1>4, <1>5

LEMMA PowerNat ==
  ASSUME NEW b \in Nat \ {0}, NEW n \in Nat
  PROVE  Power(b, n) \in Nat \ {0}
  <1> DEFINE Good == {k \in Nat : Power(b, k) \in Nat \ {0}}
  <1>1. 0 \in Good
    BY PowerSteps
  <1>2. ASSUME NEW k \in Nat, k \in Good PROVE k + 1 \in Good
    <2>1. Power(b, k + 1) = b * Power(b, k) /\ Power(b, k) \in Nat \ {0}
      BY <1>2, PowerSteps
    <2> DEFINE x == Power(b, k)
    <2> HIDE DEF x
    <2>2. b * x \in Nat \ {0}
      BY <2>1 DEF x
    <2> QED BY <2>1, <2>2 DEF x
  <1> HIDE DEF Good
  <1>3. n \in Good
    BY <1>1, <1>2, NatSetInduction
  <1> QED BY <1>3 DEF Good

\* A power of a greater exponent is not less.
LEMMA PowerGrows ==
  ASSUME NEW b \in Nat \ {0}, NEW m \in Nat, NEW n \in Nat, m <= n
  PROVE  Power(b, m) <= Power(b, n)
  <1> DEFINE Good == {k \in Nat : Power(b, m) <= Power(b, m + k)}
  <1>1. 0 \in Good
    <2>1. m + 0 = m /\ Power(b, m) \in Nat
      BY PowerNat
    <2> QED BY <2>1
  <1>2. ASSUME NEW k \in Nat, k \in Good PROVE k + 1 \in Good
    <2> DEFINE x == Power(b, m)
               y == Power(b, m + k)
    <2>1. m + k \in Nat /\ m + (k + 1) = (m + k) + 1
      OBVIOUS
    <2>2. x \in Nat /\ y \in Nat /\ x <= y
      BY <1>2, <2>1, PowerNat
    <2>3. Power(b, m + (k + 1)) = b * y
      BY <2>1, PowerSteps
    <2> HIDE DEF x, y
    <2>4. y <= b * y
      BY <2>2
    <2>5. x <= b * y
      BY <2>2, <2>4
    <2> QED BY <2>3, <2>5 DEF x
  <1> HIDE DEF Good
  <1>3. n - m \in Nat /\ m + (n - m) = n
    OBVIOUS
  <1>4. n - m \in Good
    BY <1>1, <1>2, <1>3, NatSetInduction
  <1> QED BY <1>3, <1>4 DEF Good

\* A power of a greater base is not less.
LEMMA PowerOfGreater ==
  ASSUME NEW b \in Nat \ {0}, NEW c \in Nat \ {0}, b <= c, NEW n \in Nat
  PROVE  Power(b, n) <= Power(c, n)
  <1> DEFINE Good == {k \in Nat : Power(b, k) <= Power(c, k)}
  <1>1. 0 \in Good
    BY PowerSteps
  <1>2. ASSUME NEW k \in Nat, k \in Good PROVE k + 1 \in Good
    <2> DEFINE x == Power(b, k)
               y == Power(c, k)
    <2>1. x \in Nat /\ y \in Nat /\ x <= y
      BY <1>2, PowerNat
    <2>2. Power(b, k + 1) = b * x /\ Power(c, k + 1) = c * y
      BY PowerSteps
    <2> HIDE DEF x, y
    <2>3. b * x <= b * y
      BY <2>1
    <2>4. b * y <= c * y
      BY <2>1
    <2>5. b * x \in Nat /\ b * y \in Nat /\ c * y \in Nat
      BY <2>1
    <2>6. b * x <= c * y
      BY <2>3, <2>4, <2>5
    <2> QED BY <2>2, <2>6
  <1> HIDE DEF Good
  <1>3. n \in Good
    BY <1>1, <1>2, NatSetInduction
  <1> QED BY <1>3 DEF Good

\* The widths of the codec
LEMMA Widths ==
  /\ Half \in Nat /\ Half >= 4
  /\ Power(2, ByteBits) = 2 * Half
  /\ Byte = 0..(2 * Half - 1)
  /\ IdWidth \in Nat /\ IdWidth >= 1
  /\ \A n \in Nat : /\ Power(Half, n) \in Nat \ {0}
                    /\ Power(Half, n + 1) = Half * Power(Half, n)
  /\ Power(Half, 0) = 1
  /\ Power(2, IdWidth) \in Nat /\ Power(2, IdWidth) <= Power(Half, IdWidth)
  <1>1. ByteBits \in Nat /\ ByteBits >= 3 /\ IdWidth \in Nat /\ IdWidth >= 1
    BY BytesAssumption, CodecAssumption
  <1>2. Power(2, 0) = 1 /\ Power(2, 1) = 2 /\ Power(2, 2) = 4
    <2>1. Power(2, 0) = 1
      BY PowerSteps
    <2>2. Power(2, 0 + 1) = 2 * Power(2, 0)
      BY PowerSteps
    <2>3. Power(2, 1 + 1) = 2 * Power(2, 1)
      BY PowerSteps
    <2> QED BY <2>1, <2>2, <2>3
  <1>3. ByteBits - 1 \in Nat /\ 2 <= ByteBits - 1 /\ (ByteBits - 1) + 1 = ByteBits
    BY <1>1
  <1>4. Half \in Nat /\ Half >= 4
    BY <1>2, <1>3, PowerGrows, PowerNat DEF Half
  <1>5. Power(2, ByteBits) = 2 * Half
    BY <1>3, PowerSteps DEF Half
  <1>6. Byte = 0..(2 * Half - 1)
    BY <1>5 DEF Byte
  <1>7. \A n \in Nat : /\ Power(Half, n) \in Nat \ {0}
                      /\ Power(Half, n + 1) = Half * Power(Half, n)
    <2> DEFINE h == Half
    <2>1. h \in Nat \ {0} /\ h \in Nat
      BY <1>4
    <2> HIDE DEF h
    <2>2. ASSUME NEW n \in Nat
          PROVE  Power(h, n) \in Nat \ {0} /\ Power(h, n + 1) = h * Power(h, n)
      BY <2>1, PowerNat, PowerSteps
    <2> QED BY <2>2 DEF h
  <1>8. Power(2, IdWidth) \in Nat /\ Power(2, IdWidth) <= Power(Half, IdWidth)
    <2>1. 2 \in Nat \ {0} /\ Half \in Nat \ {0} /\ 2 <= Half
      BY <1>4
    <2> QED BY <1>1, <2>1, PowerNat, PowerOfGreater
  <1> QED BY <1>1, <1>4, <1>5, <1>6, <1>7, <1>8, PowerSteps

(***************************************************************************)
(* Digits                                                                  *)
(***************************************************************************)

LEMMA Divided ==
  ASSUME NEW x \in Nat, NEW c \in Nat \ {0}
  PROVE  /\ x \div c \in Nat /\ x % c \in 0..(c - 1)
         /\ x = c * (x \div c) + (x % c)
         /\ x % c <= x
         /\ x < c => x % c = x
  OBVIOUS

\* There is only one remainder.
LEMMA OneRemainder ==
  ASSUME NEW c \in Nat \ {0}, NEW y \in Nat, NEW r \in 0..(c - 1)
  PROVE  (c * y + r) % c = r
  <1> DEFINE x == c * y + r
             z == x \div c
             s == x % c
  <1>1. x \in Nat
    OBVIOUS
  <1>2. z \in Nat /\ s \in 0..(c - 1) /\ x = c * z + s
    BY <1>1, Divided
  <1> HIDE DEF z, s
  <1>3. c * y + r = c * z + s
    BY <1>2
  <1>4. ~(y < z)
    <2> SUFFICES ASSUME y < z PROVE FALSE
      OBVIOUS
    <2>1. c * (y + 1) <= c * z
      BY <1>2
    <2>2. c * (y + 1) = c * y + c
      OBVIOUS
    <2> QED BY <1>2, <1>3, <2>1, <2>2
  <1>5. ~(z < y)
    <2> SUFFICES ASSUME z < y PROVE FALSE
      OBVIOUS
    <2>1. c * (z + 1) <= c * y
      BY <1>2
    <2>2. c * (z + 1) = c * z + c
      BY <1>2
    <2> QED BY <1>2, <1>3, <2>1, <2>2
  <1>6. y = z
    BY <1>2, <1>4, <1>5
  <1>7. s = r
    BY <1>2, <1>3, <1>6
  <1> QED BY <1>7 DEF s

\* The digit above the lowest ones, of which p is the weight
LEMMA DigitAdded ==
  ASSUME NEW x \in Nat, NEW h \in Nat \ {0}, NEW p \in Nat \ {0}
  PROVE  x % (h * p) = (x % p) + ((x \div p) % h) * p
  <1> DEFINE q == x \div p
             r == x % p
             d == q % h
             e == q \div h
  <1>1. q \in Nat /\ r \in 0..(p - 1) /\ x = p * q + r
    BY Divided
  <1>2. e \in Nat /\ d \in 0..(h - 1) /\ q = h * e + d
    BY <1>1, Divided
  <1> HIDE DEF q, r, d, e
  <1>3. d * p \in Nat /\ d * p + r \in 0..(h * p - 1)
    <2>1. d * p <= (h - 1) * p
      BY <1>2
    <2>2. (h - 1) * p = h * p - p
      OBVIOUS
    <2>3. d * p \in Nat
      BY <1>2
    <2> QED BY <1>1, <2>1, <2>2, <2>3
  <1>4. x = (h * p) * e + (d * p + r)
    <2>1. p * (h * e + d) = (h * p) * e + d * p
      BY <1>2
    <2> QED BY <1>1, <1>2, <2>1
  <1>5. h * p \in Nat \ {0}
    OBVIOUS
  <1> DEFINE c == h * p
             t == d * p + r
  <1> HIDE DEF c, t
  <1>6. (c * e + t) % c = t
    BY <1>2, <1>3, <1>5, OneRemainder DEF c, t
  <1>7. x % c = t
    BY <1>4, <1>6 DEF c, t
  <1>8. t = r + d * p
    BY <1>1, <1>3 DEF t
  <1> QED BY <1>7, <1>8 DEF c, d, q, r

(***************************************************************************)
(* The digits of an id                                                     *)
(***************************************************************************)

MsgIds == 0..(Power(2, IdWidth) - 1)

\* n digits are what id needs.
Needs(id, n) ==
  /\ n \in 1..IdWidth /\ id < Power(Half, n)
  /\ \A j \in 1..(n-1) : id >= Power(Half, j)

Digit(id, i) == (id \div Power(Half, i-1)) % Half

LEMMA NeedsSome ==
  ASSUME NEW id \in MsgIds
  PROVE  \E n : Needs(id, n)
  <1> DEFINE S == {k \in Nat : k >= 1 /\ id < Power(Half, k)}
  <1>1. id \in Nat /\ id < Power(Half, IdWidth)
    <2> DEFINE a == Power(2, IdWidth)
               b == Power(Half, IdWidth)
    <2>1. a \in Nat /\ b \in Nat /\ a <= b /\ id \in 0..(a - 1)
      BY Widths DEF MsgIds
    <2> HIDE DEF a, b
    <2>2. id \in Nat /\ id < b
      BY <2>1
    <2> QED BY <2>2 DEF b
  <1>2. IdWidth \in S
    BY <1>1, Widths
  <1>3. PICK n \in S : \A k \in S : n <= k
    BY <1>2, LeastNatural
  <1>4. ASSUME NEW j \in 1..(n-1) PROVE id >= Power(Half, j)
    <2>1. n \in Nat
      BY <1>3
    <2>2. j \in Nat /\ j >= 1 /\ j < n
      BY <2>1
    <2>3. Power(Half, j) \in Nat
      BY <2>2, Widths
    <2> QED BY <1>1, <1>3, <2>1, <2>2, <2>3
  <1>5. n \in 1..IdWidth
    BY <1>2, <1>3, Widths
  <1> QED BY <1>3, <1>4, <1>5 DEF Needs

LEMMA NeedsOne ==
  ASSUME NEW id \in MsgIds, NEW n, Needs(id, n),
         NEW k \in 1..IdWidth, id < Power(Half, k),
         k > 1 => id >= Power(Half, k-1)
  PROVE  k = n
  <1>1. id \in Nat /\ n \in Nat /\ k \in Nat /\ n >= 1
    BY Widths DEF MsgIds, Needs
  <1>2. ~(k < n)
    <2> SUFFICES ASSUME k < n PROVE FALSE
      OBVIOUS
    <2>1. k \in 1..(n-1) /\ Power(Half, k) \in Nat
      BY <1>1, Widths
    <2> QED BY <1>1, <2>1 DEF Needs
  <1>3. ~(n < k)
    <2> SUFFICES ASSUME n < k PROVE FALSE
      OBVIOUS
    <2>1. k - 1 \in Nat /\ n <= k - 1 /\ k > 1
      BY <1>1
    <2> DEFINE h == Half
    <2>2. h \in Nat \ {0}
      BY Widths
    <2> HIDE DEF h
    <2>3. Power(h, n) <= Power(h, k-1) /\ Power(h, n) \in Nat /\ Power(h, k-1) \in Nat
      BY <1>1, <2>1, <2>2, PowerGrows, PowerNat
    <2> QED BY <1>1, <2>1, <2>3 DEF Needs, h
  <1> QED BY <1>1, <1>2, <1>3

LEMMA IdLengthIs ==
  ASSUME NEW id \in MsgIds, NEW n, Needs(id, n)
  PROVE  IdLength(id) = n
  <1> DEFINE Ok(k) == id < Power(Half, k) /\ (k > 1 => id >= Power(Half, k-1))
             c == CHOOSE k \in 1..IdWidth : Ok(k)
  <1>1. n \in 1..IdWidth /\ Ok(n)
    <2>1. n \in Nat /\ (n > 1 => n - 1 \in 1..(n-1))
      BY Widths DEF Needs
    <2> QED BY <2>1 DEF Needs
  <1>2. c \in 1..IdWidth /\ Ok(c)
    <2> HIDE DEF Ok
    <2> QED BY <1>1
  <1>3. IdLength(id) = c
    BY Zenon DEF IdLength
  <1> HIDE DEF c
  <1>4. c = n
    BY <1>2, NeedsOne
  <1> QED BY <1>3, <1>4

LEMMA EncodeIdIs ==
  ASSUME NEW id \in MsgIds, NEW n, Needs(id, n)
  PROVE  EncodeId(id) = [i \in 1..n |-> Digit(id, i) + (IF i < n THEN Half ELSE 0)]
  <1> DEFINE Ok(k) == id < Power(Half, k) /\ \A j \in 1..(k-1) : id >= Power(Half, j)
             c == CHOOSE k \in 1..IdWidth : Ok(k)
  <1>1. n \in 1..IdWidth /\ Ok(n)
    BY DEF Needs
  <1>2. c \in 1..IdWidth /\ Ok(c)
    <2> HIDE DEF Ok
    <2> QED BY <1>1
  <1>3. EncodeId(id) = [i \in 1..c |-> Digit(id, i) + (IF i < c THEN Half ELSE 0)]
    BY Zenon DEF EncodeId, Digit
  <1> HIDE DEF c
  <1>4. c = n
    <2>1. c \in Nat /\ (c > 1 => c - 1 \in 1..(c-1))
      BY <1>2, Widths
    <2>2. c > 1 => id >= Power(Half, c-1)
      BY <1>2, <2>1
    <2> QED BY <1>2, <2>2, NeedsOne
  <1> QED BY <1>3, <1>4

\* The bytes of an id: all but the last have the top bit set.
LEMMA IdBytes ==
  ASSUME NEW id \in MsgIds, NEW n, Needs(id, n)
  PROVE  /\ n \in Nat /\ n >= 1
         /\ EncodeId(id) \in Seq(Byte) /\ Len(EncodeId(id)) = n
         /\ \A i \in 1..n : /\ EncodeId(id)[i] % Half = Digit(id, i)
                            /\ EncodeId(id)[i] < Half <=> i = n
  <1> DEFINE e == EncodeId(id)
             h == Half
  <1>0. h \in Nat /\ h >= 4 /\ n \in Nat /\ n >= 1 /\ id \in Nat
    BY Widths DEF Needs, MsgIds
  <1>1. e = [i \in 1..n |-> Digit(id, i) + (IF i < n THEN h ELSE 0)]
    BY EncodeIdIs
  <1>2. ASSUME NEW i \in 1..n PROVE Digit(id, i) \in 0..(h - 1)
    <2> DEFINE p == Power(Half, i-1)
               x == id \div p
    <2>1. i - 1 \in Nat
      BY <1>0
    <2>2. p \in Nat \ {0}
      BY <2>1, Widths
    <2> HIDE DEF p
    <2>3. x \in Nat
      BY <1>0, <2>2
    <2> HIDE DEF x, h
    <2>4. x % h \in 0..(h - 1)
      BY <1>0, <2>3
    <2> QED BY <2>4 DEF x, p, h, Digit
  <1> HIDE DEF e
  <1>3. ASSUME NEW i \in 1..n
        PROVE  /\ e[i] \in 0..(2 * h - 1) /\ e[i] % h = Digit(id, i)
               /\ e[i] < h <=> i = n
    <2> DEFINE d == Digit(id, i)
    <2>1. e[i] = d + (IF i < n THEN h ELSE 0)
      BY <1>1
    <2>2. d \in 0..(h - 1)
      BY <1>2
    <2> HIDE DEF d, h
    <2>3. i \in Nat /\ i <= n
      BY <1>0
    <2>4. CASE i < n
      <3>1. e[i] = h * 1 + d
        BY <1>0, <2>1, <2>2, <2>4
      <3>2. (h * 1 + d) % h = d
        BY <1>0, <2>2, OneRemainder
      <3> QED BY <1>0, <2>2, <2>3, <2>4, <3>1, <3>2 DEF d
    <2>5. CASE i = n
      <3>1. e[i] = d
        BY <1>0, <2>1, <2>2, <2>5
      <3>2. d % h = d
        BY <1>0, <2>2
      <3> QED BY <1>0, <2>2, <2>3, <2>5, <3>1, <3>2 DEF d
    <2> QED BY <1>0, <2>3, <2>4, <2>5
  <1>4. \A i \in 1..n : e[i] \in Byte
    BY <1>3, Widths
  <1>5. e \in Seq(Byte) /\ Len(e) = n
    <2>1. e = [i \in 1..n |-> e[i]]
      BY <1>1
    <2>2. e \in [1..n -> Byte]
      BY <1>4, <2>1
    <2>3. e \in Seq(Byte)
      BY <1>0, <2>2, SeqDef
    <2>4. DOMAIN e = 1..Len(e) /\ Len(e) \in Nat /\ DOMAIN e = 1..n
      BY <2>2, <2>3, LenProperties
    <2> DEFINE l == Len(e)
    <2>5. l \in Nat /\ 1..l = 1..n
      BY <2>4
    <2> HIDE DEF l
    <2>6. n <= l
      BY <1>0, <2>5
    <2>7. l <= n
      BY <1>0, <2>5, <2>6
    <2>8. l = n
      BY <1>0, <2>5, <2>6, <2>7
    <2> QED BY <2>3, <2>8 DEF l
  <1> QED BY <1>0, <1>3, <1>5 DEF e, h

(***************************************************************************)
(* The decoding of an id                                                   *)
(***************************************************************************)

ByteSeq == Seq(Byte)

\* n is the first byte without the top bit.
LEMMA EndsAt ==
  ASSUME NEW d \in ByteSeq, NEW n \in 1..Len(d), d[n] < Half,
         \A i \in 1..(n-1) : ~ (d[i] < Half)
  PROVE  IdEnds(d) # {} /\ IdEnd(d) = n
  <1>0. Len(d) \in Nat /\ DOMAIN d = 1..Len(d) /\ n \in Nat /\ n >= 1
    BY LenProperties DEF ByteSeq
  <1>1. n \in IdEnds(d)
    BY <1>0 DEF IdEnds
  <1>2. ASSUME NEW k \in IdEnds(d) PROVE k \in Nat /\ n <= k
    <2>1. k \in 1..Len(d) /\ d[k] < Half
      BY <1>0 DEF IdEnds
    <2>2. k \in Nat /\ (k < n => k \in 1..(n-1))
      BY <1>0, <2>1
    <2> QED BY <1>0, <2>1, <2>2
  <1> DEFINE c == CHOOSE m \in IdEnds(d) : \A k \in IdEnds(d) : m <= k
  <1>3. c \in IdEnds(d) /\ \A k \in IdEnds(d) : c <= k
    BY <1>1, <1>2
  <1>4. IdEnd(d) = c
    BY Zenon DEF IdEnd
  <1> HIDE DEF c
  <1>5. c = n
    <2>1. c \in Nat /\ n <= c /\ c <= n
      BY <1>1, <1>2, <1>3
    <2> QED BY <1>0, <2>1
  <1> QED BY <1>1, <1>4, <1>5

\* The function by which DecodeId is defined
SumFcn(d, s) ==
  s = [n \in 0..IdEnd(d) |->
         IF n = 0 THEN 0
         ELSE (s[n-1] + (d[n] % Half) * Power(Half, n-1)) % Power(2, IdWidth)]

LEMMA SumFcnExists ==
  ASSUME NEW d \in ByteSeq, IdEnd(d) \in 1..Len(d)
  PROVE  \E s : SumFcn(d, s)
  <1> DEFINE N == IdEnd(d)
             M == Power(2, IdWidth)
             add(k, x) == (x + (d[k] % Half) * Power(Half, k-1)) % M
             step == [k \in Nat |-> [x \in Nat |-> IF k \in 1..N THEN add(k, x) ELSE 0]]
  <1>0. N \in Nat /\ N <= Len(d) /\ Len(d) \in Nat /\ M \in Nat \ {0}
    BY LenProperties, Widths, PowerNat DEF ByteSeq
  <1>1. ASSUME NEW k \in Nat, k \in 1..N, NEW x \in Nat PROVE add(k, x) \in Nat
    <2> DEFINE h == Half
               p == Power(Half, k-1)
               y == d[k] % Half
    <2>1. d[k] \in Byte
      <3>1. k \in 1..Len(d)
        BY <1>0, <1>1
      <3> QED BY <3>1, ElementOfSeq DEF ByteSeq
    <2>2. h \in Nat \ {0} /\ d[k] \in Nat
      BY <2>1, Widths
    <2>3. y \in Nat
      BY <2>2
    <2>4. p \in Nat
      <3>1. k - 1 \in Nat
        BY <1>0, <1>1
      <3> QED BY <3>1, Widths
    <2> HIDE DEF p, y, M
    <2>5. (x + y * p) % M \in Nat
      <3>1. x + y * p \in Nat
        BY <2>3, <2>4
      <3> QED BY <1>0, <3>1
    <2> QED BY <2>5 DEF p, y
  <1>2. step \in [Nat -> [Nat -> Nat]]
    <2> HIDE DEF add, N
    <2> QED BY <1>1
  <1>3. PICK f \in [Nat -> Nat] :
          f[0] = step[0][0] /\ \A n \in Nat : f[n+1] = step[n+1][f[n]]
    BY <1>2, RunsForEver
  <1> DEFINE s == [n \in 0..N |-> f[n]]
             t == [n \in 0..N |-> IF n = 0 THEN 0 ELSE add(n, s[n-1])]
  <1>4. ASSUME NEW n \in 0..N PROVE s[n] = t[n]
    <2>1. CASE n = 0
      <3>1. step[0][0] = 0
        <4> HIDE DEF add, N
        <4>1. 0 \notin 1..N
          BY <1>0
        <4> QED BY <4>1
      <3> QED BY <1>0, <1>3, <2>1, <3>1
    <2>2. CASE n # 0
      <3>1. /\ n - 1 \in Nat /\ n - 1 \in 0..N /\ (n - 1) + 1 = n /\ n \in Nat
            /\ n \in 1..N
        BY <1>0, <2>2
      <3>2. f[(n-1)+1] = step[(n-1)+1][f[n-1]]
        BY <1>3, <3>1
      <3>3. s[n-1] = f[n-1] /\ s[n] = f[n] /\ f[n-1] \in Nat
        BY <1>3, <3>1
      <3>4. step[n][f[n-1]] = add(n, f[n-1])
        <4> HIDE DEF add, N
        <4> QED BY <3>1, <3>3
      <3>5. t[n] = add(n, s[n-1])
        <4> HIDE DEF add, N, s
        <4> QED BY <2>2
      <3> HIDE DEF add, N, s, t, step
      <3> QED BY <3>1, <3>2, <3>3, <3>4, <3>5
    <2> QED BY <2>1, <2>2
  <1>5. s = [n \in 0..N |-> s[n]] /\ t = [n \in 0..N |-> t[n]]
    OBVIOUS
  <1>6. s = t
    <2> HIDE DEF s, t
    <2> QED BY <1>4, <1>5
  <1> HIDE DEF s
  <1>7. SumFcn(d, s)
    BY <1>6 DEF SumFcn
  <1> QED BY <1>7

LEMMA DecodeIdByFcn ==
  ASSUME NEW d \in ByteSeq, IdEnd(d) \in 1..Len(d)
  PROVE  \E s : SumFcn(d, s) /\ DecodeId(d) = s[IdEnd(d)]
  <1> DEFINE f == CHOOSE s : s = [n \in 0..IdEnd(d) |->
         IF n = 0 THEN 0
         ELSE (s[n-1] + (d[n] % Half) * Power(Half, n-1)) % Power(2, IdWidth)]
  <1>1. SumFcn(d, f)
    <2>1. PICK s : s = [n \in 0..IdEnd(d) |->
         IF n = 0 THEN 0
         ELSE (s[n-1] + (d[n] % Half) * Power(Half, n-1)) % Power(2, IdWidth)]
      BY SumFcnExists, ZenonT(40) DEF SumFcn
    <2>2. f = [n \in 0..IdEnd(d) |->
         IF n = 0 THEN 0
         ELSE (f[n-1] + (d[n] % Half) * Power(Half, n-1)) % Power(2, IdWidth)]
      BY <2>1
    <2> QED BY <2>2 DEF SumFcn
  <1>2. DecodeId(d) = f[IdEnd(d)]
    BY Zenon DEF DecodeId
  <1> QED BY <1>1, <1>2

\* The digits are added up to the id that was written.
LEMMA DecodeIdIs ==
  ASSUME NEW id \in MsgIds, NEW n, Needs(id, n),
         NEW d \in ByteSeq, n <= Len(d),
         \A i \in 1..n : d[i] = EncodeId(id)[i]
  PROVE  IdEnds(d) # {} /\ IdEnd(d) = n /\ DecodeId(d) = id
  <1> DEFINE h == Half
             M == Power(2, IdWidth)
  <1>0. /\ n \in Nat /\ n >= 1 /\ Len(d) \in Nat /\ h \in Nat \ {0}
        /\ M \in Nat \ {0} /\ id \in 0..(M - 1) /\ id \in Nat
        /\ n \in 1..Len(d)
    BY IdBytes, LenProperties, Widths, PowerNat DEF ByteSeq, MsgIds
  <1>1. ASSUME NEW i \in 1..n
        PROVE  d[i] % h = Digit(id, i) /\ (d[i] < h <=> i = n)
    BY IdBytes
  <1>2. IdEnds(d) # {} /\ IdEnd(d) = n
    <2>1. d[n] < h
      BY <1>0, <1>1
    <2>2. \A i \in 1..(n-1) : ~ (d[i] < h)
      BY <1>0, <1>1
    <2> QED BY <1>0, <2>1, <2>2, EndsAt
  <1>3. PICK s : SumFcn(d, s) /\ DecodeId(d) = s[n]
    BY <1>0, <1>2, DecodeIdByFcn
  <1>4. \A k \in 0..n :
          s[k] = IF k = 0 THEN 0
                 ELSE (s[k-1] + (d[k] % Half) * Power(Half, k-1)) % Power(2, IdWidth)
    BY <1>2, <1>3, Zenon DEF SumFcn
  <1> HIDE DEF h, M
  <1> DEFINE Low(k) == id % Power(Half, k)
             Good == {k \in Nat : k <= n => s[k] = Low(k)}
  <1>5. 0 \in Good
    <2>1. s[0] = 0
      BY <1>0, <1>4
    <2>2. Power(Half, 0) = 1 /\ id % 1 = 0
      BY <1>0, Widths
    <2> QED BY <2>1, <2>2
  <1>6. ASSUME NEW k \in Nat, k \in Good PROVE k + 1 \in Good
    <2> SUFFICES ASSUME k + 1 <= n PROVE s[k+1] = Low(k + 1)
      OBVIOUS
    <2>1. /\ k + 1 \in 0..n /\ k + 1 \in 1..n /\ k + 1 # 0 /\ (k + 1) - 1 = k
          /\ s[k] = Low(k)
      BY <1>0, <1>6
    <2> DEFINE p == Power(Half, k)
               x == Digit(id, k + 1)
    <2>2. s[k+1] = (s[k] + x * p) % M
      <3>1. s[k+1] = (s[(k+1)-1] + (d[k+1] % Half) * Power(Half, (k+1)-1)) % Power(2, IdWidth)
        BY <1>4, <2>1
      <3>2. d[k+1] % Half = x
        BY <1>1, <2>1 DEF h
      <3> QED BY <2>1, <3>1, <3>2 DEF M
    <2>3. x = (id \div p) % h
      BY <2>1 DEF Digit, h
    <2>4. p \in Nat \ {0} /\ Power(Half, k + 1) = h * p
      BY Widths DEF h
    <2> HIDE DEF p, x
    <2>5. id % (h * p) = (id % p) + x * p
      BY <1>0, <2>3, <2>4, DigitAdded
    <2>6. s[k] = id % p
      BY <2>1 DEF p
    <2>7. h * p \in Nat \ {0}
      BY <1>0, <2>4
    <2> DEFINE c == h * p
               y == id % c
    <2> HIDE DEF c
    <2>8. y \in Nat /\ y <= id
      <3>1. c \in Nat \ {0}
        BY <2>7 DEF c
      <3>2. id \in Nat
        BY <1>0
      <3>3. id % c \in 0..(c - 1) /\ id % c <= id
        BY <3>1, <3>2, Divided
      <3> QED BY <3>1, <3>3
    <2>9. y % M = y
      <3> HIDE DEF y
      <3>1. y < M
        BY <1>0, <2>8
      <3> QED BY <1>0, <2>8, <3>1, Divided
    <2> QED BY <2>2, <2>4, <2>5, <2>6, <2>9 DEF c
  <1> HIDE DEF Good
  <1>7. n \in Good
    BY <1>0, <1>5, <1>6, NatSetInduction
  <1>8. s[n] = id % Power(Half, n)
    BY <1>0, <1>7 DEF Good
  <1>9. id % Power(Half, n) = id
    <2> DEFINE p == Power(Half, n)
    <2>1. p \in Nat \ {0} /\ id < p
      BY <1>0, Widths DEF Needs
    <2> HIDE DEF p
    <2>2. id % p = id
      BY <1>0, <2>1, Divided
    <2> QED BY <2>2 DEF p
  <1> QED BY <1>2, <1>3, <1>8, <1>9

(***************************************************************************)
(* The beginning of a sequence of bytes                                    *)
(***************************************************************************)

\* Concatenation, for the provers to see it as one symbol
Cat(a, b) == a \o b

Front(d, k) == SubSeq(d, 1, k)

LEMMA CatIs ==
  ASSUME NEW a \in ByteSeq, NEW b \in ByteSeq
  PROVE  /\ Cat(a, b) \in ByteSeq
         /\ Len(a) \in Nat /\ Len(b) \in Nat /\ Len(Cat(a, b)) = Len(a) + Len(b)
         /\ \A i \in 1..Len(a) : Cat(a, b)[i] = a[i]
         /\ \A i \in 1..Len(b) : Cat(a, b)[Len(a) + i] = b[i]
  <1>1. Len(a) \in Nat /\ Len(b) \in Nat
    BY LenProperties DEF ByteSeq
  <1>2. /\ Cat(a, b) \in ByteSeq /\ Len(Cat(a, b)) = Len(a) + Len(b)
        /\ \A i \in 1..(Len(a) + Len(b)) :
             Cat(a, b)[i] = IF i <= Len(a) THEN a[i] ELSE b[i - Len(a)]
    BY ConcatProperties DEF ByteSeq, Cat
  <1>3. ASSUME NEW i \in 1..Len(a) PROVE Cat(a, b)[i] = a[i]
    <2>1. i \in 1..(Len(a) + Len(b)) /\ i <= Len(a)
      BY <1>1
    <2> QED BY <1>2, <2>1
  <1>4. ASSUME NEW i \in 1..Len(b) PROVE Cat(a, b)[Len(a) + i] = b[i]
    <2>1. /\ Len(a) + i \in 1..(Len(a) + Len(b)) /\ ~ (Len(a) + i <= Len(a))
          /\ (Len(a) + i) - Len(a) = i
      BY <1>1
    <2> QED BY <1>2, <2>1
  <1> QED BY <1>1, <1>2, <1>3, <1>4

LEMMA SameBytes ==
  ASSUME NEW a \in ByteSeq, NEW b \in ByteSeq, Len(a) = Len(b),
         \A i \in 1..Len(a) : a[i] = b[i]
  PROVE  a = b
  BY SeqEqual DEF ByteSeq

LEMMA FrontIs ==
  ASSUME NEW d \in ByteSeq, NEW k \in 0..Len(d)
  PROVE  /\ Front(d, k) \in ByteSeq /\ Len(Front(d, k)) = k
         /\ \A i \in 1..k : Front(d, k)[i] = d[i]
         /\ k = Len(d) => Front(d, k) = d
  <1>1. Len(d) \in Nat /\ \A i \in 1..Len(d) : d[i] \in Byte
    BY LenProperties, ElementOfSeq DEF ByteSeq
  <1>2. k \in Int /\ k >= 0 /\ \A i \in 1..k : d[i] \in Byte
    BY <1>1
  <1>3. /\ SubSeq(d, 1, k) \in Seq(Byte)
        /\ Len(SubSeq(d, 1, k)) = IF 1 <= k THEN k - 1 + 1 ELSE 0
        /\ \A i \in 1..(k - 1 + 1) : SubSeq(d, 1, k)[i] = d[1 + i - 1]
    BY <1>2, SubSeqProperties
  <1>4. Len(SubSeq(d, 1, k)) = k
    BY <1>2, <1>3
  <1>5. \A i \in 1..k : SubSeq(d, 1, k)[i] = d[i]
    BY <1>2, <1>3
  <1>6. k = Len(d) => SubSeq(d, 1, k) = d
    BY SubSeqFull DEF ByteSeq
  <1> QED BY <1>3, <1>4, <1>5, <1>6 DEF Front, ByteSeq

LEMMA RestIs ==
  ASSUME NEW d \in ByteSeq, NEW k \in 0..Len(d)
  PROVE  /\ Rest(k, d) \in ByteSeq /\ Len(Rest(k, d)) = Len(d) - k
         /\ \A i \in 1..(Len(d) - k) : Rest(k, d)[i] = d[k + i]
  <1>1. Len(d) \in Nat /\ \A i \in 1..Len(d) : d[i] \in Byte
    BY LenProperties, ElementOfSeq DEF ByteSeq
  <1> DEFINE m == k + 1
             n == Len(d)
  <1>2. m \in Int /\ n \in Int /\ k \in Nat /\ k <= n /\ \A i \in m..n : d[i] \in Byte
    BY <1>1
  <1> HIDE DEF n
  <1>3. /\ SubSeq(d, m, n) \in Seq(Byte)
        /\ Len(SubSeq(d, m, n)) = IF m <= n THEN n - m + 1 ELSE 0
        /\ \A i \in 1..(n - m + 1) : SubSeq(d, m, n)[i] = d[m + i - 1]
    <2> HIDE DEF m
    <2> QED BY <1>2, SubSeqProperties
  <1>4. Len(SubSeq(d, m, n)) = n - k
    BY <1>2, <1>3
  <1>5. ASSUME NEW i \in 1..(n - k) PROVE SubSeq(d, m, n)[i] = d[k + i]
    <2>1. i \in 1..(n - m + 1) /\ m + i - 1 = k + i
      BY <1>2
    <2> QED BY <1>3, <2>1
  <1> QED BY <1>3, <1>4, <1>5 DEF Rest, ByteSeq, n

\* A beginning that reaches into the second part
LEMMA FrontOfCat ==
  ASSUME NEW a \in ByteSeq, NEW b \in ByteSeq,
         NEW k \in Nat, Len(a) <= k, k <= Len(a) + Len(b)
  PROVE  /\ k - Len(a) \in 0..Len(b)
         /\ Front(Cat(a, b), k) = Cat(a, Front(b, k - Len(a)))
  <1> DEFINE c == Cat(a, b)
             j == k - Len(a)
             f == Front(b, j)
             x == Front(c, k)
             y == Cat(a, f)
  <1>0. /\ Len(a) \in Nat /\ Len(b) \in Nat /\ c \in ByteSeq /\ Len(c) = Len(a) + Len(b)
        /\ \A i \in 1..Len(a) : c[i] = a[i]
        /\ \A i \in 1..Len(b) : c[Len(a) + i] = b[i]
    BY CatIs
  <1>1. j \in 0..Len(b) /\ k \in 0..Len(c)
    BY <1>0
  <1>2. f \in ByteSeq /\ Len(f) = j /\ \A i \in 1..j : f[i] = b[i]
    BY <1>1, FrontIs
  <1>3. x \in ByteSeq /\ Len(x) = k /\ \A i \in 1..k : x[i] = c[i]
    BY <1>0, <1>1, FrontIs
  <1>4. /\ y \in ByteSeq /\ Len(y) = Len(a) + j
        /\ \A i \in 1..Len(a) : y[i] = a[i]
        /\ \A i \in 1..j : y[Len(a) + i] = f[i]
    <2> HIDE DEF f, j
    <2> QED BY <1>2, CatIs
  <1> HIDE DEF c, f, x, y
  <1>5. Len(x) = Len(y)
    BY <1>0, <1>3, <1>4
  <1>6. ASSUME NEW i \in 1..Len(x) PROVE x[i] = y[i]
    <2>1. i \in 1..k
      BY <1>3
    <2>2. CASE i <= Len(a)
      <3>1. i \in 1..Len(a)
        BY <1>0, <2>1, <2>2
      <3> QED BY <1>0, <1>3, <1>4, <2>1, <3>1
    <2>3. CASE ~ (i <= Len(a))
      <3> DEFINE h == i - Len(a)
      <3>1. h \in 1..j /\ h \in 1..Len(b) /\ Len(a) + h = i
        BY <1>0, <1>1, <2>1, <2>3
      <3> HIDE DEF h, j
      <3>2. c[Len(a) + h] = b[h] /\ y[Len(a) + h] = f[h] /\ f[h] = b[h]
        BY <1>0, <1>2, <1>4, <3>1
      <3> QED BY <1>3, <2>1, <3>1, <3>2
    <2> QED BY <2>2, <2>3
  <1>7. x = y
    BY <1>3, <1>4, <1>5, <1>6, SameBytes
  <1> QED BY <1>1, <1>7 DEF x, y, c, f

LEMMA RestOfCat ==
  ASSUME NEW a \in ByteSeq, NEW b \in ByteSeq
  PROVE  Rest(Len(a), Cat(a, b)) = b
  <1> DEFINE c == Cat(a, b)
             x == Rest(Len(a), c)
  <1>0. /\ Len(a) \in Nat /\ Len(b) \in Nat /\ c \in ByteSeq /\ Len(c) = Len(a) + Len(b)
        /\ \A i \in 1..Len(b) : c[Len(a) + i] = b[i]
    BY CatIs
  <1>1. Len(a) \in 0..Len(c) /\ Len(c) - Len(a) = Len(b)
    BY <1>0
  <1>2. x \in ByteSeq /\ Len(x) = Len(b) /\ \A i \in 1..Len(b) : x[i] = c[Len(a) + i]
    <2> HIDE DEF c
    <2>1. /\ x \in ByteSeq /\ Len(x) = Len(c) - Len(a)
          /\ \A i \in 1..(Len(c) - Len(a)) : x[i] = c[Len(a) + i]
      BY <1>0, <1>1, RestIs
    <2> HIDE DEF x
    <2> QED BY <1>1, <2>1
  <1> HIDE DEF c, x
  <1>3. x = b
    BY <1>0, <1>2, SameBytes
  <1> QED BY <1>3 DEF x, c

LEMMA CatsAssociate ==
  ASSUME NEW a \in ByteSeq, NEW b \in ByteSeq, NEW c \in ByteSeq
  PROVE  Cat(Cat(a, b), c) = Cat(a, Cat(b, c))
  BY ConcatAssociative DEF ByteSeq, Cat

LEMMA OneByte ==
  ASSUME NEW x \in Byte, NEW b \in ByteSeq
  PROVE  /\ <<x>> \in ByteSeq /\ Len(<<x>>) = 1
         /\ Cat(<<x>>, b) # <<>> /\ Cat(<<x>>, b)[1] = x
         /\ Tail(Cat(<<x>>, b)) = b
  <1> DEFINE o == <<x>>
             c == Cat(o, b)
  <1>1. o \in ByteSeq /\ Len(o) = 1 /\ o[1] = x
    BY DEF ByteSeq
  <1> HIDE DEF o
  <1>2. /\ c \in ByteSeq /\ Len(b) \in Nat /\ Len(c) = 1 + Len(b) /\ c[1] = x
    <2>1. /\ c \in ByteSeq /\ Len(b) \in Nat /\ Len(c) = Len(o) + Len(b)
          /\ \A i \in 1..Len(o) : c[i] = o[i]
      BY <1>1, CatIs
    <2> QED BY <1>1, <2>1
  <1>3. c # <<>>
    <2>1. Len(<<>>) = 0
      OBVIOUS
    <2> HIDE DEF c
    <2> QED BY <1>2, <2>1
  <1>4. Tail(c) = SubSeq(c, 2, Len(c))
    <2> HIDE DEF c
    <2> QED BY <1>2, <1>3, TailIsSubSeq DEF ByteSeq
  <1>5. Rest(1, c) = SubSeq(c, 1 + 1, Len(c)) /\ 1 + 1 = 2
    BY DEF Rest
  <1>6. Rest(1, c) = b
    BY <1>1, RestOfCat
  <1> QED BY <1>1, <1>2, <1>3, <1>4, <1>5, <1>6 DEF o

(***************************************************************************)
(* The parts of a message                                                  *)
(***************************************************************************)

Flag(m) == 2 * m.type + (IF Compressed(m) THEN 1 ELSE 0)

IdPart(m) == IF HasId(m.type) THEN EncodeId(m.id) ELSE <<>>

RoutePart(m) ==
  IF ~HasRoute(m.type) THEN <<>>
  ELSE IF Compressed(m) THEN EncodeCode(Dictionary[m.route])
  ELSE EncodeRoute(m.route)

LEMMA NoBytes ==
  /\ <<>> \in ByteSeq /\ Len(<<>>) = 0
  /\ \A b \in ByteSeq : /\ Cat(<<>>, b) = b /\ (Len(b) = 0 <=> b = <<>>)
  BY EmptySeq, ConcatEmptySeq, LenProperties DEF ByteSeq, Cat

LEMMA MessageIs ==
  ASSUME NEW m \in Messages
  PROVE  /\ m.type \in 0..3 /\ m.route \in ByteSeq /\ m.body \in ByteSeq
         /\ m.body \in Bodies
         /\ HasId(m.type) => m.id \in MsgIds
         /\ ~HasId(m.type) => m.id = 0
         /\ HasRoute(m.type) => m.route \in Routes
         /\ ~HasRoute(m.type) => m.route = <<>> /\ HasId(m.type)
  <1>1. /\ m.type \in 0..3 /\ m.body \in Bodies
        /\ HasId(m.type) => m.id \in Ids
        /\ ~HasId(m.type) => m.id = 0
        /\ HasRoute(m.type) => m.route \in Routes
        /\ ~HasRoute(m.type) => m.route = <<>> /\ HasId(m.type)
    BY DEF Messages, HasId, HasRoute, REQUEST, NOTIFY, RESPONSE, PUSH
  <1>2. \A r \in Routes \cup Bodies : r \in ByteSeq
    <2>1. 1..(Half - 1) \subseteq Byte
      BY Widths
    <2>2. \A r \in Routes \cup Bodies : r \in Seq(1..(Half - 1))
      BY CodecAssumption
    <2> QED BY <2>1, <2>2, SeqMonotonic DEF ByteSeq
  <1>3. Ids \subseteq MsgIds
    <2> DEFINE M == Power(2, IdWidth)
    <2>1. M \in Nat
      BY Widths
    <2> HIDE DEF M
    <2>2. 1..(M - 1 - 1) \subseteq 0..(M - 1)
      BY <2>1
    <2> QED BY <2>2 DEF M, Ids, MsgIds, PC_INVALID_REQ_ID
  <1>4. m.route \in ByteSeq
    BY <1>1, <1>2, NoBytes
  <1> QED BY <1>1, <1>2, <1>3, <1>4

\* A code in two bytes
LEMMA CodeIs ==
  ASSUME NEW c \in 1..(Power(2, ByteBits) * Power(2, ByteBits) - 1)
  PROVE  /\ EncodeCode(c) \in ByteSeq /\ Len(EncodeCode(c)) = 2
         /\ EncodeCode(c)[1] * Power(2, ByteBits) + EncodeCode(c)[2] = c
  <1> DEFINE b == Power(2, ByteBits)
             q == c \div b
             x == q % b
             y == c % b
  <1>1. b \in Nat \ {0} /\ b = 2 * Half /\ Half \in Nat
    <2> DEFINE h == Half
    <2>1. h \in Nat /\ h >= 4 /\ b = 2 * h
      BY Widths
    <2> HIDE DEF b, h
    <2>2. b \in Nat \ {0}
      BY <2>1
    <2> QED BY <2>1, <2>2 DEF h
  <1>2. EncodeCode(c) = <<x, y>>
    BY DEF EncodeCode
  <1> HIDE DEF b
  <1>3. c \in Nat /\ c < b * b
    <2>1. c \in 1..(b * b - 1)
      BY DEF b
    <2>2. b * b \in Nat
      BY <1>1
    <2> QED BY <2>1, <2>2
  <1>4. q \in Nat /\ y \in 0..(b - 1) /\ c = b * q + y
    BY <1>1, <1>3, Divided
  <1> HIDE DEF q, y
  <1>5. q < b
    <2> SUFFICES ASSUME b <= q PROVE FALSE
      BY <1>1, <1>4
    <2>1. b * b <= b * q
      BY <1>1, <1>4
    <2>2. b * b \in Nat /\ b * q \in Nat
      BY <1>1, <1>4
    <2> QED BY <1>3, <1>4, <2>1, <2>2
  <1>6. x = q
    BY <1>1, <1>4, <1>5, Divided
  <1>7. x \in Byte /\ y \in Byte
    <2>1. Byte = 0..(b - 1)
      BY DEF Byte, b
    <2> HIDE DEF x
    <2> QED BY <1>1, <1>4, <1>5, <1>6, <2>1
  <1> HIDE DEF x
  <1>8. <<x, y>> \in Seq(Byte) /\ Len(<<x, y>>) = 2
    BY <1>7
  <1>9. x * b + y = c
    BY <1>1, <1>4, <1>6
  <1> QED BY <1>2, <1>8, <1>9 DEF ByteSeq, b

\* A route behind its length
LEMMA RouteIs ==
  ASSUME NEW r \in ByteSeq
  PROVE  /\ Len(r) % Power(2, ByteBits) \in Byte
         /\ EncodeRoute(r) = Cat(<<Len(r) % Power(2, ByteBits)>>, r)
         /\ EncodeRoute(r) \in ByteSeq /\ Len(EncodeRoute(r)) = 1 + Len(r)
         /\ Len(r) < Half => Len(r) % Power(2, ByteBits) = Len(r)
  <1> DEFINE b == Power(2, ByteBits)
             n == Len(r)
             x == n % b
  <1>1. b \in Nat \ {0} /\ b = 2 * Half /\ Half \in Nat /\ Byte = 0..(b - 1)
    <2> DEFINE h == Half
    <2>1. h \in Nat /\ h >= 4 /\ b = 2 * h
      BY Widths
    <2> HIDE DEF b, h
    <2>2. b \in Nat \ {0}
      BY <2>1
    <2> QED BY <2>1, <2>2 DEF h, b, Byte
  <1>2. n \in Nat
    BY LenProperties DEF ByteSeq
  <1>3. EncodeRoute(r) = Cat(<<x>>, r)
    BY DEF EncodeRoute, Cat
  <1> HIDE DEF b, n
  <1>4. x \in Byte
    BY <1>1, <1>2, Divided
  <1>5. n < Half => x = n
    <2> SUFFICES ASSUME n < Half PROVE x = n
      OBVIOUS
    <2>1. n < b
      BY <1>1, <1>2
    <2> QED BY <1>1, <1>2, <2>1, Divided
  <1> HIDE DEF x
  <1>6. /\ <<x>> \in ByteSeq /\ Len(<<x>>) = 1
    BY <1>4, OneByte
  <1>7. Cat(<<x>>, r) \in ByteSeq /\ Len(Cat(<<x>>, r)) = 1 + n
    <2> DEFINE o == <<x>>
    <2>1. o \in ByteSeq /\ Len(o) = 1
      BY <1>6
    <2> HIDE DEF o
    <2>2. Cat(o, r) \in ByteSeq /\ Len(Cat(o, r)) = Len(o) + Len(r)
      BY <2>1, CatIs
    <2> QED BY <2>1, <2>2 DEF o, n
  <1> QED BY <1>3, <1>4, <1>5, <1>7 DEF x, n, b

LEMMA PartsAre ==
  ASSUME NEW m \in Messages
  PROVE  /\ Flag(m) \in Byte /\ IdPart(m) \in ByteSeq /\ RoutePart(m) \in ByteSeq
         /\ Encode(m) = Cat(<<Flag(m)>>, Cat(IdPart(m), Cat(RoutePart(m), m.body)))
  <1>1. Flag(m) \in Byte
    <2>1. m.type \in 0..3
      BY MessageIs
    <2>2. Byte = 0..(2 * Half - 1) /\ Half \in Nat /\ Half >= 4
      BY Widths
    <2> QED BY <2>1, <2>2 DEF Flag
  <1>2. IdPart(m) \in ByteSeq
    <2>1. CASE HasId(m.type)
      <3>1. m.id \in MsgIds
        BY <2>1, MessageIs
      <3>2. PICK n : Needs(m.id, n)
        BY <3>1, NeedsSome
      <3>3. EncodeId(m.id) \in ByteSeq
        BY <3>1, <3>2, IdBytes DEF ByteSeq
      <3> QED BY <2>1, <3>3 DEF IdPart
    <2>2. CASE ~HasId(m.type)
      BY <2>2, NoBytes DEF IdPart
    <2> QED BY <2>1, <2>2
  <1>3. RoutePart(m) \in ByteSeq
    <2>1. CASE ~HasRoute(m.type)
      BY <2>1, NoBytes DEF RoutePart
    <2>2. CASE HasRoute(m.type) /\ Compressed(m)
      <3>1. Dictionary[m.route] \in 1..(Power(2, ByteBits) * Power(2, ByteBits) - 1)
        BY <2>2, CodecAssumption DEF Compressed
      <3>2. EncodeCode(Dictionary[m.route]) \in ByteSeq
        BY <3>1, CodeIs
      <3> QED BY <2>2, <3>2 DEF RoutePart
    <2>3. CASE HasRoute(m.type) /\ ~Compressed(m)
      <3>1. EncodeRoute(m.route) \in ByteSeq
        BY MessageIs, RouteIs
      <3> QED BY <2>3, <3>1 DEF RoutePart
    <2> QED BY <2>1, <2>2, <2>3
  <1> DEFINE f == <<Flag(m)>>
             i == IdPart(m)
             r == RoutePart(m)
             b == m.body
  <1>4. f \in ByteSeq /\ i \in ByteSeq /\ r \in ByteSeq /\ b \in ByteSeq
    <2>1. f \in ByteSeq
      BY <1>1, NoBytes, OneByte
    <2> QED BY <1>2, <1>3, <2>1, MessageIs
  <1>5. Encode(m) = Cat(Cat(Cat(f, i), r), b)
    BY DEF Encode, Flag, IdPart, RoutePart, Cat
  <1> HIDE DEF f, i, r, b
  <1>6. Cat(f, i) \in ByteSeq /\ Cat(r, b) \in ByteSeq
    BY <1>4, CatIs
  <1>7. Cat(Cat(Cat(f, i), r), b) = Cat(Cat(f, i), Cat(r, b))
    BY <1>4, <1>6, CatsAssociate
  <1>8. Cat(Cat(f, i), Cat(r, b)) = Cat(f, Cat(i, Cat(r, b)))
    BY <1>4, <1>6, CatsAssociate
  <1>9. Encode(m) = Cat(f, Cat(i, Cat(r, b)))
    BY <1>5, <1>7, <1>8
  <1> QED BY <1>1, <1>2, <1>3, <1>9 DEF f, i, r, b

(***************************************************************************)
(* The decoding of a message of which the first bytes have arrived         *)
(***************************************************************************)

\* What DecodeRoute makes of the first i bytes behind the id
RouteDecodes(m, id, c, i) ==
  DecodeRoute(id, c, Front(Cat(RoutePart(m), m.body), i)) =
    IF i < Len(RoutePart(m)) THEN Invalid
    ELSE DecodeBody(id, m.route, Front(m.body, i - Len(RoutePart(m))))

LEMMA CodeDecodes ==
  ASSUME NEW m \in Messages, Compressed(m), NEW id,
         NEW i \in 0..(Len(RoutePart(m)) + Len(m.body))
  PROVE  RouteDecodes(m, id, TRUE, i)
  <1> DEFINE b == Power(2, ByteBits)
             code == Dictionary[m.route]
             r == RoutePart(m)
             d == Front(Cat(r, m.body), i)
  <1>0. /\ m.body \in ByteSeq /\ r \in ByteSeq /\ Len(m.body) \in Nat
        /\ HasRoute(m.type) /\ m.route \in DOMAIN Dictionary
    BY MessageIs, PartsAre, CatIs DEF Compressed
  <1>1. code \in 1..(b * b - 1)
    BY <1>0, CodecAssumption
  <1>2. r = EncodeCode(code) /\ Len(r) = 2 /\ r[1] * b + r[2] = code
    <2>1. r = EncodeCode(code)
      BY <1>0 DEF RoutePart
    <2> QED BY <1>1, <2>1, CodeIs
  <1>7. i \in 0..(Len(r) + Len(m.body))
    OBVIOUS
  <1> HIDE DEF b, r
  <1>3. Cat(r, m.body) \in ByteSeq /\ i \in 0..Len(Cat(r, m.body)) /\ i \in Nat
    <2>1. Cat(r, m.body) \in ByteSeq /\ Len(Cat(r, m.body)) = Len(r) + Len(m.body)
      BY <1>0, CatIs
    <2>2. i \in Nat
      BY <1>0, <1>2, <1>7
    <2> QED BY <1>7, <2>1, <2>2
  <1>4. d \in ByteSeq /\ Len(d) = i
    BY <1>3, FrontIs
  <1>5. CASE i < 2
    <2>1. DecodeRoute(id, TRUE, d) = Invalid
      <3> HIDE DEF d
      <3> QED BY <1>4, <1>5 DEF DecodeRoute
    <2> QED BY <1>2, <1>5, <2>1 DEF RouteDecodes, r
  <1>6. CASE ~ (i < 2)
    <2> DEFINE f == Front(m.body, i - 2)
    <2>1. i - 2 \in 0..Len(m.body) /\ d = Cat(r, f)
      <3>1. Len(r) <= i /\ i <= Len(r) + Len(m.body)
        BY <1>0, <1>2, <1>3, <1>6, <1>7
      <3>2. /\ i - Len(r) \in 0..Len(m.body)
            /\ Front(Cat(r, m.body), i) = Cat(r, Front(m.body, i - Len(r)))
        BY <1>0, <1>3, <3>1, FrontOfCat
      <3> QED BY <1>2, <3>2
    <2>2. f \in ByteSeq
      BY <1>0, <2>1, FrontIs
    <2> HIDE DEF f, d
    <2>3. d[1] = r[1] /\ d[2] = r[2]
      <3>1. \A k \in 1..Len(r) : Cat(r, f)[k] = r[k]
        BY <1>0, <2>2, CatIs
      <3>2. 1 \in 1..Len(r) /\ 2 \in 1..Len(r)
        BY <1>2
      <3> QED BY <2>1, <3>1, <3>2
    <2>4. Rest(2, d) = f
      BY <1>0, <1>2, <2>1, <2>2, RestOfCat
    <2>5. d[1] * b + d[2] = code
      BY <1>2, <2>3
    <2>6. \A s \in DOMAIN Dictionary : Dictionary[s] = code <=> s = m.route
      BY <1>0, CodecAssumption
    <2>7. (CHOOSE s \in DOMAIN Dictionary : Dictionary[s] = code) = m.route
      BY <1>0, <2>6
    <2>8. ~ (Len(d) < 2)
      BY <1>3, <1>4, <1>6
    <2> DEFINE given == d[1] * Power(2, ByteBits) + d[2]
    <2>9. DecodeRoute(id, TRUE, d) =
            DecodeBody(id, CHOOSE s \in DOMAIN Dictionary : Dictionary[s] = given, Rest(2, d))
      BY <2>8, Zenon DEF DecodeRoute
    <2>10. given = code
      BY <2>5 DEF b
    <2> HIDE DEF given, code
    <2>11. DecodeRoute(id, TRUE, d) = DecodeBody(id, m.route, f)
      BY <2>4, <2>7, <2>9, <2>10
    <2>12. DecodeRoute(id, TRUE, Front(Cat(r, m.body), i)) = DecodeBody(id, m.route, Front(m.body, i - 2))
      BY <2>11 DEF d, f
    <2> QED BY <1>2, <1>6, <2>12 DEF RouteDecodes, r
  <1> QED BY <1>5, <1>6

LEMMA TextDecodes ==
  ASSUME NEW m \in Messages, ~Compressed(m), HasRoute(m.type), Short(m), NEW id,
         NEW i \in 0..(Len(RoutePart(m)) + Len(m.body))
  PROVE  RouteDecodes(m, id, FALSE, i)
  <1> DEFINE n == Len(m.route)
             r == RoutePart(m)
             d == Front(Cat(r, m.body), i)
  <1>0. /\ m.body \in ByteSeq /\ m.route \in ByteSeq /\ r \in ByteSeq
        /\ Len(m.body) \in Nat /\ n \in Nat /\ n < Half /\ Half \in Nat
    BY MessageIs, PartsAre, CatIs, Widths DEF Short
  <1>1. n \in Byte /\ r = Cat(<<n>>, m.route) /\ Len(r) = 1 + n
    <2>1. r = EncodeRoute(m.route)
      BY DEF RoutePart
    <2> QED BY <1>0, <2>1, RouteIs
  <1>7. i \in 0..(Len(r) + Len(m.body))
    OBVIOUS
  <1> HIDE DEF r
  <1>2. /\ Cat(r, m.body) \in ByteSeq /\ i \in 0..Len(Cat(r, m.body)) /\ i \in Nat
        /\ Cat(r, m.body)[1] = n
    <2>1. /\ Cat(r, m.body) \in ByteSeq /\ i \in 0..Len(Cat(r, m.body)) /\ i \in Nat
          /\ 1 \in 1..Len(r) /\ Cat(r, m.body)[1] = r[1]
      <3> HIDE DEF n
      <3>1. /\ Cat(r, m.body) \in ByteSeq /\ Len(Cat(r, m.body)) = Len(r) + Len(m.body)
            /\ \A k \in 1..Len(r) : Cat(r, m.body)[k] = r[k]
        BY <1>0, CatIs
      <3>2. 1 \in 1..Len(r) /\ i \in Nat
        BY <1>0, <1>1, <1>7
      <3> QED BY <1>7, <3>1, <3>2
    <2>2. r[1] = n
      BY <1>0, <1>1, OneByte
    <2> QED BY <2>1, <2>2
  <1>3. d \in ByteSeq /\ Len(d) = i /\ (i >= 1 => d[1] = n)
    BY <1>2, FrontIs
  <1>4. CASE i < 1 + n
    <2>1. DecodeRoute(id, FALSE, d) = Invalid
      <3> HIDE DEF d, n
      <3>1. CASE i = 0
        <4>1. d = <<>>
          BY <1>3, <3>1, NoBytes
        <4> QED BY <4>1 DEF DecodeRoute
      <3>2. CASE i # 0
        <4>1. Len(d) - 1 < d[1]
          BY <1>0, <1>2, <1>3, <1>4, <3>2
        <4> QED BY <4>1 DEF DecodeRoute
      <3> QED BY <3>1, <3>2
    <2> QED BY <1>1, <1>4, <2>1 DEF RouteDecodes, r
  <1>5. CASE ~ (i < 1 + n)
    <2> DEFINE f == Front(m.body, i - (1 + n))
    <2>1. i - (1 + n) \in 0..Len(m.body) /\ d = Cat(r, f)
      <3> HIDE DEF n
      <3>1. Len(r) <= i /\ i <= Len(r) + Len(m.body)
        <4> DEFINE l == Len(r)
                   k == Len(m.body)
        <4>1. l = 1 + n /\ k \in Nat /\ i \in 0..(l + k) /\ ~ (i < 1 + n) /\ n \in Nat
          BY <1>0, <1>1, <1>5, <1>7
        <4> HIDE DEF l, k
        <4>2. l <= i /\ i <= l + k
          BY <4>1
        <4> QED BY <4>2 DEF l, k
      <3>2. /\ i - Len(r) \in 0..Len(m.body)
            /\ Front(Cat(r, m.body), i) = Cat(r, Front(m.body, i - Len(r)))
        BY <1>0, <1>2, <3>1, FrontOfCat
      <3> QED BY <1>1, <3>2
    <2>2. f \in ByteSeq
      BY <1>0, <2>1, FrontIs
    <2> DEFINE t == Cat(m.route, f)
               o == <<n>>
    <2>3. t \in ByteSeq /\ o \in ByteSeq /\ Len(o) = 1 /\ d = Cat(o, t)
      <3>1. t \in ByteSeq /\ o \in ByteSeq /\ Len(o) = 1
        <4> HIDE DEF f
        <4> QED BY <1>0, <1>1, <2>2, CatIs, OneByte, NoBytes
      <3> HIDE DEF f, o, d
      <3>2. d = Cat(Cat(o, m.route), f)
        BY <1>1, <2>1 DEF o
      <3> QED BY <1>0, <2>2, <3>1, <3>2, CatsAssociate
    <2> HIDE DEF f, d, n
    <2>4. d # <<>> /\ d[1] = n /\ Tail(d) = t
      <3> HIDE DEF t
      <3> QED BY <1>1, <2>3, OneByte DEF o
    <2>5. ~ (Len(d) - 1 < d[1]) /\ ~ (CharSigned /\ d[1] >= Half)
      BY <1>0, <1>2, <1>3, <1>5, <2>4
    <2>6. SubSeq(d, 2, 1 + n) = m.route
      <3>1. 0 + n \in Nat /\ n \in 0..Len(t) /\ Front(t, n) = m.route
        <4>1. Len(t) = n + Len(f) /\ Len(f) \in Nat
          BY <1>0, <2>2, CatIs DEF n
        <4>2. Front(t, n) = Cat(m.route, Front(f, n - n))
          <5>1. n <= n /\ n <= n + Len(f)
            BY <1>0, <4>1
          <5> QED BY <1>0, <2>2, <5>1, FrontOfCat DEF n
        <4>3. Front(f, n - n) = <<>> /\ Cat(m.route, <<>>) = m.route
          <5>1. Front(f, 0) \in ByteSeq /\ Len(Front(f, 0)) = 0
            <6>1. 0 \in 0..Len(f)
              BY <4>1
            <6> QED BY <2>2, <6>1, FrontIs
          <5>2. Front(f, 0) = <<>>
            BY <5>1, NoBytes
          <5>3. Cat(m.route, <<>>) = m.route
            BY <1>0, ConcatEmptySeq DEF ByteSeq, Cat
          <5> QED BY <1>0, <5>2, <5>3
        <4> QED BY <1>0, <4>1, <4>2, <4>3
      <3> DEFINE x == SubSeq(d, 2, 1 + n)
      <3>2. /\ x \in ByteSeq /\ Len(x) = n /\ \A k \in 1..n : x[k] = d[1 + k]
        <4>1. Len(d) = i /\ i >= 1 + n /\ \A k \in 1..Len(d) : d[k] \in Byte
          BY <1>0, <1>2, <1>3, <1>5, ElementOfSeq DEF ByteSeq
        <4>2. \A k \in 2..(1 + n) : d[k] \in Byte
          BY <1>0, <1>2, <4>1
        <4>3. /\ x \in Seq(Byte) /\ Len(x) = IF 2 <= 1 + n THEN (1 + n) - 2 + 1 ELSE 0
              /\ \A k \in 1..((1 + n) - 2 + 1) : x[k] = d[2 + k - 1]
          BY <1>0, <4>2, SubSeqProperties
        <4> HIDE DEF x
        <4>4. Len(x) = n
          BY <1>0, <4>3
        <4>5. ASSUME NEW k \in 1..n PROVE x[k] = d[1 + k]
          <5>1. k \in 1..((1 + n) - 2 + 1) /\ 2 + k - 1 = 1 + k
            BY <1>0
          <5> QED BY <4>3, <5>1
        <4> QED BY <4>3, <4>4, <4>5 DEF ByteSeq
      <3> HIDE DEF x
      <3>3. ASSUME NEW k \in 1..n PROVE x[k] = m.route[k]
        <4>1. Len(m.route) = n /\ Len(t) = n + Len(f) /\ Len(f) \in Nat /\ t[k] = m.route[k]
          BY <1>0, <2>2, CatIs DEF n
        <4>2. d[1 + k] = t[k]
          <5>1. k \in 1..Len(t)
            BY <1>0, <4>1
          <5> HIDE DEF t, o
          <5>2. d[Len(o) + k] = t[k]
            BY <2>3, <5>1, CatIs
          <5> QED BY <2>3, <5>2
        <4> QED BY <3>2, <4>1, <4>2
      <3>4. x = m.route
        BY <1>0, <3>2, <3>3, SameBytes DEF n
      <3> QED BY <3>4 DEF x
    <2>7. Rest(1 + n, d) = f
      BY <1>0, <1>1, <2>1, <2>2, RestOfCat
    <2>8. DecodeRoute(id, FALSE, d) = DecodeBody(id, m.route, f)
      BY <2>4, <2>5, <2>6, <2>7 DEF DecodeRoute
    <2>9. DecodeRoute(id, FALSE, Front(Cat(r, m.body), i)) =
            DecodeBody(id, m.route, Front(m.body, i - (1 + n)))
      BY <2>8 DEF d, f
    <2> QED BY <1>1, <1>5, <2>9 DEF RouteDecodes, r
  <1> QED BY <1>4, <1>5

LEMMA RouteDecoded ==
  ASSUME NEW m \in Messages, HasRoute(m.type), Short(m), NEW id, NEW c \in BOOLEAN,
         c <=> Compressed(m), NEW i \in 0..(Len(RoutePart(m)) + Len(m.body))
  PROVE  RouteDecodes(m, id, c, i)
  <1>1. CASE c
    <2>1. RouteDecodes(m, id, TRUE, i)
      BY <1>1, CodeDecodes
    <2>2. c = TRUE
      BY <1>1
    <2> QED BY <2>1, <2>2, Zenon
  <1>2. CASE ~c
    <2>1. RouteDecodes(m, id, FALSE, i)
      BY <1>2, TextDecodes
    <2>2. c = FALSE
      BY <1>2
    <2> QED BY <2>1, <2>2, Zenon
  <1> QED BY <1>1, <1>2

\* What Decode makes of the bytes behind the flag
Behind(type, compressed, tail) ==
  IF ~HasId(type)
    THEN DecodeRoute(PC_NOTIFY_PUSH_REQ_ID, compressed, tail)
  ELSE IF IdEnds(tail) = {} THEN Invalid
  ELSE IF HasRoute(type)
    THEN DecodeRoute(DecodeId(tail), compressed, Rest(IdEnd(tail), tail))
  ELSE DecodeBody(DecodeId(tail), <<>>, Rest(IdEnd(tail), tail))

LEMMA DecodeByFlag ==
  ASSUME NEW m \in Messages, NEW tail \in ByteSeq
  PROVE  \E c \in BOOLEAN : /\ c <=> Compressed(m)
                            /\ Decode(Cat(<<Flag(m)>>, tail)) = Behind(m.type, c, tail)
  <1> DEFINE d == Cat(<<Flag(m)>>, tail)
             c == d[1] % 2 = 1
             t == d[1] \div 2
  <1>1. d # <<>> /\ d[1] = Flag(m) /\ Tail(d) = tail
    BY PartsAre, OneByte
  <1>2. m.type \in 0..3
    BY MessageIs
  <1> HIDE DEF d
  <1>3. t = m.type /\ (c <=> Compressed(m))
    <2>1. CASE Compressed(m)
      <3>1. d[1] = 2 * m.type + 1
        BY <1>1, <2>1 DEF Flag
      <3> QED BY <1>2, <2>1, <3>1
    <2>2. CASE ~Compressed(m)
      <3>1. d[1] = 2 * m.type
        BY <1>1, <1>2, <2>2 DEF Flag
      <3> QED BY <1>2, <2>2, <3>1
    <2> QED BY <2>1, <2>2
  <1>4. t \in REQUEST..PUSH
    BY <1>2, <1>3 DEF REQUEST, PUSH
  <1>5. Decode(d) = Behind(t, c, Tail(d))
    <2> USE DEF Behind
    <2>1. CASE ~HasId(t)
      BY <1>1, <1>4, <2>1, Zenon DEF Decode
    <2>2. CASE HasId(t) /\ IdEnds(Tail(d)) = {}
      BY <1>1, <1>4, <2>2, Zenon DEF Decode
    <2>3. CASE HasId(t) /\ IdEnds(Tail(d)) # {} /\ HasRoute(t)
      BY <1>1, <1>4, <2>3, Zenon DEF Decode
    <2>4. CASE HasId(t) /\ IdEnds(Tail(d)) # {} /\ ~HasRoute(t)
      BY <1>1, <1>4, <2>4, Zenon DEF Decode
    <2> QED BY <2>1, <2>2, <2>3, <2>4
  <1>6. c \in BOOLEAN
    OBVIOUS
  <1> HIDE DEF c, t
  <1>7. Decode(d) = Behind(m.type, c, tail)
    BY <1>1, <1>3, <1>5
  <1> QED BY <1>3, <1>6, <1>7 DEF d

\* The bytes before the body
HeadLen(m) == 1 + Len(IdPart(m)) + Len(RoutePart(m))

LEMMA LengthsAre ==
  ASSUME NEW m \in Messages
  PROVE  /\ Encode(m) \in ByteSeq /\ Len(IdPart(m)) \in Nat
         /\ Len(RoutePart(m)) \in Nat /\ Len(m.body) \in Nat
         /\ Len(Encode(m)) = HeadLen(m) + Len(m.body)
  <1> DEFINE f == <<Flag(m)>>
             i == IdPart(m)
             r == RoutePart(m)
             b == m.body
  <1>1. /\ f \in ByteSeq /\ Len(f) = 1 /\ i \in ByteSeq /\ r \in ByteSeq /\ b \in ByteSeq
        /\ Encode(m) = Cat(f, Cat(i, Cat(r, b)))
    BY PartsAre, MessageIs, OneByte, NoBytes
  <1> HIDE DEF f, i, r, b
  <1>2. Cat(r, b) \in ByteSeq /\ Len(Cat(r, b)) = Len(r) + Len(b) /\ Len(r) \in Nat /\ Len(b) \in Nat
    BY <1>1, CatIs
  <1>3. Cat(i, Cat(r, b)) \in ByteSeq /\ Len(Cat(i, Cat(r, b))) = Len(i) + Len(Cat(r, b)) /\ Len(i) \in Nat
    BY <1>1, <1>2, CatIs
  <1>4. Encode(m) \in ByteSeq /\ Len(Encode(m)) = 1 + Len(Cat(i, Cat(r, b)))
    <2> DEFINE t == Cat(i, Cat(r, b))
    <2>1. t \in ByteSeq
      BY <1>3
    <2> HIDE DEF t
    <2>2. Cat(f, t) \in ByteSeq /\ Len(Cat(f, t)) = Len(f) + Len(t)
      BY <1>1, <2>1, CatIs
    <2>3. Encode(m) = Cat(f, t)
      BY <1>1 DEF t
    <2> QED BY <1>1, <2>2, <2>3 DEF t
  <1>5. Len(Encode(m)) = (1 + Len(i) + Len(r)) + Len(b)
    BY <1>2, <1>3, <1>4
  <1> QED BY <1>2, <1>3, <1>4, <1>5 DEF HeadLen, i, r, b

LEMMA LengthsSum ==
  ASSUME NEW m \in Messages
  PROVE  /\ Encode(m) \in ByteSeq
         /\ Len(Encode(m)) \in Nat /\ HeadLen(m) \in Nat /\ Len(m.body) \in Nat
         /\ HeadLen(m) >= 1 /\ Len(Encode(m)) >= 1
         /\ Len(Encode(m)) = HeadLen(m) + Len(m.body)
  <1> DEFINE n == Len(Encode(m))
             i == Len(IdPart(m))
             r == Len(RoutePart(m))
             h == HeadLen(m)
             b == Len(m.body)
  <1>1. /\ Encode(m) \in ByteSeq /\ i \in Nat /\ r \in Nat /\ b \in Nat
        /\ h = 1 + i + r /\ n = h + b
    BY LengthsAre DEF HeadLen
  <1> HIDE DEF n, i, r, h, b
  <1>2. n \in Nat /\ h \in Nat /\ h >= 1 /\ n >= 1
    BY <1>1
  <1> QED BY <1>1, <1>2 DEF n, h, b

\* What Behind makes of the first j bytes behind the flag
LEMMA BehindIs ==
  ASSUME NEW m \in Messages, Short(m), NEW c \in BOOLEAN, c <=> Compressed(m),
         NEW j \in 0..(Len(IdPart(m)) + Len(RoutePart(m)) + Len(m.body))
  PROVE  Behind(m.type, c, Front(Cat(IdPart(m), Cat(RoutePart(m), m.body)), j)) =
           IF j < Len(IdPart(m)) + Len(RoutePart(m)) THEN Invalid
           ELSE DecodeBody(m.id, m.route,
                  Front(m.body, j - (Len(IdPart(m)) + Len(RoutePart(m)))))
  <1> DEFINE i == IdPart(m)
             r == RoutePart(m)
             b == m.body
             u == Cat(r, b)
             d == Front(Cat(i, u), j)
             Goal == Behind(m.type, c, d) =
                       IF j < Len(i) + Len(r) THEN Invalid
                       ELSE DecodeBody(m.id, m.route, Front(b, j - (Len(i) + Len(r))))
  <1>0. /\ i \in ByteSeq /\ r \in ByteSeq /\ b \in ByteSeq
        /\ Len(i) \in Nat /\ Len(r) \in Nat /\ Len(b) \in Nat
    BY PartsAre, MessageIs, LengthsAre
  <1>1. j \in 0..(Len(i) + Len(r) + Len(b))
    OBVIOUS
  <1>2. ASSUME NEW k \in 0..(Len(r) + Len(b)), NEW id, HasRoute(m.type)
        PROVE  DecodeRoute(id, c, Front(u, k)) =
                 IF k < Len(r) THEN Invalid
                 ELSE DecodeBody(id, m.route, Front(b, k - Len(r)))
    <2>1. RouteDecodes(m, id, c, k)
      BY <1>2, RouteDecoded
    <2> QED BY <2>1 DEF RouteDecodes
  <1> SUFFICES Goal
    OBVIOUS
  <1> HIDE DEF i, r, b
  <1>3. CASE ~HasId(m.type)
    <2>1. i = <<>> /\ Len(i) = 0 /\ HasRoute(m.type) /\ m.id = PC_NOTIFY_PUSH_REQ_ID
      BY <1>3, MessageIs, NoBytes DEF i, IdPart, PC_NOTIFY_PUSH_REQ_ID
    <2>2. u \in ByteSeq /\ Cat(i, u) = u
      BY <1>0, <2>1, CatIs, NoBytes
    <2>3. j \in 0..(Len(r) + Len(b)) /\ Len(i) + Len(r) = Len(r)
      BY <1>0, <1>1, <2>1
    <2>4. d = Front(u, j)
      BY <2>2
    <2> HIDE DEF u, d
    <2>5. Behind(m.type, c, d) = DecodeRoute(m.id, c, Front(u, j))
      BY <1>3, <2>1, <2>4 DEF Behind
    <2> QED BY <1>2, <2>1, <2>3, <2>5
  <1>4. CASE HasId(m.type)
    <2>0. m.id \in MsgIds
      BY <1>4, MessageIs
    <2>1. PICK n : Needs(m.id, n)
      BY <2>0, NeedsSome
    <2>2. /\ i = EncodeId(m.id) /\ Len(i) = n /\ n \in Nat /\ n >= 1
          /\ \A k \in 1..n : i[k] < Half <=> k = n
      BY <1>4, <2>0, <2>1, IdBytes DEF i, IdPart
    <2>3. u \in ByteSeq /\ Len(u) = Len(r) + Len(b)
      BY <1>0, CatIs
    <2> HIDE DEF u
    <2>4. /\ Cat(i, u) \in ByteSeq /\ Len(Cat(i, u)) = n + Len(u)
          /\ \A k \in 1..n : Cat(i, u)[k] = i[k]
      BY <1>0, <2>2, <2>3, CatIs
    <2>5. j \in Nat /\ j \in 0..Len(Cat(i, u))
      BY <1>0, <1>1, <2>2, <2>3, <2>4
    <2>6. d \in ByteSeq /\ Len(d) = j /\ \A k \in 1..j : d[k] = Cat(i, u)[k]
      BY <2>4, <2>5, FrontIs
    <2> HIDE DEF d
    <2>7. CASE j < n
      <3>1. DOMAIN d = 1..j
        BY <2>6, LenProperties DEF ByteSeq
      <3>2. ASSUME NEW k \in 1..j PROVE ~ (d[k] < Half)
        <4>1. k \in 1..n /\ k # n
          BY <2>2, <2>5, <2>7
        <4> QED BY <2>2, <2>4, <2>6, <4>1
      <3>3. IdEnds(d) = {}
        BY <3>1, <3>2 DEF IdEnds
      <3>4. Behind(m.type, c, d) = Invalid
        BY <1>4, <3>3 DEF Behind
      <3>5. j < Len(i) + Len(r)
        BY <1>0, <2>2, <2>5, <2>7
      <3> QED BY <3>4, <3>5
    <2>8. CASE ~ (j < n)
      <3> DEFINE k == j - n
                 f == Front(u, k)
      <3>1. k \in 0..Len(u) /\ d = Cat(i, f)
        <4>1. Len(i) <= j /\ j <= Len(i) + Len(u)
          BY <2>2, <2>4, <2>5, <2>8
        <4>2. /\ j - Len(i) \in 0..Len(u)
              /\ Front(Cat(i, u), j) = Cat(i, Front(u, j - Len(i)))
          BY <1>0, <2>3, <2>5, <4>1, FrontOfCat
        <4> QED BY <2>2, <4>2 DEF d
      <3>2. f \in ByteSeq
        BY <2>3, <3>1, FrontIs
      <3> HIDE DEF f, k
      <3>3. n <= Len(d) /\ \A h \in 1..n : d[h] = EncodeId(m.id)[h]
        <4>1. Len(Cat(i, f)) = Len(i) + Len(f) /\ Len(f) \in Nat
          BY <1>0, <3>2, CatIs
        <4>2. \A h \in 1..Len(i) : Cat(i, f)[h] = i[h]
          BY <1>0, <3>2, CatIs
        <4> QED BY <2>2, <3>1, <4>1, <4>2
      <3>4. IdEnds(d) # {} /\ IdEnd(d) = n /\ DecodeId(d) = m.id
        BY <2>0, <2>1, <2>6, <3>3, DecodeIdIs
      <3>5. Rest(n, d) = f
        BY <1>0, <2>2, <3>1, <3>2, RestOfCat
      <3>6. k < Len(r) <=> j < Len(i) + Len(r)
        BY <1>0, <2>2, <2>5 DEF k
      <3>7. k - Len(r) = j - (Len(i) + Len(r))
        BY <1>0, <2>2, <2>5 DEF k
      <3>8. CASE HasRoute(m.type)
        <4>1. Behind(m.type, c, d) = DecodeRoute(m.id, c, f)
          BY <1>4, <3>4, <3>5, <3>8 DEF Behind
        <4>2. k \in 0..(Len(r) + Len(b))
          BY <2>3, <3>1
        <4>3. DecodeRoute(m.id, c, f) =
                IF k < Len(r) THEN Invalid
                ELSE DecodeBody(m.id, m.route, Front(b, k - Len(r)))
          BY <1>2, <3>8, <4>2 DEF f
        <4> QED BY <3>6, <3>7, <4>1, <4>3
      <3>9. CASE ~HasRoute(m.type)
        <4>1. Behind(m.type, c, d) = DecodeBody(m.id, <<>>, f)
          BY <1>4, <3>4, <3>5, <3>9 DEF Behind
        <4>2. r = <<>> /\ Len(r) = 0 /\ m.route = <<>>
          BY <3>9, MessageIs, NoBytes DEF r, RoutePart
        <4>3. u = b
          BY <1>0, <4>2, NoBytes DEF u
        <4>4. f = Front(b, k - Len(r))
          BY <3>1, <4>2, <4>3 DEF f
        <4>5. ~ (k < Len(r))
          BY <3>1, <4>2
        <4> QED BY <3>6, <3>7, <4>1, <4>2, <4>4, <4>5
      <3> QED BY <3>8, <3>9
    <2> QED BY <2>7, <2>8
  <1> QED BY <1>3, <1>4

\* Whatever the first k bytes are cut to, Decode refuses them or goes on to
\* the body.
LEMMA MessageDecodes ==
  ASSUME NEW m \in Messages, Short(m), NEW k \in 1..Len(Encode(m))
  PROVE  Decode(Front(Encode(m), k)) =
           IF k < HeadLen(m) THEN Invalid
           ELSE DecodeBody(m.id, m.route, Front(m.body, k - HeadLen(m)))
  <1> DEFINE o == <<Flag(m)>>
             i == Len(IdPart(m))
             r == Len(RoutePart(m))
             b == Len(m.body)
             u == Cat(IdPart(m), Cat(RoutePart(m), m.body))
             j == k - 1
             d == Front(u, j)
  <1>1. /\ i \in Nat /\ r \in Nat /\ b \in Nat
        /\ HeadLen(m) = 1 + i + r /\ Len(Encode(m)) = (1 + i + r) + b
    BY LengthsAre DEF HeadLen
  <1>2. /\ u \in ByteSeq /\ o \in ByteSeq /\ Len(o) = 1 /\ Encode(m) = Cat(o, u)
    <2>1. Cat(RoutePart(m), m.body) \in ByteSeq
      BY PartsAre, MessageIs, CatIs
    <2>2. u \in ByteSeq
      BY <2>1, PartsAre, CatIs
    <2> QED BY <2>2, PartsAre, OneByte
  <1> HIDE DEF u, o, i, r, b
  <1>3. Len(Encode(m)) = 1 + Len(u) /\ Len(u) \in Nat
    <2>1. Len(Cat(o, u)) = Len(o) + Len(u) /\ Len(u) \in Nat
      BY <1>2, CatIs
    <2> QED BY <1>2, <2>1
  <1>4. j \in 0..Len(u) /\ j \in 0..(i + r + b) /\ k \in Nat /\ k >= 1
    BY <1>1, <1>3
  <1>5. Front(Encode(m), k) = Cat(o, d)
    <2>1. k \in Nat /\ Len(o) <= k /\ k <= Len(o) + Len(u)
      BY <1>2, <1>3, <1>4
    <2>2. Front(Cat(o, u), k) = Cat(o, Front(u, k - Len(o)))
      BY <1>2, <2>1, FrontOfCat
    <2> QED BY <1>2, <2>2
  <1>6. d \in ByteSeq
    BY <1>2, <1>4, FrontIs
  <1> HIDE DEF d
  <1>7. PICK c \in BOOLEAN : (c <=> Compressed(m)) /\ Decode(Cat(o, d)) = Behind(m.type, c, d)
    BY <1>6, DecodeByFlag DEF o
  <1>8. Behind(m.type, c, d) =
          IF j < i + r THEN Invalid
          ELSE DecodeBody(m.id, m.route, Front(m.body, j - (i + r)))
    <2>1. j \in 0..(Len(IdPart(m)) + Len(RoutePart(m)) + Len(m.body))
      BY <1>4 DEF i, r, b
    <2> HIDE DEF j
    <2> QED BY <1>7, <2>1, BehindIs DEF d, u, i, r
  <1>9. (j < i + r <=> k < HeadLen(m)) /\ j - (i + r) = k - HeadLen(m)
    BY <1>1, <1>4
  <1> QED BY <1>5, <1>7, <1>8, <1>9

(***************************************************************************)
(* Every message, cut anywhere                                             *)
(***************************************************************************)

\* Some of the bytes of the message are there, and they are what is decoded.
Inv ==
  /\ item \in Messages
  /\ \E k \in 1..Len(Encode(item)) : data = Front(Encode(item), k)
  /\ decoded \in BOOLEAN
  /\ decoded => result = Decode(data)

LEMMA InitInv == Init => Inv
  <1> SUFFICES ASSUME Init PROVE Inv
    OBVIOUS
  <1> DEFINE e == Encode(item)
             n == Len(e)
  <1>1. item \in Messages /\ data = e /\ decoded = FALSE
    BY DEF Init
  <1>2. e \in ByteSeq /\ n \in Nat /\ n >= 1
    BY <1>1, LengthsSum
  <1> HIDE DEF e
  <1>3. n \in 1..n /\ e = Front(e, n)
    BY <1>2, FrontIs
  <1> QED BY <1>1, <1>3 DEF Inv, e

LEMMA NextInv == Inv /\ [Next]_vars => Inv'
  <1> SUFFICES ASSUME Inv, [Next]_vars PROVE Inv'
    OBVIOUS
  <1> USE DEF Inv
  <1>1. CASE Cut
    <2> DEFINE e == Encode(item)
    <2>1. PICK k \in 1..Len(e) : data = Front(e, k)
      OBVIOUS
    <2>2. /\ ~decoded /\ Len(data) > 1 /\ data' = Front(data, Len(data) - 1)
          /\ item' = item /\ decoded' = decoded /\ result' = result
      BY <1>1 DEF Cut, Front
    <2>3. e \in ByteSeq /\ Len(e) \in Nat
      BY LengthsAre, LenProperties DEF ByteSeq
    <2> HIDE DEF e
    <2>4. /\ data \in ByteSeq /\ Len(data) = k /\ k \in Nat
          /\ \A i \in 1..k : data[i] = e[i]
      BY <2>1, <2>3, FrontIs
    <2> DEFINE j == k - 1
    <2>5. j \in 1..Len(e) /\ j \in 0..Len(e) /\ j \in 0..Len(data)
      BY <2>2, <2>3, <2>4
    <2>6. Front(data, j) = Front(e, j)
      <3>1. /\ Front(data, j) \in ByteSeq /\ Len(Front(data, j)) = j
            /\ \A i \in 1..j : Front(data, j)[i] = data[i]
        BY <2>4, <2>5, FrontIs
      <3>2. /\ Front(e, j) \in ByteSeq /\ Len(Front(e, j)) = j
            /\ \A i \in 1..j : Front(e, j)[i] = e[i]
        BY <2>3, <2>5, FrontIs
      <3>3. \A i \in 1..j : data[i] = e[i]
        BY <2>4
      <3> HIDE DEF j
      <3> QED BY <3>1, <3>2, <3>3, SameBytes
    <2>7. data' = Front(e, j)
      BY <2>2, <2>4, <2>6
    <2> HIDE DEF j
    <2> QED BY <2>2, <2>5, <2>7 DEF e
  <1>2. CASE DecodeIt
    BY <1>2 DEF DecodeIt
  <1>3. CASE UNCHANGED vars
    BY <1>3 DEF vars
  <1> QED BY <1>1, <1>2, <1>3 DEF Next

THEOREM CodecInvariant == Spec => []Inv
  BY InitInv, NextInv, PTL DEF Spec

\* The buffer that pc_msg_encode_route and pc_msg_encode_code allocate for a
\* request or a notification is what they write, whatever is in it.
THEOREM CodecBufferExact == Spec => []BufferExact
  <1>1. Inv => BufferExact
    <2> SUFFICES ASSUME Inv, item.type \in {REQUEST, NOTIFY}
                 PROVE  Allocated(item) = Len(Encode(item))
      BY DEF BufferExact
    <2> DEFINE m == item
    <2>1. m \in Messages /\ HasRoute(m.type)
      BY DEF Inv, HasRoute, REQUEST, NOTIFY, RESPONSE
    <2> HIDE DEF m
    <2>2. Len(IdPart(m)) = IF HasId(m.type) THEN IdLength(m.id) ELSE 0
      <3>1. CASE HasId(m.type)
        <4>1. m.id \in MsgIds
          BY <2>1, <3>1, MessageIs
        <4>2. PICK n : Needs(m.id, n)
          BY <4>1, NeedsSome
        <4>3. IdLength(m.id) = n /\ Len(EncodeId(m.id)) = n
          BY <4>1, <4>2, IdLengthIs, IdBytes
        <4> QED BY <3>1, <4>3 DEF IdPart
      <3>2. CASE ~HasId(m.type)
        BY <3>2 DEF IdPart
      <3> QED BY <3>1, <3>2
    <2>3. Len(RoutePart(m)) = IF Compressed(m) THEN 2 ELSE 1 + Len(m.route)
      <3>1. CASE Compressed(m)
        <4>1. Dictionary[m.route] \in 1..(Power(2, ByteBits) * Power(2, ByteBits) - 1)
          BY <3>1, CodecAssumption DEF Compressed
        <4> QED BY <2>1, <3>1, <4>1, CodeIs DEF RoutePart
      <3>2. CASE ~Compressed(m)
        <4>1. Len(EncodeRoute(m.route)) = 1 + Len(m.route)
          BY <2>1, MessageIs, RouteIs
        <4> QED BY <2>1, <3>2, <4>1 DEF RoutePart
      <3> QED BY <3>1, <3>2
    <2> DEFINE i == Len(IdPart(m))
               r == Len(RoutePart(m))
               b == Len(m.body)
    <2>4. i \in Nat /\ r \in Nat /\ b \in Nat /\ Len(Encode(m)) = (1 + i + r) + b
      BY <2>1, LengthsAre DEF HeadLen
    <2>5. Allocated(m) = 1 + i + r + b
      BY <2>1, <2>2, <2>3 DEF Allocated
    <2> HIDE DEF i, r, b
    <2>6. Allocated(m) = Len(Encode(m))
      BY <2>4, <2>5
    <2> QED BY <2>6 DEF m
  <1> QED BY <1>1, CodecInvariant, PTL

\* A message that has arrived whole is decoded to what was encoded: its id,
\* digit by digit, its route, by its code or its length, and its body.
THEOREM CodecRoundTrip == Spec => []RoundTrip
  <1>1. Inv => RoundTrip
    <2> SUFFICES ASSUME Inv, decoded, Whole, Short(item)
                 PROVE  result = [id |-> item.id, route |-> item.route, body |-> item.body]
      BY DEF RoundTrip
    <2> DEFINE e == Encode(item)
               n == Len(e)
               h == HeadLen(item)
    <2>1. item \in Messages /\ result = Decode(e)
      BY DEF Inv, Whole
    <2>2. /\ e \in ByteSeq /\ n \in Nat /\ h \in Nat /\ h >= 1 /\ Len(item.body) \in Nat
          /\ n >= 1 /\ n = h + Len(item.body)
      BY <2>1, LengthsSum
    <2>3. n \in 1..n /\ Front(e, n) = e
      <3> HIDE DEF e
      <3> QED BY <2>2, FrontIs
    <2>4. ~ (n < h) /\ n - h = Len(item.body)
      <3> HIDE DEF h, n
      <3> QED BY <2>2
    <2>5. Decode(e) = DecodeBody(item.id, item.route, Front(item.body, Len(item.body)))
      <3>1. Decode(Front(e, n)) =
              IF n < h THEN Invalid
              ELSE DecodeBody(item.id, item.route, Front(item.body, n - h))
        BY <2>1, <2>3, MessageDecodes
      <3> HIDE DEF e, h, n
      <3> QED BY <2>3, <2>4, <3>1
    <2>6. Front(item.body, Len(item.body)) = item.body /\ item.body \in Bodies
      <3>1. item.body \in ByteSeq /\ Len(item.body) \in 0..Len(item.body)
        BY <2>1, <2>2, MessageIs
      <3> QED BY <2>1, <3>1, MessageIs, FrontIs
    <2> QED BY <2>1, <2>5, <2>6 DEF DecodeBody
  <1> QED BY <1>1, CodecInvariant, PTL

\* No text that is JSON begins another one: so it is with objects and arrays,
\* which end at their own bracket.
NoBodyBegins ==
  \A b, c \in Bodies : \A n \in 1..Len(b) : c = SubSeq(b, 1, n) => n = Len(b)

\* Wherever a message is cut, tcp__on_data_recieved refuses what is left,
\* when no body can be taken for the beginning of another one.
THEOREM CodecCutRefused == NoBodyBegins => (Spec => []CutRefused)
  <1> SUFFICES ASSUME NoBodyBegins PROVE Spec => []CutRefused
    OBVIOUS
  <1>1. Inv => CutRefused
    <2> SUFFICES ASSUME Inv, decoded, ~Whole, Short(item)
                 PROVE  ~Accepted(result)
      BY DEF CutRefused
    <2> DEFINE e == Encode(item)
               n == Len(e)
               h == HeadLen(item)
               b == Len(item.body)
    <2>1. PICK k \in 1..n : item \in Messages /\ data = Front(e, k) /\ result = Decode(data)
      BY DEF Inv
    <2>2. /\ e \in ByteSeq /\ n \in Nat /\ h \in Nat /\ b \in Nat /\ n = h + b
          /\ item.body \in ByteSeq /\ item.body \in Bodies
      <3>1. /\ e \in ByteSeq /\ n \in Nat /\ h \in Nat /\ b \in Nat /\ n = h + b
        BY <2>1, LengthsSum
      <3>2. item.body \in ByteSeq /\ item.body \in Bodies
        BY <2>1, MessageIs
      <3> QED BY <3>1, <3>2
    <2>3. k # n
      <3>1. n \in 0..n /\ Front(e, n) = e
        <4> HIDE DEF e
        <4> QED BY <2>2, FrontIs
      <3> QED BY <2>1, <3>1 DEF Whole
    <2>4. result = IF k < h THEN Invalid
                   ELSE DecodeBody(item.id, item.route, Front(item.body, k - h))
      BY <2>1, MessageDecodes
    <2> HIDE DEF e, n, h
    <2>5. CASE k < h
      BY <2>4, <2>5 DEF Accepted, Invalid
    <2>6. CASE ~ (k < h)
      <3> DEFINE i == k - h
                 f == Front(item.body, i)
      <3>1. i \in 0..b /\ i # b
        BY <2>2, <2>3, <2>6
      <3>2. f \in ByteSeq /\ Len(f) = i
        BY <2>2, <3>1, FrontIs
      <3>3. f \in Bodies => i = 0
        <4>1. i # 0 => i \in 1..b
          BY <2>2, <3>1
        <4> QED BY <2>2, <3>1, <4>1 DEF NoBodyBegins, Front
      <3>4. i = 0 => f = <<>>
        BY <3>2, NoBytes
      <3> HIDE DEF f
      <3>5. result = DecodeBody(item.id, item.route, f)
        BY <2>4, <2>6 DEF f
      <3>6. CASE f = <<>> \/ f \in Bodies
        <4>1. result.body = <<>>
          BY <3>3, <3>4, <3>5, <3>6 DEF DecodeBody
        <4> QED BY <4>1 DEF Accepted
      <3>7. CASE ~ (f = <<>> \/ f \in Bodies)
        BY <3>5, <3>7 DEF DecodeBody, Accepted, Invalid
      <3> QED BY <3>6, <3>7
    <2> QED BY <2>5, <2>6
  <1> QED BY <1>1, CodecInvariant, PTL

===============================================================================
