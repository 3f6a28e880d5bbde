---------------------------- MODULE BackoffProofs ----------------------------
(***************************************************************************)
(* The delays of tcp__reconn for every configuration, and any number of    *)
(* attempts in a row.                                                      *)
(***************************************************************************)
EXTENDS MCBackoff, TLAPS, WellFoundedInduction

(***************************************************************************)
(* Induction over sets of naturals                                         *)
(***************************************************************************)

LEMMA LeastNatural ==
  ASSUME NEW S \in SUBSET Nat, S # {}
  PROVE  \E m \in S : \A k \in S : m <= k
  <1>1. IsWellFoundedOn(OpToRel(<, Nat), Nat)
    BY NatLessThanWellFounded
  <1>2. PICK m \in S : \A k \in S : ~ (<<k, m>> \in OpToRel(<, Nat))
    BY <1>1, WFMin
  <1>3. \A k \in S : ~ (k < m)
    BY <1>2, Zenon DEF OpToRel
  <1> QED BY <1>3

\* A set that holds 0 and the successor of each of its naturals
LEMMA NatSetInduction ==
  ASSUME NEW S, 0 \in S, \A n \in Nat : n \in S => n + 1 \in S
  PROVE  Nat \subseteq S
  <1> DEFINE T == {n \in Nat : n \notin S}
  <1> SUFFICES ASSUME T # {} PROVE FALSE
    OBVIOUS
  <1>1. PICK m \in T : \A k \in T : m <= k
    BY LeastNatural
  <1> QED BY <1>1

(***************************************************************************)
(* Powers of two in the range of an int                                    *)
(***************************************************************************)

LEMMA PowerNext ==
  ASSUME NEW n \in 0..30
  PROVE  2^n \in Nat \ {0} /\ 2^(n + 1) = 2 * 2^n
  <1>0. CASE n = 0  BY <1>0
  <1>1. CASE n = 1  BY <1>1
  <1>2. CASE n = 2  BY <1>2
  <1>3. CASE n = 3  BY <1>3
  <1>4. CASE n = 4  BY <1>4
  <1>5. CASE n = 5  BY <1>5
  <1>6. CASE n = 6  BY <1>6
  <1>7. CASE n = 7  BY <1>7
  <1>8. CASE n = 8  BY <1>8
  <1>9. CASE n = 9  BY <1>9
  <1>10. CASE n = 10  BY <1>10
  <1>11. CASE n = 11  BY <1>11
  <1>12. CASE n = 12  BY <1>12
  <1>13. CASE n = 13  BY <1>13
  <1>14. CASE n = 14  BY <1>14
  <1>15. CASE n = 15  BY <1>15
  <1>16. CASE n = 16  BY <1>16
  <1>17. CASE n = 17  BY <1>17
  <1>18. CASE n = 18  BY <1>18
  <1>19. CASE n = 19  BY <1>19
  <1>20. CASE n = 20  BY <1>20
  <1>21. CASE n = 21  BY <1>21
  <1>22. CASE n = 22  BY <1>22
  <1>23. CASE n = 23  BY <1>23
  <1>24. CASE n = 24  BY <1>24
  <1>25. CASE n = 25  BY <1>25
  <1>26. CASE n = 26  BY <1>26
  <1>27. CASE n = 27  BY <1>27
  <1>28. CASE n = 28  BY <1>28
  <1>29. CASE n = 29  BY <1>29
  <1>30. CASE n = 30  BY <1>30
    <1> QED BY <1>0, <1>1, <1>2, <1>3, <1>4, <1>5, <1>6, <1>7, <1>8, <1>9,
     <1>10, <1>11, <1>12, <1>13, <1>14, <1>15, <1>16, <1>17, <1>18, <1>19,
     <1>20, <1>21, <1>22, <1>23, <1>24, <1>25, <1>26, <1>27, <1>28, <1>29,
     <1>30

LEMMA PowerOfNothing == 2^0 = 1
  OBVIOUS

\* Powers grow with their exponent.
LEMMA PowersGrow ==
  ASSUME NEW i \in 0..31, NEW j \in i..31
  PROVE  2^i \in Nat \ {0} /\ 2^j \in Nat \ {0} /\ 2^i <= 2^j
  <1> DEFINE Above == {n \in Nat : i + n <= 31 => 2^(i + n) \in Nat \ {0} /\ 2^i <= 2^(i + n)}
  <1>1. 2^i \in Nat \ {0}
    <2>1. CASE i = 31  BY <2>1
    <2>2. CASE i \in 0..30  BY <2>2, PowerNext
    <2> QED BY <2>1, <2>2
  <1>2. 0 \in Above
    BY <1>1
  <1>3. ASSUME NEW n \in Nat, n \in Above  PROVE n + 1 \in Above
    <2> SUFFICES ASSUME i + (n + 1) <= 31
                 PROVE  2^(i + (n + 1)) \in Nat \ {0} /\ 2^i <= 2^(i + (n + 1))
      OBVIOUS
    <2>1. i + n \in 0..30 /\ i + (n + 1) = (i + n) + 1
      OBVIOUS
    <2>2. 2^(i + n) \in Nat \ {0} /\ 2^((i + n) + 1) = 2 * 2^(i + n)
      BY <2>1, PowerNext
    <2>3. 2^i <= 2^(i + n)
      BY <1>3, <2>1
    <2> QED BY <1>1, <2>1, <2>2, <2>3
  <1>4. j - i \in Above
    BY <1>2, <1>3, NatSetInduction, j - i \in Nat
  <1>5. i + (j - i) = j
    OBVIOUS
  <1> QED BY <1>1, <1>4, <1>5

LEMMA BitsOfInt == INT_MAX \in Nat /\ 2^31 \in Nat /\ INT_MAX < 2^31
  BY SMT DEF INT_MAX

\* Every positive int has a number of bits.
LEMMA IntHasBits ==
  ASSUME NEW f \in 1..INT_MAX
  PROVE  \E i \in 1..31 : 2^(i - 1) <= f /\ f < 2^i
  <1> DEFINE Longer == {i \in Nat : i <= 31 /\ f < 2^i}
  <1>1. 31 \in Longer
    BY BitsOfInt
  <1>2. PICK i \in Longer : \A k \in Longer : i <= k
    BY <1>1, LeastNatural
  <1>3. i # 0
    <2> SUFFICES ASSUME i = 0 PROVE FALSE  OBVIOUS
    <2>1. f < 2^0  BY <1>2
    <2> QED BY <2>1, PowerOfNothing
  <1>4. i - 1 \notin Longer /\ i - 1 \in 0..30
    BY <1>2, <1>3
  <1>5. 2^(i - 1) \in Nat
    BY <1>4, PowerNext
  <1>6. 2^(i - 1) <= f
    BY <1>4, <1>5
  <1>7. i \in 1..31 /\ f < 2^i
    BY <1>2, <1>3
  <1> QED BY <1>6, <1>7

(***************************************************************************)
(* The delay of an attempt                                                 *)
(***************************************************************************)

\* What Init allows, and no step changes
ConfigOK ==
  /\ reconn_delay \in Nat \ {0}
  /\ reconn_delay_max \in 1..MaxDelayMax
  /\ reconn_exp_backoff \in BOOLEAN

Inv == ConfigOK /\ reconn_times \in Nat \ {0}

LEMMA DivisionIsExact ==
  ASSUME NEW d \in Nat \ {0}, NEW m \in Nat, d <= m
  PROVE  m \div d \in 1..m /\ d * (m \div d) <= m
  <1> DEFINE q == m \div d
             r == m % d
  <1>1. q \in Nat /\ r \in Nat /\ m = d * q + r /\ r < d
    OBVIOUS
  <1> HIDE DEF q, r
  <1>2. q # 0
    BY <1>1
  <1>3. q <= d * q
    BY <1>1
  <1>4. q \in 1..m /\ d * q <= m
    BY <1>1, <1>2, <1>3
  <1> QED BY <1>4 DEF q

LEMMA FactorFits ==
  ASSUME ConfigOK, Sensible
  PROVE  B!Factor \in 1..INT_MAX /\ reconn_delay * B!Factor <= reconn_delay_max
  <1>1. reconn_delay_max \in Nat /\ reconn_delay_max <= INT_MAX
    BY BoundsAssumption, BitsOfInt DEF ConfigOK
  <1>2. B!Factor = reconn_delay_max \div reconn_delay
    BY DEF B!Factor, ConfigOK, Sensible
  <1> QED BY <1>1, <1>2, DivisionIsExact, BitsOfInt DEF ConfigOK, Sensible

LEMMA FactorBitsFit ==
  ASSUME ConfigOK, Sensible
  PROVE  /\ B!FactorBits \in 1..31
         /\ 2^(B!FactorBits - 1) <= B!Factor /\ B!Factor < 2^B!FactorBits
  <1>1. \E i \in 1..31 : 2^(i - 1) <= B!Factor /\ B!Factor < 2^i
    BY FactorFits, IntHasBits
  <1> QED BY <1>1, Zenon DEF B!FactorBits

LEMMA IncrFits ==
  ASSUME ConfigOK, Sensible
  PROVE  B!max_reconn_incr \in Nat \ {0, 1}
  BY FactorFits, FactorBitsFit, BitsOfInt DEF B!max_reconn_incr, ConfigOK

\* Two attempts before the limit: the delay grows, and stays in the bounds.
LEMMA GrowingGrows ==
  ASSUME ConfigOK, Sensible,
         NEW n \in 1..(B!max_reconn_incr - 1), NEW k \in 1..n
  PROVE  /\ B!Growing(k) \in Nat /\ B!Growing(n) \in Nat
         /\ reconn_delay <= B!Growing(k) /\ B!Growing(k) <= B!Growing(n)
         /\ B!Growing(n) <= reconn_delay_max
  <1> DEFINE d == reconn_delay
             F == B!Factor
  <1>0. /\ d \in Nat \ {0} /\ F \in Nat /\ d * F <= reconn_delay_max
        /\ reconn_delay_max \in Nat
        /\ B!max_reconn_incr \in Nat \ {0, 1}
    BY FactorFits, IncrFits, BitsOfInt, BoundsAssumption DEF ConfigOK
  <1>1. CASE reconn_exp_backoff
    <2>1. B!FactorBits \in 1..31 /\ n \in 1..B!FactorBits
      BY <1>1, FactorBitsFit DEF B!max_reconn_incr
    <2> DEFINE a == 2^(k - 1)
               b == 2^(n - 1)
               c == 2^(B!FactorBits - 1)
    <2>2. a \in Nat \ {0} /\ b \in Nat \ {0} /\ a <= b
      <3>1. k - 1 \in 0..31 /\ n - 1 \in (k - 1)..31  BY <2>1
      <3> QED BY <3>1, PowersGrow
    <2>3. c \in Nat \ {0} /\ b <= c
      <3>1. n - 1 \in 0..31 /\ B!FactorBits - 1 \in (n - 1)..31  BY <2>1
      <3> QED BY <3>1, PowersGrow
    <2>4. c <= F
      BY FactorBitsFit
    <2>5. B!Growing(k) = d * a /\ B!Growing(n) = d * b
      BY <1>1 DEF B!Growing
    <2> HIDE DEF a, b, c, d, F
    <2>6. d * a \in Nat /\ d * b \in Nat /\ d <= d * a
      BY <1>0, <2>2
    <2>7. d * a <= d * b /\ d * b <= d * F
      BY <1>0, <2>2, <2>3, <2>4
    <2>8. d * F \in Nat
      BY <1>0
    <2> QED BY <1>0, <2>5, <2>6, <2>7, <2>8 DEF d, F
  <1>2. CASE ~reconn_exp_backoff
    <2>1. n \in 1..F
      BY <1>0, <1>2 DEF B!max_reconn_incr
    <2>2. B!Growing(k) = d * k /\ B!Growing(n) = d * n
      BY <1>2 DEF B!Growing
    <2>3. k \in Nat \ {0} /\ n \in Nat /\ k <= n
      BY <2>1
    <2> HIDE DEF d, F
    <2>4. d * k \in Nat /\ d * n \in Nat /\ d <= d * k
      BY <1>0, <2>3
    <2>5. d * k <= d * n /\ d * n <= d * F
      BY <1>0, <2>1, <2>3
    <2>6. d * F \in Nat
      BY <1>0
    <2> QED BY <1>0, <2>2, <2>4, <2>5, <2>6 DEF d, F
  <1> QED BY <1>1, <1>2

LEMMA BaseDelayBounded ==
  ASSUME ConfigOK, Sensible, NEW n \in Nat \ {0}
  PROVE  B!BaseDelay(n) \in reconn_delay..reconn_delay_max
  <1>0. reconn_delay \in Nat /\ reconn_delay_max \in Nat
    BY BoundsAssumption DEF ConfigOK
  <1>1. CASE n >= B!max_reconn_incr
    BY <1>0, <1>1 DEF B!BaseDelay, Sensible
  <1>2. CASE ~(n >= B!max_reconn_incr)
    <2>1. n \in 1..(B!max_reconn_incr - 1) /\ n \in 1..n
      BY <1>2, IncrFits
    <2>2. /\ B!Growing(n) \in Nat /\ reconn_delay <= B!Growing(n)
          /\ B!Growing(n) <= reconn_delay_max
      BY <2>1, GrowingGrows
    <2> QED BY <1>0, <1>2, <2>2 DEF B!BaseDelay
  <1> QED BY <1>1, <1>2

LEMMA BaseDelayGrows ==
  ASSUME ConfigOK, Sensible, NEW n \in Nat \ {0}, NEW k \in 1..n
  PROVE  B!BaseDelay(k) <= B!BaseDelay(n)
  <1>1. CASE n >= B!max_reconn_incr
    <2>1. B!BaseDelay(n) = reconn_delay_max
      BY <1>1 DEF B!BaseDelay
    <2>2. B!BaseDelay(k) \in reconn_delay..reconn_delay_max
      BY BaseDelayBounded
    <2> QED BY <2>1, <2>2
  <1>2. CASE ~(n >= B!max_reconn_incr)
    <2>1. n \in 1..(B!max_reconn_incr - 1) /\ ~(k >= B!max_reconn_incr)
      BY <1>2, IncrFits
    <2>2. B!Growing(k) <= B!Growing(n)
      BY <2>1, GrowingGrows
    <2> QED BY <1>2, <2>1, <2>2 DEF B!BaseDelay
  <1> QED BY <1>1, <1>2

LEMMA DelaysBounded ==
  ASSUME ConfigOK, Sensible, NEW n \in Nat \ {0}, NEW d \in B!Delays(n)
  PROVE  2 * d <= 3 * reconn_delay_max /\ 2 * d + 1 >= reconn_delay
  <1> DEFINE b == B!BaseDelay(n)
  <1>1. /\ b \in reconn_delay..reconn_delay_max
        /\ reconn_delay \in Nat /\ reconn_delay_max \in Nat
    BY BaseDelayBounded, BoundsAssumption DEF ConfigOK
  <1>2. PICK r \in 0..(b - 1) : d = r + b \div 2
    BY DEF B!Delays
  <1> HIDE DEF b
  <1> QED BY <1>1, <1>2

(***************************************************************************)
(* The theorems                                                            *)
(***************************************************************************)

LEMMA InitInv == Init => Inv
  BY BoundsAssumption DEF Init, Inv, ConfigOK

LEMMA NextInv == Inv /\ [Next]_<<config, reconn_times>> => Inv'
  BY BoundsAssumption DEF Inv, ConfigOK, Next, config

LEMMA SpecInv == Spec => []Inv
  BY InitInv, NextInv, PTL DEF Spec

LEMMA InvWaits == Inv => WaitBounded
  <1> SUFFICES ASSUME Inv, Sensible
               PROVE  /\ B!BaseDelay(reconn_times) \in 1..reconn_delay_max
                      /\ \A d \in B!Delays(reconn_times) :
                           2 * d <= 3 * reconn_delay_max /\ 2 * d + 1 >= reconn_delay
    BY DEF WaitBounded
  <1>1. B!BaseDelay(reconn_times) \in reconn_delay..reconn_delay_max
    BY BaseDelayBounded DEF Inv
  <1>2. reconn_delay \in Nat \ {0} /\ reconn_delay_max \in Nat
    BY BoundsAssumption DEF Inv, ConfigOK
  <1>3. B!BaseDelay(reconn_times) \in 1..reconn_delay_max
    BY <1>1, <1>2
  <1> QED BY <1>3, DelaysBounded DEF Inv

\* A wait that tcp__reconn arms lies between half of reconn_delay and one and
\* a half reconn_delay_max, and rand() always has a range: for every
\* configuration of ints, however long the row of failed attempts is.
THEOREM WaitsAreBounded == Spec => []WaitBounded
  BY SpecInv, InvWaits, PTL

LEMMA StepGrows ==
  ASSUME Inv, Inv', [Next]_<<config, reconn_times>>,
         reconn_times' > reconn_times, Sensible
  PROVE  B!BaseDelay(reconn_times)' >= B!BaseDelay(reconn_times)
  <1>1. UNCHANGED config
    BY DEF Next, config
  <1>2. reconn_times' \in Nat \ {0} /\ reconn_times \in 1..reconn_times'
    BY DEF Inv
  <1>3. B!BaseDelay(reconn_times') >= B!BaseDelay(reconn_times)
    <2> DEFINE k == reconn_times
               n == reconn_times'
    <2>1. \A i \in Nat \ {0} : \A j \in 1..i : B!BaseDelay(j) <= B!BaseDelay(i)
      BY BaseDelayGrows DEF Inv
    <2>2. B!BaseDelay(k) <= B!BaseDelay(n)
      BY <1>2, <2>1
    <2>3. /\ B!BaseDelay(k) \in reconn_delay..reconn_delay_max
          /\ B!BaseDelay(n) \in reconn_delay..reconn_delay_max
      BY <1>2, BaseDelayBounded DEF Inv
    <2> QED BY <2>2, <2>3 DEF Inv, ConfigOK
  <1>4. B!BaseDelay(reconn_times)' = B!BaseDelay(reconn_times')
    BY <1>1 DEF config, B!BaseDelay, B!Growing, B!max_reconn_incr, B!FactorBits,
                B!Factor
  <1> QED BY <1>3, <1>4

\* Over a row of failed attempts the delay never shrinks: tcp__reconn
\* switches to reconn_delay_max at the right attempt, for every
\* configuration of ints.
THEOREM DelaysGrow == Spec => DelayGrows
  <1>1. Inv /\ Inv' /\ [Next]_<<config, reconn_times>>
          => [reconn_times' > reconn_times /\ Sensible
                => B!BaseDelay(reconn_times)' >= B!BaseDelay(reconn_times)]_reconn_times
    BY StepGrows
  <1> QED BY <1>1, SpecInv, PTL DEF Spec, DelayGrows
=============================================================================
