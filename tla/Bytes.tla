-------------------------------- MODULE Bytes --------------------------------
(***************************************************************************)
(* Bytes of a small width, which the codecs of messages and of their       *)
(* bodies share.                                                           *)
(***************************************************************************)
EXTENDS Integers

CONSTANT ByteBits  \* the bits of a byte (8)

ASSUME BytesAssumption == ByteBits \in Nat /\ ByteBits >= 3

\* b to the power of n, as a function that proofs can unfold
Power(b, n) == LET p[k \in Nat] == IF k = 0 THEN 1 ELSE b * p[k-1] IN p[n]

Byte == 0..(Power(2, ByteBits) - 1)

\* The weight of the top bit, which says that another digit follows
Half == Power(2, ByteBits - 1)
=============================================================================
