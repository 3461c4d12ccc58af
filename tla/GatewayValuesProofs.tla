------------------------- MODULE GatewayValuesProofs -------------------------
(***************************************************************************)
(* Proofs about GatewayValues: where every vector length is a power of     *)
(* two, the sums and means of a session are those of its values, for any   *)
(* number of ciphertexts and whatever evaluate leaves in the padding.      *)
(***************************************************************************)
EXTENDS GatewayValues, SlotSumsProofs, SequenceTheorems

\* The lengths for which EvalSum adds up no slot behind the vector.
PowersOfTwo == \A n \in Lengths : n \in Nat \ {0} /\ \E k \in Nat : n = Power(2)[k]

(* What a session stores, and that it is right.                            *)
ValuesInv == TypeOK /\ SumOfLogicalValues

(* A reduction over a power of two, or of a single slot, adds up the       *)
(* vector.                                                                 *)
LEMMA LengthsDoubled ==
  ASSUME PowersOfTwo, NEW n \in Lengths \cup {1}
  PROVE  Doubled(n) = n
<1>1. n \in Nat \ {0}
  BY DEF PowersOfTwo
<1>2. \E k \in Nat : n = Power(2)[k]
  <2>1. 1 = Power(2)[0]
    BY PowerIs
  <2> QED BY <2>1 DEF PowersOfTwo
<1> QED BY <1>1, <1>2, DoubledExactly

(* A right ciphertext may be added to those of the session.                *)
LEMMA StoreRight ==
  ASSUME ValuesInv, NEW c \in Ciphertext, c.right, Store(c)
  PROVE  ValuesInv'
<1>1. stored \in Seq(Ciphertext) /\ vector_length \in Lengths
  BY DEF ValuesInv, TypeOK
<1>2. stored' = Append(stored, c) /\ vector_length' = vector_length
  BY DEF Store
<1>3. stored' \in Seq(Ciphertext) /\ Len(stored') = Len(stored) + 1
  BY <1>1, <1>2, AppendProperties
<1>4. ASSUME NEW i \in 1..Len(stored')
      PROVE  stored'[i].right
  <2>1. CASE i = Len(stored) + 1
    BY <1>1, <1>2, <2>1, AppendProperties
  <2>2. CASE i # Len(stored) + 1
    <3>1. Len(stored) \in Nat
      BY <1>1, LenProperties
    <3>2. i \in 1..Len(stored)
      BY <1>3, <2>2, <3>1
    <3>3. stored'[i] = stored[i]
      BY <1>1, <1>2, <3>2, AppendProperties
    <3> QED BY <3>2, <3>3 DEF ValuesInv, SumOfLogicalValues
  <2> QED BY <2>1, <2>2
<1> QED BY <1>1, <1>2, <1>3, <1>4 DEF ValuesInv, TypeOK, SumOfLogicalValues

(* The elements of the session.                                            *)
LEMMA StoredIs ==
  ASSUME ValuesInv, NEW i \in 1..Len(stored)
  PROVE  stored[i] \in Ciphertext /\ stored[i].right
<1>1. stored \in Seq(Ciphertext)
  BY DEF ValuesInv, TypeOK
<1>2. stored[i] \in Ciphertext
  BY <1>1, ElementOfSeq
<1> QED BY <1>2 DEF ValuesInv, SumOfLogicalValues

(* Every operation stores a right ciphertext.                              *)
LEMMA StepValuesInv ==
  ASSUME PowersOfTwo, ValuesInv, [Next]_vars
  PROVE  ValuesInv'
<1>1. CASE Encrypt
  <2>1. Fresh(vector_length) \in Ciphertext /\ Fresh(vector_length).right
    BY DEF Fresh, Ciphertext, ValuesInv, TypeOK
  <2> QED BY <1>1, <2>1, StoreRight DEF Encrypt
<1>2. ASSUME NEW i \in 1..Len(stored), NEW j \in 1..Len(stored), OfTwo(stored[i], stored[j])
      PROVE  ValuesInv'
  <2>1. PICK l \in Ciphertext, r \in Ciphertext :
          l.right /\ r.right /\ OfTwo(l, r)
    BY <1>2, StoredIs
  <2>2. PICK z \in BOOLEAN : Store([l EXCEPT !.zero = z, !.right = l.right /\ r.right])
    <3>1. l.zero \in BOOLEAN /\ r.zero \in BOOLEAN
      BY <2>1 DEF Ciphertext
    <3> QED BY <2>1, <3>1 DEF OfTwo
  <2>3. /\ [l EXCEPT !.zero = z, !.right = l.right /\ r.right] \in Ciphertext
        /\ [l EXCEPT !.zero = z, !.right = l.right /\ r.right].right
    BY <2>1 DEF Ciphertext
  <2> QED BY <2>2, <2>3, StoreRight
<1>3. ASSUME NEW i \in 1..Len(stored),
             WithPublic(stored[i]) \/ Square(stored[i]) \/ Reduce(stored[i])
      PROVE  ValuesInv'
  <2>1. PICK l \in Ciphertext : l.right /\ (WithPublic(l) \/ Square(l) \/ Reduce(l))
    BY <1>3, StoredIs
  <2>2. CASE Store(l)
    BY <2>1, <2>2, StoreRight
  <2>3. CASE \E z \in BOOLEAN : Store([l EXCEPT !.zero = z])
    <3>1. PICK z \in BOOLEAN : Store([l EXCEPT !.zero = z])
      BY <2>3
    <3>2. [l EXCEPT !.zero = z] \in Ciphertext /\ [l EXCEPT !.zero = z].right
      BY <2>1 DEF Ciphertext
    <3> QED BY <3>1, <3>2, StoreRight
  <2>4. CASE Reduce(l)
    <3>1. l.length \in Lengths \cup {1}
      BY <2>1 DEF Ciphertext
    <3>2. Doubled(l.length) = l.length
      BY <3>1, LengthsDoubled
    <3> DEFINE c == [length |-> 1, zero |-> FALSE,
                     right  |-> l.right /\ (l.zero \/ Doubled(l.length) = l.length)]
    <3>3. c \in Ciphertext /\ c.right /\ Store(c)
      BY <2>1, <2>4, <3>2 DEF Reduce, Ciphertext
    <3> HIDE DEF c
    <3> QED BY <3>3, StoreRight
  <2> QED BY <2>1, <2>2, <2>3, <2>4 DEF WithPublic, Square
<1>4. CASE UNCHANGED vars
  BY <1>4 DEF vars, ValuesInv, TypeOK, SumOfLogicalValues
<1> QED BY <1>1, <1>2, <1>3, <1>4 DEF Next

\* Vectors whose lengths are powers of two have no padding that a reduction
\* adds up: their sums and means are those of their values.
THEOREM SumsOfPowersAreRight == PowersOfTwo => (Spec => []SumOfLogicalValues)
<1> SUFFICES ASSUME PowersOfTwo
             PROVE  Spec => []SumOfLogicalValues
  OBVIOUS
<1>1. Init => ValuesInv
  <2> SUFFICES ASSUME Init
               PROVE  ValuesInv
    OBVIOUS
  <2>1. Fresh(vector_length) \in Ciphertext /\ Fresh(vector_length).right
    BY DEF Init, Fresh, Ciphertext
  <2>2. stored = <<Fresh(vector_length)>> /\ vector_length \in Lengths
    BY DEF Init
  <2> QED BY <2>1, <2>2 DEF ValuesInv, TypeOK, SumOfLogicalValues
<1>2. ValuesInv /\ [Next]_vars => ValuesInv'
  BY StepValuesInv
<1>3. ValuesInv => SumOfLogicalValues
  BY DEF ValuesInv
<1> QED BY <1>1, <1>2, <1>3, PTL DEF Spec

=============================================================================
