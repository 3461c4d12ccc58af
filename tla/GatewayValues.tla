--------------------------- MODULE GatewayValues ---------------------------
(***************************************************************************)
(* What the ciphertexts of one gateway session hold: the values in the     *)
(* slots of a vector, and the padding behind them.  A vector is packed     *)
(* into a batch of at least eight slots and a power of two.                *)
(***************************************************************************)
EXTENDS SlotSums, Sequences

CONSTANTS
  Lengths,       \* vector lengths, up to the batch of eight slots
  MaxCiphertexts \* MAX_CIPHERTEXTS_PER_SESSION

VARIABLES
  vector_length, \* of the session
  stored         \* its ciphertexts: logical length, whether the padding is zero,
                 \* whether the logical slots hold what was asked for

vars == <<vector_length, stored>>

Ciphertext == [length : Lengths \cup {1}, zero : BOOLEAN, right : BOOLEAN]

Fresh(n) == [length |-> n, zero |-> TRUE, right |-> TRUE]

TypeOK == vector_length \in Lengths /\ stored \in Seq(Ciphertext)

\* create_session stores the first vector.
Init ==
  /\ vector_length \in Lengths
  /\ stored = <<Fresh(vector_length)>>

Store(c) ==
  /\ Len(stored) < MaxCiphertexts
  /\ stored' = Append(stored, c)
  /\ UNCHANGED vector_length

Encrypt == Store(Fresh(vector_length))

\* EvalAdd, EvalSub and EvalMult of two ciphertexts work slot by slot.
OfTwo(left, right) ==
  /\ left.length = right.length
  /\ \/ Store([left EXCEPT !.zero = @ /\ right.zero, !.right = @ /\ right.right])
     \/ Store([left EXCEPT !.zero = @ \/ right.zero, !.right = @ /\ right.right])

\* A public vector is padded with zeros; a public scalar is added to every slot,
\* or multiplied with every slot.
WithPublic(left) ==
  \/ Store(left)
  \/ Store([left EXCEPT !.zero = TRUE])
  \/ Store([left EXCEPT !.zero = FALSE])

Square(left) == Store(left)

\* EvalSum over the logical length, for the mean divided by it: the slots it adds
\* up are those of the vector, and padding when the length is no power of two.
\* Every slot of the result holds some partial sum.
Reduce(left) ==
  Store([length |-> 1, zero |-> FALSE,
         right  |-> left.right /\ (left.zero \/ Doubled(left.length) = left.length)])

Next ==
  \/ Encrypt
  \/ \E i, j \in 1..Len(stored) : OfTwo(stored[i], stored[j])
  \/ \E i \in 1..Len(stored) : WithPublic(stored[i]) \/ Square(stored[i]) \/ Reduce(stored[i])

Spec == Init /\ [][Next]_vars

-----------------------------------------------------------------------------
\* The sum and the mean of a vector are those of its values, whatever was computed
\* on the way: the padding of evaluate stays out of them.
SumOfLogicalValues == \A i \in 1..Len(stored) : stored[i].right

=============================================================================
