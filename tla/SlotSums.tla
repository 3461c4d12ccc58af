------------------------------ MODULE SlotSums ------------------------------
(***************************************************************************)
(* Sums over the packed slots of a ciphertext: the rotations that the GPU  *)
(* API announces to FIDESlib, the slots that a reduction of the libraries  *)
(* adds up, and the batches into which the large demo sums are cut.        *)
(***************************************************************************)
EXTENDS Integers, FiniteSets

\* What a step that starts at 1 is after k multiplications by b.
Power(b) == LET step[k \in Nat] == IF k = 0 THEN 1 ELSE b * step[k - 1] IN step

\* Mutant: the rotations of a binary tree, as EvalSum uses them.
RotationsByTwo(n) == {i \in 1..(n - 1) : \E k \in 0..(n \div 2) : i = Power(2)[k]}

\* fides_sum_rotation_indices, and _rotation_indices of the FIDES adapter:
\* m * step for m in 1..3, where step runs over the powers of four below
\* valid_count (the k-th is below n only for k <= n \div 4).
Rotations(n) == {i \in 1..(n - 1) : \E k \in 0..(n \div 4), m \in 1..3 : i = m * Power(4)[k]}

\* Accumulate with bStep 4 rotates by at most one index of each power of four.
Gathered(rotations, n) ==
  LET Digit(i, k) == (i \div Power(4)[k]) % 4
  IN  {i \in 0..(n - 1) : \A k \in 0..(n \div 4) :
         Digit(i, k) # 0 => Digit(i, k) * Power(4)[k] \in rotations}

\* EvalSum doubles the slots it has added until it has at least n of them.
Doubled(n) == CHOOSE w \in 1..(2 * n) : w >= n /\ w < 2 * n /\ \E k \in 0..n : w = Power(2)[k]

\* Mutant: an incomplete batch at the end is forgotten.
WholeBatches(N, size) == {k \in 0..(N - 1) : (k + 1) * size <= N}

\* The batches of sum_values and run_large_sum.
Batches(N, size) == {k \in 0..(N - 1) : k * size < N}

\* The values of batch k, packed in the slots 0, 1, ... of a ciphertext whose
\* other slots are zero.
Batch(N, size, k) == {i \in 0..(N - 1) : i >= k * size /\ i < (k + 1) * size}

\* How often value i is in the total: EvalSum gets the length of the batch,
\* Accumulate always the size of a whole one.
TimesSummed(image, N, size, i) ==
  Cardinality({k \in Batches(N, size) :
    /\ i \in Batch(N, size, k)
    /\ i - k * size \in (IF image = "gpu" THEN Gathered(Rotations(size), size)
                         ELSE 0..(Doubled(Cardinality(Batch(N, size, k))) - 1))})

=============================================================================
