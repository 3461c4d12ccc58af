--------------------------- MODULE SlotSumsProofs ---------------------------
(***************************************************************************)
(* Proofs about SlotSums, for every number of values and every size of a   *)
(* batch: the powers that its loops run through, the slots an accumulation *)
(* by fours or a doubling sum reaches, and the batches of a large sum.     *)
(***************************************************************************)
EXTENDS SlotSums, FiniteSetTheorems, WellFoundedInduction, TLAPS

-----------------------------------------------------------------------------
(* Powers.  What holds of 0, and of k + 1 whenever it holds of k, holds of  *)
(* every number, since no number is the least exception.                   *)

(* A set of numbers has a least one.                                       *)
LEMMA LeastOf ==
  ASSUME NEW S \in SUBSET Nat, S # {}
  PROVE  \E n \in S : \A m \in S : n <= m
<1>1. PICK n \in S : \A m \in S : ~(<<m, n>> \in OpToRel(<, Nat))
  BY NatLessThanWellFounded, WFMin
<1>2. ASSUME NEW m \in S
      PROVE  n <= m
  <2>1. ~(m < n)
    BY <1>1 DEF OpToRel
  <2> QED BY <2>1
<1> QED BY <1>2

(* A set that has 0, and the successor of each of its numbers, has all.    *)
LEMMA AllNumbers ==
  ASSUME NEW S \in SUBSET Nat, 0 \in S, \A n \in S : n + 1 \in S
  PROVE  S = Nat
<1>1. SUFFICES ASSUME Nat \ S # {}
               PROVE  FALSE
  OBVIOUS
<1>2. PICK n \in Nat \ S : \A m \in Nat \ S : n <= m
  BY <1>1, LeastOf
<1>3. n # 0 /\ n - 1 \in Nat /\ ~(n <= n - 1) /\ (n - 1) + 1 = n
  BY <1>2
<1>4. n - 1 \in S
  BY <1>2, <1>3
<1> QED BY <1>2, <1>3, <1>4

(* The first n + 1 powers of b.                                            *)
Approximates(g, b, n) ==
  /\ g \in [0..n -> Nat] /\ g[0] = 1
  /\ \A k \in 0..(n - 1) : g[k + 1] = b * g[k]

LEMMA Approximation ==
  ASSUME NEW b \in Nat, NEW n \in Nat
  PROVE  \E g : Approximates(g, b, n)
<1> DEFINE S == {m \in Nat : \E g : Approximates(g, b, m)}
<1>1. 0 \in S
  <2>1. Approximates([k \in 0..0 |-> 1], b, 0)
    BY DEF Approximates
  <2> QED BY <2>1
<1>2. ASSUME NEW m \in S
      PROVE  m + 1 \in S
  <2>1. PICK g : Approximates(g, b, m)
    OBVIOUS
  <2> DEFINE h == [k \in 0..(m + 1) |-> IF k = m + 1 THEN b * g[m] ELSE g[k]]
  <2>2. m \in Nat /\ g[m] \in Nat /\ b * g[m] \in Nat
    BY <2>1 DEF Approximates
  <2>3. h \in [0..(m + 1) -> Nat] /\ h[0] = 1
    BY <2>1, <2>2 DEF Approximates
  <2>4. ASSUME NEW k \in 0..m
        PROVE  h[k + 1] = b * h[k]
    <3>1. CASE k = m
      BY <2>2, <3>1
    <3>2. CASE k # m
      <4>1. k \in 0..(m - 1) /\ k + 1 \in 0..(m + 1) /\ k + 1 # m + 1 /\ k # m + 1 /\ k \in 0..(m + 1)
        BY <2>2, <3>2
      <4>2. g[k + 1] = b * g[k]
        BY <2>1, <4>1 DEF Approximates
      <4> QED BY <4>1, <4>2
    <3> QED BY <3>1, <3>2
  <2>5. (m + 1) - 1 = m
    BY <2>2
  <2> HIDE DEF h
  <2>6. Approximates(h, b, m + 1)
    BY <2>3, <2>4, <2>5 DEF Approximates
  <2> QED BY <2>2, <2>6
<1>3. S = Nat
  <2> HIDE DEF S
  <2>1. S \in SUBSET Nat
    BY DEF S
  <2> QED BY <1>1, <1>2, <2>1, AllNumbers
<1> QED BY <1>3

LEMMA ApproximationsAgree ==
  ASSUME NEW b \in Nat, NEW n \in Nat, NEW m \in Nat, NEW g, NEW h,
         Approximates(g, b, n), Approximates(h, b, m), NEW k \in Nat, k <= n, k <= m
  PROVE  g[k] = h[k]
<1> DEFINE S == {j \in Nat : j <= n /\ j <= m => g[j] = h[j]}
<1>1. 0 \in S
  BY DEF Approximates
<1>2. ASSUME NEW j \in S
      PROVE  j + 1 \in S
  <2>1. CASE j + 1 <= n /\ j + 1 <= m
    <3>1. j \in 0..(n - 1) /\ j \in 0..(m - 1) /\ j <= n /\ j <= m
      BY <2>1
    <3>2. g[j + 1] = b * g[j] /\ h[j + 1] = b * h[j] /\ g[j] = h[j]
      BY <3>1 DEF Approximates
    <3> QED BY <3>2
  <2> QED BY <2>1
<1>3. S = Nat
  <2> HIDE DEF S
  <2>1. S \in SUBSET Nat
    BY DEF S
  <2> QED BY <1>1, <1>2, <2>1, AllNumbers
<1> QED BY <1>3

\* Power is what its recursion says: a loop that starts at 1 and multiplies.
LEMMA PowerIs ==
  ASSUME NEW b \in Nat
  PROVE  /\ Power(b) \in [Nat -> Nat] /\ Power(b)[0] = 1
         /\ \A k \in Nat : Power(b)[k + 1] = b * Power(b)[k]
<1> DEFINE G(n) == CHOOSE g : Approximates(g, b, n)
           F == [n \in Nat |-> G(n)[n]]
<1>1. \A n \in Nat : Approximates(G(n), b, n)
  BY Approximation
<1> HIDE DEF G
<1>2. \A n \in Nat : F[n] \in Nat
  BY <1>1 DEF Approximates
<1>3. F[0] = 1
  BY <1>1 DEF Approximates
<1>4. ASSUME NEW k \in Nat
      PROVE  F[k + 1] = b * F[k]
  <2>1. k \in 0..((k + 1) - 1) /\ k + 1 \in Nat /\ k <= k + 1 /\ k <= k
    OBVIOUS
  <2>2. G(k + 1)[k + 1] = b * G(k + 1)[k]
    BY <1>1, <2>1 DEF Approximates
  <2>3. G(k + 1)[k] = G(k)[k]
    BY <1>1, <2>1, ApproximationsAgree
  <2> QED BY <2>1, <2>2, <2>3
<1>5. F = [k \in Nat |-> IF k = 0 THEN 1 ELSE b * F[k - 1]]
  <2>1. ASSUME NEW k \in Nat
        PROVE  F[k] = IF k = 0 THEN 1 ELSE b * F[k - 1]
    <3>1. CASE k = 0
      BY <1>3, <3>1
    <3>2. CASE k # 0
      <4>1. k - 1 \in Nat /\ (k - 1) + 1 = k
        BY <3>2
      <4>2. F[(k - 1) + 1] = b * F[k - 1]
        BY <1>4, <4>1
      <4> QED BY <3>2, <4>1, <4>2
    <3> QED BY <3>1, <3>2
  <2>2. F = [k \in Nat |-> F[k]]
    OBVIOUS
  <2> HIDE DEF F
  <2> QED BY <2>1, <2>2
<1> HIDE DEF F
<1> DEFINE Q(f) == f = [k \in Nat |-> IF k = 0 THEN 1 ELSE b * f[k - 1]]
<1>6. Q(CHOOSE f : Q(f))
  BY <1>5
<1>7. Power(b) = (CHOOSE f : Q(f))
  BY DEF Power
<1>8. Power(b) = [k \in Nat |-> IF k = 0 THEN 1 ELSE b * Power(b)[k - 1]]
  BY <1>6, <1>7
<1> HIDE DEF Q
<1> DEFINE P == Power(b)
<1> HIDE DEF P
<1>9. P = [k \in Nat |-> IF k = 0 THEN 1 ELSE b * P[k - 1]]
  BY <1>8 DEF P
<1>10. P[0] = 1 /\ P = [k \in Nat |-> P[k]]
  BY <1>9
<1>11. ASSUME NEW k \in Nat
       PROVE  P[k + 1] = b * P[k]
  BY <1>9
<1>12. {k \in Nat : P[k] \in Nat} = Nat
  <2> DEFINE S == {k \in Nat : P[k] \in Nat}
  <2>1. S \in SUBSET Nat /\ 0 \in S /\ \A k \in S : k + 1 \in S
    BY <1>10, <1>11
  <2> HIDE DEF S
  <2>2. S = Nat
    BY <2>1, AllNumbers
  <2> QED BY <2>2 DEF S
<1>13. P \in [Nat -> Nat]
  BY <1>10, <1>12
<1> QED BY <1>10, <1>11, <1>13 DEF P

(* Powers grow at least as fast as the numbers they are bounded by.        *)
LEMMA PowerGrows ==
  ASSUME NEW b \in Nat, b >= 2
  PROVE  /\ \A k \in Nat : Power(b)[k] \in Nat /\ Power(b)[k] >= 1 /\ Power(b)[k] >= b * k
         /\ \A j, k \in Nat : j < k => b * Power(b)[j] <= Power(b)[k]
<1> DEFINE P == Power(b)
<1>1. P \in [Nat -> Nat] /\ P[0] = 1 /\ \A k \in Nat : P[k + 1] = b * P[k]
  BY PowerIs
<1> HIDE DEF P
<1>2. {k \in Nat : P[k] >= 1 /\ P[k] >= b * k} = Nat
  <2> DEFINE S == {k \in Nat : P[k] >= 1 /\ P[k] >= b * k}
  <2>1. 0 \in S
    BY <1>1
  <2>2. ASSUME NEW k \in S
        PROVE  k + 1 \in S
    <3>1. k \in Nat /\ P[k] \in Nat /\ P[k] >= 1 /\ P[k] >= b * k /\ P[k + 1] = b * P[k]
      BY <1>1
    <3>2. P[k] >= k + 1
      <4>1. b * k >= 2 * k
        BY <3>1
      <4>2. 2 * k >= k + 1 \/ k = 0
        BY <3>1
      <4> QED BY <3>1, <4>1, <4>2
    <3>3. b * P[k] >= b * (k + 1)
      BY <3>1, <3>2
    <3>4. b * (k + 1) >= 1
      BY <3>1
    <3> QED BY <3>1, <3>3, <3>4
  <2>3. S \in SUBSET Nat
    OBVIOUS
  <2> HIDE DEF S
  <2>4. S = Nat
    BY <2>1, <2>2, <2>3, AllNumbers
  <2> QED BY <2>4 DEF S
<1>3. ASSUME NEW j \in Nat
      PROVE  \A k \in Nat : j < k => b * P[j] <= P[k]
  <2> DEFINE S == {k \in Nat : j < k => b * P[j] <= P[k]}
  <2>1. 0 \in S
    OBVIOUS
  <2>2. ASSUME NEW k \in S
        PROVE  k + 1 \in S
    <3>1. CASE j = k
      BY <1>1, <3>1
    <3>2. CASE j < k
      <4>1. b * P[j] <= P[k] /\ P[k] \in Nat /\ P[j] \in Nat /\ P[k + 1] = b * P[k]
        BY <1>1, <3>2
      <4>2. P[k] <= b * P[k]
        BY <4>1
      <4>3. b * P[j] \in Nat /\ b * P[k] \in Nat
        BY <4>1
      <4> QED BY <4>1, <4>2, <4>3
    <3>3. CASE ~(j < k + 1)
      BY <3>3
    <3> QED BY <3>1, <3>2, <3>3
  <2>3. S \in SUBSET Nat
    OBVIOUS
  <2> HIDE DEF S
  <2>4. S = Nat
    BY <2>1, <2>2, <2>3, AllNumbers
  <2> QED BY <2>4 DEF S
<1> QED BY <1>1, <1>2, <1>3 DEF P

-----------------------------------------------------------------------------
(* Accumulation by fours.                                                  *)

(* Dividing and multiplying again.                                         *)
LEMMA Quotients ==
  ASSUME NEW i \in Nat, NEW p \in Nat \ {0}
  PROVE  /\ i \div p \in Nat /\ (i \div p) * p <= i /\ i < (i \div p) * p + p
         /\ (i \div p) % 4 \in 0..3 /\ (i \div p) % 4 <= i \div p
  OBVIOUS

\* The rotations announced for n slots lead to each of them.
LEMMA GatheredAll ==
  ASSUME NEW n \in Nat
  PROVE  Gathered(Rotations(n), n) = 0..(n - 1)
<1>1. ASSUME NEW i \in 0..(n - 1), NEW k \in 0..(n \div 4),
             (i \div Power(4)[k]) % 4 # 0
      PROVE  ((i \div Power(4)[k]) % 4) * Power(4)[k] \in Rotations(n)
  <2> DEFINE p == Power(4)[k]
             m == (i \div p) % 4
  <2>1. n \in Nat \ {0} /\ i \in Nat /\ i <= n - 1 /\ k \in Nat
    OBVIOUS
  <2>2. p \in Nat /\ p >= 1
    BY <2>1, PowerGrows
  <2> HIDE DEF p
  <2>3. i \div p \in Nat /\ (i \div p) * p <= i /\ m \in 0..3 /\ m <= i \div p
    BY <2>1, <2>2, Quotients
  <2>4. m \in 1..3
    BY <1>1, <2>3 DEF p
  <2>5. m * p <= (i \div p) * p /\ m * p \in Nat /\ m * p >= 1 /\ (i \div p) * p \in Nat
    <3> DEFINE d == i \div p
    <3>1. d \in Nat /\ m \in Nat /\ m <= d /\ m >= 1
      BY <2>3, <2>4
    <3> HIDE DEF d, m
    <3>2. m * p <= d * p /\ m * p \in Nat /\ m * p >= 1 /\ d * p \in Nat
      BY <2>2, <3>1
    <3> QED BY <3>2 DEF d
  <2>6. m * p \in 1..(n - 1)
    <3> HIDE DEF m
    <3> QED BY <2>1, <2>3, <2>5
  <2>7. m * p \in Rotations(n)
    <3> HIDE DEF m
    <3> QED BY <2>4, <2>6 DEF Rotations, p
  <2> QED BY <2>7 DEF p
<1> QED BY <1>1 DEF Gathered

\* Rotations leaves out no multiple of a power of four below n: its bound on the
\* exponent cuts nothing off.
LEMMA RotationsComplete ==
  ASSUME NEW n \in Nat, NEW k \in Nat, NEW m \in 1..3, m * Power(4)[k] < n
  PROVE  m * Power(4)[k] \in Rotations(n)
<1> DEFINE p == Power(4)[k]
<1>1. p \in Nat /\ p >= 1 /\ p >= 4 * k
  BY PowerGrows
<1> HIDE DEF p
<1>2. m * p < n
  BY DEF p
<1>3. m * p \in 1..(n - 1) /\ p < n
  BY <1>1, <1>2
<1>4. k \in 0..(n \div 4)
  BY <1>1, <1>3
<1> QED BY <1>3, <1>4 DEF Rotations, p

-----------------------------------------------------------------------------
(* Sums that double.                                                       *)

(* Between n and 2n there is a power of two.                               *)
LEMMA PowerAbove ==
  ASSUME NEW n \in Nat \ {0}
  PROVE  \E k \in 0..n : n <= Power(2)[k] /\ Power(2)[k] < 2 * n
<1> DEFINE P == Power(2)
           S == {m \in Nat : m = 0 \/ \E k \in 0..m : m <= P[k] /\ P[k] < 2 * m}
<1>1. P \in [Nat -> Nat] /\ P[0] = 1 /\ \A k \in Nat : P[k + 1] = 2 * P[k]
  BY PowerIs
<1> HIDE DEF P
<1>2. 0 \in S
  OBVIOUS
<1>3. ASSUME NEW m \in S
      PROVE  m + 1 \in S
  <2>1. CASE m = 0
    <3>1. 0 \in 0..1 /\ 1 <= P[0] /\ P[0] < 2 * 1
      BY <1>1
    <3> QED BY <2>1, <3>1
  <2>2. CASE m # 0
    <3>1. PICK k \in 0..m : m <= P[k] /\ P[k] < 2 * m
      BY <2>2
    <3>2. k \in Nat /\ m \in Nat /\ P[k] \in Nat /\ P[k + 1] = 2 * P[k]
      BY <1>1, <3>1
    <3>3. CASE P[k] # m
      <4>1. k \in 0..(m + 1) /\ m + 1 <= P[k] /\ P[k] < 2 * (m + 1)
        BY <3>1, <3>2, <3>3
      <4> QED BY <3>2, <4>1
    <3>4. CASE P[k] = m
      <4>1. k + 1 \in 0..(m + 1) /\ m + 1 <= P[k + 1] /\ P[k + 1] < 2 * (m + 1)
        BY <2>2, <3>1, <3>2, <3>4
      <4> QED BY <3>2, <4>1
    <3> QED BY <3>3, <3>4
  <2> QED BY <2>1, <2>2
<1>4. S \in SUBSET Nat
  OBVIOUS
<1> HIDE DEF S
<1>5. S = Nat
  BY <1>2, <1>3, <1>4, AllNumbers
<1> QED BY <1>5 DEF S, P

\* EvalSum over n slots adds up at least these, and fewer than twice as many.
LEMMA DoubledIs ==
  ASSUME NEW n \in Nat \ {0}
  PROVE  /\ Doubled(n) \in Nat /\ n <= Doubled(n) /\ Doubled(n) < 2 * n
         /\ \E k \in Nat : Doubled(n) = Power(2)[k]
<1> DEFINE S == {w \in 1..(2 * n) : w >= n /\ w < 2 * n /\ \E k \in 0..n : w = Power(2)[k]}
<1>1. PICK k \in 0..n : n <= Power(2)[k] /\ Power(2)[k] < 2 * n
  BY PowerAbove
<1>2. Power(2)[k] \in Nat
  BY PowerGrows
<1>3. Power(2)[k] \in 1..(2 * n)
  BY <1>1, <1>2
<1>4. Power(2)[k] \in S
  BY <1>1, <1>3
<1>5. Doubled(n) \in S
  BY <1>4 DEF Doubled
<1> QED BY <1>5

\* It adds up no other slots exactly when n is a power of two.
LEMMA DoubledExactly ==
  ASSUME NEW n \in Nat \ {0}
  PROVE  Doubled(n) = n <=> \E k \in Nat : n = Power(2)[k]
<1>1. PICK k \in Nat : Doubled(n) = Power(2)[k]
  BY DoubledIs
<1>2. ASSUME NEW j \in Nat, n = Power(2)[j]
      PROVE  Doubled(n) = n
  <2>1. ~(j < k)
    <3>1. j < k => 2 * Power(2)[j] <= Power(2)[k]
      BY PowerGrows
    <3> QED BY <1>1, <1>2, <3>1, DoubledIs
  <2>2. ~(k < j)
    <3>1. k < j => 2 * Power(2)[k] <= Power(2)[j]
      BY PowerGrows
    <3> QED BY <1>1, <1>2, <3>1, DoubledIs
  <2> QED BY <1>1, <1>2, <2>1, <2>2
<1> QED BY <1>1, <1>2

-----------------------------------------------------------------------------
(* Batches.                                                                *)

(* A batch that begins before the end has at least one value, and at most  *)
(* as many as fit.                                                         *)
LEMMA BatchIs ==
  ASSUME NEW N \in Nat, NEW size \in Nat \ {0}, NEW k \in Nat, NEW i \in Batch(N, size, k)
  PROVE  /\ IsFiniteSet(Batch(N, size, k)) /\ Cardinality(Batch(N, size, k)) \in Nat \ {0}
         /\ i - k * size \in 0..(size - 1)
         /\ i - k * size < Cardinality(Batch(N, size, k))
<1> DEFINE from == k * size
           last == IF N <= from + size THEN N - 1 ELSE from + size - 1
<1>1. from \in Nat /\ (k + 1) * size = from + size
  OBVIOUS
<1> HIDE DEF from
<1>2. Batch(N, size, k) = from..last
  BY <1>1 DEF Batch, from
<1>3. last \in Int /\ from \in Int
  BY <1>1
<1>4. i \in Int /\ from <= i /\ i <= last /\ last < from + size
  BY <1>1, <1>2
<1>5. IsFiniteSet(from..last) /\ Cardinality(from..last) = last - from + 1
  <2>1. ~(from > last)
    BY <1>3, <1>4
  <2> HIDE DEF last
  <2> QED BY <1>3, <2>1, FS_Interval
<1> QED BY <1>1, <1>2, <1>3, <1>4, <1>5 DEF from

\* Each value of a large sum is in one batch, and is added once in it.
LEMMA SummedOnce ==
  ASSUME NEW image, NEW N \in Nat, NEW size \in Nat \ {0}, NEW i \in 0..(N - 1)
  PROVE  TimesSummed(image, N, size, i) = 1
<1> DEFINE c == i \div size
           Reached(k) == IF image = "gpu" THEN Gathered(Rotations(size), size)
                         ELSE 0..(Doubled(Cardinality(Batch(N, size, k))) - 1)
           S == {k \in Batches(N, size) : i \in Batch(N, size, k) /\ i - k * size \in Reached(k)}
<1>1. c \in Nat /\ c * size <= i /\ i < c * size + size /\ c <= i
  <2>1. c \in Nat /\ c * size <= i /\ i < c * size + size
    BY Quotients
  <2> HIDE DEF c
  <2>2. c <= c * size
    BY <2>1
  <2>3. c * size \in Nat
    BY <2>1
  <2> QED BY <2>1, <2>2, <2>3
<1> HIDE DEF c
<1>2. c \in Batches(N, size) /\ i \in Batch(N, size, c)
  <2>1. c * size \in Nat /\ (c + 1) * size = c * size + size
    BY <1>1
  <2>2. c \in 0..(N - 1) /\ c * size < N
    BY <1>1, <2>1
  <2> QED BY <1>1, <2>1, <2>2 DEF Batches, Batch
<1>3. i - c * size \in Reached(c)
  <2>1. /\ Cardinality(Batch(N, size, c)) \in Nat \ {0}
        /\ i - c * size \in 0..(size - 1)
        /\ i - c * size < Cardinality(Batch(N, size, c))
    BY <1>1, <1>2, BatchIs
  <2>2. CASE image = "gpu"
    BY <2>1, <2>2, GatheredAll
  <2>3. CASE image # "gpu"
    <3> DEFINE w == Cardinality(Batch(N, size, c))
               x == i - c * size
    <3>1. w \in Nat \ {0} /\ x \in Nat /\ x < w
      BY <2>1
    <3> HIDE DEF w, x
    <3>2. Doubled(w) \in Nat /\ w <= Doubled(w)
      BY <3>1, DoubledIs
    <3>3. x \in 0..(Doubled(w) - 1)
      BY <3>1, <3>2
    <3> QED BY <2>3, <3>3 DEF w, x
  <2> QED BY <2>2, <2>3
<1>4. ASSUME NEW k \in S
      PROVE  k = c
  <2>1. k \in Nat /\ k * size <= i /\ i < (k + 1) * size
    BY DEF Batches, Batch
  <2>2. ~(k < c)
    <3>1. k < c => (k + 1) * size <= c * size
      BY <1>1, <2>1
    <3>2. (k + 1) * size \in Nat /\ c * size \in Nat
      BY <1>1, <2>1
    <3> QED BY <1>1, <2>1, <3>1, <3>2
  <2>3. ~(c < k)
    <3>1. c < k => (c + 1) * size <= k * size
      BY <1>1, <2>1
    <3>2. (c + 1) * size = c * size + size /\ k * size \in Nat /\ c * size \in Nat
      BY <1>1, <2>1
    <3> QED BY <1>1, <2>1, <3>1, <3>2
  <2> QED BY <1>1, <2>1, <2>2, <2>3
<1>5. S = {c}
  BY <1>2, <1>3, <1>4
<1>6. Cardinality({c}) = 1
  BY FS_Singleton
<1>7. TimesSummed(image, N, size, i) = Cardinality(S)
  BY DEF TimesSummed
<1> HIDE DEF S
<1> QED BY <1>5, <1>6, <1>7

=============================================================================
