------------------------- MODULE SessionRulesProofs -------------------------
(***************************************************************************)
(* Proofs about SessionRules, for any sessions, contexts, analysts, vector *)
(* lengths, depth, workspace directories and versions of the binding:      *)
(* types, and the properties of the rules.  They rest on one invariant:    *)
(* the metadata of every value that a variable or a directory holds tells  *)
(* the truth about its ciphertext, and every recorded version is that of   *)
(* a session.                                                              *)
(***************************************************************************)
EXTENDS SessionRules, TLAPS

(* What the metadata of a value says about its body.                       *)
Honest(v) ==
  /\ v.body.depth <= v.level
  /\ v.body.right
  /\ v.body.width = Count(v)
  /\ v.shape # Unit => v.type = "vector" /\ v.body.clean
  /\ v.shape = Unit => v.body.reduced
  /\ v.type # "vector" => v.op \in Reductions
  /\ v.type = "released" => v.key \in Recipients /\ v.body.key = v.key
  /\ v.type # "released" => v.key = v.ctx /\ v.body.key = v.ctx

(* A released value went to an analyst of its own context.                 *)
Addressed(v) ==
  v.type = "released" => recipient[v.key] # None /\ recipient[v.key].ctx = v.ctx

(* A process that uses OpenFHE has a version of it, an analyst's key names  *)
(* the version of the session that made it, and a manifest that of some    *)
(* session of its context.                                                 *)
VersionsRecorded ==
  /\ \A s \in Sessions :
       sess[s] # None /\ sess[s].engine = "openfhe" => sess[s].version \in Versions
  /\ \A r \in Recipients :
       recipient[r] # None =>
         /\ sess[recipient[r].session] # None
         /\ recipient[r].version = sess[recipient[r].session].version
  /\ \A d \in Directories :
       workspace[d] # None =>
         \E s \in Sessions :
           /\ sess[s] # None
           /\ sess[s].ctx = workspace[d].ctx
           /\ sess[s].version = workspace[d].version

IInv ==
  /\ TypeOK
  /\ VersionsRecorded
  /\ \A x \in Slots : value[x] # None => Honest(value[x]) /\ Addressed(value[x])
  /\ \A d \in Directories, n \in Names :
       artifact[d][n] # None =>
         /\ Honest(artifact[d][n])
         /\ Addressed(artifact[d][n])
         /\ workspace[d] # None
         /\ artifact[d][n].ctx = workspace[d].ctx

USE ConstantsAssumption, NoneAssumption

-----------------------------------------------------------------------------
(* The operators on ciphertexts, field by field.                           *)

LEMMA FreshBody ==
  ASSUME NEW c \in Contexts, NEW n \in Nat
  PROVE  Fresh(c, n) \in Body
  BY DEF Fresh, Body

LEMMA JoinedBody ==
  ASSUME NEW b \in Body, NEW d \in Body
  PROVE  /\ Joined(b, d) \in Body
         /\ Joined(b, d).key = b.key
         /\ Joined(b, d).depth = Deeper(b.depth, d.depth)
         /\ Joined(b, d).width = Fewer(b.width, d.width)
         /\ b.clean /\ d.clean => Joined(b, d).clean
         /\ b.reduced /\ d.reduced => Joined(b, d).reduced
         /\ b.right /\ d.right /\ b.key = d.key /\ b.width = d.width =>
              Joined(b, d).right
<1> DEFINE depth   == Deeper(b.depth, d.depth)
           width   == Fewer(b.width, d.width)
           clean   == b.clean /\ d.clean
           reduced == b.reduced /\ d.reduced
           right   == b.right /\ d.right /\ b.key = d.key /\ b.width = d.width
<1>1. depth \in Nat /\ width \in Nat
  BY DEF Body, Deeper, Fewer
<1>2. clean \in BOOLEAN /\ reduced \in BOOLEAN /\ right \in BOOLEAN
  OBVIOUS
<1>3. Joined(b, d) = [b EXCEPT !.depth = depth, !.width = width, !.clean = clean,
                               !.reduced = reduced, !.right = right]
  BY DEF Joined
<1>4. /\ b.clean /\ d.clean => clean
      /\ b.reduced /\ d.reduced => reduced
      /\ b.right /\ d.right /\ b.key = d.key /\ b.width = d.width => right
  OBVIOUS
<1> HIDE DEF clean, reduced, right, depth, width
<1>5. /\ Joined(b, d) \in Body
      /\ Joined(b, d).key = b.key
      /\ Joined(b, d).depth = depth
      /\ Joined(b, d).width = width
      /\ Joined(b, d).clean = clean
      /\ Joined(b, d).reduced = reduced
      /\ Joined(b, d).right = right
  BY <1>1, <1>2, <1>3 DEF Body
<1>6. depth = Deeper(b.depth, d.depth) /\ width = Fewer(b.width, d.width)
  BY DEF depth, width
<1>7. QED
  BY <1>4, <1>5, <1>6, Zenon

LEMMA ProductBody ==
  ASSUME NEW b \in Body, NEW d \in Body
  PROVE  /\ Product(b, d) \in Body
         /\ Product(b, d).key = b.key
         /\ Product(b, d).depth = Deeper(b.depth, d.depth) + 1
         /\ Product(b, d).width = Fewer(b.width, d.width)
         /\ b.clean /\ d.clean => Product(b, d).clean
         /\ b.reduced /\ d.reduced => Product(b, d).reduced
         /\ b.right /\ d.right /\ b.key = d.key /\ b.width = d.width =>
              Product(b, d).right
<1> DEFINE j     == Joined(b, d)
           depth == j.depth + 1
           clean == b.clean \/ d.clean
<1>1. /\ j \in Body
      /\ j.key = b.key
      /\ j.depth = Deeper(b.depth, d.depth)
      /\ j.width = Fewer(b.width, d.width)
      /\ b.reduced /\ d.reduced => j.reduced
      /\ b.right /\ d.right /\ b.key = d.key /\ b.width = d.width => j.right
  BY JoinedBody
<1>2. Product(b, d) = [j EXCEPT !.depth = depth, !.clean = clean]
  BY DEF Product
<1>3. b.clean /\ d.clean => clean
  OBVIOUS
<1>4. j \in Body /\ clean \in BOOLEAN
  BY <1>1
<1>5. depth \in Nat /\ depth = Deeper(b.depth, d.depth) + 1
  BY <1>1 DEF Body
<1> HIDE DEF j, depth, clean
<1>6. /\ Product(b, d) \in Body
      /\ Product(b, d).key = j.key
      /\ Product(b, d).depth = depth
      /\ Product(b, d).width = j.width
      /\ Product(b, d).clean = clean
      /\ Product(b, d).reduced = j.reduced
      /\ Product(b, d).right = j.right
  BY <1>2, <1>4, <1>5 DEF Body
<1>7. QED
  BY <1>1, <1>3, <1>5, <1>6, Zenon

(* The product of a ciphertext with itself.                                *)
LEMMA SquaredBody ==
  ASSUME NEW b \in Body
  PROVE  /\ Product(b, b) \in Body
         /\ Product(b, b).key = b.key
         /\ Product(b, b).depth = b.depth + 1
         /\ Product(b, b).width = b.width
         /\ b.clean => Product(b, b).clean
         /\ b.reduced => Product(b, b).reduced
         /\ b.right => Product(b, b).right
<1>1. /\ Product(b, b) \in Body
      /\ Product(b, b).key = b.key
      /\ Product(b, b).depth = Deeper(b.depth, b.depth) + 1
      /\ Product(b, b).width = Fewer(b.width, b.width)
  BY ProductBody
<1>2. b.clean => Product(b, b).clean
  BY ProductBody, Zenon
<1>3. b.reduced => Product(b, b).reduced
  BY ProductBody, Zenon
<1>4. b.right => Product(b, b).right
  BY ProductBody, Zenon
<1>5. Deeper(b.depth, b.depth) = b.depth /\ Fewer(b.width, b.width) = b.width
  BY DEF Deeper, Fewer
<1>6. Product(b, b).depth = b.depth + 1 /\ Product(b, b).width = b.width
  BY <1>1, <1>5
<1>7. QED
  BY <1>1, <1>2, <1>3, <1>4, <1>6, Zenon

LEMMA SummedBody ==
  ASSUME NEW b \in Body, NEW n \in Nat
  PROVE  /\ Summed(b, n) \in Body
         /\ Summed(b, n).key = b.key
         /\ Summed(b, n).depth = b.depth
         /\ Summed(b, n).width = 1
         /\ Summed(b, n).reduced
         /\ b.right /\ (b.clean \/ n = 1) => Summed(b, n).right
  BY DEF Summed, Body

LEMMA ScaledBody ==
  ASSUME NEW b \in Body
  PROVE  /\ Scaled(b) \in Body
         /\ Scaled(b).key = b.key
         /\ Scaled(b).depth = b.depth + 1
         /\ Scaled(b).width = b.width
         /\ Scaled(b).reduced = b.reduced
         /\ Scaled(b).right = b.right
  BY DEF Scaled, Body

LEMMA MeanBody ==
  ASSUME NEW b \in Body, NEW n \in Nat
  PROVE  /\ Mean(b, n) \in Body
         /\ Mean(b, n).key = b.key
         /\ Mean(b, n).depth = b.depth + 1
         /\ Mean(b, n).width = 1
         /\ Mean(b, n).reduced
         /\ b.right /\ (b.clean \/ n = 1) => Mean(b, n).right
<1> DEFINE total == Summed(b, n)
<1>1. /\ total \in Body /\ total.key = b.key /\ total.depth = b.depth
      /\ total.width = 1 /\ total.reduced
      /\ b.right /\ (b.clean \/ n = 1) => total.right
  BY SummedBody, Zenon
<1>2. Mean(b, n) = Scaled(total)
  BY DEF Mean
<1> HIDE DEF total
<1>3. /\ Scaled(total) \in Body
      /\ Scaled(total).key = total.key
      /\ Scaled(total).depth = total.depth + 1
      /\ Scaled(total).width = total.width
      /\ Scaled(total).reduced = total.reduced
      /\ Scaled(total).right = total.right
  BY <1>1, ScaledBody, Zenon
<1>4. QED
  BY <1>1, <1>2, <1>3, Zenon

(* A variance uses two levels, and needs what a sum needs: zeros after the *)
(* n slots, unless there is one slot only.                                 *)
LEMMA VarianceBody ==
  ASSUME NEW b \in Body, NEW n \in Nat
  PROVE  /\ Variance(b, n) \in Body
         /\ Variance(b, n).key = b.key
         /\ Variance(b, n).depth = b.depth + 2
         /\ Variance(b, n).width = 1
         /\ Variance(b, n).reduced
         /\ b.right /\ (b.clean \/ n = 1) => Variance(b, n).right
<1> DEFINE square  == Product(b, b)
           squares == Scaled(Summed(square, n))
           mean    == Mean(b, n)
           mean2   == Product(mean, mean)
<1>1. b.depth \in Nat /\ b.width \in Nat
  BY DEF Body
<1>2. /\ square \in Body /\ square.key = b.key /\ square.depth = b.depth + 1
      /\ b.clean => square.clean
      /\ b.right => square.right
  BY SquaredBody, Zenon
<1>3. /\ squares \in Body /\ squares.key = b.key /\ squares.depth = b.depth + 2
      /\ squares.width = 1 /\ squares.reduced
      /\ b.right /\ (b.clean \/ n = 1) => squares.right
  <2> HIDE DEF square
  <2>1. /\ Summed(square, n) \in Body
        /\ Summed(square, n).key = b.key
        /\ Summed(square, n).depth = b.depth + 1
        /\ Summed(square, n).width = 1 /\ Summed(square, n).reduced
        /\ b.right /\ (b.clean \/ n = 1) => Summed(square, n).right
    BY <1>2, SummedBody
  <2>2. QED
    BY <1>1, <2>1, ScaledBody
<1>4. /\ mean \in Body /\ mean.key = b.key /\ mean.depth = b.depth + 1
      /\ mean.width = 1 /\ mean.reduced
      /\ b.right /\ (b.clean \/ n = 1) => mean.right
  BY MeanBody
<1>5. /\ mean2 \in Body /\ mean2.key = b.key /\ mean2.depth = b.depth + 2
      /\ mean2.width = 1 /\ mean2.reduced
      /\ b.right /\ (b.clean \/ n = 1) => mean2.right
  <2> HIDE DEF mean
  <2>1. /\ mean2 \in Body /\ mean2.key = mean.key
        /\ mean2.depth = mean.depth + 1 /\ mean2.width = mean.width
        /\ mean.reduced => mean2.reduced
        /\ mean.right => mean2.right
    BY <1>4, SquaredBody, Zenon
  <2> HIDE DEF mean2
  <2>2. mean2.depth = b.depth + 2 /\ mean2.width = 1 /\ mean2.key = b.key
    BY <1>1, <1>4, <2>1
  <2>3. QED
    BY <1>4, <2>1, <2>2, Zenon
<1>6. Variance(b, n) = Joined(squares, mean2)
  BY DEF Variance
<1> HIDE DEF squares, mean2
<1>7. QED
  BY <1>1, <1>3, <1>5, <1>6, JoinedBody DEF Deeper, Fewer

(* Every reduction leaves one right slot and uses the levels it is charged. *)
LEMMA ReducedBody ==
  ASSUME NEW op \in Reductions, NEW b \in Body, NEW n \in Nat
  PROVE  /\ Reduced(op, b, n) \in Body
         /\ Reduced(op, b, n).key = b.key
         /\ Reduced(op, b, n).depth = b.depth + Cost(op)
         /\ Reduced(op, b, n).width = 1
         /\ Reduced(op, b, n).reduced
         /\ b.right /\ (b.clean \/ n = 1) => Reduced(op, b, n).right
<1>1. b.depth \in Nat /\ b.depth + 0 = b.depth
  BY DEF Body
<1>2. CASE op = "sum"
  <2>1. Reduced(op, b, n) = Summed(b, n) /\ Cost(op) = 0
    BY <1>2 DEF Reduced, Cost
  <2>2. /\ Summed(b, n) \in Body
        /\ Summed(b, n).key = b.key
        /\ Summed(b, n).depth = b.depth + Cost(op)
        /\ Summed(b, n).width = 1
        /\ Summed(b, n).reduced
        /\ b.right /\ (b.clean \/ n = 1) => Summed(b, n).right
    BY <1>1, <2>1, SummedBody
  <2>3. QED
    BY <2>1, <2>2
<1>3. CASE op = "mean"
  <2>1. Reduced(op, b, n) = Mean(b, n) /\ Cost(op) = 1
    BY <1>3 DEF Reduced, Cost
  <2>2. /\ Mean(b, n) \in Body
        /\ Mean(b, n).key = b.key
        /\ Mean(b, n).depth = b.depth + 1
        /\ Mean(b, n).width = 1
        /\ Mean(b, n).reduced
        /\ b.right /\ (b.clean \/ n = 1) => Mean(b, n).right
    BY MeanBody, Zenon
  <2>3. QED
    BY <2>1, <2>2
<1>4. CASE op = "variance"
  <2>1. Reduced(op, b, n) = Variance(b, n) /\ Cost(op) = 2
    BY <1>4 DEF Reduced, Cost
  <2>2. /\ Variance(b, n) \in Body
        /\ Variance(b, n).key = b.key
        /\ Variance(b, n).depth = b.depth + 2
        /\ Variance(b, n).width = 1
        /\ Variance(b, n).reduced
        /\ b.right /\ (b.clean \/ n = 1) => Variance(b, n).right
    BY VarianceBody, Zenon
  <2>3. QED
    BY <2>1, <2>2
<1>5. QED
  BY <1>2, <1>3, <1>4 DEF Reductions

(* So do the binary operations of two values of one shape.                 *)
LEMMA CombinedBody ==
  ASSUME NEW op \in BinaryOps, NEW b \in Body, NEW d \in Body
  PROVE  /\ Combined(op, b, d) \in Body
         /\ Combined(op, b, d).key = b.key
         /\ Combined(op, b, d).depth = Deeper(b.depth, d.depth) + Cost(op)
         /\ Combined(op, b, d).width = Fewer(b.width, d.width)
         /\ b.clean /\ d.clean => Combined(op, b, d).clean
         /\ b.reduced /\ d.reduced => Combined(op, b, d).reduced
         /\ b.right /\ d.right /\ b.key = d.key /\ b.width = d.width =>
              Combined(op, b, d).right
<1>1. Deeper(b.depth, d.depth) \in Nat
  BY DEF Deeper, Body
<1>2. CASE op = "add"
  BY <1>1, <1>2, JoinedBody DEF Combined, Cost
<1>3. CASE op = "multiply"
  BY <1>1, <1>3, ProductBody DEF Combined, Cost
<1>4. QED
  BY <1>2, <1>3 DEF BinaryOps

-----------------------------------------------------------------------------
(* Steps.                                                                  *)

(* Nothing is held at first.                                               *)
LEMMA InitIInv == Init => IInv
  BY DEF Init, IInv, TypeOK, VersionsRecorded

(* Putting an honest value in a variable keeps the invariant.              *)
LEMMA PutKeeps ==
  ASSUME IInv, NEW x \in Slots, NEW v \in Value, Honest(v), Addressed(v),
         Put(x, v), UNCHANGED <<keysAndSessions, stored>>
  PROVE  IInv'
<1>1. /\ value' = [value EXCEPT ![x] = v]
      /\ UNCHANGED <<sess, workspace, artifact, recipient, exported>>
  BY DEF Put, keysAndSessions, stored
<1>2. TypeOK'
  BY <1>1 DEF IInv, TypeOK
<1>3. \A y \in Slots :
        value'[y] # None => Honest(value'[y]) /\ Addressed(value'[y])
  BY <1>1 DEF IInv, TypeOK
<1>4. VersionsRecorded'
  BY <1>1 DEF IInv, VersionsRecorded
<1>5. QED
  BY <1>1, <1>2, <1>3, <1>4 DEF IInv, Addressed

(* An owned value is typed, honest and under the key of the session.       *)
LEMMA OwnedValue ==
  ASSUME IInv, NEW s \in Sessions, NEW x \in Slots, Owned(s, value[x])
  PROVE  /\ value[x] \in Value /\ Honest(value[x])
         /\ value[x].body \in Body /\ value[x].level \in Nat
         /\ value[x].type # "released"
         /\ value[x].body.key = sess[s].ctx /\ value[x].ctx = sess[s].ctx
         /\ Count(value[x]) \in Nat
         /\ sess[s] \in Session
<1>1. value[x] \in Value /\ sess[s] \in Session
  BY DEF Owned, Open, IInv, TypeOK
<1>2. Honest(value[x]) /\ value[x].type # "released" /\ value[x].ctx = sess[s].ctx
  BY DEF Owned, IInv
<1>3. value[x].body \in Body /\ value[x].level \in 0..MaxDepth
      /\ value[x].shape \in Lengths \cup {Unit}
  BY <1>1 DEF Value
<1>4. Count(value[x]) \in Nat
  BY <1>3 DEF Count, Unit
<1>5. QED
  BY <1>1, <1>2, <1>3, <1>4 DEF Honest

LEMMA EncryptKeeps ==
  ASSUME IInv, NEW s \in Sessions, NEW n \in Lengths, NEW x \in Slots, Encrypt(s, n, x)
  PROVE  IInv'
<1> DEFINE c == sess[s].ctx
           v == [type |-> "vector", session |-> s, ctx |-> c, key |-> c, shape |-> n,
                 level |-> 0, op |-> None, body |-> Fresh(c, n)]
<1>1. c \in Contexts
  BY DEF Encrypt, Open, IInv, TypeOK, Session
<1>2. v \in Value
  BY <1>1, FreshBody DEF Value
<1>3. Honest(v)
  BY DEF Honest, Fresh, Count, Unit
<1>4. QED
  BY <1>2, <1>3, PutKeeps DEF Encrypt, Addressed

LEMMA BinaryKeeps ==
  ASSUME IInv, NEW s \in Sessions, NEW op \in BinaryOps, NEW l \in Slots,
         NEW r \in Slots, NEW x \in Slots, Binary(s, op, l, r, x)
  PROVE  IInv'
<1> DEFINE a == value[l]
           b == value[r]
           level == Deeper(a.level, b.level) + Cost(op)
           body == Combined(op, a.body, b.body)
           v == [a EXCEPT !.type = "vector", !.level = level, !.op = None, !.body = body]
<1>1. /\ Owned(s, a) /\ Owned(s, b) /\ a.shape = b.shape /\ level <= MaxDepth
      /\ Put(x, v) /\ UNCHANGED <<keysAndSessions, stored>>
  BY DEF Binary
<1>2. /\ a \in Value /\ Honest(a) /\ a.body \in Body /\ a.level \in Nat
      /\ a.type # "released" /\ a.body.key = sess[s].ctx /\ Count(a) \in Nat
  BY <1>1, OwnedValue
<1>3. /\ b \in Value /\ Honest(b) /\ b.body \in Body /\ b.level \in Nat
      /\ b.body.key = sess[s].ctx
  BY <1>1, OwnedValue
<1>4. Count(a) = Count(b)
  BY <1>1 DEF Count
<1>5. a.body.depth \in Nat /\ b.body.depth \in Nat /\ Cost(op) \in Nat
  BY <1>2, <1>3 DEF Body, Cost, BinaryOps
<1> HIDE DEF a, b
<1>6. /\ body \in Body
      /\ body.key = a.body.key
      /\ body.depth = Deeper(a.body.depth, b.body.depth) + Cost(op)
      /\ body.width = Fewer(a.body.width, b.body.width)
      /\ a.body.clean /\ b.body.clean => body.clean
      /\ a.body.reduced /\ b.body.reduced => body.reduced
      /\ body.right
  BY <1>2, <1>3, <1>4, CombinedBody DEF Honest
<1> HIDE DEF body
<1>7. body.depth <= level /\ level \in 0..MaxDepth
  BY <1>1, <1>2, <1>3, <1>5, <1>6 DEF Honest, Deeper
<1>8. body.width = Count(a)
  BY <1>2, <1>3, <1>4, <1>6 DEF Honest, Fewer
<1> HIDE DEF level
<1>9. v \in Value
  BY <1>2, <1>6, <1>7 DEF Value
<1>10. /\ v.type = "vector" /\ v.shape = a.shape /\ v.body = body
       /\ v.level = level /\ v.key = a.key /\ v.ctx = a.ctx /\ Count(v) = Count(a)
  BY <1>2 DEF Value, Count
<1> HIDE DEF v
<1>11. Honest(v)
  BY <1>1, <1>2, <1>3, <1>6, <1>7, <1>8, <1>10 DEF Honest
<1>12. QED
  BY <1>1, <1>9, <1>10, <1>11, PutKeeps DEF Addressed

LEMMA SquareKeeps ==
  ASSUME IInv, NEW s \in Sessions, NEW l \in Slots, NEW x \in Slots, Square(s, l, x)
  PROVE  IInv'
<1> DEFINE a == value[l]
           level == a.level + 1
           body == Product(a.body, a.body)
           v == [a EXCEPT !.type = "vector", !.level = level, !.op = None, !.body = body]
<1>1. /\ Owned(s, a) /\ level <= MaxDepth
      /\ Put(x, v) /\ UNCHANGED <<keysAndSessions, stored>>
  <2>1. Cost("square") = 1
    BY DEF Cost
  <2>2. /\ Owned(s, a) /\ a.level + Cost("square") <= MaxDepth
        /\ Put(x, [a EXCEPT !.type = "vector", !.level = @ + Cost("square"),
                            !.op = None, !.body = Product(@, @)])
        /\ UNCHANGED <<keysAndSessions, stored>>
    BY DEF Square
  <2>3. a \in Value
    BY <2>2, OwnedValue
  <2> HIDE DEF a
  <2>4. [a EXCEPT !.type = "vector", !.level = @ + Cost("square"),
                  !.op = None, !.body = Product(@, @)] = v
    BY <2>1, <2>3 DEF Value
  <2>5. QED
    BY <2>1, <2>2, <2>4
<1>2. /\ a \in Value /\ Honest(a) /\ a.body \in Body /\ a.level \in Nat
      /\ a.type # "released" /\ Count(a) \in Nat
  BY <1>1, OwnedValue
<1>3. a.body.depth \in Nat /\ a.body.width \in Nat
  BY <1>2 DEF Body
<1> HIDE DEF a
<1>4. /\ body \in Body
      /\ body.key = a.body.key
      /\ body.depth = a.body.depth + 1
      /\ body.width = a.body.width
      /\ a.body.clean => body.clean
      /\ a.body.reduced => body.reduced
      /\ body.right
  <2>1. a.body.right
    BY <1>2 DEF Honest
  <2>2. QED
    BY <1>2, <2>1, SquaredBody, Zenon DEF body
<1> HIDE DEF body
<1>5. level \in 0..MaxDepth
  BY <1>1, <1>2
<1> HIDE DEF level
<1>6. v \in Value
  BY <1>2, <1>4, <1>5 DEF Value
<1>7. /\ v.type = "vector" /\ v.shape = a.shape /\ v.body = body
      /\ v.level = a.level + 1 /\ v.key = a.key /\ v.ctx = a.ctx /\ Count(v) = Count(a)
  BY <1>2 DEF Value, Count, level
<1> HIDE DEF v
<1>8. Honest(v)
  BY <1>2, <1>3, <1>4, <1>7 DEF Honest
<1>9. QED
  BY <1>1, <1>6, <1>7, <1>8, PutKeeps DEF Addressed

LEMMA ReduceKeeps ==
  ASSUME IInv, NEW s \in Sessions, NEW op \in Reductions, NEW l \in Slots,
         NEW x \in Slots, Reduce(s, op, l, x)
  PROVE  IInv'
<1> DEFINE a == value[l]
           level == a.level + Cost(op)
           body == Reduced(op, a.body, Count(a))
           v == [a EXCEPT !.type = "scalar", !.shape = Unit, !.level = level,
                          !.op = op, !.body = body]
<1>1. /\ Owned(s, a) /\ level <= MaxDepth
      /\ Put(x, v) /\ UNCHANGED <<keysAndSessions, stored>>
  BY DEF Reduce
<1>2. /\ a \in Value /\ Honest(a) /\ a.body \in Body /\ a.level \in Nat
      /\ a.type # "released" /\ Count(a) \in Nat
  BY <1>1, OwnedValue
<1>3. a.body.depth \in Nat /\ Cost(op) \in Nat
  BY <1>2 DEF Body, Cost, Reductions
<1>4. a.body.right /\ (a.body.clean \/ Count(a) = 1)
  BY <1>2 DEF Honest, Count
<1> HIDE DEF a
<1>5. /\ body \in Body
      /\ body.key = a.body.key
      /\ body.depth = a.body.depth + Cost(op)
      /\ body.width = 1
      /\ body.reduced
      /\ body.right
  <2>1. a.body \in Body /\ Count(a) \in Nat
    BY <1>2
  <2>2. /\ body \in Body
        /\ body.key = a.body.key
        /\ body.depth = a.body.depth + Cost(op)
        /\ body.width = 1
        /\ body.reduced
    BY <2>1, ReducedBody, SMTT(30)
  <2>3. body.right
    BY <1>4, <2>1, ReducedBody, Zenon
  <2>4. QED
    BY <2>2, <2>3
<1> HIDE DEF body
<1>6. level \in 0..MaxDepth /\ body.depth <= level
  <2>1. a.body.depth <= a.level
    BY <1>2 DEF Honest
  <2>2. QED
    BY <1>1, <1>2, <1>3, <1>5, <2>1
<1> HIDE DEF level
<1>7. v \in Value
  BY <1>2, <1>5, <1>6 DEF Value
<1>8. /\ v.type = "scalar" /\ v.shape = Unit /\ v.op = op /\ v.body = body
      /\ v.level = level /\ v.key = a.key /\ v.ctx = a.ctx
  BY <1>2 DEF Value
<1> HIDE DEF v
<1>9. Honest(v)
  BY <1>2, <1>5, <1>6, <1>8 DEF Honest, Count
<1>10. QED
  BY <1>1, <1>7, <1>8, <1>9, PutKeeps DEF Addressed

LEMMA ReleaseKeeps ==
  ASSUME IInv, NEW s \in Sessions, NEW l \in Slots, NEW r \in Recipients,
         NEW x \in Slots, Release(s, l, r, x)
  PROVE  IInv'
<1> DEFINE a == value[l]
           body == Rekeyed(a.body, sess[s].ctx, r)
           v == [a EXCEPT !.type = "released", !.key = r, !.body = body]
<1>1. /\ Owned(s, a) /\ a.type = "scalar" /\ a.op \in Reductions
      /\ recipient[r] # None /\ recipient[r].ctx = sess[s].ctx
      /\ Put(x, v) /\ UNCHANGED <<keysAndSessions, stored>>
  BY DEF Release, MayTarget
<1>2. /\ a \in Value /\ Honest(a) /\ a.body \in Body
      /\ a.body.key = sess[s].ctx /\ a.ctx = sess[s].ctx
  BY <1>1, OwnedValue
<1> HIDE DEF a
<1>3. /\ body \in Body
      /\ body.key = r
      /\ body.depth = a.body.depth
      /\ body.width = a.body.width
      /\ body.reduced = a.body.reduced
      /\ body.right = a.body.right
  BY <1>2 DEF Rekeyed, Body
<1> HIDE DEF body
<1>4. v \in Value
  BY <1>2, <1>3 DEF Value
<1>5. /\ v.type = "released" /\ v.shape = a.shape /\ v.op = a.op /\ v.body = body
      /\ v.level = a.level /\ v.key = r /\ v.ctx = a.ctx /\ Count(v) = Count(a)
  BY <1>2 DEF Value, Count
<1> HIDE DEF v
<1>6. a.shape = Unit
  BY <1>1, <1>2 DEF Honest
<1>7. Honest(v)
  BY <1>1, <1>2, <1>3, <1>5, <1>6 DEF Honest
<1>8. Addressed(v)
  BY <1>1, <1>2, <1>5 DEF Addressed
<1>9. QED
  BY <1>1, <1>4, <1>7, <1>8, PutKeeps

(* A loaded artifact is what was saved, with the session that loaded it.   *)
LEMMA LoadedValue ==
  ASSUME IInv, NEW d \in Directories, NEW n \in Names, artifact[d][n] # None,
         NEW s \in Sessions \cup {None}
  PROVE  LET v == [artifact[d][n] EXCEPT !.session = s]
         IN  v \in Value /\ Honest(v) /\ Addressed(v)
<1> DEFINE a == artifact[d][n]
           v == [a EXCEPT !.session = s]
<1>1. a \in Value /\ Honest(a) /\ Addressed(a)
  BY DEF IInv, TypeOK
<1> HIDE DEF a
<1>2. v \in Value
  BY <1>1 DEF Value
<1>3. /\ v.type = a.type /\ v.shape = a.shape /\ v.op = a.op /\ v.body = a.body
      /\ v.level = a.level /\ v.key = a.key /\ v.ctx = a.ctx /\ Count(v) = Count(a)
  BY <1>1 DEF Value, Count
<1> HIDE DEF v
<1>4. Honest(v) /\ Addressed(v)
  BY <1>1, <1>3 DEF Honest, Addressed
<1>5. QED
  BY <1>2, <1>4 DEF a, v

LEMMA LoadKeeps ==
  ASSUME IInv, NEW s \in Sessions, NEW d \in Directories, NEW n \in Names,
         NEW x \in Slots, Load(s, d, n, x)
  PROVE  IInv'
  BY LoadedValue, PutKeeps DEF Load

LEMMA LoadReleasedKeeps ==
  ASSUME IInv, NEW r \in Recipients, NEW d \in Directories, NEW n \in Names,
         NEW x \in Slots, LoadReleased(r, d, n, x)
  PROVE  IInv'
<1>1. artifact[d][n] # None /\ recipient[r].session \in Sessions
  BY DEF LoadReleased, MayLoadReleased, ReleasedTo, Alive, IInv, TypeOK, Recipient
<1>2. QED
  BY <1>1, LoadedValue, PutKeeps DEF LoadReleased

(* A save finds a manifest of the session's context, or writes it; what it *)
(* writes is the version of the session.                                   *)
LEMMA SaveDirectory ==
  ASSUME IInv, NEW s \in Sessions, NEW l \in Slots, NEW d \in Directories,
         NEW n \in Names, Save(s, l, d, n)
  PROVE  /\ workspace' \in [Directories -> Manifest \cup {None}]
         /\ workspace'[d] # None /\ workspace'[d].ctx = sess[s].ctx
         /\ \A e \in Directories \ {d} : workspace'[e] = workspace[e]
         /\ VersionsRecorded'
<1>1. sess[s] \in Session /\ UNCHANGED <<sess, recipient>>
  BY DEF Save, MaySave, Owned, Open, IInv, TypeOK, keysAndSessions
<1>2. CASE Validates(s, d) /\ UNCHANGED workspace
  BY <1>1, <1>2 DEF Validates, IInv, TypeOK, VersionsRecorded
<1>3. CASE Initialises(s) /\ Initialise(s, d)
  <2> DEFINE m == [ctx |-> sess[s].ctx, version |-> sess[s].version]
  <2>1. sess[s] # None /\ sess[s].ctx \in Contexts
    BY <1>1 DEF Save, MaySave, Owned, Open, Session
  <2>2. sess[s].version \in Versions
    BY <1>3, <2>1 DEF Initialises, IInv, VersionsRecorded
  <2>3. m \in Manifest
    BY <2>1, <2>2 DEF Manifest
  <2>4. workspace' = [workspace EXCEPT ![d] = m]
    BY <1>3 DEF Initialise
  <2>5. m.ctx = sess[s].ctx /\ m.version = sess[s].version
    OBVIOUS
  <2> HIDE DEF m
  <2>6. /\ workspace' \in [Directories -> Manifest \cup {None}]
        /\ workspace'[d] = m
        /\ \A e \in Directories \ {d} : workspace'[e] = workspace[e]
    BY <2>3, <2>4 DEF IInv, TypeOK
  <2>7. VersionsRecorded'
    BY <1>1, <2>1, <2>5, <2>6 DEF IInv, VersionsRecorded
  <2>8. QED
    BY <2>3, <2>5, <2>6, <2>7
<1>4. QED
  BY <1>2, <1>3 DEF Save

(* A save records the value under the context of the manifest.             *)
LEMMA SaveKeeps ==
  ASSUME IInv, NEW s \in Sessions, NEW l \in Slots, NEW d \in Directories,
         NEW n \in Names, Save(s, l, d, n)
  PROVE  IInv'
<1> DEFINE a == value[l]
           v == [a EXCEPT !.session = None]
<1>1. a # None /\ a.ctx = sess[s].ctx
  BY DEF Save, MaySave, Owned
<1>2. a \in Value /\ Honest(a) /\ Addressed(a)
  BY <1>1 DEF IInv, TypeOK
<1>3. /\ artifact' = [artifact EXCEPT ![d][n] = v]
      /\ UNCHANGED <<sess, recipient, exported, value>>
  BY DEF Save, keysAndSessions
<1> HIDE DEF a
<1>4. v \in Value
  BY <1>2 DEF Value
<1>5. /\ v.type = a.type /\ v.shape = a.shape /\ v.op = a.op /\ v.body = a.body
      /\ v.level = a.level /\ v.key = a.key /\ v.ctx = a.ctx /\ Count(v) = Count(a)
  BY <1>2 DEF Value, Count
<1> HIDE DEF v
<1>6. Honest(v) /\ Addressed(v)
  BY <1>2, <1>5 DEF Honest, Addressed
<1>7. /\ artifact' \in [Directories -> [Names -> Value \cup {None}]]
      /\ artifact'[d][n] = v
      /\ \A e \in Directories, m \in Names :
           <<e, m>> # <<d, n>> => artifact'[e][m] = artifact[e][m]
  BY <1>3, <1>4 DEF IInv, TypeOK
<1>8. TypeOK'
  BY <1>3, <1>7, SaveDirectory DEF IInv, TypeOK
<1>9. ASSUME NEW e \in Directories, NEW m \in Names, artifact'[e][m] # None
      PROVE  /\ Honest(artifact'[e][m]) /\ Addressed(artifact'[e][m])
             /\ workspace'[e] # None
             /\ artifact'[e][m].ctx = workspace'[e].ctx
  <2>1. CASE e = d /\ m = n
    BY <1>1, <1>5, <1>6, <1>7, <2>1, SaveDirectory
  <2>2. CASE ~(e = d /\ m = n)
    <3>1. artifact'[e][m] = artifact[e][m]
      BY <1>7, <2>2
    <3>2. /\ Honest(artifact[e][m]) /\ Addressed(artifact[e][m])
          /\ workspace[e] # None /\ artifact[e][m].ctx = workspace[e].ctx
      BY <1>9, <3>1 DEF IInv
    <3>3. workspace'[e] # None /\ workspace'[e].ctx = workspace[e].ctx
      <4>1. CASE e = d
        <5>1. workspace[e] = None \/ workspace[e].ctx = sess[s].ctx
          BY <4>1 DEF Save, Validates
        <5>2. QED
          BY <3>2, <4>1, <5>1, SaveDirectory
      <4>2. CASE e # d
        BY <3>2, <4>2, SaveDirectory
      <4>3. QED
        BY <4>1, <4>2
    <3>4. QED
      BY <3>1, <3>2, <3>3
  <2>3. QED
    BY <2>1, <2>2
<1>10. QED
  BY <1>3, <1>8, <1>9, SaveDirectory DEF IInv, Addressed

(* A new analyst is one that no value is addressed to yet, and has the     *)
(* version of its session.                                                 *)
LEMMA CreateRecipientKeeps ==
  ASSUME IInv, NEW s \in Sessions, NEW r \in Recipients, CreateRecipient(s, r)
  PROVE  IInv'
<1> DEFINE q == [ctx |-> sess[s].ctx, session |-> s, version |-> sess[s].version]
<1>1. /\ recipient[r] = None /\ sess[s] # None /\ sess[s].engine = "openfhe"
      /\ recipient' = [recipient EXCEPT ![r] = q]
      /\ UNCHANGED <<sess, value, workspace, artifact, exported>>
  BY DEF CreateRecipient, Releases, Open, stored
<1>2. q \in Recipient
  BY <1>1 DEF IInv, TypeOK, VersionsRecorded, Recipient, Session
<1>3. q.session = s /\ q.version = sess[s].version /\ q.ctx = sess[s].ctx
  OBVIOUS
<1> HIDE DEF q
<1>4. TypeOK'
  BY <1>1, <1>2 DEF IInv, TypeOK
<1>5. ASSUME NEW v, Honest(v), Addressed(v)
      PROVE  Addressed(v)'
  BY <1>1, <1>5 DEF IInv, TypeOK, Addressed, Honest
<1>6. VersionsRecorded'
  BY <1>1, <1>3 DEF IInv, TypeOK, VersionsRecorded
<1>7. QED
  BY <1>1, <1>4, <1>5, <1>6 DEF IInv, Addressed

(* A session is written once; a close keeps its context and version.       *)
LEMMA SessionStep ==
  ASSUME IInv, NEW s \in Sessions, NEW q \in Session,
         sess' = [sess EXCEPT ![s] = q],
         q.engine = "openfhe" => q.version \in Versions,
         sess[s] # None => q.ctx = sess[s].ctx /\ q.version = sess[s].version,
         UNCHANGED <<value, workspace, artifact, recipient, exported>>
  PROVE  IInv'
<1>1. TypeOK'
  BY DEF IInv, TypeOK
<1>2. q # None
  OBVIOUS
<1>3. \A t \in Sessions :
        sess[t] # None =>
          /\ sess'[t] # None
          /\ sess'[t].ctx = sess[t].ctx /\ sess'[t].version = sess[t].version
  BY <1>2 DEF IInv, TypeOK
<1>4. \A t \in Sessions :
        sess'[t] # None /\ sess'[t].engine = "openfhe" => sess'[t].version \in Versions
  BY DEF IInv, TypeOK, VersionsRecorded
<1>5. \A p \in Recipients :
        recipient'[p] # None =>
          /\ sess'[recipient'[p].session] # None
          /\ recipient'[p].version = sess'[recipient'[p].session].version
  <2>1. \A p \in Recipients : recipient[p] # None => recipient[p].session \in Sessions
    BY DEF IInv, TypeOK, Recipient
  <2>2. QED
    BY <1>3, <2>1 DEF IInv, VersionsRecorded
<1>6. \A d \in Directories :
        workspace'[d] # None =>
          \E t \in Sessions :
            /\ sess'[t] # None
            /\ sess'[t].ctx = workspace'[d].ctx
            /\ sess'[t].version = workspace'[d].version
  BY <1>3 DEF IInv, VersionsRecorded
<1>7. VersionsRecorded'
  BY <1>4, <1>5, <1>6 DEF VersionsRecorded
<1>8. QED
  BY <1>1, <1>7 DEF IInv, Addressed

(* What only creates, opens or closes sessions.                            *)
LEMMA SessionsKeep ==
  ASSUME IInv, NEW s \in Sessions,
         \/ \E engine \in Engines :
              \/ Create(s, engine)
              \/ \E d \in Directories : OpenWorkspace(s, engine, d)
         \/ Close(s)
  PROVE  IInv'
<1>1. UNCHANGED <<value, workspace, artifact, recipient, exported>>
  BY DEF Create, OpenWorkspace, Close, stored
<1>2. CASE \E engine \in Engines :
             \/ Create(s, engine)
             \/ \E d \in Directories : OpenWorkspace(s, engine, d)
  <2>1. PICK engine \in Engines :
             \E c \in Contexts, secret \in BOOLEAN, v \in Bindings(engine) :
               /\ sess[s] = None
               /\ sess' = [sess EXCEPT ![s] = [ctx |-> c, engine |-> engine,
                                               secret |-> secret, version |-> v]]
    <3>1. \A d \in Directories : workspace[d] # None => workspace[d].ctx \in Contexts
      BY DEF IInv, TypeOK, Manifest
    <3>2. QED
      BY <1>2, <3>1 DEF Create, OpenWorkspace
  <2>2. PICK c \in Contexts, secret \in BOOLEAN, v \in Bindings(engine) :
               /\ sess[s] = None
               /\ sess' = [sess EXCEPT ![s] = [ctx |-> c, engine |-> engine,
                                               secret |-> secret, version |-> v]]
    BY <2>1
  <2> DEFINE q == [ctx |-> c, engine |-> engine, secret |-> secret, version |-> v]
  <2>3. q \in Session /\ (q.engine = "openfhe" => q.version \in Versions)
    BY DEF Session, Bindings
  <2> HIDE DEF q
  <2>4. sess' = [sess EXCEPT ![s] = q]
    BY <2>2 DEF q
  <2>5. QED
    BY <1>1, <2>2, <2>3, <2>4, SessionStep
<1>3. CASE Close(s)
  <2> DEFINE q == [sess[s] EXCEPT !.engine = None, !.secret = FALSE]
  <2>1. sess[s] \in Session
    BY <1>3 DEF IInv, TypeOK, Close, Open
  <2>2. /\ q \in Session /\ q.engine = None
        /\ q.ctx = sess[s].ctx /\ q.version = sess[s].version
    BY <2>1 DEF Session
  <2>3. sess' = [sess EXCEPT ![s] = q]
    BY <1>3 DEF Close, IInv, TypeOK
  <2>4. q.engine # "openfhe"
    BY <2>2 DEF Engines
  <2> HIDE DEF q
  <2>5. QED
    BY <1>1, <2>2, <2>3, <2>4, SessionStep
<1>4. QED
  BY <1>2, <1>3

(* An export, and a step that changes nothing.                             *)
LEMMA OtherStepsKeep ==
  ASSUME IInv, (\E r \in Recipients : Export(r)) \/ UNCHANGED vars
  PROVE  IInv'
<1>1. UNCHANGED <<sess, value, workspace, artifact, recipient>>
  BY DEF Export, vars, stored
<1>2. exported' \subseteq Recipients
  BY DEF IInv, TypeOK, Export, vars
<1>3. TypeOK'
  BY <1>1, <1>2 DEF IInv, TypeOK
<1>4. QED
  BY <1>1, <1>3 DEF IInv, Addressed, VersionsRecorded

LEMMA StepKeepsIInv == IInv /\ [Next]_vars => IInv'
<1> SUFFICES ASSUME IInv, [Next]_vars PROVE IInv'
  OBVIOUS
<1>1. CASE \E s \in Sessions, l \in Slots, d \in Directories, n \in Names :
             Save(s, l, d, n)
  BY <1>1, SaveKeeps
<1>2. CASE \E s \in Sessions, r \in Recipients : CreateRecipient(s, r)
  BY <1>2, CreateRecipientKeeps
<1>3. CASE \E s \in Sessions, x \in Slots, n \in Lengths : Encrypt(s, n, x)
  BY <1>3, EncryptKeeps
<1>4. CASE \E s \in Sessions, x \in Slots : Evaluate(s, x)
  BY <1>4, BinaryKeeps, SquareKeeps, ReduceKeeps DEF Evaluate
<1>5. CASE \E s \in Sessions, x \in Slots, l \in Slots, r \in Recipients :
             Release(s, l, r, x)
  BY <1>5, ReleaseKeeps
<1>6. CASE \E s \in Sessions, x \in Slots, d \in Directories, n \in Names :
             Load(s, d, n, x)
  BY <1>6, LoadKeeps
<1>7. CASE \E r \in Recipients, d \in Directories, n \in Names, x \in Slots :
             LoadReleased(r, d, n, x)
  BY <1>7, LoadReleasedKeeps
<1>8. CASE \E s \in Sessions :
             \/ \E engine \in Engines :
                  \/ Create(s, engine)
                  \/ \E d \in Directories : OpenWorkspace(s, engine, d)
             \/ Close(s)
  BY <1>8, SessionsKeep
<1>9. CASE (\E r \in Recipients : Export(r)) \/ UNCHANGED vars
  BY <1>9, OtherStepsKeep
<1>10. QED
  BY <1>1, <1>2, <1>3, <1>4, <1>5, <1>6, <1>7, <1>8, <1>9 DEF Next

(* All that load_released_result asks for, except the version.             *)
LoadsButForVersion(r, d, n) ==
  /\ Alive(r)
  /\ workspace[d] # None
  /\ workspace[d].ctx = recipient[r].ctx
  /\ ReleasedTo(r, d, n)
  /\ Approved(artifact[d][n])

(* Whatever was saved for an analyst passes those checks.                  *)
LEMMA SavedReleases ==
  ASSUME IInv, NEW r \in Recipients, NEW d \in Directories, NEW n \in Names,
         Alive(r), ReleasedTo(r, d, n)
  PROVE  LoadsButForVersion(r, d, n)
<1>1. /\ Honest(artifact[d][n]) /\ Addressed(artifact[d][n])
      /\ workspace[d] # None /\ artifact[d][n].ctx = workspace[d].ctx
  BY DEF IInv, ReleasedTo
<1>2. workspace[d].ctx = recipient[r].ctx
  BY <1>1 DEF Addressed, ReleasedTo
<1>3. Approved(artifact[d][n])
  BY <1>1 DEF Honest, Approved, ReleasedTo
<1>4. QED
  BY <1>1, <1>2, <1>3 DEF LoadsButForVersion

LEMMA AlwaysIInv == Spec => []IInv
  BY InitIInv, StepKeepsIInv, PTL DEF Spec

-----------------------------------------------------------------------------
(* Theorems.                                                               *)

(* Every variable keeps its type: in particular no value is charged more   *)
(* levels than the configured depth.                                       *)
THEOREM TypeCorrect == Spec => []TypeOK
<1>1. IInv => TypeOK
  BY DEF IInv
<1>2. QED
  BY AlwaysIInv, <1>1, PTL

(* The levels of the contract table cover the depth the runtime uses, for  *)
(* every configured depth and every chain of operations.                   *)
THEOREM LevelsCover == Spec => []LevelCoversDepth
<1>1. IInv => LevelCoversDepth
  BY DEF IInv, TypeOK, Value, Honest, LevelCoversDepth, Held
<1>2. QED
  BY AlwaysIInv, <1>1, PTL

(* What a session agrees to decrypt is under its key, right and wide enough. *)
THEOREM DecryptionIsRight == Spec => []DecryptsRight
<1>1. IInv => DecryptsRight
  <2> SUFFICES ASSUME IInv, NEW s \in Sessions, NEW x \in Slots, MayDecrypt(s, value[x])
               PROVE  /\ value[x].body.key = sess[s].ctx
                      /\ value[x].body.right
                      /\ Count(value[x]) <= value[x].body.width
    BY DEF DecryptsRight
  <2>1. /\ Honest(value[x]) /\ value[x].body.key = sess[s].ctx
        /\ Count(value[x]) \in Nat
    BY OwnedValue DEF MayDecrypt
  <2>2. QED
    BY <2>1 DEF Honest
<1>2. QED
  BY AlwaysIInv, <1>1, PTL

(* Under an analyst's key there are only reductions that an owner released, *)
(* and the analyst reads them right.                                       *)
THEOREM OnlyAggregatesReachAnalysts == Spec => []AnalystsReadAggregates
<1>1. IInv => AnalystsReadAggregates
  <2> SUFFICES ASSUME IInv PROVE AnalystsReadAggregates
    OBVIOUS
  <2>1. ASSUME NEW v \in Held
        PROVE  v \in Value /\ Honest(v)
    BY <2>1 DEF IInv, TypeOK, Held
  <2>2. ASSUME NEW v \in Held, v.body.key \in Recipients
        PROVE  v.type = "released" /\ v.body.reduced
    <3>1. v.ctx \notin Recipients
      BY <2>1 DEF Value
    <3>2. v.type = "released"
      BY <2>1, <2>2, <3>1 DEF Honest
    <3>3. QED
      BY <2>1, <3>2 DEF Honest
  <2>3. ASSUME NEW r \in Recipients, NEW x \in Slots, MayRead(r, value[x])
        PROVE  value[x].body.key = r /\ value[x].body.right
    BY <2>3 DEF MayRead, IInv, Honest
  <2>4. QED
    BY <2>2, <2>3 DEF AnalystsReadAggregates
<1>2. QED
  BY AlwaysIInv, <1>1, PTL

(* A saved result is refused to its analyst only for the version of the   *)
(* binding of another session of the context, which began the directory.   *)
THEOREM ReleasesAreLoadable == Spec => []ReleasedIsLoadable
<1>1. IInv => ReleasedIsLoadable
  <2> SUFFICES ASSUME IInv, NEW r \in Recipients, NEW d \in Directories, NEW n \in Names,
                      Alive(r), ReleasedTo(r, d, n)
               PROVE  \/ MayLoadReleased(r, d, n)
                      \/ \E s \in Sessions :
                           /\ s # recipient[r].session
                           /\ sess[s] # None
                           /\ sess[s].ctx = recipient[r].ctx
                           /\ sess[s].version = workspace[d].version
                           /\ sess[s].version # sess[recipient[r].session].version
    BY DEF ReleasedIsLoadable
  <2>1. LoadsButForVersion(r, d, n)
    BY SavedReleases
  <2>2. recipient[r].version = sess[recipient[r].session].version
    BY DEF Alive, IInv, VersionsRecorded
  <2>3. CASE workspace[d].version = recipient[r].version
    BY <2>1, <2>3 DEF LoadsButForVersion, MayLoadReleased
  <2>4. CASE workspace[d].version # recipient[r].version
    <3>1. PICK s \in Sessions : /\ sess[s] # None
                                /\ sess[s].ctx = workspace[d].ctx
                                /\ sess[s].version = workspace[d].version
      BY <2>1 DEF LoadsButForVersion, IInv, VersionsRecorded
    <3>2. s # recipient[r].session
      BY <2>2, <2>4, <3>1
    <3>3. QED
      BY <2>1, <2>2, <2>4, <3>1, <3>2 DEF LoadsButForVersion
  <2>5. QED
    BY <2>3, <2>4
<1>2. QED
  BY AlwaysIInv, <1>1, PTL

(* Where all processes have one version of the binding, a session that     *)
(* copies or saves a released result never leaves it out of the analyst's  *)
(* reach, in whichever directory.                                          *)
THEOREM OneVersionSuffices ==
  ASSUME \A u, v \in Versions : u = v
  PROVE  Spec => []ReleasedIsAlwaysLoadable
<1>1. IInv => ReleasedIsAlwaysLoadable
  <2> SUFFICES ASSUME IInv, NEW r \in Recipients, NEW d \in Directories, NEW n \in Names,
                      Alive(r), ReleasedTo(r, d, n)
               PROVE  MayLoadReleased(r, d, n)
    BY DEF ReleasedIsAlwaysLoadable
  <2>1. LoadsButForVersion(r, d, n)
    BY SavedReleases
  <2>2. workspace[d].version \in Versions /\ recipient[r].version \in Versions
    BY <2>1 DEF LoadsButForVersion, Alive, IInv, TypeOK, Manifest, Recipient
  <2>3. QED
    BY <2>1, <2>2 DEF LoadsButForVersion, MayLoadReleased
<1>2. QED
  BY AlwaysIInv, <1>1, PTL

=============================================================================
