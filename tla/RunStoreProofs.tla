--------------------------- MODULE RunStoreProofs ---------------------------
(***************************************************************************)
(* Proofs about RunStore, for any number of attempts, outputs and          *)
(* requests.  Of attempts that overlap or not, and crash and fail          *)
(* anywhere: a stored manifest is backed by stored ciphertexts, the        *)
(* inserts never wait in a circle, and some attempt can always go on.  Of  *)
(* attempts that follow each other: none replaces what it was not asked    *)
(* to replace.  Of those that may replace nothing: they implement the      *)
(* table of RunLedger, and what was reported stays the newest.             *)
(***************************************************************************)
EXTENDS RunStore, WellFoundedInduction, TLAPS

(* What a step of an attempt relies on.                                    *)
CallInv ==
  \A a \in Attempts :
    /\ pc[a] \in Active \cup {"succeeded"} => req[a] \in Requests
    /\ pc[a] \in {"execute", "publish", "commit", "succeed"} => ws[a][ManifestPath] # None
    /\ pc[a] \in {"new", "load", "execute"} => pos[a] = 1
    /\ pc[a] = "publish" => pos[a] <= ManifestPath

(* TypeOK, with the copies in a function space.                            *)
Contents == Results \cup Indexes \cup {None}

Types ==
  /\ status \in {"absent", "queued", "running", "succeeded", "failed"}
  /\ \A r \in rows : r.path \in Paths /\ r \in RowAt(r.path)
  /\ nextId \in Nat
  /\ committed \subseteq Attempts
  /\ pc \in [Attempts -> {"new"} \cup Active \cup Ended]
  /\ req \in [Attempts -> Requests \cup {None}]
  /\ ws \in [Attempts -> [Paths -> Contents]]
  /\ \A a \in Attempts, x \in Paths : ws[a][x] \in ContentOf(x) \cup {None}
  /\ pos \in [Attempts -> 1..(ManifestPath + 1)]

TypeInv == Types /\ CallInv

(* The row is committed, or will be together with those of b.              *)
With(r, b) == Committed(r) \/ r.by = b

Stored(x, c, b) == \E r \in rows : r.path = x /\ r.content = c /\ With(r, b)

RowsInv ==
  \A m \in rows : m.path = ManifestPath =>
    \A o \in Outputs : m.content[o] # None => Stored(o, m.content[o], m.by)

(* What an attempt has downloaded is stored; what it has added is in its   *)
(* copy.                                                                   *)
Copied(a) ==
  /\ pc[a] = "execute" =>
       \A o \in Outputs : ws[a][ManifestPath][o] # None =>
         Stored(o, ws[a][ManifestPath][o], Owner)
  /\ pc[a] = "publish" =>
       \A o \in Outputs : ws[a][ManifestPath][o] # None =>
         \/ Stored(o, ws[a][ManifestPath][o], Owner)
         \/ ws[a][o] = ws[a][ManifestPath][o]

(* What the inserts have passed is stored.                                 *)
Passed(a) ==
  /\ pc[a] = "publish" =>
       \A x \in Paths : x < pos[a] /\ ws[a][x] # None => Stored(x, ws[a][x], a)
  /\ pc[a] \in {"commit", "succeed", "succeeded"} =>
       \A x \in Paths : ws[a][x] # None => Stored(x, ws[a][x], a)

(* The result is in the copy, and the copy is committed before the attempt *)
(* is reported.                                                            *)
Carried(a) ==
  /\ pc[a] \in {"publish", "commit", "succeed", "succeeded"} =>
       /\ ws[a][req[a].output] = Result(a)
       /\ ws[a][ManifestPath] # None
       /\ ws[a][ManifestPath][req[a].output] = Result(a)
  /\ pc[a] \in {"succeed", "succeeded"} => a \in committed

AttemptInv(a) == Copied(a) /\ Passed(a) /\ Carried(a)

Backing == RowsInv /\ \A a \in Attempts : AttemptInv(a)

(* An attempt has inserted only what it has passed.                        *)
AheadInv ==
  \A r \in rows : r.by \in Attempts /\ ~Committed(r) => r.path < pos[r.by]

-----------------------------------------------------------------------------
USE ConstantsAssumption, NoneIsNoContent

(* The manifest comes after the outputs.                                  *)
LEMMA PathFacts ==
  /\ ManifestPath \in Paths /\ ManifestPath \notin Outputs
  /\ \A o \in Outputs : o \in Paths /\ o < ManifestPath /\ o # ManifestPath
  /\ \A x \in Paths : x \in Nat /\ x <= ManifestPath /\ (x # ManifestPath => x \in Outputs)
  /\ ManifestPath \in Nat /\ 1 <= ManifestPath
  BY DEF Paths, Outputs, ManifestPath

(* What is downloaded is the content of a committed row, or nothing.       *)
LEMMA NewestIsVisible ==
  ASSUME NEW x \in Paths, Newest(x) # None
  PROVE  \E r \in Visible : r.path = x /\ r.content = Newest(x)
  BY DEF Newest

(* The type of what is downloaded.                                         *)
LEMMA NewestType ==
  ASSUME Types, NEW x \in Paths
  PROVE  Newest(x) \in ContentOf(x) \cup {None}
<1>1. CASE Newest(x) = None
  BY <1>1
<1>2. CASE Newest(x) # None
  <2>1. PICK r \in Visible : r.path = x /\ r.content = Newest(x)
    BY <1>2, NewestIsVisible
  <2>2. QED
    BY <2>1 DEF Types, RowAt, Visible
<1>3. QED
  BY <1>1, <1>2

(* What a copy may hold.                                                   *)
LEMMA ContentFacts == \A x \in Paths : ContentOf(x) \cup {None} \subseteq Contents
  BY DEF ContentOf, Contents

(* A run that exists has rows of the right types, or none.                *)
LEMMA InitTypeInv == Init => TypeInv
<1>1. SUFFICES ASSUME Init PROVE TypeInv
  OBVIOUS
<1>2. EmptyIndex \in Indexes
  BY DEF EmptyIndex, Indexes
<1>3. \A r \in rows : r.path \in Paths /\ r \in RowAt(r.path)
  BY <1>1, <1>2, PathFacts DEF Init, RowAt, ContentOf
<1>4. Types
  BY <1>1, <1>3, PathFacts DEF Init, Types, Contents
<1>5. CallInv
  BY <1>1, PathFacts DEF Init, CallInv, Active
<1>6. QED
  BY <1>4, <1>5 DEF TypeInv

(* The copy of the workspace that execute leaves behind.                   *)
Edited(a) ==
  [ws[a] EXCEPT ![req[a].output] = Result(a),
                ![ManifestPath] = [ws[a][ManifestPath] EXCEPT ![req[a].output] = Result(a)]]

(* Its shape: the two assignments of Execute are one.                      *)
LEMMA EditedIs ==
  ASSUME TypeInv, NEW a \in Attempts, pc[a] = "execute"
  PROVE  /\ [ws EXCEPT ![a][req[a].output] = Result(a),
                       ![a][ManifestPath][req[a].output] = Result(a)]
              = [ws EXCEPT ![a] = Edited(a)]
         /\ Edited(a) \in [Paths -> Contents]
         /\ \A x \in Paths : Edited(a)[x] \in ContentOf(x) \cup {None}
         /\ req[a].output \in Outputs /\ Edited(a)[req[a].output] = Result(a)
         /\ Edited(a)[ManifestPath] = [ws[a][ManifestPath] EXCEPT ![req[a].output] = Result(a)]
         /\ Edited(a)[ManifestPath] \in Indexes
         /\ Edited(a)[ManifestPath] # None
         /\ \A o \in Outputs : o # req[a].output =>
              /\ Edited(a)[o] = ws[a][o]
              /\ Edited(a)[ManifestPath][o] = ws[a][ManifestPath][o]
         /\ Edited(a)[ManifestPath][req[a].output] = Result(a)
<1>1. req[a].output \in Outputs /\ req[a].output # ManifestPath /\ req[a].output \in Paths
  BY PathFacts DEF TypeInv, CallInv, Active
<1>2. Result(a) \in Results
  BY DEF TypeInv, CallInv, Active, Result, Results
<1>3. ws[a] \in [Paths -> Contents]
  BY DEF TypeInv, Types
<1>4. ws[a][ManifestPath] \in Indexes
  BY PathFacts DEF TypeInv, Types, CallInv, ContentOf
<1>5. /\ Edited(a)[ManifestPath] = [ws[a][ManifestPath] EXCEPT ![req[a].output] = Result(a)]
      /\ Edited(a)[req[a].output] = Result(a)
      /\ \A x \in Paths : x # ManifestPath /\ x # req[a].output => Edited(a)[x] = ws[a][x]
  BY <1>1, <1>3, PathFacts DEF Edited
<1>6. Edited(a)[ManifestPath] \in Indexes
  BY <1>1, <1>2, <1>4, <1>5 DEF Indexes
<1>7. \A x \in Paths : Edited(a)[x] \in ContentOf(x) \cup {None}
  BY <1>1, <1>2, <1>5, <1>6, PathFacts DEF ContentOf, TypeInv, Types
<1>8. [ws EXCEPT ![a][req[a].output] = Result(a),
                 ![a][ManifestPath][req[a].output] = Result(a)]
        = [ws EXCEPT ![a] = Edited(a)]
  <2>1. ws = [b \in Attempts |-> ws[b]]
    BY DEF TypeInv, Types
  <2>2. QED
    BY <1>1, <1>3, <2>1, PathFacts DEF Edited
<1>9. Edited(a) \in [Paths -> Contents]
  BY <1>1, <1>2, <1>3, <1>6, PathFacts DEF Edited, Contents, TypeInv, Types
<1>10. /\ \A o \in Outputs : o # req[a].output =>
            Edited(a)[ManifestPath][o] = ws[a][ManifestPath][o]
       /\ Edited(a)[ManifestPath][req[a].output] = Result(a)
  BY <1>1, <1>4, <1>5 DEF Indexes
<1>11. QED
  BY <1>1, <1>5, <1>6, <1>7, <1>8, <1>9, <1>10, PathFacts

(* A step keeps the types.                                                 *)
LEMMA StepTypeInv ==
  ASSUME TypeInv, [Next]_vars
  PROVE  TypeInv'
<1>1. ASSUME NEW a \in Attempts, NEW q \in Requests, SetRunning(a, q)
      PROVE  TypeInv'
  <2>1. Types'
    <3>1. CASE status = "absent"
      BY <1>1, <3>1 DEF SetRunning, Goto, run, TypeInv, Types, CallInv, Active, Ended
    <3>2. CASE status # "absent"
      BY <1>1, <3>2 DEF SetRunning, Goto, run, TypeInv, Types, CallInv, Active, Ended
    <3>3. QED
      BY <3>1, <3>2
  <2>2. CallInv'
    <3>1. CASE status = "absent"
      BY <1>1, <3>1 DEF SetRunning, Goto, run, TypeInv, Types, CallInv, Active, Ended
    <3>2. CASE status # "absent"
      BY <1>1, <3>2 DEF SetRunning, Goto, run, TypeInv, Types, CallInv, Active, Ended
    <3>3. QED
      BY <3>1, <3>2
  <2>3. QED
    BY <2>1, <2>2 DEF TypeInv
<1>2. ASSUME NEW a \in Attempts, Load(a)
      PROVE  TypeInv'
  <2>1. Types'
    <3>1. CASE Newest(ManifestPath) = None
      BY <1>2, <3>1 DEF Load, Goto, run, TypeInv, Types, CallInv, Active, Ended
    <3>2. CASE Newest(ManifestPath) # None
      <4>1. /\ \A x \in Paths : Newest(x) \in ContentOf(x) \cup {None}
            /\ [x \in Paths |-> Newest(x)] \in [Paths -> Contents]
        BY <1>2, NewestType, ContentFacts DEF TypeInv
      <4>2. /\ ws' = [ws EXCEPT ![a] = [x \in Paths |-> Newest(x)]]
            /\ pc' = [pc EXCEPT ![a] = "execute"] /\ UNCHANGED <<run, req, pos>>
        BY <1>2, <3>2 DEF Load, Goto
      <4>3. /\ ws' \in [Attempts -> [Paths -> Contents]]
            /\ \A b \in Attempts, x \in Paths : ws'[b][x] \in ContentOf(x) \cup {None}
        BY <4>1, <4>2 DEF TypeInv, Types
      <4>4. QED
        BY <4>2, <4>3 DEF run, TypeInv, Types, Active
    <3>3. QED
      BY <3>1, <3>2
  <2>2. CallInv'
    <3>1. CASE Newest(ManifestPath) = None
      BY <1>2, <3>1 DEF Load, Goto, run, TypeInv, Types, CallInv, Active, Ended
    <3>2. CASE Newest(ManifestPath) # None
      BY <1>2, <3>2, NewestType, ContentFacts, PathFacts DEF Load, Goto, run, TypeInv,
         Types, CallInv, Active, Ended
    <3>3. QED
      BY <3>1, <3>2
  <2>3. QED
    BY <2>1, <2>2 DEF TypeInv
<1>3. ASSUME NEW a \in Attempts, Execute(a)
      PROVE  TypeInv'
  <2>1. Types'
    <3>1. CASE ws[a][ManifestPath][req[a].output] # None /\ ~req[a].overwrite
      BY <1>3, <3>1 DEF Execute, Goto, run, TypeInv, Types, CallInv, Active, Ended
    <3>2. CASE ~(ws[a][ManifestPath][req[a].output] # None /\ ~req[a].overwrite)
      <4>1. /\ ws' = [ws EXCEPT ![a] = Edited(a)]
            /\ pc' = [pc EXCEPT ![a] = "publish"] /\ UNCHANGED <<run, req, pos>>
        BY <1>3, <3>2, EditedIs DEF Execute, Goto, TypeInv
      <4>2. /\ Edited(a) \in [Paths -> Contents]
            /\ \A x \in Paths : Edited(a)[x] \in ContentOf(x) \cup {None}
        BY <1>3, EditedIs DEF Execute, TypeInv
      <4>3. QED
        BY <4>1, <4>2 DEF Goto, run, TypeInv, Types, CallInv, Active, Ended
    <3>3. QED
      BY <3>1, <3>2
  <2>2. CallInv'
    <3>1. CASE ws[a][ManifestPath][req[a].output] # None /\ ~req[a].overwrite
      BY <1>3, <3>1 DEF Execute, Goto, run, TypeInv, Types, CallInv, Active, Ended
    <3>2. CASE ~(ws[a][ManifestPath][req[a].output] # None /\ ~req[a].overwrite)
      <4>1. /\ ws' = [ws EXCEPT ![a] = Edited(a)]
            /\ pc' = [pc EXCEPT ![a] = "publish"] /\ UNCHANGED <<run, req, pos>>
        BY <1>3, <3>2, EditedIs DEF Execute, Goto, TypeInv
      <4>2. pc[a] = "execute" /\ Edited(a)[ManifestPath] # None
        BY <1>3, EditedIs DEF Execute, TypeInv
      <4>3. QED
        BY <4>1, <4>2, PathFacts DEF Goto, run, TypeInv, Types, CallInv, Active, Ended
    <3>3. QED
      BY <3>1, <3>2
  <2>3. QED
    BY <2>1, <2>2 DEF TypeInv
<1>4. ASSUME NEW a \in Attempts, ExecuteRaises(a)
      PROVE  TypeInv'
  <2>1. Types'
    BY <1>4, PathFacts DEF ExecuteRaises, Goto, run, TypeInv, Types, CallInv, Active, Ended
  <2>2. CallInv'
    BY <1>4, PathFacts DEF ExecuteRaises, Goto, run, TypeInv, Types, CallInv, Active, Ended
  <2>3. QED
    BY <2>1, <2>2 DEF TypeInv
<1>5. ASSUME NEW a \in Attempts, Insert(a)
      PROVE  TypeInv'
  <2>1. Types'
    <3>1. pc[a] = "publish" /\ pos[a] \in 1..ManifestPath
      BY <1>5, PathFacts DEF Insert, TypeInv, CallInv, Types
    <3>2. pos' = [pos EXCEPT ![a] = pos[a] + 1] /\ UNCHANGED <<status, committed, req, ws>>
      BY <1>5 DEF Insert, Advance
    <3>3. pc' = [pc EXCEPT ![a] = IF pos[a] = ManifestPath THEN "commit" ELSE "publish"]
      BY <1>5 DEF Insert, Advance, Goto
    <3>4. nextId' \in Nat /\ \A r \in rows' : r.path \in Paths /\ r \in RowAt(r.path)
      <4>1. CASE Payload(a) = None \/ SameKey(a) # {}
        BY <1>5, <4>1 DEF Insert, TypeInv, Types
      <4>2. CASE ~(Payload(a) = None \/ SameKey(a) # {})
        <5>1. Here(a) \in Paths /\ Payload(a) \in ContentOf(Here(a))
          BY <3>1, <4>2, PathFacts DEF Here, FileAt, Payload, TypeInv, Types, Paths
        <5>2. QED
          BY <1>5, <4>2, <5>1 DEF Insert, AddRow, RowAt, TypeInv, Types
      <4>3. QED
        BY <4>1, <4>2
    <3>5. QED
      BY <3>1, <3>2, <3>3, <3>4, PathFacts DEF TypeInv, Types, Active, Ended
  <2>2. CallInv'
    <3>1. pc[a] = "publish" /\ pos[a] \in 1..ManifestPath
      BY <1>5, PathFacts DEF Insert, TypeInv, CallInv, Types
    <3>2. pos' = [pos EXCEPT ![a] = pos[a] + 1] /\ UNCHANGED <<status, committed, req, ws>>
      BY <1>5 DEF Insert, Advance
    <3>3. pc' = [pc EXCEPT ![a] = IF pos[a] = ManifestPath THEN "commit" ELSE "publish"]
      BY <1>5 DEF Insert, Advance, Goto
    <3>4. QED
      BY <3>1, <3>2, <3>3, PathFacts DEF TypeInv, Types, CallInv, Active
  <2>3. QED
    BY <2>1, <2>2 DEF TypeInv
<1>6. ASSUME NEW a \in Attempts, ReadFails(a)
      PROVE  TypeInv'
  <2>1. Types'
    BY <1>6, PathFacts DEF ReadFails, Goto, run, TypeInv, Types, CallInv, Active, Ended
  <2>2. CallInv'
    BY <1>6, PathFacts DEF ReadFails, Goto, run, TypeInv, Types, CallInv, Active, Ended
  <2>3. QED
    BY <2>1, <2>2 DEF TypeInv
<1>7. ASSUME NEW a \in Attempts, Commit(a)
      PROVE  TypeInv'
  <2>1. Types'
    BY <1>7, PathFacts DEF Commit, Goto, run, TypeInv, Types, CallInv, Active, Ended
  <2>2. CallInv'
    BY <1>7, PathFacts DEF Commit, Goto, run, TypeInv, Types, CallInv, Active, Ended
  <2>3. QED
    BY <2>1, <2>2 DEF TypeInv
<1>8. ASSUME NEW a \in Attempts, SetSucceeded(a)
      PROVE  TypeInv'
  <2>1. Types'
    BY <1>8, PathFacts DEF SetSucceeded, Goto, run, TypeInv, Types, CallInv, Active, Ended
  <2>2. CallInv'
    BY <1>8, PathFacts DEF SetSucceeded, Goto, run, TypeInv, Types, CallInv, Active, Ended
  <2>3. QED
    BY <2>1, <2>2 DEF TypeInv
<1>9. ASSUME NEW a \in Attempts, SetFailed(a)
      PROVE  TypeInv'
  <2>1. Types'
    BY <1>9, PathFacts DEF SetFailed, Goto, run, TypeInv, Types, CallInv, Active, Ended
  <2>2. CallInv'
    BY <1>9, PathFacts DEF SetFailed, Goto, run, TypeInv, Types, CallInv, Active, Ended
  <2>3. QED
    BY <2>1, <2>2 DEF TypeInv
<1>10. ASSUME NEW a \in Attempts, Crash(a)
      PROVE  TypeInv'
  <2>1. Types'
    BY <1>10, PathFacts DEF Crash, Goto, run, TypeInv, Types, CallInv, Active, Ended
  <2>2. CallInv'
    BY <1>10, PathFacts DEF Crash, Goto, run, TypeInv, Types, CallInv, Active, Ended
  <2>3. QED
    BY <2>1, <2>2 DEF TypeInv
<1>11. CASE UNCHANGED vars
  <2>1. Types'
    BY <1>11 DEF Active, CallInv, Ended, Goto, TypeInv, Types, run, vars
  <2>2. CallInv'
    BY <1>11 DEF Active, CallInv, Ended, Goto, TypeInv, Types, run, vars
  <2>3. QED
    BY <2>1, <2>2 DEF TypeInv
<1>12. QED
  BY <1>1, <1>2, <1>3, <1>4, <1>5, <1>6, <1>7, <1>8, <1>9, <1>10, <1>11 DEF Next, Step,
     Progress

\* Every variable keeps its type, however the attempts overlap, crash and fail.
THEOREM TypeCorrect == Spec => []TypeOK
<1>1. Init => TypeInv
  BY InitTypeInv
<1>2. TypeInv /\ [Next]_vars => TypeInv'
  BY StepTypeInv
<1>3. TypeInv => TypeOK
  BY DEF TypeInv, Types, TypeOK
<1>4. QED
  BY <1>1, <1>2, <1>3, PTL DEF Spec

-----------------------------------------------------------------------------
(* The rows that a step of a may remove are its own and uncommitted.       *)
Keeps(a) ==
  /\ committed \subseteq committed'
  /\ \A r \in rows : r \in rows' \/ (r.by = a /\ a \notin committed)

Untouched(b) ==
  pc'[b] = pc[b] /\ req'[b] = req[b] /\ ws'[b] = ws[b] /\ pos'[b] = pos[b]

(* The manifest of a fresh workspace records nothing.                      *)
LEMMA InitBacking == Init => Backing
<1>1. SUFFICES ASSUME Init PROVE Backing
  OBVIOUS
<1>2. RowsInv
  BY <1>1 DEF Init, RowsInv, EmptyIndex
<1>3. \A a \in Attempts : AttemptInv(a)
  BY <1>1 DEF Init, AttemptInv, Copied, Passed, Carried
<1>4. QED
  BY <1>2, <1>3 DEF Backing

(* Every step of an attempt leaves the others and their rows alone.        *)
LEMMA StepKeeps ==
  ASSUME TypeInv, NEW a \in Attempts,
         Step(a) \/ Crash(a) \/ \E q \in Requests : SetRunning(a, q)
  PROVE  /\ Keeps(a)
         /\ \A b \in Attempts : b # a => Untouched(b)
<1>. USE DEF Keeps, Untouched, Goto, run, TypeInv, Types
<1>1. CASE \E q \in Requests : SetRunning(a, q)
  BY <1>1 DEF SetRunning
<1>2. CASE Load(a)
  BY <1>2 DEF Load
<1>3. CASE Execute(a)
  BY <1>3 DEF Execute
<1>4. CASE ExecuteRaises(a)
  BY <1>4 DEF ExecuteRaises
<1>5. CASE Insert(a)
  BY <1>5 DEF Insert, Advance, AddRow
<1>6. CASE ReadFails(a)
  BY <1>6 DEF ReadFails
<1>7. CASE Commit(a)
  BY <1>7 DEF Commit
<1>8. CASE SetSucceeded(a)
  BY <1>8 DEF SetSucceeded
<1>9. CASE SetFailed(a)
  BY <1>9 DEF SetFailed
<1>10. CASE Crash(a)
  BY <1>10 DEF Crash
<1>11. QED
  BY <1>1, <1>2, <1>3, <1>4, <1>5, <1>6, <1>7, <1>8, <1>9, <1>10 DEF Step, Progress

(* What is stored for another attempt, or for good, stays stored.          *)
LEMMA OthersKept ==
  ASSUME NEW a \in Attempts, NEW b \in Attempts, b # a,
         Keeps(a), Untouched(b), AttemptInv(b)
  PROVE  AttemptInv(b)'
<1>1. /\ \A r \in rows : With(r, b) => r \in rows'
      /\ \A r \in rows : With(r, Owner) => r \in rows'
      /\ committed \subseteq committed'
  BY DEF Keeps, With, Committed
<1>2. Copied(b)'
  BY <1>1 DEF Untouched, AttemptInv, Copied, Stored, With, Committed
<1>3. Passed(b)'
  BY <1>1 DEF Untouched, AttemptInv, Passed, Stored, With, Committed
<1>4. Carried(b)'
  BY <1>1 DEF Untouched, AttemptInv, Carried, Result
<1>5. QED
  BY <1>2, <1>3, <1>4 DEF AttemptInv

(* Rows that nobody inserted now are still backed.                         *)
LEMMA RowsKept ==
  ASSUME NEW a \in Attempts, Keeps(a), RowsInv, rows' \subseteq rows,
         rows' = rows \/ \A r \in rows' : r.by # a \/ a \in committed
  PROVE  RowsInv'
<1>1. SUFFICES ASSUME NEW m \in rows', m.path = ManifestPath,
                      NEW o \in Outputs, m.content[o] # None
               PROVE  Stored(o, m.content[o], m.by)'
  BY DEF RowsInv
<1>2. PICK r \in rows : r.path = o /\ r.content = m.content[o] /\ With(r, m.by)
  BY <1>1 DEF RowsInv, Stored
<1>3. r \in rows'
  BY <1>1, <1>2 DEF Keeps, With, Committed
<1>4. QED
  BY <1>2, <1>3 DEF Keeps, Stored, With, Committed

(* Everything a manifest records was stored, and only committed rows are   *)
(* downloaded.                                                             *)
LEMMA LoadBacked ==
  ASSUME TypeInv, RowsInv, NEW a \in Attempts, Load(a)
  PROVE  AttemptInv(a)'
<1>1. CASE Newest(ManifestPath) = None
  BY <1>1 DEF Load, Goto, TypeInv, Types, AttemptInv, Copied, Passed, Carried
<1>2. CASE Newest(ManifestPath) # None
  <2>1. PICK m \in Visible : m.path = ManifestPath /\ m.content = Newest(ManifestPath)
    BY <1>2, PathFacts, NewestIsVisible
  <2>2. \A o \in Outputs : m.content[o] # None => Stored(o, m.content[o], Owner)
    <3>1. SUFFICES ASSUME NEW o \in Outputs, m.content[o] # None
                   PROVE  Stored(o, m.content[o], Owner)
      OBVIOUS
    <3>2. PICK r \in rows : r.path = o /\ r.content = m.content[o] /\ With(r, m.by)
      BY <2>1, <3>1 DEF RowsInv, Stored, Visible
    <3>3. Committed(r)
      BY <2>1, <3>2 DEF With, Visible, Committed
    <3>4. QED
      BY <3>2, <3>3 DEF Stored, With
  <2>3. /\ pc'[a] = "execute" /\ ws'[a][ManifestPath] = m.content
        /\ UNCHANGED <<rows, committed>>
    BY <1>2, <2>1, PathFacts DEF Load, Goto, run, TypeInv, Types
  <2>4. Copied(a)'
    BY <2>2, <2>3 DEF Copied, Stored, With, Committed
  <2>5. QED
    BY <2>3, <2>4 DEF AttemptInv, Passed, Carried
<1>3. QED
  BY <1>1, <1>2

(* The result and its record enter the copy together.                      *)
LEMMA ExecuteBacked ==
  ASSUME TypeInv, NEW a \in Attempts, AttemptInv(a), Execute(a)
  PROVE  AttemptInv(a)'
<1>1. CASE ws[a][ManifestPath][req[a].output] # None /\ ~req[a].overwrite
  BY <1>1 DEF Execute, Goto, TypeInv, Types, AttemptInv, Copied, Passed, Carried
<1>2. CASE ~(ws[a][ManifestPath][req[a].output] # None /\ ~req[a].overwrite)
  <2>1. /\ pc[a] = "execute" /\ pc'[a] = "publish" /\ ws'[a] = Edited(a)
        /\ pos'[a] = 1 /\ UNCHANGED <<rows, committed, req>>
    <3>1. pc[a] = "execute" /\ pos[a] = 1
      BY DEF Execute, TypeInv, CallInv
    <3>2. ws' = [ws EXCEPT ![a] = Edited(a)]
      BY <1>2, <3>1, EditedIs DEF Execute
    <3>3. pc' = [pc EXCEPT ![a] = "publish"] /\ UNCHANGED <<rows, committed, req, pos>>
      BY <1>2 DEF Execute, Goto, run
    <3>4. QED
      BY <3>1, <3>2, <3>3 DEF TypeInv, Types
  <2>2. Copied(a)'
    <3>1. ASSUME NEW o \in Outputs, Edited(a)[ManifestPath][o] # None
          PROVE  \/ Stored(o, Edited(a)[ManifestPath][o], Owner)
                 \/ Edited(a)[o] = Edited(a)[ManifestPath][o]
      <4>1. CASE o = req[a].output
        BY <2>1, <4>1, EditedIs
      <4>2. CASE o # req[a].output
        BY <2>1, <3>1, <4>2, EditedIs DEF AttemptInv, Copied
      <4>3. QED
        BY <4>1, <4>2
    <3>2. QED
      BY <2>1, <3>1 DEF Copied, Stored, With, Committed
  <2>3. Passed(a)'
    BY <2>1 DEF Passed, Paths
  <2>4. Carried(a)'
    <3>1. Result(a)' = Result(a) /\ req'[a].output = req[a].output
      BY <2>1 DEF Result
    <3>2. /\ Edited(a)[req[a].output] = Result(a)
          /\ Edited(a)[ManifestPath] # None
          /\ Edited(a)[ManifestPath][req[a].output] = Result(a)
      BY <2>1, EditedIs
    <3>3. QED
      BY <2>1, <3>1, <3>2 DEF Carried
  <2>5. QED
    BY <2>2, <2>3, <2>4 DEF AttemptInv
<1>3. QED
  BY <1>1, <1>2

(* After an insert the file it has passed is stored, either as a new row   *)
(* of the attempt or as a committed row that the insert met.               *)
LEMMA InsertBacked ==
  ASSUME TypeInv, Backing, NEW a \in Attempts, Insert(a)
  PROVE  AttemptInv(a)' /\ RowsInv'
<1>1. /\ pc[a] = "publish" /\ pos[a] \in Paths /\ Here(a) = pos[a] /\ Payload(a) = ws[a][pos[a]]
      /\ pos'[a] = pos[a] + 1 /\ UNCHANGED <<committed, req, ws>>
      /\ pc'[a] = IF pos[a] = ManifestPath THEN "commit" ELSE "publish"
  BY PathFacts DEF Insert, Advance, Goto, Here, FileAt, Payload, TypeInv, Types, CallInv,
     Paths
<1>2. /\ rows \subseteq rows'
      /\ \A r \in rows' : r \in rows \/ (r.path = pos[a] /\ r.content = ws[a][pos[a]] /\ r.by = a)
  BY <1>1 DEF Insert, AddRow
<1>3. ws[a][pos[a]] # None =>
        \E r \in rows' : r.path = pos[a] /\ r.content = ws[a][pos[a]] /\ With(r, a)
  <2>1. CASE SameKey(a) # {}
    <3>1. PICK r \in SameKey(a) : TRUE
      BY <2>1
    <3>2. r \in rows /\ r.path = pos[a] /\ r.content = ws[a][pos[a]]
      BY <1>1, <3>1 DEF SameKey
    <3>3. r.by \in Attempts \cup {Owner}
      BY <3>2 DEF TypeInv, Types, RowAt
    <3>4. With(r, a)
      BY <1>1, <3>1, <3>3 DEF Insert, WaitsFor, With, Committed
    <3>5. QED
      BY <1>2, <3>2, <3>4
  <2>2. CASE SameKey(a) = {} /\ ws[a][pos[a]] # None
    <3>1. rows' = rows \cup {[id |-> nextId, path |-> pos[a], content |-> ws[a][pos[a]], by |-> a]}
      BY <1>1, <2>2 DEF Insert, AddRow
    <3>. DEFINE new == [id |-> nextId, path |-> pos[a], content |-> ws[a][pos[a]], by |-> a]
    <3>2. new \in rows' /\ new.path = pos[a] /\ new.content = ws[a][pos[a]] /\ new.by = a
      BY <3>1
    <3>3. HIDE DEF new
    <3>4. QED
      BY <3>2 DEF With
  <2>3. QED
    BY <2>1, <2>2
<1>4. Copied(a) /\ Passed(a) /\ Carried(a) /\ RowsInv
  BY DEF Backing, AttemptInv
<1>5. Copied(a)'
  BY <1>1, <1>2, <1>4 DEF Copied, Stored, With, Committed
<1>6. \A x \in Paths : x < pos[a] + 1 /\ ws[a][x] # None =>
        \E r \in rows' : r.path = x /\ r.content = ws[a][x] /\ With(r, a)
  <2>1. SUFFICES ASSUME NEW x \in Paths, x < pos[a] + 1, ws[a][x] # None
                 PROVE  \E r \in rows' : r.path = x /\ r.content = ws[a][x] /\ With(r, a)
    OBVIOUS
  <2>2. x < pos[a] \/ x = pos[a]
    <3>1. x \in Nat /\ pos[a] \in Nat
      BY <1>1, <2>1 DEF Paths
    <3>2. QED
      BY <2>1, <3>1
  <2>3. CASE x < pos[a]
    BY <1>1, <1>2, <1>4, <2>1, <2>3 DEF Passed, Stored
  <2>4. QED
    BY <1>3, <2>1, <2>2, <2>3
<1>7. Passed(a)'
  <2>1. CASE pos[a] = ManifestPath
    <3>1. \A x \in Paths : x < pos[a] + 1
      BY <2>1, PathFacts
    <3>2. QED
      BY <1>1, <1>6, <2>1, <3>1 DEF Passed, Stored, With, Committed
  <2>2. CASE pos[a] # ManifestPath
    BY <1>1, <1>6, <2>2 DEF Passed, Stored, With, Committed
  <2>3. QED
    BY <2>1, <2>2
<1>8. Carried(a)'
  BY <1>1, <1>4 DEF Carried, Result
<1>9. RowsInv'
  <2>1. SUFFICES ASSUME NEW m \in rows', m.path = ManifestPath,
                        NEW o \in Outputs, m.content[o] # None
                 PROVE  \E r \in rows' : r.path = o /\ r.content = m.content[o] /\ With(r, m.by)
    BY <1>1 DEF RowsInv, Stored, With, Committed
  <2>2. CASE m \in rows
    BY <1>2, <1>4, <2>1, <2>2 DEF RowsInv, Stored
  <2>3. CASE m \notin rows
    <3>1. pos[a] = ManifestPath /\ m.content = ws[a][ManifestPath] /\ m.by = a
      BY <1>2, <2>1, <2>3
    <3>2. CASE Stored(o, ws[a][ManifestPath][o], Owner)
      BY <1>2, <3>1, <3>2 DEF Stored, With, Committed
    <3>3. CASE ws[a][o] = ws[a][ManifestPath][o]
      <4>1. o \in Paths /\ o < pos[a] + 1
        BY <3>1, PathFacts DEF Paths
      <4>2. ws[a][o] = m.content[o]
        BY <3>1, <3>3
      <4>3. QED
        BY <1>6, <2>1, <3>1, <4>1, <4>2
    <3>4. QED
      BY <1>1, <1>4, <2>1, <3>1, <3>2, <3>3 DEF Copied
  <2>4. QED
    BY <2>2, <2>3
<1>10. QED
  BY <1>5, <1>7, <1>8, <1>9 DEF AttemptInv

(* A step of an attempt keeps what is stored backed.                       *)
LEMMA StepBacking ==
  ASSUME TypeInv, Backing, [Next]_vars
  PROVE  Backing'
<1>1. ASSUME NEW a \in Attempts,
             Step(a) \/ Crash(a) \/ \E q \in Requests : SetRunning(a, q)
      PROVE  AttemptInv(a)' /\ RowsInv'
  <2>1. Keeps(a) /\ RowsInv /\ AttemptInv(a)
    BY <1>1, StepKeeps DEF Backing
  <2>2. ASSUME UNCHANGED rows PROVE RowsInv'
    BY <2>1, <2>2, RowsKept
  <2>. USE DEF Goto, run, TypeInv, Types
  <2>3. CASE \E q \in Requests : SetRunning(a, q)
    BY <2>2, <2>3 DEF SetRunning, AttemptInv, Copied, Passed, Carried
  <2>4. CASE Load(a)
    BY <2>1, <2>2, <2>4, LoadBacked DEF Load
  <2>5. CASE Execute(a)
    BY <2>1, <2>2, <2>5, ExecuteBacked DEF Execute
  <2>6. CASE ExecuteRaises(a)
    BY <2>2, <2>6 DEF ExecuteRaises, AttemptInv, Copied, Passed, Carried
  <2>7. CASE Insert(a)
    BY <2>7, InsertBacked
  <2>8. CASE ReadFails(a)
    BY <2>2, <2>8 DEF ReadFails, AttemptInv, Copied, Passed, Carried
  <2>9. CASE Commit(a)
    <3>1. Copied(a)' /\ Carried(a)'
      BY <2>1, <2>9 DEF Commit, AttemptInv, Copied, Carried, Result
    <3>2. Passed(a)'
      BY <2>1, <2>9 DEF Commit, AttemptInv, Passed, Stored, With, Committed
    <3>3. QED
      BY <2>2, <2>9, <3>1, <3>2 DEF Commit, AttemptInv
  <2>10. CASE SetSucceeded(a)
    <3>1. Copied(a)' /\ Carried(a)'
      BY <2>1, <2>10 DEF SetSucceeded, AttemptInv, Copied, Carried, Result
    <3>2. Passed(a)'
      BY <2>1, <2>10 DEF SetSucceeded, AttemptInv, Passed, Stored, With, Committed
    <3>3. QED
      BY <2>2, <2>10, <3>1, <3>2 DEF SetSucceeded, AttemptInv
  <2>11. CASE SetFailed(a)
    BY <2>2, <2>11 DEF SetFailed, AttemptInv, Copied, Passed, Carried
  <2>12. CASE Crash(a)
    <3>1. RowsInv'
      BY <2>1, <2>12, RowsKept DEF Crash
    <3>2. QED
      BY <2>12, <3>1 DEF Crash, AttemptInv, Copied, Passed, Carried
  <2>13. QED
    BY <1>1, <2>3, <2>4, <2>5, <2>6, <2>7, <2>8, <2>9, <2>10, <2>11, <2>12 DEF Step,
       Progress
<1>2. ASSUME NEW a \in Attempts,
             Step(a) \/ Crash(a) \/ \E q \in Requests : SetRunning(a, q)
      PROVE  Backing'
  <2>1. \A b \in Attempts : b # a => AttemptInv(b)'
    BY <1>2, StepKeeps, OthersKept DEF Backing
  <2>2. QED
    BY <1>1, <1>2, <2>1 DEF Backing
<1>3. CASE UNCHANGED vars
  <2>1. RowsInv'
    BY <1>3 DEF vars, run, Backing, RowsInv, Stored, With, Committed
  <2>2. ASSUME NEW a \in Attempts PROVE AttemptInv(a)'
    <3>1. AttemptInv(a)
      BY DEF Backing
    <3>2. QED
      BY <1>3, <3>1 DEF vars, run, AttemptInv, Copied, Passed, Carried, Stored, With,
         Committed, Result
  <2>3. QED
    BY <2>1, <2>2 DEF Backing
<1>4. QED
  BY <1>2, <1>3 DEF Next

(* What the two properties say follows from the invariant.                 *)
LEMMA BackedIsVisible ==
  ASSUME NEW x, NEW c, NEW b, Stored(x, c, b), b = Owner \/ b \in committed
  PROVE  \E r \in Visible : r.path = x /\ r.content = c
  BY DEF Stored, With, Committed, Visible

\* A downloadable manifest records only stored ciphertexts, for any number of
\* racing attempts that crash and fail anywhere.
THEOREM ManifestsStayBacked == Spec => []ManifestsBacked
<1>1. Init => TypeInv /\ Backing
  BY InitTypeInv, InitBacking
<1>2. TypeInv /\ Backing /\ [Next]_vars => (TypeInv /\ Backing)'
  BY StepTypeInv, StepBacking
<1>3. TypeInv /\ Backing => ManifestsBacked
  <2>1. SUFFICES ASSUME Backing, NEW m \in Visible, m.path = ManifestPath,
                        NEW o \in Outputs, m.content[o] # None
                 PROVE  \E r \in Visible : r.path = o /\ r.content = m.content[o]
    BY DEF ManifestsBacked
  <2>2. Stored(o, m.content[o], m.by)
    BY <2>1 DEF Backing, RowsInv, Visible
  <2>3. m.by = Owner \/ m.by \in committed
    BY <2>1 DEF Visible, Committed
  <2>4. QED
    BY <2>2, <2>3, BackedIsVisible
<1>4. QED
  BY <1>1, <1>2, <1>3, PTL DEF Spec

\* An attempt that has returned left its output and a manifest that records it.
THEOREM ReportedIsPublished == Spec => []SucceededIsPublished
<1>1. Init => TypeInv /\ Backing
  BY InitTypeInv, InitBacking
<1>2. TypeInv /\ Backing /\ [Next]_vars => (TypeInv /\ Backing)'
  BY StepTypeInv, StepBacking
<1>3. TypeInv /\ Backing => SucceededIsPublished
  <2>1. SUFFICES ASSUME TypeInv, Backing, NEW a \in Attempts, pc[a] = "succeeded"
                 PROVE  /\ \E r \in Visible : r.path = req[a].output /\ r.content = Result(a)
                        /\ \E r \in Visible :
                             r.path = ManifestPath /\ r.content[req[a].output] = Result(a)
    BY DEF SucceededIsPublished
  <2>2. Passed(a) /\ Carried(a)
    BY <2>1 DEF Backing, AttemptInv
  <2>3. req[a].output \in Paths /\ Result(a) # None
    BY <2>1, PathFacts DEF TypeInv, CallInv, Result, Results
  <2>4. Stored(req[a].output, Result(a), a)
    BY <2>1, <2>2, <2>3 DEF Passed, Carried
  <2>5. Stored(ManifestPath, ws[a][ManifestPath], a)
    BY <2>1, <2>2, PathFacts DEF Passed, Carried
  <2>6. a \in committed /\ ws[a][ManifestPath][req[a].output] = Result(a)
    BY <2>1, <2>2 DEF Carried
  <2>7. QED
    BY <2>4, <2>5, <2>6 DEF Stored, With, Committed, Visible
<1>4. QED
  BY <1>1, <1>2, <1>3, PTL DEF Spec

-----------------------------------------------------------------------------
(* Nobody has inserted anything yet.                                       *)
LEMMA InitAheadInv == Init => AheadInv
  BY DEF Init, AheadInv, Committed

(* Only an insert adds a row, and it leaves it behind.                     *)
LEMMA StepAheadInv ==
  ASSUME TypeInv, AheadInv, [Next]_vars
  PROVE  AheadInv'
<1>1. ASSUME NEW a \in Attempts, Insert(a)
      PROVE  AheadInv'
  <2>1. /\ pos[a] \in Nat /\ pos' = [pos EXCEPT ![a] = pos[a] + 1] /\ committed' = committed
        /\ \A r \in rows' : r \in rows \/ (r.path = pos[a] /\ r.by = a)
    BY <1>1, PathFacts DEF Insert, Advance, AddRow, Here, FileAt, TypeInv, Types
  <2>2. SUFFICES ASSUME NEW r \in rows', r.by \in Attempts, ~Committed(r)
                 PROVE  r.path < pos'[r.by]
    BY <2>1 DEF AheadInv, Committed
  <2>3. CASE r \in rows
    <3>1. r.path < pos[r.by]
      BY <2>2, <2>3 DEF AheadInv
    <3>2. r.path \in Nat /\ pos[r.by] \in Nat /\ pos'[r.by] \in {pos[r.by], pos[r.by] + 1}
      <4>1. r.path \in Nat
        BY <2>3, PathFacts DEF TypeInv, Types
      <4>2. pos[r.by] \in 1..(ManifestPath + 1)
        BY <2>2 DEF TypeInv, Types
      <4>3. pos'[r.by] \in {pos[r.by], pos[r.by] + 1}
        BY <2>1, <2>2 DEF TypeInv, Types
      <4>4. QED
        BY <4>1, <4>2, <4>3
    <3>3. QED
      BY <3>1, <3>2
  <2>4. CASE r \notin rows
    BY <2>1, <2>2, <2>4 DEF TypeInv, Types
  <2>5. QED
    BY <2>3, <2>4
<1>2. CASE rows' \subseteq rows /\ committed \subseteq committed' /\ pos' = pos
  BY <1>2 DEF AheadInv, Committed
<1>3. ASSUME NEW a \in Attempts,
             Step(a) \/ Crash(a) \/ \E q \in Requests : SetRunning(a, q), ~Insert(a)
      PROVE  rows' \subseteq rows /\ committed \subseteq committed' /\ pos' = pos
  <2>. USE DEF run
  <2>1. CASE \E q \in Requests : SetRunning(a, q)
    BY <2>1 DEF SetRunning
  <2>2. CASE Load(a)
    BY <2>2 DEF Load
  <2>3. CASE Execute(a)
    BY <2>3 DEF Execute
  <2>4. CASE ExecuteRaises(a)
    BY <2>4 DEF ExecuteRaises
  <2>5. CASE ReadFails(a)
    BY <2>5 DEF ReadFails
  <2>6. CASE Commit(a)
    BY <2>6 DEF Commit
  <2>7. CASE SetSucceeded(a)
    BY <2>7 DEF SetSucceeded
  <2>8. CASE SetFailed(a)
    BY <2>8 DEF SetFailed
  <2>9. CASE Crash(a)
    BY <2>9 DEF Crash
  <2>10. QED
    BY <1>3, <2>1, <2>2, <2>3, <2>4, <2>5, <2>6, <2>7, <2>8, <2>9 DEF Step, Progress
<1>4. CASE UNCHANGED vars
  BY <1>2, <1>4 DEF vars, run
<1>5. QED
  BY <1>1, <1>2, <1>3, <1>4 DEF Next

(* An attempt waits only for attempts that are ahead of it.                *)
LEMMA WaitsForward ==
  ASSUME TypeInv, AheadInv, NEW a \in Attempts, NEW b \in Attempts, WaitsFor(a, b)
  PROVE  pos[a] < pos[b]
<1>1. PICK r \in rows : r.path = pos[a] /\ r.by = b /\ ~Committed(r)
  BY DEF WaitsFor, SameKey, Here, FileAt
<1>2. QED
  BY <1>1 DEF AheadInv

(* In every set of attempts one is as far as any.                          *)
LEMMA SomeIsFirst ==
  ASSUME TypeInv, NEW S \in SUBSET Attempts, S # {}
  PROVE  \E a \in S : \A b \in S : pos[b] <= pos[a]
<1>. DEFINE Left(a) == ManifestPath + 1 - pos[a]
            T == {Left(a) : a \in S}
<1>1. \A a \in S : Left(a) \in Nat /\ pos[a] \in Nat
  <2>1. \A a \in S : pos[a] \in 1..(ManifestPath + 1)
    BY DEF TypeInv, Types
  <2>2. ManifestPath \in Nat
    BY PathFacts
  <2>3. QED
    BY <2>1, <2>2
<1>2. T \in SUBSET Nat /\ T # {}
  BY <1>1
<1>3. PICK n \in T : \A m \in T : ~(<<m, n>> \in OpToRel(<, Nat))
  <2>. HIDE DEF T
  <2>1. QED
    BY <1>2, NatLessThanWellFounded, WFMin
<1>4. PICK a \in S : n = Left(a)
  BY DEF T
<1>5. ASSUME NEW b \in S PROVE pos[b] <= pos[a]
  <2>1. Left(b) \in T
    BY DEF T
  <2>2. ~(Left(b) < Left(a))
    BY <1>1, <1>3, <1>4, <2>1 DEF OpToRel
  <2>3. QED
    BY <1>1, <2>2, PathFacts
<1>6. QED
  BY <1>5

\* Racing inserts never wait in a circle: every copy is published in one order.
THEOREM InsertsNeverDeadlock == Spec => []NoWaitCycle
<1>1. Init => TypeInv /\ AheadInv
  BY InitTypeInv, InitAheadInv
<1>2. TypeInv /\ AheadInv /\ [Next]_vars => (TypeInv /\ AheadInv)'
  BY StepTypeInv, StepAheadInv
<1>3. TypeInv /\ AheadInv => NoWaitCycle
  <2>1. SUFFICES ASSUME TypeInv, AheadInv, NEW S \in SUBSET Attempts, S # {}
                 PROVE  \E a \in S : \A b \in S : ~WaitsFor(a, b)
    BY DEF NoWaitCycle
  <2>2. PICK a \in S : \A b \in S : pos[b] <= pos[a]
    BY <2>1, SomeIsFirst
  <2>3. ASSUME NEW b \in S, WaitsFor(a, b) PROVE FALSE
    <3>1. pos[a] < pos[b]
      BY <2>1, <2>3, WaitsForward
    <3>2. pos[a] \in Nat /\ pos[b] \in Nat
      BY <2>1, PathFacts DEF TypeInv, Types
    <3>3. QED
      BY <2>2, <3>1, <3>2
  <2>4. QED
    BY <2>3
<1>4. QED
  BY <1>1, <1>2, <1>3, PTL DEF Spec

-----------------------------------------------------------------------------
(* A row that is not committed belongs to an open transaction: its attempt *)
(* is still publishing, or about to give up.                               *)
LiveRows ==
  \A r \in rows : ~Committed(r) => pc[r.by] \in {"publish", "commit", "fail"}

(* Whenever attempts are under way one of them waits for nobody.           *)
SomeoneGoes ==
  (\E a \in Attempts : pc[a] \in Active) =>
    \E a \in Attempts : pc[a] \in Active /\ \A b \in Attempts : ~WaitsFor(a, b)

(* How many steps an attempt has left at most.                             *)
Distance(a) ==
  CASE pc[a] = "new" -> ManifestPath + 6
    [] pc[a] = "load" -> ManifestPath + 5
    [] pc[a] = "execute" -> ManifestPath + 4
    [] pc[a] = "publish" -> ManifestPath + 4 - pos[a]
    [] pc[a] = "commit" -> 3
    [] pc[a] \in {"succeed", "fail"} -> 2
    [] OTHER -> 1

(* Every step brings one attempt nearer to its end and no other one back.  *)
Wears ==
  [][\E a \in Attempts :
       /\ Distance(a)' < Distance(a)
       /\ \A b \in Attempts \ {a} : Distance(b)' = Distance(b)]_vars

(* The rows a run starts with are the owner's.                             *)
LEMMA InitLiveRows == Init => LiveRows
  BY DEF Init, LiveRows, Committed

(* A transaction ends with the step that leaves publishing: it commits its *)
(* rows or removes them.                                                   *)
LEMMA StepLiveRows ==
  ASSUME TypeInv, LiveRows, [Next]_vars
  PROVE  LiveRows'
<1>1. ASSUME NEW a \in Attempts,
             Step(a) \/ Crash(a) \/ \E q \in Requests : SetRunning(a, q)
      PROVE  LiveRows'
  <2>1. committed \subseteq committed' /\ \A b \in Attempts : b # a => pc'[b] = pc[b]
    BY <1>1, StepKeeps DEF Keeps, Untouched
  <2>2. ASSUME NEW r \in rows, r \in rows', ~Committed(r)'
        PROVE  /\ r.by \in Attempts /\ r.by \notin committed' /\ r.by \notin committed
               /\ pc[r.by] \in {"publish", "commit", "fail"}
    BY <2>1, <2>2 DEF LiveRows, Committed, TypeInv, Types, RowAt
  <2>3. CASE Insert(a)
    <3>1. pc'[a] \in {"publish", "commit"} /\ \A r \in rows' : r \in rows \/ r.by = a
      BY <2>3 DEF Insert, Advance, Goto, AddRow, TypeInv, Types
    <3> QED BY <2>1, <2>2, <3>1 DEF LiveRows
  <2>4. CASE ~Insert(a)
    <3>1. rows' \subseteq rows
      BY <1>1, <2>4 DEF Step, Progress, SetRunning, Load, Execute, ExecuteRaises, ReadFails,
         Commit, SetSucceeded, SetFailed, Crash, run
    <3>2. \/ pc[a] \notin {"publish", "commit", "fail"}
          \/ pc'[a] \in {"publish", "commit", "fail"}
          \/ a \in committed'
          \/ \A r \in rows' : r.by # a \/ a \in committed
      BY <1>1, <2>4 DEF Step, Progress, SetRunning, Load, Execute, ExecuteRaises, ReadFails,
         Commit, SetSucceeded, SetFailed, Crash, Goto, TypeInv, Types
    <3>3. ASSUME NEW r \in rows', ~Committed(r)'
          PROVE  pc'[r.by] \in {"publish", "commit", "fail"}
      BY <2>1, <2>2, <3>1, <3>2, <3>3
    <3> QED BY <3>3 DEF LiveRows
  <2> QED BY <2>3, <2>4
<1>2. CASE UNCHANGED vars
  BY <1>2 DEF vars, run, LiveRows, Committed
<1> QED BY <1>1, <1>2 DEF Next

\* While an attempt is under way one of the attempts is held back by nobody:
\* what an insert waits for is the open transaction of an attempt that has
\* inserted further.
THEOREM SomeoneAlwaysGoes == Spec => []SomeoneGoes
<1>1. Init => TypeInv /\ AheadInv /\ LiveRows
  BY InitTypeInv, InitAheadInv, InitLiveRows
<1>2. TypeInv /\ AheadInv /\ LiveRows /\ [Next]_vars => (TypeInv /\ AheadInv /\ LiveRows)'
  BY StepTypeInv, StepAheadInv, StepLiveRows
<1>3. TypeInv /\ AheadInv /\ LiveRows => SomeoneGoes
  <2> SUFFICES ASSUME TypeInv, AheadInv, LiveRows, NEW c \in Attempts, pc[c] \in Active
               PROVE  \E a \in Attempts : pc[a] \in Active /\ \A b \in Attempts : ~WaitsFor(a, b)
    BY DEF SomeoneGoes
  <2> DEFINE S == {a \in Attempts : pc[a] \in Active}
  <2>1. PICK a \in S : \A b \in S : pos[b] <= pos[a]
    BY SomeIsFirst
  <2>2. ASSUME NEW b \in Attempts, WaitsFor(a, b)
        PROVE  FALSE
    <3>1. pos[a] < pos[b]
      BY <2>2, WaitsForward
    <3>2. b \in S
      BY <2>2 DEF WaitsFor, SameKey, LiveRows, Active
    <3>3. pos[a] \in Nat /\ pos[b] \in Nat
      BY <2>2, PathFacts DEF TypeInv, Types
    <3> QED BY <2>1, <3>1, <3>2, <3>3
  <2> QED BY <2>1, <2>2
<1> QED BY <1>1, <1>2, <1>3, PTL DEF Spec

(* The distance of an attempt is that of its label and its position.       *)
LEMMA DistanceIs ==
  ASSUME TypeInv, NEW a \in Attempts
  PROVE  /\ pc[a] = "new" => Distance(a) = ManifestPath + 6
         /\ pc[a] = "load" => Distance(a) = ManifestPath + 5
         /\ pc[a] = "execute" => Distance(a) = ManifestPath + 4
         /\ pc[a] = "publish" => Distance(a) = ManifestPath + 4 - pos[a]
         /\ pc[a] = "commit" => Distance(a) = 3
         /\ pc[a] \in {"succeed", "fail"} => Distance(a) = 2
         /\ pc[a] \in Ended => Distance(a) = 1
         /\ pc[a] \in Active => Distance(a) \in Nat /\ Distance(a) >= 2
         /\ pc[a] \in Active \ {"succeed", "fail"} => Distance(a) >= 3
<1>1. /\ pc[a] = "new" => Distance(a) = ManifestPath + 6
      /\ pc[a] = "load" => Distance(a) = ManifestPath + 5
      /\ pc[a] = "execute" => Distance(a) = ManifestPath + 4
      /\ pc[a] = "publish" => Distance(a) = ManifestPath + 4 - pos[a]
      /\ pc[a] = "commit" => Distance(a) = 3
      /\ pc[a] \in {"succeed", "fail"} => Distance(a) = 2
      /\ pc[a] \in Ended => Distance(a) = 1
  BY DEF Distance, Ended
<1>2. pc[a] = "publish" => pos[a] \in Nat /\ pos[a] <= ManifestPath
  BY DEF TypeInv, Types, CallInv
<1> QED BY <1>1, <1>2, PathFacts DEF Active

\* An attempt that goes on ends: every step of the run brings one attempt
\* nearer to its end and moves no other one away from it.
THEOREM AttemptsWear == Spec => Wears
<1>1. Init => TypeInv
  BY InitTypeInv
<1>2. TypeInv /\ [Next]_vars => TypeInv'
  BY StepTypeInv
<1>3. ASSUME TypeInv, TypeInv', NEW a \in Attempts,
             Step(a) \/ Crash(a) \/ \E q \in Requests : SetRunning(a, q)
      PROVE  /\ Distance(a)' < Distance(a)
             /\ \A b \in Attempts \ {a} : Distance(b)' = Distance(b)
  <2>1. \A b \in Attempts \ {a} : pc'[b] = pc[b] /\ pos'[b] = pos[b]
    BY <1>3, StepKeeps DEF Untouched
  <2>2. \A b \in Attempts \ {a} : Distance(b)' = Distance(b)
    BY <2>1 DEF Distance
  <2>3. /\ pc'[a] = "load" => Distance(a)' = ManifestPath + 5
        /\ pc'[a] = "execute" => Distance(a)' = ManifestPath + 4
        /\ pc'[a] = "publish" => Distance(a)' = ManifestPath + 4 - pos'[a]
        /\ pc'[a] = "commit" => Distance(a)' = 3
        /\ pc'[a] \in {"succeed", "fail"} => Distance(a)' = 2
        /\ pc'[a] \in Ended => Distance(a)' = 1
    BY DEF Distance, Ended
  <2>4. /\ ManifestPath \in Nat /\ ManifestPath >= 1
        /\ pos[a] \in 1..(ManifestPath + 1)
        /\ pc[a] = "publish" => pos[a] <= ManifestPath
        /\ pc[a] = "execute" => pos[a] = 1
    BY <1>3, PathFacts DEF TypeInv, Types, CallInv
  <2>5. \/ pc[a] = "new" /\ pc'[a] \in {"load", "raised"}
        \/ pc[a] = "load" /\ pc'[a] \in {"execute", "fail"}
        \/ pc[a] = "execute" /\ (pc'[a] = "fail" \/ (pc'[a] = "publish" /\ pos'[a] = pos[a]))
        \/ /\ pc[a] = "publish" /\ pos'[a] = pos[a] + 1
           /\ pc'[a] = IF pos[a] = ManifestPath THEN "commit" ELSE "publish"
        \/ pc[a] = "publish" /\ pc'[a] = "fail"
        \/ pc[a] = "commit" /\ pc'[a] = "succeed"
        \/ pc[a] \in {"succeed", "fail"} /\ pc'[a] \in Ended
        \/ pc[a] \in Active /\ pc'[a] = "raised"
    BY <1>3 DEF Step, Progress, SetRunning, Load, Execute, ExecuteRaises, Insert, ReadFails,
       Commit, SetSucceeded, SetFailed, Crash, Goto, Advance, TypeInv, Types, Ended
  <2>6. Distance(a)' < Distance(a)
    BY <1>3, <2>3, <2>4, <2>5, DistanceIs DEF Ended, Active
  <2> QED BY <2>2, <2>6
<1>4. TypeInv /\ TypeInv' /\ [Next]_vars
        => [\E a \in Attempts :
              /\ Distance(a)' < Distance(a)
              /\ \A b \in Attempts \ {a} : Distance(b)' = Distance(b)]_vars
  BY <1>3 DEF Next
<1> QED BY <1>1, <1>2, <1>4, PTL DEF Spec, Wears

-----------------------------------------------------------------------------
(* Attempts that follow each other.                                        *)

\* At most one attempt at a time, whose local files can be read.
OneByOne == ~Concurrent /\ ~LocalFailures

Alone == \A a, b \in Attempts : pc[a] \in Active /\ pc[b] \in Active => a = b

\* The identity column numbers the rows.
Numbered ==
  /\ \A r \in rows : r.id < nextId
  /\ \A r, s \in rows : r.id = s.id => r = s

\* Where something can be downloaded there is a newest row.
IsTop(r, x) ==
  /\ r \in Visible /\ r.path = x
  /\ \A s \in Visible : s.path = x => s.id <= r.id

Topped == \A r \in Visible : \E t \in Visible : IsTop(t, r.path)

\* The newest manifest records an output as soon as one can be downloaded, and
\* one that any manifest has recorded, though not always the newest of them.
Covered ==
  /\ \A m \in Visible : m.path = ManifestPath =>
       \A o \in Outputs : m.content[o] # None => NewestIndex[o] # None
  /\ \A o \in Outputs : Newest(o) = None <=> NewestIndex[o] = None

\* The rows an attempt has inserted and not committed: at most one for its
\* output and one for its manifest, newer than all that can be downloaded.
Pending(a) ==
  \A r \in rows : r.by = a /\ a \notin committed =>
    /\ pc[a] \in {"publish", "commit"}
    /\ r.path \in {req[a].output, ManifestPath} /\ r.content = ws[a][r.path]
    /\ \A s \in Visible : s.id < r.id
    /\ \A s \in rows : s.by = a /\ s.path = r.path => s = r

\* Its copy is what can be downloaded, with its result added where there was
\* none or one that it may replace.
CopyIsNewest(a) ==
  /\ pc[a] = "execute" => \A x \in Paths : ws[a][x] = Newest(x)
  /\ pc[a] \in {"publish", "commit"} =>
       /\ Newest(req[a].output) # None => req[a].overwrite
       /\ Newest(ManifestPath) # None
       /\ \A o \in Outputs \ {req[a].output} : ws[a][o] = Newest(o)
       /\ ws[a][ManifestPath] = [Newest(ManifestPath) EXCEPT ![req[a].output] = Result(a)]

OwnTurn(a) ==
  /\ pc[a] \in {"new", "load", "execute", "publish", "commit", "fail"} => a \notin committed
  /\ Pending(a) /\ CopyIsNewest(a)

TurnInv ==
  /\ Alone /\ Numbered /\ Topped /\ Covered
  /\ \A a \in Attempts : OwnTurn(a)

-----------------------------------------------------------------------------
(* What is newest.                                                         *)

(* Two rows are not newest at once.                                        *)
LEMMA TopIsNewest ==
  ASSUME Types, Numbered, NEW x \in Paths, NEW r, IsTop(r, x)
  PROVE  Newest(x) = r.content /\ Newest(x) # None /\ Newest(x) \in ContentOf(x)
<1>1. r \in rows /\ r.path = x /\ r.content \in ContentOf(x)
  BY DEF IsTop, Visible, Types, RowAt
<1>2. ASSUME NEW s, IsTop(s, x)
      PROVE  s = r
  <2>1. s \in rows /\ s.id \in Nat /\ r.id \in Nat /\ s.id <= r.id /\ r.id <= s.id
    BY <1>2 DEF IsTop, Visible, Types, RowAt
  <2> QED BY <1>1, <2>1 DEF Numbered
<1>3. DEFINE top == {s \in Visible : /\ s.path = x
                                     /\ \A u \in Visible : u.path = x => u.id <= s.id}
<1>4. \A s \in top : IsTop(s, x)
  BY DEF IsTop
<1>5. r \in top
  BY DEF IsTop
<1>6. (CHOOSE s \in top : TRUE) = r
  BY <1>2, <1>4, <1>5
<1>7. Newest(x) = (CHOOSE s \in top : TRUE).content
  BY <1>5 DEF Newest
<1>8. r.content # None
  BY <1>1 DEF ContentOf
<1> QED BY <1>1, <1>6, <1>7, <1>8

(* Nothing is newest exactly where there is nothing.                       *)
LEMMA NothingNewest ==
  ASSUME Types, Numbered, Topped, NEW x \in Paths
  PROVE  Newest(x) = None <=> \A r \in Visible : r.path # x
<1>1. ASSUME \A r \in Visible : r.path # x
      PROVE  Newest(x) = None
  BY <1>1 DEF Newest
<1>2. ASSUME NEW r \in Visible, r.path = x
      PROVE  Newest(x) # None
  BY <1>2, TopIsNewest DEF Topped
<1> QED BY <1>1, <1>2

(* A row newer than the others of its path is the one that is chosen.      *)
LEMMA TopIsChosen ==
  ASSUME NEW V, NEW x, NEW r \in V, r.path = x, \A s \in V : s.id \in Nat,
         \A s \in V : s.path = x => s = r \/ s.id < r.id
  PROVE  LET top == {t \in V : t.path = x /\ \A s \in V : s.path = x => s.id <= t.id}
         IN  top # {} /\ (CHOOSE t \in top : TRUE) = r
<1> DEFINE top == {t \in V : t.path = x /\ \A s \in V : s.path = x => s.id <= t.id}
<1>1. \A s \in V : s.path = x => s.id <= r.id
  OBVIOUS
<1>2. r \in top
  BY <1>1
<1>3. ASSUME NEW t \in top
      PROVE  t = r
  <2>1. t \in V /\ t.path = x /\ r.id <= t.id
    OBVIOUS
  <2>2. ~(t.id < r.id)
    BY <2>1
  <2> QED BY <2>1, <2>2
<1>4. (CHOOSE t \in top : TRUE) = r
  <2> HIDE DEF top
  <2> QED BY <1>2, <1>3
<1> QED BY <1>2, <1>4

(* What is newest depends on what can be downloaded only.                  *)
LEMMA SameVisible ==
  ASSUME Visible' = Visible
  PROVE  /\ \A x \in Paths : Newest(x)' = Newest(x)
         /\ \A o \in Outputs : Newest(o)' = Newest(o)
         /\ NewestIndex' = NewestIndex
         /\ Topped => Topped'
         /\ Covered => Covered'
<1>1. \A x \in Paths : Newest(x)' = Newest(x)
  BY DEF Newest
<1>2. NewestIndex' = NewestIndex
  BY <1>1, PathFacts DEF NewestIndex
<1>3. \A o \in Outputs : Newest(o)' = Newest(o)
  BY <1>1, PathFacts
<1>4. Topped => Topped'
  BY DEF Topped, IsTop
<1>5. Covered => Covered'
  BY <1>2, <1>3 DEF Covered
<1> QED BY <1>1, <1>2, <1>3, <1>4, <1>5

-----------------------------------------------------------------------------
(* One attempt at a time.                                                  *)

Acts(a) == Step(a) \/ Crash(a) \/ \E q \in Requests : SetRunning(a, q)

(* While an attempt acts the others are not active.                        *)
LEMMA OthersIdle ==
  ASSUME OneByOne, TypeInv, TurnInv, NEW a \in Attempts, Acts(a)
  PROVE  /\ \A b \in Attempts : b # a => pc[b] \notin Active /\ Untouched(b)
         /\ Alone'
<1>1. \A b \in Attempts : b # a => Untouched(b)
  BY StepKeeps DEF Acts
<1>2. \A b \in Attempts : b # a => pc[b] \notin Active
  <2>1. CASE \E q \in Requests : SetRunning(a, q)
    BY <2>1 DEF SetRunning, OneByOne
  <2>2. CASE pc[a] \in Active
    BY <2>2 DEF TurnInv, Alone
  <2>3. Step(a) \/ Crash(a) => pc[a] \in Active
    BY DEF Step, Progress, Load, Execute, ExecuteRaises, Insert, ReadFails, Commit,
       SetSucceeded, SetFailed, Crash, Active
  <2> QED BY <2>1, <2>2, <2>3 DEF Acts
<1>3. Alone'
  BY <1>1, <1>2 DEF Alone, Untouched
<1> QED BY <1>1, <1>2, <1>3

(* Nothing of the others is pending.                                       *)
LEMMA OthersOwn ==
  ASSUME OneByOne, TypeInv, TurnInv, NEW a \in Attempts, Acts(a),
         \A r \in rows' : r \in rows \/ r.by = a,
         committed \subseteq committed', committed' \subseteq committed \cup {a}
  PROVE  \A b \in Attempts : b # a => OwnTurn(b)'
<1>1. ASSUME NEW b \in Attempts, b # a
      PROVE  OwnTurn(b)'
  <2>1. pc[b] \notin Active /\ pc'[b] = pc[b] /\ OwnTurn(b)
    BY <1>1, OthersIdle DEF Untouched, TurnInv
  <2>2. pc'[b] \notin {"publish", "commit", "execute"}
    BY <2>1 DEF Active
  <2>3. Pending(b)'
    BY <1>1, <2>1, <2>2 DEF OwnTurn, Pending
  <2> QED BY <1>1, <2>1, <2>2, <2>3 DEF OwnTurn, CopyIsNewest
<1> QED BY <1>1

(* A step that changes nothing that can be downloaded.                     *)
LEMMA QuietTurn ==
  ASSUME OneByOne, TypeInv, TurnInv, NEW a \in Attempts, Acts(a),
         \A r \in rows' : r \in rows \/ r.by = a,
         committed \subseteq committed', committed' \subseteq committed \cup {a},
         Visible' = Visible, Numbered', OwnTurn(a)'
  PROVE  TurnInv'
  BY OthersIdle, OthersOwn, SameVisible DEF TurnInv

(* Before and after it publishes an attempt has nothing pending.           *)
LEMMA NothingPending ==
  ASSUME TurnInv, NEW a \in Attempts, a \notin committed, pc[a] \notin {"publish", "commit"}
  PROVE  \A r \in rows : r.by # a
  BY DEF TurnInv, OwnTurn, Pending

(* An attempt that is not publishing owns nothing that matters.            *)
LEMMA NotPublishing ==
  ASSUME NEW a \in Attempts, pc'[a] \notin {"publish", "commit"},
         a \in committed' \/ \A r \in rows' : r.by # a,
         pc'[a] \in {"new", "load", "execute", "fail"} => a \notin committed',
         pc'[a] = "execute" => \A x \in Paths : ws'[a][x] = Newest(x)'
  PROVE  OwnTurn(a)'
<1>1. Pending(a)'
  BY DEF Pending
<1>2. CopyIsNewest(a)'
  BY DEF CopyIsNewest
<1> QED BY <1>1, <1>2 DEF OwnTurn

(* An attempt that is publishing is the only one with rows that are not    *)
(* committed.                                                              *)
LEMMA OthersCommitted ==
  ASSUME TypeInv, TurnInv, NEW a \in Attempts, pc[a] \in {"publish", "commit"}
  PROVE  \A r \in rows : r \in Visible \/ r.by = a
<1>1. SUFFICES ASSUME NEW r \in rows, ~Committed(r)
               PROVE  r.by = a
  BY DEF Visible
<1>2. r.by \in Attempts /\ r.by \notin committed
  BY <1>1 DEF Committed, TypeInv, Types, RowAt
<1>3. pc[r.by] \in Active
  BY <1>1, <1>2 DEF TurnInv, OwnTurn, Pending, Active
<1> QED BY <1>2, <1>3 DEF TurnInv, Alone, Active

-----------------------------------------------------------------------------
(* Each action keeps the invariant.                                        *)

(* Starting an attempt.                                                    *)
LEMMA StartTurn ==
  ASSUME OneByOne, TypeInv, TurnInv, NEW a \in Attempts, NEW q \in Requests, SetRunning(a, q)
  PROVE  TurnInv' /\ Visible' = Visible
<1>1. Acts(a) /\ pc[a] = "new" /\ a \notin committed /\ UNCHANGED <<rows, nextId, committed>>
  BY DEF Acts, SetRunning, TurnInv, OwnTurn
<1>2. pc'[a] \in {"load", "raised"}
  BY <1>1 DEF SetRunning, Goto, TypeInv, Types
<1>3. OwnTurn(a)'
  BY <1>1, <1>2, NothingPending, NotPublishing
<1>4. Visible' = Visible /\ Numbered'
  BY <1>1 DEF Visible, Committed, TurnInv, Numbered
<1> QED BY <1>1, <1>3, <1>4, QuietTurn

(* Downloading: the copy is what is newest.                                *)
LEMMA LoadTurn ==
  ASSUME OneByOne, TypeInv, TurnInv, NEW a \in Attempts, Load(a)
  PROVE  TurnInv' /\ Visible' = Visible
<1>1. Acts(a) /\ pc[a] = "load" /\ a \notin committed /\ UNCHANGED <<rows, nextId, committed, req>>
  BY DEF Acts, Step, Progress, Load, run, TurnInv, OwnTurn
<1>2. Visible' = Visible /\ Numbered'
  BY <1>1 DEF Visible, Committed, TurnInv, Numbered
<1>3. /\ pc'[a] \in {"execute", "fail"}
      /\ pc'[a] = "execute" => \A x \in Paths : ws'[a][x] = Newest(x)
  BY DEF Load, Goto, TypeInv, Types
<1>4. OwnTurn(a)'
  BY <1>1, <1>2, <1>3, SameVisible, NothingPending, NotPublishing
<1> QED BY <1>1, <1>2, <1>4, QuietTurn

(* Computing: the result and its record are added to the copy, or nothing. *)
LEMMA ExecuteTurn ==
  ASSUME OneByOne, TypeInv, TurnInv, NEW a \in Attempts, Execute(a) \/ ExecuteRaises(a)
  PROVE  TurnInv' /\ Visible' = Visible
<1>1. /\ Acts(a) /\ pc[a] = "execute" /\ a \notin committed
      /\ UNCHANGED <<rows, nextId, committed, req>>
  BY DEF Acts, Step, Progress, Execute, ExecuteRaises, run, TurnInv, OwnTurn
<1>2. Visible' = Visible /\ Numbered'
  BY <1>1 DEF Visible, Committed, TurnInv, Numbered
<1>3. CASE pc'[a] = "fail"
  <2>1. OwnTurn(a)'
    BY <1>1, <1>3, NothingPending, NotPublishing
  <2> QED BY <1>1, <1>2, <2>1, QuietTurn
<1>4. CASE pc'[a] # "fail"
  <2>1. req[a].output \in Outputs
    BY <1>1 DEF TypeInv, CallInv, Active
  <2>2. /\ ws[a][ManifestPath][req[a].output] = None \/ req[a].overwrite
        /\ pc'[a] = "publish" /\ ws'[a] = Edited(a)
    <3>1. Execute(a) /\ pc' # [pc EXCEPT ![a] = "fail"]
      BY <1>4 DEF ExecuteRaises, Goto, TypeInv, Types
    <3>2. /\ ws[a][ManifestPath][req[a].output] = None \/ req[a].overwrite
          /\ pc' = [pc EXCEPT ![a] = "publish"] /\ ws' = [ws EXCEPT ![a] = Edited(a)]
      BY <1>1, <3>1, EditedIs DEF Execute, Goto
    <3> QED BY <3>2 DEF TypeInv, Types
  <2>3. \A x \in Paths : ws[a][x] = Newest(x)
    BY <1>1 DEF TurnInv, OwnTurn, CopyIsNewest
  <2>4. Newest(ManifestPath) # None /\ NewestIndex = Newest(ManifestPath)
    BY <1>1, <2>3, PathFacts DEF TypeInv, CallInv, NewestIndex
  <2>5. Newest(req[a].output) # None => req[a].overwrite
    BY <2>1, <2>2, <2>3, <2>4, PathFacts DEF TurnInv, Covered
  <2>6. /\ \A o \in Outputs \ {req[a].output} : Edited(a)[o] = Newest(o)
        /\ Edited(a)[ManifestPath] = [Newest(ManifestPath) EXCEPT ![req[a].output] = Result(a)]
    BY <1>1, <2>3, PathFacts, EditedIs
  <2>7. Result(a)' = Result(a)
    BY <1>1 DEF Result
  <2>8. CopyIsNewest(a)'
    <3>1. \A x \in Paths : Newest(x)' = Newest(x)
      BY <1>2, SameVisible
    <3> QED BY <1>1, <2>1, <2>2, <2>4, <2>5, <2>6, <2>7, <3>1, PathFacts DEF CopyIsNewest
  <2>9. Pending(a)'
    BY <1>1, NothingPending DEF Pending
  <2> QED BY <1>1, <1>2, <2>2, <2>8, <2>9, QuietTurn DEF OwnTurn
<1> QED BY <1>3, <1>4

(* Inserting: everything but the result and its record is there already.   *)
LEMMA InsertTurn ==
  ASSUME OneByOne, TypeInv, AheadInv, TurnInv, NEW a \in Attempts, Insert(a)
  PROVE  TurnInv' /\ Visible' = Visible
<1> DEFINE o == req[a].output
           x == pos[a]
<1>1. /\ Acts(a) /\ pc[a] = "publish" /\ a \notin committed
      /\ UNCHANGED <<committed, req, ws>> /\ x \in Paths /\ x \in Nat
      /\ pc'[a] = IF x = ManifestPath THEN "commit" ELSE "publish"
  BY PathFacts DEF Acts, Step, Progress, Insert, Advance, Goto, TurnInv, OwnTurn, TypeInv,
     Types, CallInv, Paths
<1>2. /\ o \in Outputs /\ Pending(a) /\ CopyIsNewest(a)
  BY <1>1 DEF TypeInv, CallInv, Active, TurnInv, OwnTurn
<1>3. Here(a) = x /\ Payload(a) = ws[a][x]
  BY DEF Here, FileAt, Payload
<1>4. \A r \in rows' : r \in rows \/ (r.by = a /\ r \notin Visible')
  BY <1>1, <1>3 DEF Insert, AddRow, Visible, Committed
<1>5. rows \subseteq rows'
  BY DEF Insert, AddRow
<1>6. Visible' = Visible
  BY <1>1, <1>4, <1>5 DEF Visible, Committed
<1>7. CopyIsNewest(a)'
  <2>1. \A y \in Paths : Newest(y)' = Newest(y)
    BY <1>6, SameVisible
  <2>2. Result(a)' = Result(a)
    BY <1>1 DEF Result
  <2> QED BY <1>1, <1>2, <2>1, <2>2, PathFacts DEF CopyIsNewest
<1>8. CASE UNCHANGED <<rows, nextId>>
  <2>1. Pending(a)' /\ Numbered'
    BY <1>1, <1>2, <1>6, <1>8 DEF Pending, TurnInv, Numbered
  <2> QED BY <1>1, <1>4, <1>6, <1>7, <2>1, QuietTurn DEF OwnTurn
<1>9. CASE ~UNCHANGED <<rows, nextId>>
  <2>1. ws[a][x] # None /\ SameKey(a) = {} /\ AddRow(a, a)
    BY <1>3, <1>9 DEF Insert
  <2>2. x \in {o, ManifestPath}
    <3>1. SUFFICES ASSUME x \notin {o, ManifestPath}
                   PROVE  FALSE
      OBVIOUS
    <3>2. x \in Outputs \ {o} /\ ws[a][x] = Newest(x)
      BY <1>1, <1>2, <3>1, PathFacts DEF CopyIsNewest
    <3> QED BY <1>1, <1>3, <2>1, <3>2, NewestIsVisible DEF SameKey, Visible
  <2> DEFINE new == [id |-> nextId, path |-> x, content |-> ws[a][x], by |-> a]
  <2>3. rows' = rows \cup {new} /\ nextId' = nextId + 1 /\ nextId \in Nat
    BY <1>3, <2>1 DEF AddRow, TypeInv, Types
  <2>4. new.id = nextId /\ new.path = x /\ new.content = ws[a][x] /\ new.by = a
    OBVIOUS
  <2> HIDE DEF new
  <2>5. \A r \in rows : r.id \in Nat /\ r.id < nextId /\ r.path \in Nat
    BY PathFacts DEF TurnInv, Numbered, TypeInv, Types, RowAt
  <2>6. Numbered'
    BY <2>3, <2>4, <2>5 DEF TurnInv, Numbered
  <2>7. \A r \in rows : r.by = a => r.path < x
    BY <1>1 DEF AheadInv, Committed
  <2>8. Pending(a)'
    <3>1. \A s \in Visible : s.id < nextId
      BY <2>5 DEF Visible
    <3>2. ASSUME NEW r \in rows', r.by = a
          PROVE  /\ r.path \in {o, ManifestPath} /\ r.content = ws[a][r.path]
                 /\ \A s \in Visible : s.id < r.id
                 /\ \A s \in rows' : s.by = a /\ s.path = r.path => s = r
      <4>1. CASE r = new
        BY <2>2, <2>3, <2>4, <2>5, <2>7, <3>1, <4>1
      <4>2. CASE r \in rows
        BY <1>1, <1>2, <2>3, <2>4, <2>5, <2>7, <3>2, <4>2 DEF Pending
      <4> QED BY <2>3, <4>1, <4>2
    <3> QED BY <1>1, <1>6, <3>2 DEF Pending
  <2> QED BY <1>1, <1>4, <1>6, <1>7, <2>6, <2>8, QuietTurn DEF OwnTurn
<1> QED BY <1>8, <1>9

(* The end of an attempt.                                                  *)
LEMMA EndTurn ==
  ASSUME OneByOne, TypeInv, Backing, TurnInv, NEW a \in Attempts,
         SetSucceeded(a) \/ SetFailed(a) \/ Crash(a)
  PROVE  TurnInv' /\ Visible' = Visible
<1>1. Acts(a) /\ nextId' = nextId /\ req' = req /\ rows' \subseteq rows
      /\ committed \subseteq committed' /\ committed' \subseteq committed \cup {a}
  BY DEF Acts, Step, Progress, SetSucceeded, SetFailed, Crash
<1>2. /\ pc[a] \in Active
      /\ \/ pc[a] = "succeed" /\ pc'[a] = "succeeded" /\ UNCHANGED <<rows, committed>>
         \/ pc[a] = "fail" /\ pc'[a] = "failed" /\ committed' = committed \cup {a} /\ rows' = rows
         \/ /\ pc'[a] = "raised" /\ committed' = committed
            /\ rows' = {r \in rows : r.by # a \/ a \in committed}
  BY DEF SetSucceeded, SetFailed, Crash, Goto, Active, TypeInv, Types
<1>3. pc[a] = "succeed" <=> a \in committed
  BY <1>2 DEF TurnInv, OwnTurn, Backing, AttemptInv, Carried, Active
<1>4. Visible' = Visible
  <2>1. CASE pc'[a] = "failed"
    <3>1. \A r \in rows : r.by # a
      BY <1>2, <1>3, <2>1, NothingPending
    <3> QED BY <1>2, <2>1, <3>1 DEF Visible, Committed
  <2>2. CASE pc'[a] # "failed"
    BY <1>2, <2>2 DEF Visible, Committed
  <2> QED BY <2>1, <2>2
<1>5. Numbered'
  BY <1>1 DEF TurnInv, Numbered
<1>6. OwnTurn(a)'
  BY <1>2, <1>3, NotPublishing
<1> QED BY <1>1, <1>4, <1>5, <1>6, QuietTurn

(* The commit: the rows of the attempt become the newest of their paths,   *)
(* at once.  A file without a row of the attempt is stored already.        *)
LEMMA CommitTurn ==
  ASSUME OneByOne, TypeInv, Backing, TurnInv, NEW a \in Attempts, Commit(a),
         NEW o, o = req[a].output
  PROVE  /\ TurnInv'
         /\ \A p \in Outputs \ {o} :
              Newest(p)' = Newest(p) /\ NewestIndex'[p] = NewestIndex[p]
         /\ Newest(o) # None => req[a].overwrite
         /\ Newest(o) = None => Newest(o)' = Result(a) /\ NewestIndex'[o] = Result(a)
<1> DEFINE Own(x) == \E r \in rows : r.by = a /\ r.path = x
<1>1. /\ Acts(a) /\ pc[a] = "commit" /\ pc'[a] = "succeed" /\ a \notin committed
      /\ committed' = committed \cup {a} /\ UNCHANGED <<rows, nextId, req, ws>>
  BY DEF Acts, Step, Progress, Commit, Goto, TurnInv, OwnTurn, TypeInv, Types
<1>2. /\ o \in Outputs /\ o \in Paths /\ o # ManifestPath
      /\ Pending(a) /\ CopyIsNewest(a) /\ Carried(a) /\ Passed(a) /\ Types
  BY <1>1, PathFacts DEF TypeInv, CallInv, Active, TurnInv, OwnTurn, Backing, AttemptInv
<1>3. /\ Result(a) # None /\ ws[a][o] = Result(a)
      /\ ws[a][ManifestPath] # None /\ ws[a][ManifestPath][o] = Result(a)
  <2>1. Result(a) \in Results
    BY <1>1 DEF TypeInv, CallInv, Active, Result, Results
  <2> QED BY <1>1, <1>2, <2>1 DEF Carried
<1>4. ASSUME NEW r \in rows, r.by = a
      PROVE  /\ r.path \in {o, ManifestPath} /\ r.content = ws[a][r.path]
             /\ \A s \in Visible : s.id < r.id
             /\ \A s \in rows : s.by = a /\ s.path = r.path => s = r
  BY <1>1, <1>2, <1>4 DEF Pending
<1>5. Visible' = Visible \cup {r \in rows : r.by = a}
  BY <1>1 DEF Visible, Committed
<1>6. \A s \in Visible' : s \in rows /\ s.id \in Nat /\ s.path \in Paths
  BY <1>1 DEF Visible, TypeInv, Types, RowAt
<1>7. ASSUME NEW r \in rows, r.by = a
      PROVE  \A s \in Visible' : s.path = r.path => s = r \/ s.id < r.id
  BY <1>4, <1>5, <1>7
<1>8. ASSUME NEW r \in rows, r.by = a
      PROVE  Newest(r.path)' = ws[a][r.path]
  <2>1. r \in Visible' /\ r.content = ws[a][r.path]
    BY <1>4, <1>5, <1>8
  <2>2. \A s \in Visible' : s.path = r.path => s = r \/ s.id < r.id
    BY <1>7, <1>8
  <2> QED BY <1>6, <2>1, <2>2, TopIsChosen DEF Newest
<1>9. ASSUME NEW x \in Paths, ~Own(x)
      PROVE  Newest(x)' = Newest(x)
  <2> DEFINE top == {t \in Visible : t.path = x /\ \A s \in Visible : s.path = x => s.id <= t.id}
  <2>1. top' = top
    BY <1>5, <1>9
  <2>2. Newest(x) = IF top = {} THEN None ELSE (CHOOSE t \in top : TRUE).content
    BY DEF Newest
  <2>3. Newest(x)' = IF top' = {} THEN None ELSE (CHOOSE t \in top' : TRUE).content
    BY DEF Newest
  <2> HIDE DEF top
  <2> QED BY <2>1, <2>2, <2>3
<1>10. Numbered'
  BY <1>1 DEF TurnInv, Numbered
<1>11. Topped'
  <2>1. SUFFICES ASSUME NEW r \in Visible'
                 PROVE  \E t \in Visible' : /\ t.path = r.path
                                            /\ \A s \in Visible' : s.path = r.path => s.id <= t.id
    BY DEF Topped, IsTop
  <2>2. CASE Own(r.path)
    <3>1. PICK t \in rows : t.by = a /\ t.path = r.path
      BY <2>2
    <3>2. t \in Visible' /\ t.id \in Nat
      BY <1>5, <1>6, <3>1
    <3>3. ASSUME NEW s \in Visible', s.path = r.path
          PROVE  s.id <= t.id
      BY <1>6, <1>7, <3>1, <3>2, <3>3
    <3> QED BY <3>1, <3>2, <3>3
  <2>3. CASE ~Own(r.path)
    <3>1. r \in Visible
      BY <1>5, <2>3
    <3>2. PICK t \in Visible : IsTop(t, r.path)
      BY <3>1 DEF TurnInv, Topped
    <3> QED BY <1>5, <2>3, <3>2 DEF IsTop
  <2> QED BY <2>2, <2>3
<1>12. /\ Newest(ManifestPath) \in Indexes /\ NewestIndex = Newest(ManifestPath)
       /\ ws[a][ManifestPath] = [NewestIndex EXCEPT ![o] = Result(a)]
       /\ ws[a][ManifestPath] \in Indexes
  <2>1. Newest(ManifestPath) # None
    BY <1>1, <1>2 DEF CopyIsNewest
  <2>2. Newest(ManifestPath) \in Indexes /\ NewestIndex = Newest(ManifestPath)
    BY <1>2, <2>1, PathFacts, NewestType DEF NewestIndex, ContentOf
  <2>3. ws[a][ManifestPath] = [NewestIndex EXCEPT ![o] = Result(a)]
    BY <1>1, <1>2, <2>2 DEF CopyIsNewest
  <2>4. ws[a][ManifestPath] \in ContentOf(ManifestPath) \cup {None}
    BY <1>2, PathFacts DEF Types
  <2> QED BY <1>3, <2>2, <2>3, <2>4 DEF ContentOf
<1>13. ASSUME NEW x \in {o, ManifestPath}, ~Own(x)
       PROVE  \E r \in Visible : r.path = x /\ r.content = ws[a][x]
  <2>1. Stored(x, ws[a][x], a)
    BY <1>1, <1>2, <1>3, PathFacts DEF Passed
  <2> QED BY <1>13, <2>1 DEF Stored, With, Visible
<1>14. (NewestIndex[o] # None /\ ~Own(ManifestPath)) \/ Own(ManifestPath)
  <2>1. SUFFICES ASSUME ~Own(ManifestPath)
                 PROVE  NewestIndex[o] # None
    OBVIOUS
  <2>2. PICK r \in Visible : r.path = ManifestPath /\ r.content = ws[a][ManifestPath]
    BY <1>13, <2>1
  <2>3. r.content[o] # None
    BY <1>3, <2>2
  <2> QED BY <1>2, <2>2, <2>3 DEF TurnInv, Covered
<1>15. Own(ManifestPath) => NewestIndex' = ws[a][ManifestPath]
  <2>1. Own(ManifestPath) => Newest(ManifestPath)' = ws[a][ManifestPath]
    BY <1>8
  <2> QED BY <1>3, <2>1 DEF NewestIndex
<1>16. ~Own(ManifestPath) => NewestIndex' = NewestIndex
  BY <1>9, PathFacts DEF NewestIndex
<1>17. /\ NewestIndex'[o] # None
       /\ \A p \in Outputs \ {o} : NewestIndex'[p] = NewestIndex[p]
  <2>1. CASE Own(ManifestPath)
    BY <1>3, <1>12, <1>15, <2>1 DEF Indexes
  <2>2. CASE ~Own(ManifestPath)
    BY <1>14, <1>16, <2>2
  <2> QED BY <2>1, <2>2
<1>18. Newest(o)' # None
  <2>1. CASE Own(o)
    BY <1>3, <1>8, <2>1
  <2>2. CASE ~Own(o)
    <3>1. \E r \in Visible : r.path = o
      BY <1>13, <2>2
    <3>2. Newest(o) # None
      BY <1>2, <3>1, NothingNewest DEF TurnInv
    <3> QED BY <1>2, <1>9, <2>2, <3>2
  <2> QED BY <2>1, <2>2
<1>19. \A p \in Outputs \ {o} : Newest(p)' = Newest(p)
  <2>1. ASSUME NEW p \in Outputs \ {o}
        PROVE  p \in Paths /\ ~Own(p)
    BY <1>4, PathFacts
  <2> QED BY <1>9, <2>1
<1>20. Covered'
  <2>1. ASSUME NEW p \in Outputs
        PROVE  (Newest(p) = None <=> NewestIndex[p] = None)'
    <3>1. Newest(p) = None <=> NewestIndex[p] = None
      BY DEF TurnInv, Covered
    <3> QED BY <1>17, <1>18, <1>19, <3>1
  <2>2. ASSUME NEW m \in Visible', m.path = ManifestPath, NEW p \in Outputs, m.content[p] # None
        PROVE  NewestIndex'[p] # None
    <3>1. CASE m \in Visible
      <4>1. NewestIndex[p] # None
        BY <2>2, <3>1 DEF TurnInv, Covered
      <4> QED BY <1>17, <4>1
    <3>2. CASE m \notin Visible
      <4>1. m \in rows /\ m.by = a /\ m.content = ws[a][ManifestPath]
        BY <1>4, <1>5, <2>2, <3>2
      <4> QED BY <1>15, <2>2, <4>1
    <3> QED BY <3>1, <3>2
  <2> QED BY <2>1, <2>2 DEF Covered
<1>21. TurnInv'
  <2>1. OwnTurn(a)'
    BY <1>1, NotPublishing
  <2>2. \A b \in Attempts : b # a => OwnTurn(b)'
    BY <1>1, OthersOwn
  <2> QED BY <1>1, <1>10, <1>11, <1>20, <2>1, <2>2, OthersIdle DEF TurnInv
<1>22. Newest(o) # None => req[a].overwrite
  BY <1>1, <1>2 DEF CopyIsNewest
<1>23. ASSUME Newest(o) = None
       PROVE  Newest(o)' = Result(a) /\ NewestIndex'[o] = Result(a)
  <2>1. \A r \in Visible : r.path # o
    BY <1>2, <1>23, NothingNewest DEF TurnInv
  <2>2. Own(o)
    BY <1>13, <2>1
  <2>3. NewestIndex[o] = None
    BY <1>2, <1>23 DEF TurnInv, Covered
  <2>4. Own(ManifestPath)
    BY <1>14, <2>3
  <2> QED BY <1>3, <1>8, <1>15, <2>2, <2>4
<1> QED BY <1>17, <1>19, <1>21, <1>22, <1>23

-----------------------------------------------------------------------------
(* A run that exists starts with its own manifest, or with nothing.        *)
LEMMA InitTurn ==
  ASSUME Init
  PROVE  /\ TurnInv
         /\ \A o \in Outputs : Newest(o) = None /\ NewestIndex[o] = None
<1>1. TypeInv
  BY InitTypeInv
<1>2. Numbered /\ Topped
  <2>1. CASE rows = {}
    BY <2>1 DEF Numbered, Topped, Visible
  <2>2. CASE rows # {}
    <3> DEFINE m == [id |-> 0, path |-> ManifestPath, content |-> EmptyIndex, by |-> Owner]
    <3>1. rows = {m} /\ nextId = 1
      BY <2>2 DEF Init
    <3>2. m.id = 0 /\ m.by = Owner /\ m.path = ManifestPath
      OBVIOUS
    <3> HIDE DEF m
    <3> QED BY <3>1, <3>2 DEF Numbered, Topped, IsTop, Visible, Committed
  <2> QED BY <2>1, <2>2
<1>3. \A r \in Visible : r.path = ManifestPath /\ r.content = EmptyIndex
  BY DEF Init, Visible
<1>4. \A o \in Outputs : Newest(o) = None
  BY <1>1, <1>2, <1>3, PathFacts, NothingNewest DEF TypeInv
<1>5. NewestIndex = EmptyIndex
  BY <1>3, NewestIsVisible, PathFacts DEF NewestIndex
<1>6. Covered
  BY <1>3, <1>4, <1>5 DEF Covered, EmptyIndex
<1>7. TurnInv
  BY <1>2, <1>6 DEF Init, TurnInv, Alone, OwnTurn, Pending, CopyIsNewest, Active
<1> QED BY <1>4, <1>5, <1>7 DEF EmptyIndex

(* Only a commit changes what can be downloaded.                           *)
LEMMA StepTurn ==
  ASSUME OneByOne, TypeInv, Backing, AheadInv, TurnInv, [Next]_vars
  PROVE  TurnInv' /\ (Visible' # Visible => \E a \in Attempts : Commit(a))
<1>1. ASSUME NEW a \in Attempts, Acts(a)
      PROVE  TurnInv' /\ (~Commit(a) => Visible' = Visible)
  <2>1. ~ReadFails(a)
    BY DEF ReadFails, OneByOne
  <2>2. CASE \E q \in Requests : SetRunning(a, q)
    BY <2>2, StartTurn
  <2>3. CASE Step(a) \/ Crash(a)
    BY <2>1, <2>3, LoadTurn, ExecuteTurn, InsertTurn, CommitTurn, EndTurn DEF Step, Progress
  <2> QED BY <1>1, <2>2, <2>3 DEF Acts
<1>2. CASE UNCHANGED vars
  <2>1. UNCHANGED <<status, rows, nextId, committed, pc, req, ws, pos>>
    BY <1>2 DEF vars, run
  <2>2. Visible' = Visible
    BY <2>1 DEF Visible, Committed
  <2>3. (\A x \in Paths : Newest(x)' = Newest(x)) /\ Topped' /\ Covered'
    BY <2>2, SameVisible DEF TurnInv
  <2>4. Alone' /\ Numbered'
    BY <2>1 DEF TurnInv, Alone, Numbered
  <2>5. ASSUME NEW a \in Attempts
        PROVE  OwnTurn(a)'
    <3>1. OwnTurn(a) /\ Result(a)' = Result(a)
      BY <2>1 DEF TurnInv, Result
    <3>2. Pending(a)'
      BY <2>1, <2>2, <3>1 DEF OwnTurn, Pending
    <3>3. CopyIsNewest(a)'
      <4>1. pc[a] \in {"publish", "commit"} => req[a].output \in Outputs
        BY DEF TypeInv, CallInv, Active
      <4> QED BY <2>1, <2>3, <3>1, <4>1, PathFacts DEF OwnTurn, CopyIsNewest
    <3> QED BY <2>1, <3>1, <3>2, <3>3 DEF OwnTurn
  <2> QED BY <2>2, <2>3, <2>4, <2>5 DEF TurnInv
<1> QED BY <1>1, <1>2 DEF Next, Acts

\* Attempts that follow each other, and may replace outputs or not, never
\* replace one that they were not asked to, wherever they crash.
THEOREM OneByOneFailsClosed == OneByOne => (Spec => FailClosed)
<1> SUFFICES ASSUME OneByOne
             PROVE  Spec => FailClosed
  OBVIOUS
<1>1. Init => TypeInv /\ Backing /\ AheadInv /\ TurnInv
  BY InitTypeInv, InitBacking, InitAheadInv, InitTurn
<1>2. TypeInv /\ Backing /\ AheadInv /\ TurnInv /\ [Next]_vars
        => (TypeInv /\ Backing /\ AheadInv /\ TurnInv)'
  BY StepTypeInv, StepBacking, StepAheadInv, StepTurn
<1>3. TypeInv /\ Backing /\ AheadInv /\ TurnInv /\ [Next]_vars
        => [\A o \in Outputs : Newest(o) # None /\ Newest(o)' # Newest(o) =>
              \E a \in committed' \ committed : req[a].overwrite]_vars
  <2> SUFFICES ASSUME TypeInv, Backing, AheadInv, TurnInv, [Next]_vars,
                      NEW o \in Outputs, Newest(o) # None, Newest(o)' # Newest(o)
               PROVE  \E a \in committed' \ committed : req[a].overwrite
    OBVIOUS
  <2>1. Visible' # Visible
    BY SameVisible
  <2>2. PICK a \in Attempts : Commit(a)
    BY <2>1, StepTurn
  <2>3. req[a].overwrite
    <3>1. req[a].output = o
      <4>1. req[a].output # o => Newest(o)' = Newest(o)
        BY <2>2, CommitTurn
      <4> QED BY <4>1
    <3> QED BY <2>2, <3>1, CommitTurn
  <2>4. a \in committed' \ committed
    BY <2>2 DEF Commit, TurnInv, OwnTurn
  <2> QED BY <2>3, <2>4
<1> QED BY <1>1, <1>2, <1>3, PTL DEF Spec, FailClosed

-----------------------------------------------------------------------------
(* Attempts none of which may replace an output implement the table of     *)
(* RunLedger.                                                              *)

\* Attempts one after the other, none of which may replace an output.
Sequential == OneByOne /\ \A q \in Requests : ~q.overwrite

\* The newest manifest records the newest ciphertexts.
OneTable == \A o \in Outputs : Newest(o) = NewestIndex[o]

\* A result that has been published stays the newest of its output.
Kept ==
  \A a \in Attempts :
    pc[a] \in {"succeed", "succeeded"} => Newest(req[a].output) = Result(a)

LedgerInv == OneTable /\ Kept

LedgerStep == [Ledger!Next]_<<outputView, stageView, req>>

Simulates == LedgerInv' /\ LedgerStep

(* The table is what can be downloaded.                                    *)
LEMMA SameTable ==
  ASSUME LedgerInv, Visible' = Visible
  PROVE  OneTable' /\ outputView' = outputView
  BY SameVisible DEF LedgerInv, OneTable, outputView

(* The stage of an attempt is a matter of its own step.                    *)
LEMMA SameStages ==
  ASSUME TypeInv, NEW a \in Attempts, Acts(a), committed' \subseteq committed \cup {a},
         committed \subseteq committed'
  PROVE  stageView' = [stageView EXCEPT ![a] = stageView'[a]]
<1>1. \A b \in Attempts : b # a => stageView'[b] = stageView[b]
  BY StepKeeps DEF Acts, Untouched, stageView
<1>2. /\ stageView = [b \in Attempts |-> stageView[b]]
      /\ stageView' = [b \in Attempts |-> stageView'[b]]
  BY DEF stageView
<1> QED BY <1>1, <1>2

(* A step that changes nothing that can be downloaded and publishes        *)
(* nothing keeps the results where they are.                               *)
LEMMA QuietLedger ==
  ASSUME TypeInv, LedgerInv, NEW a \in Attempts, Acts(a), Visible' = Visible,
         pc'[a] \notin {"succeed", "succeeded"} \/ (pc[a] = "succeed" /\ req' = req)
  PROVE  LedgerInv' /\ outputView' = outputView
<1>1. ASSUME NEW b \in Attempts, pc'[b] \in {"succeed", "succeeded"}
      PROVE  (Newest(req[b].output) = Result(b))'
  <2>1. pc[b] \in {"succeed", "succeeded"} /\ req'[b] = req[b]
    BY <1>1, StepKeeps DEF Acts, Untouched
  <2>2. Newest(req[b].output) = Result(b) /\ req[b].output \in Paths
    BY <2>1, PathFacts DEF LedgerInv, Kept, TypeInv, CallInv, Active
  <2>3. PICK x \in Paths : x = req[b].output
    BY <2>2
  <2>4. Newest(x)' = Newest(x) /\ Result(b)' = Result(b) /\ req'[b].output = x
    BY <2>1, <2>3, SameVisible DEF Result
  <2> QED BY <2>2, <2>3, <2>4
<1>2. Kept'
  BY <1>1 DEF Kept
<1> QED BY <1>2, SameTable DEF LedgerInv

(* Starting an attempt.                                                    *)
LEMMA StartSimulates ==
  ASSUME Sequential, TypeInv, TurnInv, LedgerInv, NEW a \in Attempts, NEW q \in Requests,
         SetRunning(a, q)
  PROVE  Simulates
<1>1. Acts(a) /\ pc[a] = "new" /\ committed' = committed /\ Visible' = Visible
  BY StartTurn DEF Acts, SetRunning, Sequential
<1>2. \E s \in {"working", "raised"} : stageView'[a] = s /\ pc'[a] \in {"load", "raised"}
  BY <1>1 DEF SetRunning, Goto, stageView, TypeInv, Types, Ended, TurnInv, OwnTurn
<1>3. LedgerInv' /\ outputView' = outputView
  BY <1>1, <1>2, QuietLedger
<1>4. stageView[a] = "new" /\ req' = [req EXCEPT ![a] = q]
  BY <1>1 DEF SetRunning, stageView
<1>5. Ledger!Begin(a, q)
  BY <1>1, <1>2, <1>3, <1>4, SameStages DEF Ledger!Begin
<1> QED BY <1>3, <1>5 DEF Simulates, LedgerStep, Ledger!Next

(* Downloading, computing, inserting, failing to: nothing is published.    *)
LEMMA WorkSimulates ==
  ASSUME Sequential, TypeInv, AheadInv, TurnInv, LedgerInv, NEW a \in Attempts,
         Load(a) \/ Execute(a) \/ ExecuteRaises(a) \/ Insert(a)
  PROVE  Simulates
<1>1. Acts(a) /\ Visible' = Visible /\ UNCHANGED <<committed, req>>
  BY LoadTurn, ExecuteTurn, InsertTurn DEF Sequential, Acts, Step, Progress, Load, Execute,
     ExecuteRaises, Insert, run
<1>2. /\ pc[a] \in {"load", "execute", "publish"}
      /\ pc'[a] \in {"execute", "publish", "commit", "fail"}
  BY DEF Load, Execute, ExecuteRaises, Insert, Advance, Goto, TypeInv, Types
<1>3. LedgerInv' /\ outputView' = outputView
  BY <1>1, <1>2, QuietLedger
<1>4. stageView[a] = "working" /\ stageView'[a] = "working"
  BY <1>1, <1>2 DEF stageView, Ended, TurnInv, OwnTurn
<1>5. stageView = [b \in Attempts |-> stageView[b]]
  BY DEF stageView
<1>6. stageView' = stageView
  BY <1>1, <1>4, <1>5, SameStages
<1> QED BY <1>1, <1>3, <1>6 DEF Simulates, LedgerStep

(* The end of an attempt.                                                  *)
LEMMA EndSimulates ==
  ASSUME Sequential, TypeInv, Backing, TurnInv, LedgerInv, NEW a \in Attempts,
         SetSucceeded(a) \/ SetFailed(a) \/ Crash(a)
  PROVE  Simulates
<1>1. /\ Acts(a) /\ req' = req /\ Visible' = Visible
      /\ committed \subseteq committed' /\ committed' \subseteq committed \cup {a}
  BY EndTurn DEF Sequential, Acts, Step, Progress, SetSucceeded, SetFailed, Crash
<1>2. /\ pc[a] \in Active
      /\ \/ pc[a] = "succeed" /\ pc'[a] = "succeeded"
         \/ pc[a] = "fail" /\ pc'[a] = "failed"
         \/ pc'[a] = "raised"
  BY DEF SetSucceeded, SetFailed, Crash, Goto, Active, TypeInv, Types
<1>3. pc[a] = "succeed" <=> a \in committed
  BY <1>2 DEF TurnInv, OwnTurn, Backing, AttemptInv, Carried, Active
<1>4. LedgerInv' /\ outputView' = outputView
  BY <1>1, <1>2, QuietLedger
<1>5. /\ stageView[a] = IF a \in committed THEN "published" ELSE "working"
      /\ stageView'[a] = pc'[a]
  BY <1>2 DEF stageView, Active, Ended
<1>6. Ledger!End(a)
  BY <1>1, <1>2, <1>3, <1>4, <1>5, SameStages DEF Ledger!End
<1> QED BY <1>4, <1>6 DEF Simulates, LedgerStep, Ledger!Next

(* The commit: its result, and its record, become the newest at once.      *)
LEMMA CommitSimulates ==
  ASSUME Sequential, TypeInv, Backing, TurnInv, LedgerInv, NEW a \in Attempts, Commit(a)
  PROVE  Simulates
<1>1. /\ Acts(a) /\ pc[a] = "commit" /\ pc'[a] = "succeed" /\ a \notin committed
      /\ committed' = committed \cup {a} /\ UNCHANGED <<rows, nextId, req, ws>>
  BY DEF Acts, Step, Progress, Commit, Goto, TurnInv, OwnTurn, TypeInv, Types
<1>2. PICK o \in Outputs : o = req[a].output /\ ~req[a].overwrite
  BY <1>1 DEF TypeInv, CallInv, Active, Sequential
<1>3. /\ TurnInv'
      /\ Newest(o) = None /\ Newest(o)' = Result(a) /\ NewestIndex'[o] = Result(a)
      /\ \A p \in Outputs \ {o} : Newest(p)' = Newest(p) /\ NewestIndex'[p] = NewestIndex[p]
  BY <1>2, CommitTurn DEF Sequential
<1>4. OneTable'
  BY <1>3 DEF LedgerInv, OneTable
<1>5. ASSUME NEW b \in Attempts, pc'[b] \in {"succeed", "succeeded"}
      PROVE  (Newest(req[b].output) = Result(b))'
  <2>1. CASE b = a
    <3>1. Newest(o)' = Result(a) /\ Result(a)' = Result(a) /\ req'[a].output = o
      BY <1>1, <1>2, <1>3 DEF Result
    <3> QED BY <2>1, <3>1
  <2>2. CASE b # a
    <3>1. pc[b] \in {"succeed", "succeeded"}
      BY <1>1, <1>5, <2>2, StepKeeps DEF Acts, Untouched
    <3>2. PICK p \in Outputs : p = req[b].output
      BY <3>1 DEF TypeInv, CallInv, Active
    <3>3. Newest(p) = Result(b) /\ Result(b) # None
      BY <3>1, <3>2 DEF LedgerInv, Kept, TypeInv, CallInv, Active, Result, Results
    <3>4. Newest(p)' = Newest(p)
      BY <1>3, <3>2, <3>3
    <3>5. Result(b)' = Result(b) /\ req'[b].output = p
      BY <1>1, <3>2 DEF Result
    <3> QED BY <3>3, <3>4, <3>5
  <2> QED BY <2>1, <2>2
<1>6. LedgerInv'
  BY <1>4, <1>5 DEF LedgerInv, Kept
<1>7. /\ outputView' = [outputView EXCEPT ![o] = Result(a)] /\ outputView[o] = None
  <2>1. \A p \in Outputs : outputView[p] = Newest(p) /\ outputView'[p] = Newest(p)'
    BY <1>4 DEF outputView, LedgerInv, OneTable
  <2>2. /\ outputView = [p \in Outputs |-> outputView[p]]
        /\ outputView' = [p \in Outputs |-> outputView'[p]]
    BY DEF outputView
  <2> QED BY <1>3, <2>1, <2>2
<1>8. stageView' = [stageView EXCEPT ![a] = "published"]
  <2>1. stageView'[a] = "published"
    BY <1>1 DEF stageView, Ended
  <2> QED BY <1>1, <2>1, SameStages
<1>9. stageView[a] = "working"
  BY <1>1 DEF stageView, Ended
<1>10. Ledger!Publish(a)
  BY <1>1, <1>2, <1>7, <1>8, <1>9 DEF Ledger!Publish, Result
<1> QED BY <1>6, <1>10 DEF Simulates, LedgerStep, Ledger!Next

(* A run starts with an empty table.                                       *)
LEMMA InitLedger == Init => LedgerInv /\ Ledger!Init
<1> SUFFICES ASSUME Init
             PROVE  LedgerInv /\ Ledger!Init
  OBVIOUS
<1>1. LedgerInv
  BY InitTurn DEF LedgerInv, OneTable, Kept, Init
<1>2. outputView = [o \in Outputs |-> None]
  BY InitTurn DEF outputView
<1>3. stageView = [a \in Attempts |-> "new"]
  BY DEF Init, stageView
<1> QED BY <1>1, <1>2, <1>3 DEF Init, Ledger!Init, Outputs, Ledger!Outputs

(* Every step of a run is a step of the ledger, or none.                   *)
LEMMA StepLedger ==
  ASSUME Sequential, TypeInv, Backing, AheadInv, TurnInv, LedgerInv, [Next]_vars
  PROVE  Simulates
<1>1. ASSUME NEW a \in Attempts, Acts(a)
      PROVE  Simulates
  <2>1. ~ReadFails(a)
    BY DEF ReadFails, Sequential, OneByOne
  <2>2. CASE \E q \in Requests : SetRunning(a, q)
    BY <2>2, StartSimulates
  <2>3. CASE Step(a) \/ Crash(a)
    BY <2>1, <2>3, WorkSimulates, CommitSimulates, EndSimulates DEF Step, Progress
  <2> QED BY <1>1, <2>2, <2>3 DEF Acts
<1>2. CASE UNCHANGED vars
  <2>1. UNCHANGED <<committed, pc, req>> /\ Visible' = Visible
    BY <1>2 DEF vars, run, Visible, Committed
  <2>2. OneTable' /\ outputView' = outputView /\ \A x \in Paths : Newest(x)' = Newest(x)
    BY <2>1, SameTable, SameVisible
  <2>3. ASSUME NEW b \in Attempts, pc[b] \in {"succeed", "succeeded"}
        PROVE  (Newest(req[b].output) = Result(b))'
    <3>1. PICK x \in Paths : x = req[b].output /\ Newest(x) = Result(b)
      BY <2>3, PathFacts DEF LedgerInv, Kept, TypeInv, CallInv, Active
    <3>2. Newest(x)' = Newest(x) /\ Result(b)' = Result(b) /\ req'[b].output = x
      BY <2>1, <2>2, <3>1 DEF Result
    <3> QED BY <3>1, <3>2
  <2>4. Kept'
    BY <2>1, <2>3 DEF Kept
  <2>5. stageView' = stageView
    BY <2>1 DEF stageView
  <2> QED BY <2>1, <2>2, <2>4, <2>5 DEF LedgerInv, Simulates, LedgerStep
<1> QED BY <1>1, <1>2 DEF Next, Acts

(* What the theorems about the ledger rest on.                             *)
SequentialInv == TypeInv /\ Backing /\ AheadInv /\ TurnInv /\ LedgerInv

(* It is inductive.                                                        *)
LEMMA SequentialAlways ==
  ASSUME Sequential
  PROVE  /\ Init => SequentialInv
         /\ SequentialInv /\ [Next]_vars => SequentialInv' /\ LedgerStep
<1>1. Init => SequentialInv
  BY InitTypeInv, InitBacking, InitAheadInv, InitTurn, InitLedger DEF SequentialInv
<1>2. ASSUME SequentialInv, [Next]_vars
      PROVE  SequentialInv' /\ LedgerStep
  BY <1>2, StepTypeInv, StepBacking, StepAheadInv, StepTurn, StepLedger
     DEF SequentialInv, Sequential, Simulates
<1> QED BY <1>1, <1>2

\* Attempts of execute_postgres that follow each other and replace nothing put
\* each result into the run in one step, or leave the run as it was.
THEOREM LedgerRefined == Sequential => (Spec => ImplementsLedger)
<1> SUFFICES ASSUME Sequential
             PROVE  Spec => ImplementsLedger
  OBVIOUS
<1>1. Init => SequentialInv /\ Ledger!Init
  BY SequentialAlways, InitLedger
<1>2. SequentialInv /\ [Next]_vars
        => SequentialInv' /\ [Ledger!Next]_<<outputView, stageView, req>>
  BY SequentialAlways DEF LedgerStep
<1> QED BY <1>1, <1>2, PTL DEF Spec, ImplementsLedger, Ledger!Spec

\* What such an attempt is reported to have published is what the next attempt
\* downloads.
THEOREM SequentialReported == Sequential => (Spec => ReportedIsNewest)
<1> SUFFICES ASSUME Sequential
             PROVE  Spec => ReportedIsNewest
  OBVIOUS
<1>1. Init => SequentialInv
  BY SequentialAlways
<1>2. SequentialInv /\ [Next]_vars => SequentialInv'
  BY SequentialAlways
<1>3. SequentialInv
        => \A a \in Attempts :
             pc[a] = "succeed" /\ pc'[a] = "succeeded" => Newest(req[a].output) = Result(a)
  BY DEF SequentialInv, LedgerInv, Kept
<1> QED BY <1>1, <1>2, <1>3, PTL DEF Spec, ReportedIsNewest

=============================================================================
