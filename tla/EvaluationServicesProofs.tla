---------------------- MODULE EvaluationServicesProofs ----------------------
(***************************************************************************)
(* Proofs about EvaluationServices, for any clients, threads and requests: *)
(* its types, whose keys and locks a job works with, which slots a sum     *)
(* adds up, what the limit of the encryptor counts, that it keeps the      *)
(* ledger of its pairs, that no call is lost or answered twice, and that   *)
(* a lock is held only by a job that is at work.                           *)
(***************************************************************************)
EXTENDS EvaluationServices, SequenceTheorems, SlotSumsProofs, TLAPS

-----------------------------------------------------------------------------
(* Requests: a valid one has what its operation needs.                     *)

(* Whose keys a valid evaluation has.                                      *)
LEMMA KeysGiven ==
  ASSUME NEW q \in Body, NEW f \in Fields, f \in DOMAIN q.keys
  PROVE  Given(q, f) \in Materials
<1>1. PICK F \in SUBSET Fields : q.keys \in [F -> Materials]
  BY DEF Body
<1>2. DOMAIN q.keys = F
  BY <1>1
<1> QED BY <1>1, <1>2 DEF Given

LEMMA ValidHasKeys ==
  ASSUME NEW q \in Body, ValidEvaluate(q)
  PROVE  /\ NeedsMult(q.op) => MultKeys(q) # None
         /\ NeedsRot(q.op) => RotKeys(q) # None /\ q.count # None
         /\ q.op \in Binary => q.right
<1>1. None \notin Materials
  BY EvaluatorAssumption
<1>2. DOMAIN q.keys \in KeysFor(q.op)
  BY DEF ValidEvaluate
<1>3. {"evaluation_keys", "multiplication_keys", "rotation_keys"} = Fields
  BY DEF Fields
<1>4. \A f \in Fields : f \in DOMAIN q.keys => Given(q, f) # None
  BY <1>1, KeysGiven
<1>5. \A f \in Fields : f \notin DOMAIN q.keys => Given(q, f) = None
  BY DEF Given
<1>6. NeedsMult(q.op) => MultKeys(q) # None
  BY <1>2, <1>3, <1>4, <1>5 DEF MultKeys, KeysUnder, KeysFor, NeedsMult, NeedsRot, MultiplicationKeyOperations, Reductions
<1>7. NeedsRot(q.op) => RotKeys(q) # None
  BY <1>2, <1>3, <1>4, <1>5 DEF RotKeys, KeysUnder, KeysFor, NeedsMult, NeedsRot, MultiplicationKeyOperations, Reductions
<1>8. NeedsRot(q.op) => q.count # None
  BY DEF ValidEvaluate, NeedsRot
<1>9. q.op \in Binary => q.right
  BY DEF ValidEvaluate
<1> QED BY <1>6, <1>7, <1>8, <1>9

\* What the API passes on for a valid evaluation is what the worker requires.
LEMMA ArgumentsSuffice ==
  ASSUME NEW q \in Body, Valid(q), q.path = "evaluate"
  PROVE  Required(q.op) \subseteq Arguments(q)
<1>1. ValidEvaluate(q)
  BY DEF Valid
<1> QED BY <1>1, ValidHasKeys DEF Required, Arguments

\* The command that the FIDES adapter of the SDK builds has every argument that
\* the worker requires, when the caller passes the values the operation takes.
THEOREM AdapterPassesRequired ==
  ASSUME NEW op \in Operations, NEW right, NEW count,
         op \in Binary => right # None, op \in Reductions => count # None
  PROVE  Required(op) \subseteq AdapterArguments(op, right, count)
BY DEF Required, AdapterArguments, Binary, Reductions, NeedsMult, NeedsRot, MultiplicationKeyOperations

\* The image never changes, so a request is judged alike all the time.
LEMMA ValidStays ==
  ASSUME image' = image
  PROVE  /\ \A q : Valid(q) <=> Valid(q)'
         /\ \A q : LockOf(q)' = LockOf(q)
         /\ \A q : BringsKeys(q) <=> BringsKeys(q)'
BY DEF Valid, ValidEvaluate, ValidDemo, ValidDemoSum, ValidBGV, LockOf, BringsKeys

LEMMA LockOfTyped == \A q \in Body : LockOf(q) \in Paths
BY DEF LockOf, Paths, Body

LEMMA PairBodyTyped ==
  ASSUME NEW s \in Ids, NEW op \in TrialOps
  PROVE  PairBody(s, op) \in Body
<1>1. <<>> \in [{} -> Materials]
  OBVIOUS
<1>2. <<>> \in UNION {[F -> Materials] : F \in SUBSET Fields}
  <2>1. {} \in SUBSET Fields
    OBVIOUS
  <2> QED BY <1>1, <2>1
<1>3. op \in Operations /\ s \in Materials
  BY ServicesAssumption DEF Operations, Binary
<1> DEFINE U == UNION {[F -> Materials] : F \in SUBSET Fields}
<1>4. <<>> \in U
  BY <1>2
<1> HIDE DEF U
<1>5. PairBody(s, op) \in
       [path : Paths, op : Operations, of : Materials, right : BOOLEAN, pub : BOOLEAN,
        keys : U, count : Nat \cup {None}, id : BOOLEAN]
  BY <1>3, <1>4 DEF PairBody, Paths
<1> QED BY <1>5 DEF Body, U

-----------------------------------------------------------------------------
(* Types: the boxes, the encryptor.                                        *)

Jobs == [Threads -> Job \cup {None}]
Mails == [Clients -> Mail \cup {None}]

(* A living worker works on a job.                                         *)
WorkersEmployed == \A t \in running : job[t] # None

Types == TypeOK /\ WorkersEmployed

LEMMA MailTyped ==
  ASSUME mail \in Mails, NEW from \in Clients \cup {None}, NEW r \in Mail, Respond(from, r)
  PROVE  mail' \in Mails
BY DEF Respond, Mails

LEMMA HeadTail ==
  ASSUME NEW S, NEW s \in Seq(S), s # <<>>
  PROVE  Head(s) \in S /\ Tail(s) \in Seq(S)
OBVIOUS

LEMMA AppendTyped ==
  ASSUME NEW S, NEW s \in Seq(S), NEW x \in S
  PROVE  Append(s, x) \in Seq(S)
OBVIOUS

LEMMA HeadTailLetter ==
  ASSUME EncryptorTypeOK, encBox # <<>>
  PROVE  /\ Head(encBox) \in Letter
         /\ Head(encBox).op # None => Head(encBox).sid # None
         /\ Tail(encBox) \in Seq(Letter)
         /\ \A i \in 1..Len(Tail(encBox)) : Tail(encBox)[i].op # None => Tail(encBox)[i].sid # None
<1>1. encBox \in Seq(Letter)
  BY DEF EncryptorTypeOK
<1>2. Head(encBox) \in Letter /\ Head(encBox) = encBox[1] /\ 1 \in 1..Len(encBox)
  BY <1>1
<1>3. Tail(encBox) \in Seq(Letter) /\ Len(Tail(encBox)) = Len(encBox) - 1
  BY <1>1
<1>4. \A i \in 1..Len(Tail(encBox)) : Tail(encBox)[i] = encBox[i + 1] /\ i + 1 \in 1..Len(encBox)
  BY <1>1, <1>3
<1> QED BY <1>2, <1>3, <1>4 DEF EncryptorTypeOK

LEMMA OrphanedTyped ==
  ASSUME NEW c, NEW T, NEW box \in Seq(T), \A x \in T : [x EXCEPT !.from = None] \in T
  PROVE  Orphaned(box, c) \in Seq(T)
<1>1. Len(box) \in Nat /\ \A i \in 1..Len(box) : box[i] \in T
  OBVIOUS
<1>2. Orphaned(box, c) \in [1..Len(box) -> T]
  BY <1>1 DEF Orphaned
<1> QED BY <1>1, <1>2, IsASeq

LEMMA PurgedTyped ==
  ASSUME EncryptorTypeOK
  PROVE  /\ Purged \in [Ids -> (0..TTL) \cup {None}]
         /\ \A s \in Ids : Live(s) => Purged[s] = life[s]
         /\ \A s \in Ids : ~Live(s) => Purged[s] = None
BY DEF EncryptorTypeOK, Purged, Live, Held

LEMMA EncryptingTypes ==
  ASSUME EncryptorTypeOK, mail \in Mails, ServeEncryptor
  PROVE  EncryptorTypeOK' /\ mail' \in Mails
<1> DEFINE q == Head(encBox)
<1>1. encBox # <<>> /\ encBox' = Tail(encBox)
  BY DEF ServeEncryptor
<1>2. q \in Letter /\ (q.op # None => q.sid # None)
  BY <1>1, HeadTailLetter
<1>3. /\ encBox' \in Seq(Letter)
      /\ \A i \in 1..Len(encBox') : encBox'[i].op # None => encBox'[i].sid # None
  BY <1>1, HeadTailLetter
<1>4. TurnedAway(q) \/ (q.op = None /\ EncryptPair(q)) \/ (q.op # None /\ Decrypt(q))
  BY DEF ServeEncryptor
<1>5. TTL \in 0..TTL
  BY EncryptorAssumption
<1> HIDE DEF q
<1>6. q.from \in Clients \cup {None} /\ q.sid \in Ids \cup {None} /\ q.op \in TrialOps \cup {None}
  BY <1>2 DEF Letter
<1>7. ASSUME NEW why \in {"error", "limit"}, EncryptorRefuses(q, why)
      PROVE  EncryptorTypeOK' /\ mail' \in Mails
  <2>1. [kind |-> why, sid |-> q.sid] \in Mail
    BY <1>6, <1>7 DEF Mail
  <2>2. mail' \in Mails
    BY <1>6, <1>7, <2>1, MailTyped DEF EncryptorRefuses
  <2> QED BY <1>3, <1>7, <2>2, PurgedTyped DEF EncryptorRefuses, EncryptorTypeOK
<1>8. CASE q.op = None /\ EncryptPair(q)
  <2>1. ASSUME NEW s \in Ids,
               life' = [Purged EXCEPT ![s] = TTL], minted' = minted \cup {s},
               Respond(q.from, [kind |-> "bundle", sid |-> s]), UNCHANGED released
        PROVE  EncryptorTypeOK' /\ mail' \in Mails
    <3>1. [kind |-> "bundle", sid |-> s] \in Mail
      BY DEF Mail
    <3>2. mail' \in Mails
      BY <1>6, <2>1, <3>1, MailTyped
    <3>3. life' \in [Ids -> (0..TTL) \cup {None}]
      BY <1>5, <2>1, PurgedTyped
    <3> QED BY <1>3, <2>1, <3>2, <3>3 DEF EncryptorTypeOK
  <2> QED BY <1>7, <1>8, <2>1 DEF EncryptPair
<1>9. CASE q.op # None /\ Decrypt(q)
  <2>1. q.sid \in Ids /\ q.op \in TrialOps
    BY <1>2, <1>6, <1>9
  <2>2. CASE life' = [Purged EXCEPT ![q.sid] = None] /\ Release(q)
    <3>1. [kind |-> "values", sid |-> q.sid] \in Mail
      BY <2>1 DEF Mail
    <3>2. mail' \in Mails
      BY <1>6, <2>2, <3>1, MailTyped DEF Release
    <3>3. life' \in [Ids -> (0..TTL) \cup {None}]
      BY <2>2, PurgedTyped
    <3>4. Append(released[q.sid], q.op) \in Seq(TrialOps)
      BY <2>1, AppendTyped DEF EncryptorTypeOK
    <3>5. released' \in [Ids -> Seq(TrialOps)]
      BY <2>1, <2>2, <3>4 DEF Release, EncryptorTypeOK
    <3> QED BY <1>3, <2>2, <3>2, <3>3, <3>5 DEF EncryptorTypeOK, Release
  <2> QED BY <1>7, <1>9, <2>2 DEF Decrypt
<1>10. CASE TurnedAway(q)
  <2>1. [kind |-> "error", sid |-> q.sid] \in Mail
    BY <1>6 DEF Mail
  <2>2. mail' \in Mails
    BY <1>6, <1>10, <2>1, MailTyped DEF TurnedAway
  <2> QED BY <1>3, <1>10, <2>2 DEF TurnedAway, EncryptorTypeOK
<1> QED BY <1>4, <1>8, <1>9, <1>10

LEMMA OtherEncryptorTypes ==
  ASSUME EncryptorTypeOK, mail \in Mails, EncryptorTick \/ EncryptorRestart
  PROVE  EncryptorTypeOK' /\ mail' \in Mails
<1>1. CASE EncryptorTick
  <2>1. life' \in [Ids -> (0..TTL) \cup {None}]
    BY <1>1, EncryptorAssumption DEF EncryptorTick, EncryptorTypeOK, Live, Held
  <2> QED BY <1>1, <2>1 DEF EncryptorTick, EncryptorTypeOK
<1>2. CASE EncryptorRestart
  <2>1. [kind |-> "error", sid |-> None] \in Mail
    BY DEF Mail
  <2>2. mail' \in Mails
    BY <1>2, <2>1 DEF EncryptorRestart, Reset, Mails
  <2>3. encBox' = <<>>
    BY <1>2 DEF EncryptorRestart
  <2>4. encBox' \in Seq(Letter) /\ Len(encBox') = 0
    BY <2>3
  <2> QED BY <1>2, <2>2, <2>4 DEF EncryptorRestart, EncryptorTypeOK
<1> QED BY <1>1, <1>2

-----------------------------------------------------------------------------
(* Types: the evaluator.                                                   *)

\* The part of the types that the steps of the evaluator touch.
EvaluatorTypes == EvaluatorTypeOK /\ mail \in Mails /\ WorkersEmployed

LEMMA HeadTailRequest ==
  ASSUME EvaluatorTypeOK, evalBox # <<>>
  PROVE  /\ Head(evalBox).from \in Clients \cup {None}
         /\ Head(evalBox).body \in Body
         /\ Tail(evalBox) \in Seq(Letters)
<1>1. Head(evalBox) \in Letters /\ Tail(evalBox) \in Seq(Letters)
  BY HeadTail DEF EvaluatorTypeOK
<1> QED BY <1>1 DEF Letters

LEMMA VerdictTyped ==
  ASSUME NEW t \in Threads, job[t] \in Job
  PROVE  Verdict(t) \in Statuses
BY DEF Verdict, Job, Statuses

LEMMA StatusMail ==
  ASSUME NEW k \in Statuses
  PROVE  [kind |-> k, sid |-> None] \in Mail
BY DEF Statuses, Mail

\* A job after a step of its own.
LEMMA JobFields ==
  ASSUME NEW j \in Job,
         NEW at \in Steps, NEW f \in {"none", "partial", "whole"}, NEW code \in {0, 1},
         NEW status \in Statuses \cup {None}
  PROVE  /\ [j EXCEPT !.at = at] \in Job
         /\ [j EXCEPT !.at = at, !.status = status] \in Job
         /\ [j EXCEPT !.at = at, !.code = code] \in Job
         /\ [j EXCEPT !.file = f] \in Job
         /\ [j EXCEPT !.from = None] \in Job
BY DEF Job

LEMMA UnlockedTyped ==
  ASSUME EvaluatorTypeOK, NEW t \in Threads
  PROVE  Unlocked(t) \in [Paths -> Threads \cup {None}]
BY DEF EvaluatorTypeOK, Unlocked

\* The new job of one thread is typed, and the others keep theirs.
LEMMA JobTyped ==
  ASSUME EvaluatorTypeOK, NEW t \in Threads, NEW j \in Job, job' = [job EXCEPT ![t] = j]
  PROVE  job' \in Jobs /\ job'[t] = j /\ job'[t] # None /\ \A u \in Threads \ {t} : job'[u] = job[u]
BY JobAssumption DEF EvaluatorTypeOK, Jobs

LEMMA EndsTyped ==
  ASSUME EvaluatorTypeOK, NEW t \in Threads, job[t] # None, NEW status \in Statuses, Ends(t, status)
  PROVE  /\ job' \in Jobs
         /\ job'[t] = [job[t] EXCEPT !.at = "end", !.status = status]
         /\ job'[t] # None /\ \A u \in Threads \ {t} : job'[u] = job[u]
<1>1. job[t] \in Job
  BY DEF EvaluatorTypeOK
<1>2. "end" \in Steps
  BY DEF Steps
<1>3. [job[t] EXCEPT !.at = "end", !.status = status] \in Job
  BY <1>1, <1>2, JobFields
<1>4. job' = [job EXCEPT ![t] = [job[t] EXCEPT !.at = "end", !.status = status]]
  BY DEF Ends, EvaluatorTypeOK
<1> QED BY <1>3, <1>4, JobTyped

LEMMA FailsEnds ==
  ASSUME NEW t \in Threads, Fails(t)
  PROVE  \E status \in Statuses : status \in {"rejected", "failed"} /\ Ends(t, status)
BY DEF Fails, Statuses

LEMMA KeysTyped ==
  ASSUME NEW q \in Body
  PROVE  /\ MultKeys(q) # None => MultKeys(q) \in Materials
         /\ RotKeys(q) # None => RotKeys(q) \in Materials
<1>1. \A f \in Fields : Given(q, f) # None => Given(q, f) \in Materials
  BY KeysGiven DEF Given
<1>2. {"evaluation_keys", "multiplication_keys", "rotation_keys"} = Fields
  BY DEF Fields
<1> QED BY <1>1, <1>2 DEF MultKeys, RotKeys, KeysUnder

LEMMA OwnerTyped ==
  ASSUME NEW t \in Threads, job[t] \in Job
  PROVE  /\ Owner(t) \in Owners /\ t \in Owners /\ job[t].q \in Body
         /\ ClearedBy(job[t].q) \subseteq registry
         /\ DemoKeys(job[t].q) \subseteq Kinds
<1>1. job[t].q \in Body
  BY DEF Job
<1>2. Owner(t) \in Owners /\ t \in Owners
  BY <1>1 DEF Owner, Owners, Body
<1>3. ClearedBy(job[t].q) \subseteq registry
  BY DEF ClearedBy
<1>4. DemoKeys(job[t].q) \subseteq Kinds
  BY DEF DemoKeys, Kinds
<1> QED BY <1>1, <1>2, <1>3, <1>4

LEMMA AcceptTypes ==
  ASSUME EvaluatorTypes, NEW t \in Threads, Accept(t)
  PROVE  EvaluatorTypes'
<1> DEFINE m == Head(evalBox)
<1>0. EvaluatorTypeOK /\ mail \in Mails /\ WorkersEmployed
  BY DEF EvaluatorTypes
<1>1. m.from \in Clients \cup {None} /\ m.body \in Body /\ evalBox' \in Seq(Letters)
  BY <1>0, HeadTailRequest DEF Accept
<1>2. CASE Valid(m.body)
  <2>1. NewJob(m) \in Job
    BY <1>1 DEF NewJob, Job, Steps
  <2>2. job' = [job EXCEPT ![t] = NewJob(m)] /\ mail' = mail
    BY <1>2 DEF Accept
  <2>3. job' \in Jobs /\ job'[t] # None /\ \A u \in Threads \ {t} : job'[u] = job[u]
    BY <1>0, <2>1, <2>2, JobTyped
  <2>4. UNCHANGED <<image, lock, registry, running>>
    BY DEF Accept
  <2> QED BY <1>0, <1>1, <2>2, <2>3, <2>4 DEF EvaluatorTypes, EvaluatorTypeOK, WorkersEmployed, Jobs
<1>3. CASE ~Valid(m.body)
  <2>1. Respond(m.from, [kind |-> "rejected", sid |-> None]) /\ job' = job
    BY <1>3 DEF Accept, Error
  <2>2. mail' \in Mails
    BY <1>0, <1>1, <2>1, StatusMail, MailTyped DEF Statuses
  <2>4. UNCHANGED <<image, lock, registry, running>>
    BY DEF Accept
  <2> QED BY <1>0, <1>1, <2>1, <2>2, <2>4 DEF EvaluatorTypes, EvaluatorTypeOK, WorkersEmployed
<1> QED BY <1>2, <1>3

LEMMA AcquireTypes ==
  ASSUME EvaluatorTypes, NEW t \in Threads, Acquire(t)
  PROVE  EvaluatorTypes'
<1>0. EvaluatorTypeOK /\ mail \in Mails /\ WorkersEmployed /\ job[t] # None /\ job[t] \in Job
  BY DEF EvaluatorTypes, EvaluatorTypeOK, Acquire, At
<1>1. (IF image = "cpu" THEN "setup" ELSE "worker") \in Steps
  BY DEF Steps
<1>2. [job[t] EXCEPT !.at = IF image = "cpu" THEN "setup" ELSE "worker"] \in Job
  BY <1>0, <1>1, JobFields
<1>3. job' = [job EXCEPT ![t] = [job[t] EXCEPT !.at = IF image = "cpu" THEN "setup" ELSE "worker"]]
  BY <1>0 DEF Acquire, EvaluatorTypeOK
<1>4. job' \in Jobs /\ job'[t] # None /\ \A u \in Threads \ {t} : job'[u] = job[u]
  BY <1>0, <1>2, <1>3, JobTyped
<1>5. lock' \in [Paths -> Threads \cup {None}]
  BY <1>0 DEF Acquire, EvaluatorTypeOK
<1> QED BY <1>0, <1>4, <1>5 DEF EvaluatorTypes, EvaluatorTypeOK, WorkersEmployed, Jobs, Acquire

\* A step that takes a job of the CPU image on, or ends it.
LEMMA CpuTypes ==
  ASSUME EvaluatorTypes, NEW t \in Threads, job[t] # None,
         \/ \E s \in Steps : job' = [job EXCEPT ![t].at = s]
         \/ \E status \in Statuses : Ends(t, status),
         registry' \subseteq Kinds \X Owners,
         UNCHANGED <<image, evalBox, lock, running, mail>>
  PROVE  EvaluatorTypes'
<1>0. EvaluatorTypeOK /\ mail \in Mails /\ WorkersEmployed /\ job[t] \in Job
  BY DEF EvaluatorTypes, EvaluatorTypeOK
<1>1. job' \in Jobs /\ job'[t] # None /\ \A u \in Threads \ {t} : job'[u] = job[u]
  <2>1. CASE \E s \in Steps : job' = [job EXCEPT ![t].at = s]
    <3>1. PICK s \in Steps : job' = [job EXCEPT ![t].at = s]
      BY <2>1
    <3>2. [job[t] EXCEPT !.at = s] \in Job
      BY <1>0, JobFields
    <3>3. job' = [job EXCEPT ![t] = [job[t] EXCEPT !.at = s]]
      BY <1>0, <3>1 DEF EvaluatorTypeOK
    <3> QED BY <1>0, <3>2, <3>3, JobTyped
  <2>2. CASE \E status \in Statuses : Ends(t, status)
    BY <1>0, <2>2, EndsTyped
  <2> QED BY <2>1, <2>2
<1> QED BY <1>0, <1>1 DEF EvaluatorTypes, EvaluatorTypeOK, WorkersEmployed, Jobs

LEMMA CpuStepTypes ==
  ASSUME EvaluatorTypes, NEW t \in Threads,
         DeserializeContext(t) \/ GenerateKeys(t) \/ LoadKeys(t) \/ Compute(t)
  PROVE  EvaluatorTypes'
<1>0. job[t] # None /\ job[t] \in Job /\ registry \subseteq Kinds \X Owners
  BY DEF EvaluatorTypes, EvaluatorTypeOK, DeserializeContext, GenerateKeys, LoadKeys, Compute, At
<1>1. /\ Owner(t) \in Owners /\ t \in Owners /\ job[t].q \in Body
      /\ ClearedBy(job[t].q) \subseteq registry /\ DemoKeys(job[t].q) \subseteq Kinds
  BY <1>0, OwnerTyped
<1>2. {<<"context", Owner(t)>>, <<"context", t>>} \subseteq Kinds \X Owners
  BY <1>1 DEF Kinds
<1>3. DemoKeys(job[t].q) \X {t} \subseteq Kinds \X Owners
  BY <1>1
<1>4. "keys" \in Steps /\ "compute" \in Steps /\ "result" \in Statuses
  BY DEF Steps, Statuses
<1>5. CASE DeserializeContext(t)
  BY <1>0, <1>1, <1>2, <1>4, <1>5, FailsEnds, CpuTypes DEF DeserializeContext
<1>6. CASE GenerateKeys(t)
  BY <1>0, <1>1, <1>2, <1>3, <1>4, <1>6, FailsEnds, CpuTypes DEF GenerateKeys
<1>7. CASE LoadKeys(t)
  <2> DEFINE mult == IF MultKeys(job[t].q) = None THEN {} ELSE {<<"multiplication", MultKeys(job[t].q)>>}
             rot  == IF RotKeys(job[t].q) = None THEN {} ELSE {<<"rotation", RotKeys(job[t].q)>>}
  <2>1. mult \subseteq Kinds \X Owners /\ rot \subseteq Kinds \X Owners
    BY <1>1, KeysTyped DEF Kinds, Owners
  <2>2. \/ registry' = registry \cup mult \cup rot /\ job' = [job EXCEPT ![t].at = "compute"]
        \/ registry' \in {registry} \cup (IF rot = {} THEN {} ELSE {registry \cup mult}) /\ Fails(t)
    BY <1>7 DEF LoadKeys
  <2> HIDE DEF mult, rot
  <2>3. registry' \subseteq Kinds \X Owners
    BY <1>0, <2>1, <2>2
  <2> QED BY <1>0, <1>4, <1>7, <2>2, <2>3, FailsEnds, CpuTypes DEF LoadKeys
<1>8. CASE Compute(t)
  <2>1. registry' = registry
    BY <1>8 DEF Compute
  <2> QED BY <1>0, <1>4, <1>8, <2>1, FailsEnds, CpuTypes DEF Compute
<1> QED BY <1>5, <1>6, <1>7, <1>8

LEMMA StartTypes ==
  ASSUME EvaluatorTypes, NEW t \in Threads, StartWorker(t)
  PROVE  EvaluatorTypes'
<1>0. EvaluatorTypeOK /\ mail \in Mails /\ WorkersEmployed /\ job[t] # None
  BY DEF EvaluatorTypes, StartWorker, At
<1>1. CASE running' = running \cup {t} /\ UNCHANGED <<job, lock>>
  BY <1>0, <1>1 DEF StartWorker, EvaluatorTypes, EvaluatorTypeOK, WorkersEmployed
<1>2. CASE Ends(t, "failed") /\ running' = running /\ lock' \in {lock, Unlocked(t)}
  <2>1. job' \in Jobs /\ job'[t] # None /\ \A u \in Threads \ {t} : job'[u] = job[u]
    BY <1>0, <1>2, EndsTyped DEF Statuses
  <2>2. lock' \in [Paths -> Threads \cup {None}]
    BY <1>0, <1>2, UnlockedTyped DEF EvaluatorTypeOK
  <2> QED BY <1>0, <1>2, <2>1, <2>2 DEF StartWorker, EvaluatorTypes, EvaluatorTypeOK, WorkersEmployed, Jobs
<1> QED BY <1>1, <1>2 DEF StartWorker

LEMMA WorkerTypes ==
  ASSUME EvaluatorTypes, NEW t \in Threads, WorkerWrites(t) \/ WorkerExits(t) \/ WorkerTimeout(t)
  PROVE  EvaluatorTypes'
<1>0. EvaluatorTypeOK /\ mail \in Mails /\ WorkersEmployed /\ job[t] # None /\ job[t] \in Job
  BY DEF EvaluatorTypes, EvaluatorTypeOK, WorkersEmployed, WorkerWrites, WorkerExits, WorkerTimeout
<1>1. CASE WorkerWrites(t)
  <2>1. PICK f \in {"none", "partial", "whole"} : job' = [job EXCEPT ![t] = [job[t] EXCEPT !.file = f]]
    BY <1>0, <1>1 DEF WorkerWrites, EvaluatorTypeOK
  <2>2. [job[t] EXCEPT !.file = f] \in Job
    BY <1>0, <2>1 DEF Job
  <2>3. job' \in Jobs /\ job'[t] # None /\ \A u \in Threads \ {t} : job'[u] = job[u]
    BY <1>0, <2>1, <2>2, JobTyped
  <2> QED BY <1>0, <1>1, <2>3 DEF WorkerWrites, EvaluatorTypes, EvaluatorTypeOK, WorkersEmployed, Jobs
<1>2. CASE WorkerExits(t) \/ WorkerTimeout(t)
  <2>1. job' \in Jobs /\ job'[t] # None /\ \A u \in Threads \ {t} : job'[u] = job[u]
    <3>1. CASE WorkerExits(t)
      <4>1. PICK c \in {0, 1} : job' = [job EXCEPT ![t].at = "end", ![t].code = c]
        BY <3>1 DEF WorkerExits
      <4>2. job' = [job EXCEPT ![t] = [job[t] EXCEPT !.at = "end", !.code = c]]
        BY <1>0, <4>1 DEF EvaluatorTypeOK
      <4>3. [job[t] EXCEPT !.at = "end", !.code = c] \in Job
        BY <1>0, JobFields DEF Steps
      <4> QED BY <1>0, <4>2, <4>3, JobTyped
    <3>2. CASE WorkerTimeout(t)
      BY <1>0, <3>2, EndsTyped DEF WorkerTimeout, Statuses
    <3> QED BY <1>2, <3>1, <3>2
  <2>2. lock' \in [Paths -> Threads \cup {None}]
    <3>1. lock' \in {lock, Unlocked(t)}
      BY <1>2 DEF WorkerExits, WorkerTimeout
    <3> QED BY <1>0, <3>1, UnlockedTyped DEF EvaluatorTypeOK
  <2>3. running' = running \ {t} /\ UNCHANGED <<image, evalBox, registry, mail>>
    BY <1>2 DEF WorkerExits, WorkerTimeout
  <2> QED BY <1>0, <2>1, <2>2, <2>3 DEF EvaluatorTypes, EvaluatorTypeOK, WorkersEmployed, Jobs
<1> QED BY <1>1, <1>2

-----------------------------------------------------------------------------
(* Types: the end of a job, restarts and the clients.                      *)

LEMMA LeftTyped ==
  ASSUME NEW t \in Threads, registry \subseteq Kinds \X Owners
  PROVE  Left(t) \subseteq Kinds \X Owners
<1>1. \A e \in Kinds \X Owners : <<e[1], IF e[2] = t THEN "old" ELSE e[2]>> \in Kinds \X Owners
  BY DEF Owners
<1> QED BY <1>1 DEF Left

LEMMA FinishTypes ==
  ASSUME EvaluatorTypes, NEW t \in Threads, Finish(t), t \notin running
  PROVE  EvaluatorTypes'
<1>0. EvaluatorTypeOK /\ mail \in Mails /\ WorkersEmployed /\ job[t] # None /\ job[t] \in Job
  BY DEF EvaluatorTypes, EvaluatorTypeOK, Finish, At
<1>1. job' \in Jobs /\ \A u \in Threads \ {t} : job'[u] = job[u]
  BY <1>0 DEF Finish, EvaluatorTypeOK, Jobs
<1>2. mail' \in Mails
  <2>1. [kind |-> Verdict(t), sid |-> None] \in Mail
    BY <1>0, VerdictTyped, StatusMail
  <2>2. job[t].from \in Clients \cup {None}
    BY <1>0 DEF Job
  <2> QED BY <1>0, <2>1, <2>2, MailTyped DEF Finish
<1>3. registry' \subseteq Kinds \X Owners
  BY <1>0, LeftTyped DEF Finish, EvaluatorTypeOK
<1>4. lock' \in [Paths -> Threads \cup {None}]
  BY <1>0, UnlockedTyped DEF Finish
<1> QED BY <1>0, <1>1, <1>2, <1>3, <1>4 DEF Finish, EvaluatorTypes, EvaluatorTypeOK, WorkersEmployed, Jobs

LEMMA RestartTypes ==
  ASSUME EvaluatorTypes, EvaluatorRestart
  PROVE  EvaluatorTypes'
<1>1. [kind |-> "error", sid |-> None] \in Mail
  BY DEF Mail
<1>2. mail' \in Mails
  BY <1>1 DEF EvaluatorTypes, EvaluatorRestart, Reset, Mails
<1>3. evalBox' \in Seq(Letters)
  <2>1. evalBox' = <<>>
    BY DEF EvaluatorRestart
  <2> QED BY <2>1
<1> QED BY <1>2, <1>3 DEF EvaluatorTypes, EvaluatorTypeOK, EvaluatorRestart, WorkersEmployed

\* The part that the clients touch.
ClientTypes ==
  /\ call \in [Clients -> Call \cup {None}]
  /\ bundle \in [Clients -> Ids \cup {None}]
  /\ result \in [Clients -> TrialOps \cup {None}]

LEMMA WaitsTyped ==
  ASSUME ClientTypes, NEW c \in Clients, NEW what \in {"pair", "result", "values", "direct"},
         NEW op \in TrialOps \cup {None}, Waits(c, what, op)
  PROVE  ClientTypes' /\ mail' = mail
<1>1. [what |-> what, op |-> op] \in Call
  BY DEF Call
<1> QED BY <1>1 DEF Waits, ClientTypes

LEMMA AskEncryptorTypes ==
  ASSUME EncryptorTypeOK, NEW c \in Clients, NEW sid \in Ids \cup {None}, NEW op \in TrialOps \cup {None},
         op # None => sid # None, ToEncryptor(c, sid, op)
  PROVE  EncryptorTypeOK' /\ UNCHANGED evaluator
<1>1. [from |-> c, sid |-> sid, op |-> op] \in Letter
  BY DEF Letter
<1> DEFINE x == [from |-> c, sid |-> sid, op |-> op]
<1>2. x \in Letter /\ (x.op # None => x.sid # None)
  BY <1>1
<1>3. encBox' = Append(encBox, x)
  BY DEF ToEncryptor
<1> HIDE DEF x
<1>4. encBox' \in Seq(Letter) /\ Len(encBox') = Len(encBox) + 1 /\ encBox'[Len(encBox')] = x
  BY <1>2, <1>3 DEF EncryptorTypeOK
<1>5. \A i \in 1..Len(encBox) : encBox'[i] = encBox[i]
  BY <1>3 DEF EncryptorTypeOK
<1>6. \A i \in 1..Len(encBox') : i \in 1..Len(encBox) \/ i = Len(encBox')
  BY <1>4 DEF EncryptorTypeOK
<1>7. \A i \in 1..Len(encBox') : encBox'[i].op # None => encBox'[i].sid # None
  BY <1>2, <1>4, <1>5, <1>6 DEF EncryptorTypeOK
<1> QED BY <1>4, <1>7 DEF ToEncryptor, EncryptorTypeOK

LEMMA AskEvaluatorTypes ==
  ASSUME EvaluatorTypeOK, NEW c \in Clients, NEW body \in Body, ToEvaluator(c, body)
  PROVE  EvaluatorTypeOK' /\ UNCHANGED <<encryptor, image, job, lock, registry, running>>
<1>1. [from |-> c, body |-> body] \in Letters
  BY DEF Letters
<1> DEFINE x == [from |-> c, body |-> body]
<1>2. x \in Letters /\ evalBox' = Append(evalBox, x)
  BY <1>1 DEF ToEvaluator
<1> HIDE DEF x
<1>3. evalBox' \in Seq(Letters)
  BY <1>2, AppendTyped DEF EvaluatorTypeOK
<1> QED BY <1>3 DEF ToEvaluator, EvaluatorTypeOK

LEMMA TypesParts == Types <=> EncryptorTypeOK /\ EvaluatorTypes /\ ClientTypes
BY DEF Types, TypeOK, EvaluatorTypes, ClientTypes, Mails

LEMMA AskingTypes ==
  ASSUME Types, NEW c \in Clients, Asking(c)
  PROVE  Types'
<1>0. /\ EncryptorTypeOK /\ EvaluatorTypes /\ ClientTypes
      /\ EvaluatorTypeOK /\ mail \in Mails /\ WorkersEmployed
  BY TypesParts DEF EvaluatorTypes
<1>1. ASSUME NEW sid \in Ids \cup {None}, NEW op \in TrialOps \cup {None}, op # None => sid # None,
             NEW what \in {"pair", "result", "values", "direct"},
             ToEncryptor(c, sid, op), Waits(c, what, op)
      PROVE  Types'
  <2>1. EncryptorTypeOK' /\ UNCHANGED evaluator
    BY <1>0, <1>1, AskEncryptorTypes
  <2>2. ClientTypes' /\ mail' = mail
    BY <1>0, <1>1, WaitsTyped
  <2>3. EvaluatorTypes'
    BY <1>0, <2>1, <2>2 DEF EvaluatorTypes, EvaluatorTypeOK, WorkersEmployed, evaluator
  <2> QED BY <2>1, <2>2, <2>3, TypesParts DEF Types, TypeOK, EvaluatorTypes, ClientTypes, Mails
<1>2. ASSUME NEW body \in Body, NEW op \in TrialOps \cup {None},
             NEW what \in {"pair", "result", "values", "direct"},
             ToEvaluator(c, body), Waits(c, what, op)
      PROVE  Types'
  <2>1. EvaluatorTypeOK' /\ UNCHANGED <<encryptor, image, job, lock, registry, running>>
    BY <1>0, <1>2, AskEvaluatorTypes
  <2>2. ClientTypes' /\ mail' = mail
    BY <1>0, <1>2, WaitsTyped
  <2>3. EvaluatorTypes'
    BY <1>0, <2>1, <2>2 DEF EvaluatorTypes, WorkersEmployed
  <2>4. EncryptorTypeOK'
    BY <1>0, <2>1 DEF EncryptorTypeOK, encryptor
  <2> QED BY <2>2, <2>3, <2>4 DEF Types, TypeOK, EvaluatorTypes, ClientTypes, Mails
<1>3. CASE AskPair(c)
  BY <1>1, <1>3 DEF AskPair
<1>4. CASE AskValues(c)
  BY <1>0, <1>1, <1>4 DEF AskValues, ClientTypes
<1>5. ASSUME NEW op \in TrialOps, AskResult(c, op)
      PROVE  Types'
  <2>1. PairBody(bundle[c], op) \in Body
    BY <1>0, <1>5, PairBodyTyped DEF AskResult, ClientTypes
  <2> QED BY <1>2, <1>5, <2>1 DEF AskResult
<1>6. ASSUME NEW body \in DirectBodies[image], AskDirectly(c, body)
      PROVE  Types'
  <2>1. body \in Body
    BY <1>0, <1>6, ServicesAssumption DEF EvaluatorTypeOK
  <2> QED BY <1>2, <1>6, <2>1 DEF AskDirectly
<1> QED BY <1>3, <1>4, <1>5, <1>6 DEF Asking

LEMMA ReturnedTyped ==
  ASSUME Types, NEW c \in Clients, Returned(c),
         bundle' \in [Clients -> Ids \cup {None}], result' \in [Clients -> TrialOps \cup {None}]
  PROVE  ClientTypes' /\ mail' \in Mails
BY DEF Returned, ClientTypes, Types, TypeOK, Mails

LEMMA ReceiveTypes ==
  ASSUME Types, NEW c \in Clients, Receive(c) \/ Abandon(c)
  PROVE  Types'
<1>0. /\ EncryptorTypeOK /\ EvaluatorTypeOK /\ ClientTypes /\ mail \in Mails /\ WorkersEmployed
  BY TypesParts DEF EvaluatorTypes
<1>1. bundle' \in [Clients -> Ids \cup {None}] /\ result' \in [Clients -> TrialOps \cup {None}]
  <2>1. CASE GiveUp(c)
    BY <1>0, <2>1 DEF GiveUp, ClientTypes
  <2>2. CASE Receive(c) /\ ~GiveUp(c)
    <3>1. mail[c] \in Mail /\ call[c] \in Call
      BY <1>0, <2>2 DEF Receive, Mails, ClientTypes
    <3>2. mail[c].sid \in Ids \cup {None} /\ call[c].op \in TrialOps \cup {None}
      BY <3>1 DEF Mail, Call
    <3>3. CASE ReceivePair(c)
      BY <1>0, <3>2, <3>3 DEF ReceivePair, ClientTypes
    <3>4. CASE ReceiveResult(c)
      BY <1>0, <3>2, <3>4 DEF ReceiveResult, ClientTypes
    <3>5. CASE ReceiveOther(c)
      BY <1>0, <3>5 DEF ReceiveOther, ClientTypes
    <3> QED BY <2>2, <3>3, <3>4, <3>5 DEF Receive
  <2> QED BY <2>1, <2>2 DEF Abandon
<1>2. ClientTypes' /\ mail' \in Mails
  BY <1>0, <1>1, ReturnedTyped DEF Receive, Abandon, ClientTypes
<1>3. UNCHANGED <<encryptor, evaluator>>
  BY DEF Receive, Abandon
<1> QED BY <1>0, <1>2, <1>3
        DEF Types, TypeOK, ClientTypes, Mails, WorkersEmployed, EncryptorTypeOK, EvaluatorTypeOK, encryptor, evaluator

LEMMA LettersForgetful ==
  /\ \A x \in Letter : [x EXCEPT !.from = None] \in Letter
  /\ \A x \in Letters : [x EXCEPT !.from = None] \in Letters
BY DEF Letter, Letters

LEMMA TimeoutTypes ==
  ASSUME Types, NEW c \in Clients, Timeout(c)
  PROVE  Types'
<1>0. EncryptorTypeOK /\ EvaluatorTypeOK /\ ClientTypes /\ mail \in Mails /\ WorkersEmployed
  BY TypesParts DEF EvaluatorTypes
<1>1. ClientTypes' /\ mail' \in Mails
  BY <1>0, ReturnedTyped DEF Timeout, ClientTypes
<1>2. encBox' \in Seq(Letter)
  <2>1. Orphaned(encBox, c) \in Seq(Letter)
    BY <1>0, OrphanedTyped, LettersForgetful DEF EncryptorTypeOK
  <2> QED BY <2>1 DEF Timeout
<1>3. evalBox' \in Seq(Letters)
  <2>1. Orphaned(evalBox, c) \in Seq(Letters)
    BY <1>0, OrphanedTyped, LettersForgetful DEF EvaluatorTypeOK
  <2> QED BY <2>1 DEF Timeout
<1>4. \A i \in 1..Len(encBox') : encBox'[i].op # None => encBox'[i].sid # None
  <2>1. encBox' = [i \in 1..Len(encBox) |-> IF encBox[i].from = c THEN [encBox[i] EXCEPT !.from = None] ELSE encBox[i]]
    BY DEF Timeout, Orphaned
  <2>2. Len(encBox') = Len(encBox)
    BY <1>0, <1>2, <2>1 DEF EncryptorTypeOK
  <2>3. \A i \in 1..Len(encBox) : encBox[i] \in Letter
    BY <1>0 DEF EncryptorTypeOK
  <2>4. \A i \in 1..Len(encBox) : encBox'[i].op = encBox[i].op /\ encBox'[i].sid = encBox[i].sid
    BY <2>1, <2>3 DEF Letter
  <2> QED BY <1>0, <2>2, <2>4 DEF EncryptorTypeOK
<1>5. job' \in Jobs /\ \A t \in Threads : job[t] # None => job'[t] # None
  <2>1. \A j \in Job : [j EXCEPT !.from = None] \in Job
    BY DEF Job
  <2> QED BY <1>0, <2>1, JobAssumption DEF Timeout, EvaluatorTypeOK, Jobs
<1>6. UNCHANGED <<life, minted, released, image, lock, registry, running>>
  BY DEF Timeout
<1>7. EncryptorTypeOK'
  BY <1>0, <1>2, <1>4, <1>6 DEF EncryptorTypeOK
<1>8. EvaluatorTypeOK' /\ WorkersEmployed'
  BY <1>0, <1>3, <1>5, <1>6 DEF EvaluatorTypeOK, WorkersEmployed, Jobs
<1> QED BY <1>1, <1>7, <1>8 DEF Types, TypeOK, ClientTypes, Mails

-----------------------------------------------------------------------------
(* The invariant of a job: where it may be in which image, and which locks, *)
(* keys and files go with it.                                              *)

\* A valid request; the steps of its image; the lock from setup to computation.
Placed(t) ==
  /\ Valid(job[t].q)
  /\ image = "gpu" => job[t].at \in {"lock", "worker", "end"} /\ job[t].status \in {None, "failed"}
  /\ image = "cpu" => /\ t = Main /\ job[t].at # "worker"
                      /\ job[t].at = "end" => job[t].status # None
  /\ job[t].at \in {"setup", "keys", "compute", "worker"} => lock[LockOf(job[t].q)] = t

\* In the GPU image: only a worker with the right keys writes, and it exits with
\* 0 only after that.
Written(t) ==
  image = "gpu" =>
    /\ job[t].file # "none" /\ job[t].q.path = "evaluate" => BringsKeys(job[t].q)
    /\ job[t].at = "end" /\ job[t].status = None /\ job[t].code = 0 => job[t].file = "whole"

\* Only the keys of the request are registered when an evaluation computes.
OwnKeys(t) ==
  /\ \A o \in Owners : <<"multiplication", o>> \in registry => MultKeys(job[t].q) = o
  /\ \A o \in Owners : <<"rotation", o>> \in registry => RotKeys(job[t].q) = o

\* In the CPU image: what is registered at each step.
Registered(t) ==
  image = "cpu" =>
    /\ job[t].at = "keys" => job[t].q.path = "evaluate" /\ registry = {<<"context", Owner(t)>>}
    /\ job[t].at = "compute" =>
         /\ <<"context", Owner(t)>> \in registry
         /\ job[t].q.path # "evaluate" => DemoKeys(job[t].q) \X {t} \subseteq registry
         /\ job[t].q.path = "evaluate" => OwnKeys(t)
    /\ job[t].at = "end" /\ job[t].status = "result" /\ job[t].q.path = "evaluate" => BringsKeys(job[t].q)

SoundJob(t) == Placed(t) /\ Written(t) /\ Registered(t)

Sound == \A t \in Threads : job[t] # None => SoundJob(t)

\* A living worker belongs to a job of the GPU image that waits for it.
Employed == \A t \in running : job[t] # None /\ job[t].at = "worker" /\ image = "gpu"

Core == EvaluatorTypes /\ Sound /\ Employed

LEMMA CoreFacts ==
  ASSUME Core, NEW t \in Threads, job[t] # None
  PROVE  /\ EvaluatorTypeOK /\ job[t] \in Job /\ job[t].q \in Body /\ LockOf(job[t].q) \in Paths
         /\ Placed(t) /\ Written(t) /\ Registered(t)
         /\ t # None /\ image \in {"cpu", "gpu"}
<1>1. EvaluatorTypeOK /\ job[t] \in Job /\ t # None
  BY EvaluatorAssumption DEF Core, EvaluatorTypes, EvaluatorTypeOK
<1>2. job[t].q \in Body
  BY <1>1 DEF Job
<1> QED BY <1>1, <1>2, LockOfTyped DEF Core, Sound, SoundJob, EvaluatorTypeOK

\* A job that does not move stays sound while its lock and registry stay.
LEMMA SameJobSound ==
  ASSUME NEW t \in Threads, SoundJob(t), job[t].q \in Body, image' = image,
         job'[t].q = job[t].q, job'[t].at = job[t].at, job'[t].file = job[t].file,
         job'[t].code = job[t].code, job'[t].status = job[t].status,
         \A b \in Paths : lock[b] = t => lock'[b] = t,
         image = "cpu" => registry' = registry
  PROVE  SoundJob(t)'
<1>1. Placed(t)'
  BY ValidStays, LockOfTyped DEF SoundJob, Placed
<1>2. Written(t)'
  BY ValidStays DEF SoundJob, Written
<1>3. Registered(t)'
  BY ValidStays DEF SoundJob, Registered, OwnKeys, Owner, DemoKeys
<1> QED BY <1>1, <1>2, <1>3 DEF SoundJob

\* What a step of one thread must see to.
LEMMA StepSound ==
  ASSUME Core, NEW t \in Threads, image' = image,
         \A u \in Threads \ {t} : job'[u] = job[u],
         \A u \in Threads \ {t} : \A b \in Paths : lock[b] = u => lock'[b] = u,
         image = "cpu" => registry' = registry \/ t = Main,
         job'[t] # None => SoundJob(t)'
  PROVE  Sound'
<1> SUFFICES ASSUME NEW u \in Threads \ {t}, job'[u] # None
             PROVE  SoundJob(u)'
  BY DEF Sound
<1>1. job[u] # None /\ job'[u] = job[u]
  OBVIOUS
<1>2. SoundJob(u) /\ job[u].q \in Body
  BY <1>1, CoreFacts DEF SoundJob
<1>3. image = "cpu" => registry' = registry
  BY <1>2 DEF SoundJob, Placed
<1> QED BY <1>1, <1>2, <1>3, SameJobSound

\* What an unlocking leaves the others.
LEMMA UnlockedOthers ==
  ASSUME EvaluatorTypeOK, NEW t \in Threads, lock' \in {lock, Unlocked(t)}
  PROVE  \A u \in Threads \ {t} : \A b \in Paths : lock[b] = u => lock'[b] = u
BY DEF EvaluatorTypeOK, Unlocked

LEMMA AcceptSound ==
  ASSUME Core, NEW t \in Threads, Accept(t)
  PROVE  Sound' /\ Employed'
<1> DEFINE m == Head(evalBox)
<1>1. EvaluatorTypeOK /\ job[t] = None /\ (image = "cpu" => t = Main)
  BY DEF Core, EvaluatorTypes, Accept, Free
<1>2. UNCHANGED <<image, lock, registry, running>>
  BY DEF Accept
<1>3. CASE job' = job
  <2>1. Sound'
    BY <1>1, <1>2, <1>3, StepSound
  <2> QED BY <1>2, <1>3, <2>1 DEF Core, Employed
<1>4. CASE Valid(m.body) /\ job' = [job EXCEPT ![t] = NewJob(m)]
  <2>1. /\ job'[t] = NewJob(m) /\ \A u \in Threads \ {t} : job'[u] = job[u]
    BY <1>1, <1>4 DEF EvaluatorTypeOK
  <2>2. /\ job'[t].q = m.body /\ job'[t].at = "lock" /\ job'[t].file = "none" /\ job'[t].status = None
    BY <2>1 DEF NewJob
  <2>3. Valid(job[t].q)'
    BY <1>2, <1>4, <2>2, ValidStays
  <2>4. Placed(t)'
    BY <1>1, <1>2, <2>2, <2>3 DEF Placed
  <2>5. Written(t)' /\ Registered(t)'
    BY <1>1, <1>2, <2>2 DEF Written, Registered
  <2>6. Sound'
    BY <1>1, <1>2, <2>1, <2>4, <2>5, StepSound DEF SoundJob
  <2>7. Employed'
    BY <1>1, <1>2, <2>1 DEF Core, Employed, EvaluatorTypeOK
  <2> QED BY <2>6, <2>7
<1> QED BY <1>3, <1>4 DEF Accept

LEMMA AcquireSound ==
  ASSUME Core, NEW t \in Threads, Acquire(t)
  PROVE  Sound' /\ Employed'
<1> DEFINE at == IF image = "cpu" THEN "setup" ELSE "worker"
<1>0. job[t] # None /\ job[t].at = "lock" /\ lock[LockOf(job[t].q)] = None
  BY DEF Acquire, At
<1>1. /\ EvaluatorTypeOK /\ job[t] \in Job /\ LockOf(job[t].q) \in Paths
      /\ Placed(t) /\ Written(t) /\ t # None /\ image \in {"cpu", "gpu"}
  BY <1>0, CoreFacts
<1>2. /\ job' = [job EXCEPT ![t].at = at] /\ lock' = [lock EXCEPT ![LockOf(job[t].q)] = t]
      /\ UNCHANGED <<image, evalBox, registry, running, mail>>
  BY DEF Acquire
<1> HIDE DEF at
<1>3. /\ job'[t] = [job[t] EXCEPT !.at = at] /\ \A u \in Threads \ {t} : job'[u] = job[u]
      /\ job'[t] # None
  <2>1. job'[t] = [job[t] EXCEPT !.at = at]
    BY <1>1, <1>2 DEF EvaluatorTypeOK
  <2>2. [job[t] EXCEPT !.at = at] \in Job
    BY <1>1 DEF at, Job, Steps
  <2> QED BY <1>1, <1>2, <2>1, <2>2, JobAssumption DEF EvaluatorTypeOK
<1>4. /\ job'[t].q = job[t].q /\ job'[t].at = at /\ job'[t].file = job[t].file
      /\ job'[t].status = job[t].status
  BY <1>1, <1>3 DEF Job
<1>5. lock'[LockOf(job[t].q)] = t
  BY <1>1, <1>2 DEF EvaluatorTypeOK
<1>6. \A u \in Threads \ {t} : \A b \in Paths : lock[b] = u => lock'[b] = u
  <2>1. None \notin Threads
    BY EvaluatorAssumption
  <2> QED BY <1>0, <1>1, <1>2, <2>1 DEF EvaluatorTypeOK
<1>7. Placed(t)'
  <2>1. Valid(job[t].q)'
    BY <1>1, <1>2, <1>4, ValidStays DEF Placed
  <2>2. LockOf(job[t].q)' = LockOf(job[t].q)
    BY <1>2, <1>4, ValidStays
  <2> QED BY <1>1, <1>2, <1>4, <1>5, <2>1, <2>2 DEF Placed, at
<1>8. Written(t)' /\ Registered(t)'
  BY <1>1, <1>2, <1>4, ValidStays DEF Written, Registered, at
<1>9. Sound'
  BY <1>2, <1>3, <1>6, <1>7, <1>8, StepSound DEF SoundJob
<1>10. Employed'
  <2>1. t \notin running
    BY <1>0 DEF Core, Employed
  <2> QED BY <1>2, <1>3, <2>1 DEF Core, Employed, EvaluatorTypes, EvaluatorTypeOK
<1> QED BY <1>9, <1>10

-----------------------------------------------------------------------------
(* The steps of the jobs keep it.                                          *)

LEMMA MovedJob ==
  ASSUME Core, NEW t \in Threads, job[t] # None, NEW s \in Steps, job' = [job EXCEPT ![t].at = s]
  PROVE  /\ job'[t] # None /\ \A u \in Threads \ {t} : job'[u] = job[u]
         /\ job'[t].q = job[t].q /\ job'[t].at = s /\ job'[t].file = job[t].file
         /\ job'[t].status = job[t].status /\ job'[t].from = job[t].from
<1>1. EvaluatorTypeOK /\ job[t] \in Job
  BY CoreFacts
<1>2. job' = [job EXCEPT ![t] = [job[t] EXCEPT !.at = s]]
  BY <1>1 DEF EvaluatorTypeOK
<1>3. [job[t] EXCEPT !.at = s] \in Job
  BY <1>1 DEF Job
<1>4. job'[t] = [job[t] EXCEPT !.at = s] /\ job'[t] # None /\ \A u \in Threads \ {t} : job'[u] = job[u]
  BY <1>1, <1>2, <1>3, JobTyped
<1> QED BY <1>1, <1>4 DEF Job

LEMMA EndedJob ==
  ASSUME Core, NEW t \in Threads, job[t] # None, NEW status \in Statuses, Ends(t, status)
  PROVE  /\ job'[t] # None /\ \A u \in Threads \ {t} : job'[u] = job[u]
         /\ job'[t].q = job[t].q /\ job'[t].at = "end" /\ job'[t].file = job[t].file
         /\ job'[t].status = status /\ status # None /\ job'[t].from = job[t].from
<1>1. EvaluatorTypeOK /\ job[t] \in Job
  BY CoreFacts
<1>2. /\ job'[t] = [job[t] EXCEPT !.at = "end", !.status = status]
      /\ job'[t] # None /\ \A u \in Threads \ {t} : job'[u] = job[u]
  BY <1>1, EndsTyped
<1>3. status # None
  BY EvaluatorAssumption DEF Statuses
<1> QED BY <1>1, <1>2, <1>3 DEF Job

\* In the CPU image: a job goes on.
LEMMA CpuMoves ==
  ASSUME Core, NEW t \in Threads, job[t] # None, image = "cpu", NEW s \in {"keys", "compute"},
         job[t].at \in {"setup", "keys"},
         job' = [job EXCEPT ![t].at = s], UNCHANGED <<image, lock, running>>,
         s = "keys" => job[t].q.path = "evaluate" /\ registry' = {<<"context", Owner(t)>>},
         s = "compute" =>
           /\ <<"context", Owner(t)>> \in registry'
           /\ job[t].q.path # "evaluate" => DemoKeys(job[t].q) \X {t} \subseteq registry'
           /\ job[t].q.path = "evaluate" =>
                /\ \A o \in Owners : <<"multiplication", o>> \in registry' => MultKeys(job[t].q) = o
                /\ \A o \in Owners : <<"rotation", o>> \in registry' => RotKeys(job[t].q) = o
  PROVE  Sound' /\ Employed'
<1>1. /\ job'[t] # None /\ \A u \in Threads \ {t} : job'[u] = job[u]
      /\ job'[t].q = job[t].q /\ job'[t].at = s /\ job'[t].status = job[t].status
  BY MovedJob DEF Steps
<1>2. Placed(t) /\ job[t].q \in Body
  BY CoreFacts
<1>3. t = Main /\ lock[LockOf(job[t].q)] = t /\ Valid(job[t].q)
  BY <1>2 DEF Placed
<1>4. Valid(job[t].q)'
  BY <1>1, <1>3, ValidStays
<1>5. LockOf(job[t].q)' = LockOf(job[t].q)
  BY <1>1, ValidStays
<1>6. Placed(t)'
  BY <1>1, <1>3, <1>4, <1>5 DEF Placed
<1>7. Owner(t)' = Owner(t)
  BY <1>1 DEF Owner
<1>8. MultKeys(job[t].q)' = MultKeys(job[t].q) /\ RotKeys(job[t].q)' = RotKeys(job[t].q)
  BY <1>1
<1>9. DemoKeys(job[t].q)' = DemoKeys(job[t].q)
  BY <1>1
<1>10. Registered(t)'
  BY <1>1, <1>7, <1>8, <1>9 DEF Registered, OwnKeys
<1>11. Written(t)'
  BY DEF Written
<1>12. Sound'
  BY <1>1, <1>3, <1>6, <1>10, <1>11, StepSound DEF SoundJob
<1>13. Employed'
  BY DEF Core, Employed
<1> QED BY <1>12, <1>13

\* In the CPU image: a job ends.
LEMMA CpuEnds ==
  ASSUME Core, NEW t \in Threads, job[t] # None, image = "cpu", NEW status \in Statuses,
         Ends(t, status), UNCHANGED <<image, lock, running>>,
         status = "result" /\ job[t].q.path = "evaluate" => BringsKeys(job[t].q)
  PROVE  Sound' /\ Employed'
<1>1. /\ job'[t] # None /\ \A u \in Threads \ {t} : job'[u] = job[u]
      /\ job'[t].q = job[t].q /\ job'[t].at = "end" /\ job'[t].status = status /\ status # None
  BY EndedJob
<1>2. Placed(t) /\ job[t].q \in Body
  BY CoreFacts
<1>3. t = Main /\ Valid(job[t].q)
  BY <1>2 DEF Placed
<1>4. Valid(job[t].q)'
  BY <1>1, <1>3, ValidStays
<1>5. Placed(t)'
  BY <1>1, <1>3, <1>4 DEF Placed
<1>6. BringsKeys(job[t].q) <=> BringsKeys(job[t].q)'
  BY <1>1, ValidStays
<1>7. Registered(t)' /\ Written(t)'
  BY <1>1, <1>6 DEF Registered, Written
<1>8. Sound'
  BY <1>1, <1>3, <1>5, <1>7, StepSound DEF SoundJob
<1>9. Employed'
  BY DEF Core, Employed
<1> QED BY <1>8, <1>9

LEMMA CpuStepSound ==
  ASSUME Core, NEW t \in Threads,
         DeserializeContext(t) \/ GenerateKeys(t) \/ LoadKeys(t) \/ Compute(t)
  PROVE  Sound' /\ Employed'
<1>0. job[t] # None /\ image = "cpu" /\ UNCHANGED <<image, lock, running>>
  BY DEF DeserializeContext, GenerateKeys, LoadKeys, Compute, At
<1>1. /\ EvaluatorTypeOK /\ job[t] \in Job /\ job[t].q \in Body /\ Registered(t)
  BY <1>0, CoreFacts
<1>2. CASE Fails(t)
  <2>1. PICK status \in Statuses : status \in {"rejected", "failed"} /\ Ends(t, status)
    BY <1>2, FailsEnds
  <2> QED BY <1>0, <2>1, CpuEnds
<1>3. CASE DeserializeContext(t) /\ ~Fails(t)
  <2>1. registry' = {<<"context", Owner(t)>>}
    BY <1>3 DEF DeserializeContext, ClearedBy
  <2> QED BY <1>0, <1>3, <2>1, CpuMoves DEF DeserializeContext, At
<1>4. CASE GenerateKeys(t) /\ ~Fails(t)
  <2>1. registry' = ClearedBy(job[t].q) \cup {<<"context", t>>} \cup (DemoKeys(job[t].q) \X {t})
    BY <1>4 DEF GenerateKeys
  <2>2. Owner(t) = t /\ job[t].q.path # "evaluate"
    BY <1>4 DEF GenerateKeys, Owner
  <2> QED BY <1>0, <1>4, <2>1, <2>2, CpuMoves DEF GenerateKeys, At
<1>5. CASE LoadKeys(t) /\ ~Fails(t)
  <2> DEFINE mult == IF MultKeys(job[t].q) = None THEN {} ELSE {<<"multiplication", MultKeys(job[t].q)>>}
             rot  == IF RotKeys(job[t].q) = None THEN {} ELSE {<<"rotation", RotKeys(job[t].q)>>}
  <2>1. /\ registry' = registry \cup mult \cup rot /\ job' = [job EXCEPT ![t].at = "compute"]
        /\ job[t].at = "keys"
    BY <1>5 DEF LoadKeys, At
  <2>2. job[t].q.path = "evaluate" /\ registry = {<<"context", Owner(t)>>}
    BY <1>0, <1>1, <2>1 DEF Registered
  <2>3. <<"context", Owner(t)>> \in registry'
    BY <2>1, <2>2
  <2>4. \A o \in Owners : <<"multiplication", o>> \in registry' => MultKeys(job[t].q) = o
    BY <2>1, <2>2
  <2>5. \A o \in Owners : <<"rotation", o>> \in registry' => RotKeys(job[t].q) = o
    BY <2>1, <2>2
  <2> HIDE DEF mult, rot
  <2> QED BY <1>0, <2>1, <2>2, <2>3, <2>4, <2>5, CpuMoves
<1>6. CASE Compute(t) /\ ~Fails(t)
  <2>1. LooksUp(job[t].q) \X {Owner(t)} \subseteq registry /\ Ends(t, "result") /\ job[t].at = "compute"
    BY <1>6 DEF Compute, At
  <2>2. ASSUME job[t].q.path = "evaluate"
        PROVE  BringsKeys(job[t].q)
    <3>1. Owner(t) = job[t].q.of /\ job[t].q.of \in Owners
      BY <1>1, <2>2 DEF Owner, Owners, Body
    <3>2. OwnKeys(t)
      BY <1>0, <1>1, <2>1, <2>2 DEF Registered
    <3>3. NeedsMult(job[t].q.op) => <<"multiplication", job[t].q.of>> \in registry
      BY <2>1, <2>2, <3>1 DEF LooksUp
    <3>4. NeedsRot(job[t].q.op) => <<"rotation", job[t].q.of>> \in registry
      BY <2>1, <2>2, <3>1 DEF LooksUp
    <3> QED BY <3>1, <3>2, <3>3, <3>4 DEF BringsKeys, OwnKeys
  <2> QED BY <1>0, <2>1, <2>2, CpuEnds DEF Statuses
<1> QED BY <1>2, <1>3, <1>4, <1>5, <1>6

\* In the GPU image: a job ends without a result.
LEMMA GpuFails ==
  ASSUME Core, NEW t \in Threads, job[t] # None, image = "gpu",
         Ends(t, "failed"), UNCHANGED <<image, registry>>, lock' \in {lock, Unlocked(t)},
         running' = running \ {t}
  PROVE  Sound' /\ Employed'
<1>1. /\ job'[t] # None /\ \A u \in Threads \ {t} : job'[u] = job[u]
      /\ job'[t].q = job[t].q /\ job'[t].at = "end" /\ job'[t].status = "failed" /\ job'[t].file = job[t].file
      /\ "failed" # None
  BY EndedJob DEF Statuses
<1>2. EvaluatorTypeOK /\ Placed(t) /\ Written(t) /\ job[t].q \in Body
  BY CoreFacts
<1>4. Valid(job[t].q)'
  BY <1>1, <1>2, ValidStays DEF Placed
<1>5. Placed(t)'
  BY <1>1, <1>4 DEF Placed
<1>6. BringsKeys(job[t].q) <=> BringsKeys(job[t].q)'
  BY <1>1, ValidStays
<1>7. Registered(t)' /\ Written(t)'
  BY <1>1, <1>2, <1>6 DEF Registered, Written
<1>8. Sound'
  BY <1>1, <1>2, <1>5, <1>7, StepSound, UnlockedOthers DEF SoundJob
<1>9. Employed'
  BY <1>1, <1>2 DEF Core, Employed, EvaluatorTypeOK
<1> QED BY <1>8, <1>9

LEMMA WorkerSound ==
  ASSUME Core, NEW t \in Threads,
         StartWorker(t) \/ WorkerWrites(t) \/ WorkerExits(t) \/ WorkerTimeout(t)
  PROVE  Sound' /\ Employed'
<1>0. /\ job[t] # None /\ image = "gpu" /\ job[t].at = "worker"
      /\ UNCHANGED <<image, evalBox, registry, mail>>
  BY DEF Core, Employed, StartWorker, WorkerWrites, WorkerExits, WorkerTimeout, At
<1>1. /\ EvaluatorTypeOK /\ job[t] \in Job /\ job[t].q \in Body /\ Placed(t) /\ Written(t)
  BY <1>0, CoreFacts
<1>2. CASE StartWorker(t)
  <2>1. CASE running' = running \cup {t} /\ UNCHANGED <<job, lock>>
    <3>1. SoundJob(t)
      BY <1>0, CoreFacts DEF SoundJob
    <3>2. SoundJob(t)'
      BY <1>0, <1>1, <2>1, <3>1, SameJobSound
    <3> QED BY <1>0, <2>1, <3>2, StepSound DEF Core, Employed
  <2>2. CASE Ends(t, "failed") /\ lock' \in {lock, Unlocked(t)} /\ running' = running /\ t \notin running
    BY <1>0, <2>2, GpuFails
  <2> QED BY <1>2, <2>1, <2>2 DEF StartWorker
<1>3. CASE WorkerWrites(t)
  <2>1. PICK f \in {"partial", "whole"} : job' = [job EXCEPT ![t] = [job[t] EXCEPT !.file = f]]
    BY <1>1, <1>3 DEF WorkerWrites, EvaluatorTypeOK
  <2>2. [job[t] EXCEPT !.file = f] \in Job
    BY <1>1, <2>1 DEF Job
  <2>3. /\ job'[t] = [job[t] EXCEPT !.file = f] /\ job'[t] # None
        /\ \A u \in Threads \ {t} : job'[u] = job[u]
    BY <1>1, <2>1, <2>2, JobTyped
  <2>4. /\ job'[t].q = job[t].q /\ job'[t].at = "worker" /\ job'[t].status = job[t].status
    BY <1>0, <1>1, <2>3 DEF Job
  <2>5. job[t].q.path = "evaluate" => BringsKeys(job[t].q)
    BY <1>3 DEF WorkerWrites
  <2>6. UNCHANGED <<lock, running>>
    BY <1>3 DEF WorkerWrites
  <2>7. Valid(job[t].q)'
    BY <1>0, <1>1, <2>4, ValidStays DEF Placed
  <2>8. LockOf(job[t].q)' = LockOf(job[t].q)
    BY <1>0, <2>4, ValidStays
  <2>9. BringsKeys(job[t].q) <=> BringsKeys(job[t].q)'
    BY <1>0, <2>4, ValidStays
  <2>10. Placed(t)'
    BY <1>0, <1>1, <2>4, <2>6, <2>7, <2>8 DEF Placed
  <2>11. Written(t)' /\ Registered(t)'
    BY <1>0, <2>4, <2>5, <2>9 DEF Written, Registered
  <2>12. Sound'
    BY <1>0, <2>3, <2>6, <2>10, <2>11, StepSound DEF SoundJob
  <2>13. Employed'
    BY <1>0, <2>3, <2>4, <2>6 DEF Core, Employed, EvaluatorTypes, EvaluatorTypeOK
  <2> QED BY <2>12, <2>13
<1>4. CASE WorkerExits(t)
  <2>1. PICK c \in {0, 1} : (c = 0 => job[t].file = "whole")
                            /\ job' = [job EXCEPT ![t].at = "end", ![t].code = c]
    BY <1>4 DEF WorkerExits
  <2>2. job' = [job EXCEPT ![t] = [job[t] EXCEPT !.at = "end", !.code = c]]
    BY <1>1, <2>1 DEF EvaluatorTypeOK
  <2>3. [job[t] EXCEPT !.at = "end", !.code = c] \in Job
    BY <1>1 DEF Job, Steps
  <2>4. /\ job'[t] = [job[t] EXCEPT !.at = "end", !.code = c] /\ job'[t] # None
        /\ \A u \in Threads \ {t} : job'[u] = job[u]
    BY <1>1, <2>2, <2>3, JobTyped
  <2>5. /\ job'[t].q = job[t].q /\ job'[t].at = "end" /\ job'[t].status = job[t].status
        /\ job'[t].file = job[t].file /\ job'[t].code = c
    BY <1>1, <2>4 DEF Job
  <2>6. lock' \in {lock, Unlocked(t)} /\ running' = running \ {t}
    BY <1>4 DEF WorkerExits
  <2>7. Valid(job[t].q)'
    BY <1>0, <1>1, <2>5, ValidStays DEF Placed
  <2>8. BringsKeys(job[t].q) <=> BringsKeys(job[t].q)'
    BY <1>0, <2>5, ValidStays
  <2>9. Placed(t)'
    BY <1>0, <1>1, <2>5, <2>7 DEF Placed
  <2>10. Written(t)' /\ Registered(t)'
    BY <1>0, <1>1, <2>1, <2>5, <2>8 DEF Written, Registered
  <2>11. Sound'
    BY <1>0, <1>1, <2>4, <2>6, <2>9, <2>10, StepSound, UnlockedOthers DEF SoundJob
  <2>12. Employed'
    BY <1>0, <1>1, <2>4, <2>6 DEF Core, Employed, EvaluatorTypeOK
  <2> QED BY <2>11, <2>12
<1>5. CASE WorkerTimeout(t)
  <2>1. Ends(t, "failed") /\ lock' \in {lock, Unlocked(t)} /\ running' = running \ {t}
    BY <1>5 DEF WorkerTimeout
  <2> QED BY <1>0, <2>1, GpuFails
<1> QED BY <1>2, <1>3, <1>4, <1>5

LEMMA FinishSound ==
  ASSUME Core, NEW t \in Threads, Finish(t)
  PROVE  Sound' /\ Employed' /\ t \notin running
<1>0. job[t] # None /\ job[t].at = "end"
  BY DEF Finish, At
<1>1. EvaluatorTypeOK /\ Placed(t) /\ image \in {"cpu", "gpu"}
  BY <1>0, CoreFacts
<1>2. t \notin running
  BY <1>0 DEF Core, Employed
<1>3. job'[t] = None /\ \A u \in Threads \ {t} : job'[u] = job[u]
  BY <1>1 DEF Finish, EvaluatorTypeOK
<1>4. lock' = Unlocked(t) /\ UNCHANGED <<image, evalBox, running>>
  BY DEF Finish
<1>5. image = "cpu" => t = Main
  BY <1>1 DEF Placed
<1>6. Sound'
  BY <1>1, <1>3, <1>4, <1>5, StepSound, UnlockedOthers
<1>7. Employed'
  BY <1>1, <1>2, <1>3, <1>4 DEF Core, Employed, EvaluatorTypeOK
<1> QED BY <1>2, <1>6, <1>7

LEMMA TimeoutSound ==
  ASSUME Core, NEW c \in Clients, Timeout(c)
  PROVE  Sound' /\ Employed'
<1>1. /\ EvaluatorTypeOK
      /\ job' = [t \in Threads |-> IF job[t] # None /\ job[t].from = c
                               THEN [job[t] EXCEPT !.from = None] ELSE job[t]]
      /\ UNCHANGED <<image, lock, registry, running>>
  BY DEF Timeout, Core, EvaluatorTypes
<1>2. ASSUME NEW t \in Threads
      PROVE  /\ job[t] = None <=> job'[t] = None
             /\ job[t] # None => /\ job'[t].q = job[t].q /\ job'[t].at = job[t].at
                                 /\ job'[t].file = job[t].file
                                 /\ job'[t].code = job[t].code /\ job'[t].status = job[t].status
  <2>1. CASE job[t] = None
    BY <1>1, <2>1
  <2>2. CASE job[t] # None
    <3>1. job[t] \in Job
      BY <1>1, <2>2 DEF EvaluatorTypeOK
    <3>2. job'[t] = IF job[t].from = c THEN [job[t] EXCEPT !.from = None] ELSE job[t]
      BY <1>1, <2>2
    <3>3. job'[t] \in Job
      BY <3>1, <3>2 DEF Job
    <3> QED BY <2>2, <3>1, <3>2, <3>3, JobAssumption DEF Job
  <2> QED BY <2>1, <2>2
<1>3. Sound'
  <2> SUFFICES ASSUME NEW t \in Threads, job'[t] # None PROVE SoundJob(t)'
    BY DEF Sound
  <2>1. SoundJob(t) /\ job[t].q \in Body
    BY <1>2, CoreFacts DEF SoundJob
  <2> QED BY <1>1, <1>2, <2>1, SameJobSound
<1>4. Employed'
  BY <1>1, <1>2 DEF Core, Employed, EvaluatorTypes, EvaluatorTypeOK
<1> QED BY <1>3, <1>4

-----------------------------------------------------------------------------
(* The inductive invariant and what follows from it.                       *)

\* A session that is there was given out, and nothing of its pair was.
Ledgered ==
  \A s \in Ids :
    /\ s \notin minted => life[s] = None /\ released[s] = <<>>
    /\ Live(s) => s \in minted /\ released[s] = <<>>

\* The inductive invariant.
IInv == Types /\ Sound /\ Employed

LEMMA InitIInv == Init => IInv
<1> SUFFICES ASSUME Init PROVE IInv
  OBVIOUS
<1>1. EncryptorTypeOK
  <2>1. encBox = <<>>
    BY DEF Init, EncryptorInit
  <2>2. encBox \in Seq(Letter) /\ Len(encBox) = 0
    BY <2>1
  <2>3. <<>> \in Seq(TrialOps)
    OBVIOUS
  <2> QED BY <2>2, <2>3 DEF Init, EncryptorInit, EncryptorTypeOK
<1>2. EvaluatorTypeOK
  <2>1. evalBox = <<>>
    BY DEF Init, EvaluatorInit
  <2>2. evalBox \in Seq(Letters)
    BY <2>1
  <2> QED BY <2>2 DEF Init, EvaluatorInit, EvaluatorTypeOK
<1>3. TypeOK
  BY <1>1, <1>2 DEF Init, TypeOK
<1> QED BY <1>3 DEF Init, EvaluatorInit, IInv, Types, WorkersEmployed, Sound, Employed

LEMMA IInvCore == IInv <=> EncryptorTypeOK /\ ClientTypes /\ Core
BY TypesParts DEF IInv, Core

LEMMA ThreadSteps ==
  ASSUME Core, NEW t \in Threads, ThreadStep(t) \/ WorkerStep(t)
  PROVE  Core'
<1>1. EvaluatorTypes
  BY DEF Core
<1>2. CASE Accept(t)
  BY <1>1, <1>2, AcceptTypes, AcceptSound DEF Core
<1>3. CASE Acquire(t)
  BY <1>1, <1>3, AcquireTypes, AcquireSound DEF Core
<1>4. CASE DeserializeContext(t) \/ GenerateKeys(t) \/ LoadKeys(t) \/ Compute(t)
  BY <1>1, <1>4, CpuStepTypes, CpuStepSound DEF Core
<1>5. CASE StartWorker(t)
  BY <1>1, <1>5, StartTypes, WorkerSound DEF Core
<1>6. CASE WorkerTimeout(t) \/ WorkerWrites(t) \/ WorkerExits(t)
  BY <1>1, <1>6, WorkerTypes, WorkerSound DEF Core
<1>7. CASE Finish(t)
  BY <1>1, <1>7, FinishTypes, FinishSound DEF Core
<1> QED BY <1>2, <1>3, <1>4, <1>5, <1>6, <1>7 DEF ThreadStep, WorkerStep

LEMMA CoreStays ==
  ASSUME Core, mail' \in Mails, UNCHANGED <<image, job, lock, registry, running>>, evalBox' \in Seq(Letters)
  PROVE  Core'
<1>1. EvaluatorTypes'
  BY DEF Core, EvaluatorTypes, EvaluatorTypeOK, WorkersEmployed
<1>2. Sound'
  <2> SUFFICES ASSUME NEW t \in Threads, job'[t] # None PROVE SoundJob(t)'
    BY DEF Sound
  <2>1. SoundJob(t) /\ job[t].q \in Body
    BY CoreFacts DEF SoundJob
  <2> QED BY <2>1, SameJobSound
<1>3. Employed'
  BY DEF Core, Employed
<1> QED BY <1>1, <1>2, <1>3 DEF Core

\* Every step keeps the inductive invariant: one case for each kind of step.
LEMMA NextIInv == IInv /\ [Next]_vars => IInv'
<1> SUFFICES ASSUME IInv, [Next]_vars PROVE IInv'
  OBVIOUS
<1>0. EncryptorTypeOK /\ ClientTypes /\ Core /\ Types /\ mail \in Mails /\ evalBox \in Seq(Letters)
  BY IInvCore DEF IInv, Types, TypeOK, Mails, EvaluatorTypeOK
<1>1. ASSUME UNCHANGED <<evaluator, clients>>, EncryptorTypeOK', mail' \in Mails
      PROVE  IInv'
  <2>1. Core'
    BY <1>0, <1>1, CoreStays DEF evaluator
  <2>2. ClientTypes'
    BY <1>0, <1>1 DEF ClientTypes, clients
  <2> QED BY <1>1, <2>1, <2>2, IInvCore, PTL
<1>2. ASSUME UNCHANGED <<encryptor, clients>>, Core'
      PROVE  IInv'
  <2>1. EncryptorTypeOK' /\ ClientTypes'
    BY <1>0, <1>2 DEF ClientTypes, clients, EncryptorTypeOK, encryptor
  <2> QED BY <1>2, <2>1, IInvCore, PTL
<1>3. CASE Encrypting
  BY <1>0, <1>1, <1>3, EncryptingTypes DEF Encrypting
<1>4. CASE (EncryptorTick \/ EncryptorRestart) /\ UNCHANGED <<evaluator, clients>>
  BY <1>0, <1>1, <1>4, OtherEncryptorTypes
<1>5. CASE EvaluatorRestart /\ UNCHANGED <<encryptor, clients>>
  <2>1. Core'
    BY <1>0, <1>5, RestartTypes DEF Core, EvaluatorRestart, Sound, Employed
  <2> QED BY <1>2, <1>5, <2>1
<1>6. ASSUME NEW t \in Threads, Answering(t) \/ Working(t)
      PROVE  IInv'
  BY <1>0, <1>2, <1>6, ThreadSteps DEF Answering, Working
<1>7. ASSUME NEW c \in Clients, Asking(c) \/ Receive(c) \/ Abandon(c)
      PROVE  IInv'
  <2>1. Types'
    BY <1>0, <1>7, AskingTypes, ReceiveTypes
  <2>2. UNCHANGED <<image, job, lock, registry, running>>
    BY <1>7 DEF Asking, AskPair, AskValues, AskResult, AskDirectly, ToEncryptor, ToEvaluator, Receive, Abandon, evaluator
  <2>3. mail' \in Mails /\ evalBox' \in Seq(Letters)
    BY <2>1 DEF Types, TypeOK, EvaluatorTypeOK, Mails
  <2>4. Core'
    BY <1>0, <2>2, <2>3, CoreStays
  <2> QED BY <2>1, <2>4 DEF IInv, Core
<1>8. ASSUME NEW c \in Clients, Timeout(c)
      PROVE  IInv'
  BY <1>0, <1>8, TimeoutTypes, TimeoutSound DEF IInv
<1>9. CASE UNCHANGED vars
  <2>1. UNCHANGED <<encryptor, evaluator, mail, clients>>
    BY <1>9 DEF vars
  <2>2. EncryptorTypeOK' /\ mail' \in Mails
    BY <1>0, <2>1 DEF EncryptorTypeOK, encryptor
  <2> QED BY <1>1, <2>1, <2>2
<1> QED BY <1>3, <1>4, <1>5, <1>6, <1>7, <1>8, <1>9 DEF Next

\* The inductive invariant holds in every reachable state.
THEOREM InductiveInvariant == Spec => []IInv
BY InitIInv, NextIInv, PTL DEF Spec

\* Every variable keeps its type, whatever is lost, repeated or restarted.
THEOREM TypeCorrect == Spec => []TypeOK
<1>1. IInv => TypeOK
  BY DEF IInv, Types
<1> QED BY <1>1, InductiveInvariant, PTL

\* A native worker lives only under the lock of its class, for any number of
\* threads, timeouts and failures.
THEOREM WorkersHoldLocks == Spec => []WorkersUnderLock
<1>1. IInv => WorkersUnderLock
  <2> SUFFICES ASSUME IInv, NEW t \in running PROVE job[t] # None /\ lock[LockOf(job[t].q)] = t
    BY DEF WorkersUnderLock
  <2>1. t \in Threads /\ job[t] # None /\ job[t].at = "worker" /\ Core
    BY IInvCore DEF Core, Employed, EvaluatorTypes, EvaluatorTypeOK
  <2> QED BY <2>1, CoreFacts DEF Placed
<1> QED BY <1>1, InductiveInvariant, PTL

\* A result was computed with the keys of its own request, whatever earlier
\* requests have left registered.
THEOREM AnswersFromRequestKeys == Spec => []AnswersFromOwnKeys
<1>1. IInv => AnswersFromOwnKeys
  <2> SUFFICES ASSUME IInv, NEW t \in Threads, job[t] # None, job[t].at = "end",
                      Verdict(t) = "result", job[t].q.path = "evaluate"
               PROVE  BringsKeys(job[t].q)
    BY DEF AnswersFromOwnKeys, At
  <2>1. Placed(t) /\ Written(t) /\ Registered(t) /\ image \in {"cpu", "gpu"} /\ job[t] \in Job
    BY IInvCore, CoreFacts
  <2>2. CASE image = "cpu"
    BY <2>1, <2>2 DEF Placed, Registered, Verdict
  <2>3. CASE image = "gpu"
    <3>1. job[t].status = None
      BY <2>1, <2>3 DEF Placed, Verdict
    <3>2. job[t].file # "none"
      BY <3>1 DEF Verdict
    <3> QED BY <2>1, <2>3, <3>2 DEF Written
  <2> QED BY <2>1, <2>2, <2>3
<1> QED BY <1>1, InductiveInvariant, PTL

\* What a job of the CPU image has registered is there when it computes.
THEOREM RegistryUntouched == Spec => []RegistryStays
<1>1. IInv => RegistryStays
  <2> SUFFICES ASSUME IInv, NEW t \in Threads, job[t] # None, job[t].at = "compute"
               PROVE  /\ <<"context", Owner(t)>> \in registry
                      /\ job[t].q.path # "evaluate" => DemoKeys(job[t].q) \X {t} \subseteq registry
    BY DEF RegistryStays, At
  <2>1. Placed(t) /\ Registered(t) /\ image \in {"cpu", "gpu"}
    BY IInvCore, CoreFacts
  <2>2. image = "cpu"
    BY <2>1 DEF Placed
  <2> QED BY <2>1, <2>2 DEF Registered
<1> QED BY <1>1, InductiveInvariant, PTL

\* A result of the GPU image is the complete output of a worker that succeeded.
THEOREM GpuResultsWhole == Spec => []ResultsAreWhole
<1>1. IInv => ResultsAreWhole
  <2> SUFFICES ASSUME IInv, NEW t \in Threads, job[t] # None, job[t].at = "end",
                      Verdict(t) = "result", image = "gpu"
               PROVE  job[t].file = "whole" /\ job[t].code = 0
    BY DEF ResultsAreWhole, At
  <2>1. Placed(t) /\ Written(t) /\ job[t] \in Job
    BY IInvCore, CoreFacts
  <2>2. job[t].status = None
    BY <2>1 DEF Placed, Verdict
  <2>3. job[t].code = 0
    BY <2>1, <2>2 DEF Verdict
  <2> QED BY <2>1, <2>2, <2>3 DEF Written
<1> QED BY <1>1, InductiveInvariant, PTL

\* A worker is started with every argument its operation requires.
THEOREM WorkersGetArguments == Spec => []InvokedWithNeeds
<1>1. IInv => InvokedWithNeeds
  <2> SUFFICES ASSUME IInv, NEW t \in running, job[t].q.path = "evaluate"
               PROVE  Required(job[t].q.op) \subseteq Arguments(job[t].q)
    BY DEF InvokedWithNeeds
  <2>1. t \in Threads /\ job[t] # None /\ Core
    BY IInvCore DEF Core, Employed, EvaluatorTypes, EvaluatorTypeOK
  <2>2. Placed(t) /\ job[t].q \in Body
    BY <2>1, CoreFacts
  <2> QED BY <2>2, ArgumentsSuffice DEF Placed
<1> QED BY <1>1, InductiveInvariant, PTL

\* Every large demo sum adds each of its values once, and the rotations announced
\* for a reduction lead to each of its slots: for any number of values, any size
\* of a batch, and either image.
THEOREM SumsAreComplete == Spec => []SumsReachEverySlot
<1>1. IInv => SumsReachEverySlot
  <2> SUFFICES ASSUME IInv, NEW t \in Threads, job[t] # None
               PROVE  /\ job[t].q.path = "demo_sum" =>
                           \A i \in 0..(job[t].q.count - 1) :
                             TimesSummed(image, job[t].q.count, BatchSize, i) = 1
                      /\ job[t].q.path = "evaluate" /\ image = "gpu" /\ job[t].q.op \in Reductions =>
                           Gathered(Announced(job[t].q), job[t].q.count) = 0..(job[t].q.count - 1)
    BY DEF SumsReachEverySlot
  <2>1. Valid(job[t].q) /\ job[t].q \in Body
    BY IInvCore, CoreFacts DEF Placed
  <2>2. job[t].q.count \in Nat \cup {None} /\ BatchSize \in Nat \ {0}
    BY <2>1, EvaluatorAssumption DEF Body
  <2>3. CASE job[t].q.path = "demo_sum"
    <3>1. job[t].q.count \in Nat
      BY <2>1, <2>2, <2>3 DEF Valid, ValidDemoSum, SomeValues
    <3> QED BY <2>2, <2>3, <3>1, SummedOnce
  <2>4. CASE job[t].q.path = "evaluate" /\ job[t].q.op \in Reductions
    <3>1. job[t].q.count \in Nat
      BY <2>1, <2>2, <2>4 DEF Valid, ValidEvaluate
    <3>2. Announced(job[t].q) = Rotations(job[t].q.count)
      BY <2>4 DEF Announced
    <3> QED BY <2>4, <3>1, <3>2, GatheredAll
  <2> QED BY <2>3, <2>4
<1> QED BY <1>1, InductiveInvariant, PTL

-----------------------------------------------------------------------------
(* The sessions of the encryptor, from step to step.                       *)

\* What serving a request does to the sessions of the encryptor.
LEMMA ServeCases ==
  ASSUME EncryptorTypeOK, ServeEncryptor
  PROVE  \/ UNCHANGED <<life, minted, released>>
         \/ life' = Purged /\ UNCHANGED <<minted, released>>
         \/ \E s \in Ids \ minted :
              life' = [Purged EXCEPT ![s] = TTL] /\ minted' = minted \cup {s} /\ UNCHANGED released
         \/ \E s \in Ids, op \in TrialOps :
              /\ Live(s) /\ life' = [Purged EXCEPT ![s] = None] /\ UNCHANGED minted
              /\ released' = [released EXCEPT ![s] = Append(@, op)]
<1> DEFINE q == Head(encBox)
<1>1. q \in Letter /\ (q.op # None => q.sid # None)
  BY HeadTailLetter DEF ServeEncryptor
<1>2. TurnedAway(q) \/ (q.op = None /\ EncryptPair(q)) \/ (q.op # None /\ Decrypt(q))
  BY DEF ServeEncryptor
<1> HIDE DEF q
<1>3. CASE q.op = None /\ EncryptPair(q)
  BY <1>3 DEF EncryptPair, EncryptorRefuses
<1>4. CASE q.op # None /\ Decrypt(q)
  <2>1. q.sid \in Ids /\ q.op \in TrialOps
    BY <1>1, <1>4 DEF Letter
  <2>2. CASE Purged[q.sid] # None /\ life' = [Purged EXCEPT ![q.sid] = None] /\ Release(q)
    <3>1. Live(q.sid)
      BY <2>1, <2>2, PurgedTyped
    <3> QED BY <2>1, <2>2, <3>1 DEF Release
  <2> QED BY <1>4, <2>2 DEF Decrypt, EncryptorRefuses
<1>5. CASE TurnedAway(q)
  BY <1>5 DEF TurnedAway
<1> QED BY <1>2, <1>3, <1>4, <1>5

\* Every other step leaves the sessions alone.
LEMMA EncryptorSteps ==
  ASSUME [Next]_vars
  PROVE  \/ ServeEncryptor \/ EncryptorTick \/ EncryptorRestart
         \/ UNCHANGED <<life, minted, released>>
BY DEF Next, vars, Encrypting, EvaluatorRestart, Answering, Working, encryptor, Asking, AskPair, AskValues,
       AskResult, AskDirectly, ToEncryptor, ToEvaluator, Receive, Abandon, Timeout

LEMMA AppendLonger ==
  ASSUME NEW S, NEW w \in Seq(S), NEW x \in S
  PROVE  Append(w, x) # w
<1>1. Len(Append(w, x)) = Len(w) + 1 /\ Len(w) \in Nat
  OBVIOUS
<1>2. \A n \in Nat : n + 1 # n
  OBVIOUS
<1>3. Len(Append(w, x)) # Len(w)
  BY <1>1, <1>2
<1> QED BY <1>3, Zenon

LEMMA Appended ==
  ASSUME EncryptorTypeOK, NEW s \in Ids, NEW op \in TrialOps,
         released' = [released EXCEPT ![s] = Append(@, op)]
  PROVE  /\ released'[s] # released[s]
         /\ released[s] = <<>> => released'[s] = <<op>>
         /\ \A u \in Ids \ {s} : released'[u] = released[u]
<1>1. released[s] \in Seq(TrialOps) /\ released'[s] = Append(released[s], op)
  BY DEF EncryptorTypeOK
<1>3. released'[s] # released[s]
  BY <1>1, AppendLonger
<1>4. released[s] = <<>> => released'[s] = <<op>>
  BY <1>1
<1> QED BY <1>3, <1>4 DEF EncryptorTypeOK

\* A session ends by its expiry, its one answer or the end of the process, never
\* by a failed decryption.
THEOREM FailuresLeaveSession == Spec => FailuresKeepSession
<1>1. IInv /\ [Next]_vars =>
        [\A s \in Ids : Live(s) /\ life'[s] = None => released'[s] # released[s] \/ EncryptorRestart]_vars
  <2> SUFFICES ASSUME IInv, [Next]_vars, NEW s \in Ids, Live(s), life'[s] = None, ~EncryptorRestart
               PROVE  released'[s] # released[s]
    OBVIOUS
  <2>0. EncryptorTypeOK /\ life[s] \in Nat /\ None \notin Nat /\ TTL # None
    BY EncryptorAssumption DEF IInv, Types, TypeOK, EncryptorTypeOK, Live, Held
  <2>1. Purged \in [Ids -> (0..TTL) \cup {None}] /\ Purged[s] = life[s]
    BY <2>0, PurgedTyped
  <2>2. CASE ServeEncryptor
    <3>1. CASE life' = Purged
      BY <2>0, <2>1, <3>1
    <3>2. CASE \E u \in Ids \ minted : life' = [Purged EXCEPT ![u] = TTL]
      BY <2>0, <2>1, <3>2
    <3>3. ASSUME NEW u \in Ids, NEW op \in TrialOps, life' = [Purged EXCEPT ![u] = None],
                 released' = [released EXCEPT ![u] = Append(@, op)]
          PROVE  released'[s] # released[s]
      <4>1. u = s
        BY <2>0, <2>1, <3>3
      <4> QED BY <2>0, <3>3, <4>1, Appended
    <3>4. CASE UNCHANGED <<life, minted, released>>
      BY <2>0, <3>4
    <3> QED BY <2>0, <2>2, <3>1, <3>2, <3>3, <3>4, ServeCases
  <2>3. CASE EncryptorTick
    BY <2>0, <2>3 DEF EncryptorTick, Live
  <2>4. CASE UNCHANGED <<life, minted, released>>
    BY <2>0, <2>4
  <2> QED BY <2>2, <2>3, <2>4, EncryptorSteps
<1> QED BY <1>1, InductiveInvariant, PTL DEF Spec, FailuresKeepSession

\* Who gets "limit" gets it from encrypt_pair, at the limit.
LEMMA LimitGiven ==
  ASSUME IInv, [Next]_vars, NEW c \in Clients, mail[c] = None, mail'[c] # None, mail'[c].kind = "limit"
  PROVE  Cardinality({s \in Ids : Live(s)}) >= MaxSessions
<1>1. mail \in Mails /\ mail # mail'
  BY DEF IInv, Types, TypeOK, Mails
<1>2. ASSUME NEW from, NEW r, Respond(from, r)
      PROVE  r.kind = "limit"
  BY <1>1, <1>2 DEF Respond, Mails
<1>3. ASSUME NEW waiting, Reset(waiting)
      PROVE  FALSE
  BY <1>1, <1>3 DEF Reset, Mails
<1>4. CASE Encrypting
  <2> DEFINE q == Head(encBox)
  <2>1. TurnedAway(q) \/ EncryptPair(q) \/ Decrypt(q)
    BY <1>4 DEF Encrypting, ServeEncryptor
  <2> HIDE DEF q
  <2>2. ASSUME EncryptorRefuses(q, "error") PROVE FALSE
    <3>1. Respond(q.from, [kind |-> "error", sid |-> q.sid])
      BY <2>2 DEF EncryptorRefuses
    <3> QED BY <1>2, <3>1
  <2>3. ASSUME Release(q) PROVE FALSE
    <3>1. Respond(q.from, [kind |-> "values", sid |-> q.sid])
      BY <2>3 DEF Release
    <3> QED BY <1>2, <3>1
  <2>4. ASSUME NEW s, Respond(q.from, [kind |-> "bundle", sid |-> s]) PROVE FALSE
    BY <1>2, <2>4
  <2>5. ASSUME TurnedAway(q) PROVE FALSE
    <3>1. Respond(q.from, [kind |-> "error", sid |-> q.sid])
      BY <2>5 DEF TurnedAway
    <3> QED BY <1>2, <3>1
  <2> QED BY <2>1, <2>2, <2>3, <2>4, <2>5 DEF EncryptPair, Decrypt
<1>5. CASE EncryptorTick \/ EncryptorRestart
  BY <1>1, <1>3, <1>5 DEF EncryptorTick, EncryptorRestart
<1>6. CASE EvaluatorRestart
  BY <1>3, <1>6 DEF EvaluatorRestart
<1>7. ASSUME NEW t \in Threads, ThreadStep(t) \/ WorkerStep(t)
      PROVE  FALSE
  <2>1. ASSUME NEW from, NEW k, k # "limit", Respond(from, [kind |-> k, sid |-> None])
        PROVE  FALSE
    BY <1>2, <2>1
  <2>2. CASE Accept(t)
    BY <1>1, <2>1, <2>2 DEF Accept, Error
  <2>3. CASE Finish(t)
    <3>1. job[t] # None /\ Core
      BY <2>3, IInvCore DEF Finish, At
    <3>2. Verdict(t) # "limit"
      BY <3>1, CoreFacts, VerdictTyped DEF Statuses
    <3> QED BY <2>1, <2>3, <3>2 DEF Finish
  <2>4. CASE ~Accept(t) /\ ~Finish(t)
    BY <1>1, <1>7, <2>4 DEF ThreadStep, WorkerStep, Acquire, DeserializeContext, GenerateKeys, LoadKeys,
          Compute, StartWorker, WorkerTimeout, WorkerWrites, WorkerExits
  <2> QED BY <2>2, <2>3, <2>4
<1>8. ASSUME NEW d \in Clients, Asking(d) \/ Receive(d) \/ Abandon(d) \/ Timeout(d)
      PROVE  FALSE
  <2>1. CASE Asking(d) \/ Abandon(d)
    BY <1>1, <2>1 DEF Asking, AskPair, AskValues, AskResult, AskDirectly, Waits, Abandon
  <2>2. CASE Returned(d)
    BY <1>1, <2>2 DEF Returned, Mails
  <2> QED BY <1>8, <2>1, <2>2 DEF Receive, Timeout
<1>9. CASE UNCHANGED vars
  BY <1>1, <1>9 DEF vars
<1> QED BY <1>4, <1>5, <1>6, <1>7, <1>8, <1>9 DEF Next, Answering, Working

\* A pair is refused only while as many others are within their time.
THEOREM LimitNeedsLive == Spec => LimitMeansLive
<1>1. IInv /\ [Next]_vars =>
        [\A c \in Clients :
           mail[c] = None /\ mail'[c] # None /\ mail'[c].kind = "limit"
             => Cardinality({s \in Ids : Live(s)}) >= MaxSessions]_vars
  BY LimitGiven
<1> QED BY <1>1, InductiveInvariant, PTL DEF Spec, LimitMeansLive

\* Every step keeps the two sides of the ledger together.
LEMMA LedgeredKept ==
  ASSUME EncryptorTypeOK, Ledgered, [Next]_vars
  PROVE  Ledgered'
<1>0. TTL \in Nat \ {0} /\ None \notin Nat
  BY EncryptorAssumption
<1>1. CASE ServeEncryptor
  <2>1. CASE life' = Purged /\ UNCHANGED <<minted, released>>
    BY <2>1 DEF Ledgered, Live, Held, Purged
  <2>2. ASSUME NEW s \in Ids \ minted, life' = [Purged EXCEPT ![s] = TTL], minted' = minted \cup {s},
               UNCHANGED released
        PROVE  Ledgered'
    BY <2>2 DEF Ledgered, Live, Held, Purged
  <2>3. ASSUME NEW s \in Ids, NEW op \in TrialOps, Live(s), life' = [Purged EXCEPT ![s] = None],
               UNCHANGED minted, released' = [released EXCEPT ![s] = Append(@, op)]
        PROVE  Ledgered'
    <3>1. \A u \in Ids \ {s} : released'[u] = released[u]
      BY <2>3, Appended
    <3> QED BY <2>3, <3>1 DEF Ledgered, Live, Held, Purged
  <2>4. CASE UNCHANGED <<life, minted, released>>
    BY <2>4 DEF Ledgered, Live, Held
  <2> QED BY <1>1, <2>1, <2>2, <2>3, <2>4, ServeCases
<1>2. CASE EncryptorTick
  <2>1. \A s \in Ids : Live(s)' => Live(s)
    BY <1>0, <1>2 DEF EncryptorTick, Live, Held, EncryptorTypeOK
  <2> QED BY <1>2, <2>1 DEF EncryptorTick, Ledgered, Live, Held
<1>3. CASE EncryptorRestart
  BY <1>3 DEF EncryptorRestart, Ledgered, Live, Held
<1>4. CASE UNCHANGED <<life, minted, released>>
  BY <1>4 DEF Ledgered, Live, Held
<1> QED BY <1>1, <1>2, <1>3, <1>4, EncryptorSteps

\* The state of a pair in the ledger.
pairOf == [s \in Ids |-> IF s \notin minted THEN "none"
                         ELSE IF released[s] # <<>> THEN "answered"
                         ELSE IF Live(s) THEN "open" ELSE "lapsed"]

\* Every step is a step of the ledger, or none.
LEMMA LedgerStep ==
  ASSUME EncryptorTypeOK, Ledgered, [Next]_vars
  PROVE  [Ledger!Next]_<<pairOf, released>>
<1>0. TTL \in Nat \ {0} /\ None \notin Nat /\ TTL > 0
  BY EncryptorAssumption
<1>1. CASE ServeEncryptor
  <2>1. CASE life' = Purged /\ UNCHANGED <<minted, released>>
    <3>1. \A s \in Ids : Live(s)' <=> Live(s)
      BY <2>1 DEF Live, Held, Purged
    <3> QED BY <2>1, <3>1 DEF pairOf
  <2>2. ASSUME NEW s \in Ids \ minted, life' = [Purged EXCEPT ![s] = TTL], minted' = minted \cup {s},
               UNCHANGED released
        PROVE  Ledger!Open(s)
    <3>1. \A u \in Ids \ {s} : (Live(u)' <=> Live(u)) /\ (u \in minted' <=> u \in minted)
      BY <2>2 DEF Live, Held, Purged
    <3>2. Live(s)' /\ s \in minted' /\ released'[s] = <<>>
      BY <1>0, <2>2 DEF Live, Held, Purged, Ledgered
    <3> QED BY <2>2, <3>1, <3>2 DEF Ledger!Open, pairOf
  <2>3. ASSUME NEW s \in Ids, NEW op \in TrialOps, Live(s), life' = [Purged EXCEPT ![s] = None],
               UNCHANGED minted, released' = [released EXCEPT ![s] = Append(@, op)]
        PROVE  Ledger!Answer(s, op)
    <3>1. s \in minted /\ released[s] = <<>>
      BY <2>3 DEF Ledgered
    <3>2. released'[s] = <<op>> /\ released' = [released EXCEPT ![s] = <<op>>]
      BY <2>3, <3>1, Appended
    <3>3. <<op>> # <<>>
      OBVIOUS
    <3>4. \A u \in Ids \ {s} : (Live(u)' <=> Live(u)) /\ released'[u] = released[u]
      BY <2>3, Appended DEF Live, Held, Purged
    <3> QED BY <2>3, <3>1, <3>2, <3>3, <3>4 DEF Ledger!Answer, pairOf
  <2>4. CASE UNCHANGED <<life, minted, released>>
    BY <2>4 DEF pairOf, Live, Held
  <2> QED BY <1>1, <2>1, <2>2, <2>3, <2>4, ServeCases DEF Ledger!Next
<1>2. CASE EncryptorTick \/ EncryptorRestart
  <2>0. PICK gone \in SUBSET Ids : gone = {s \in Ids : Live(s) /\ ~(life'[s] # None /\ life'[s] > 0)}
    OBVIOUS
  <2>1. UNCHANGED <<minted, released>>
    BY <1>2 DEF EncryptorTick, EncryptorRestart
  <2>2. \A s \in Ids : Live(s)' => Live(s)
    BY <1>0, <1>2 DEF EncryptorTick, EncryptorRestart, Live, Held, EncryptorTypeOK
  <2>3. \A s \in gone : pairOf[s] = "open" /\ pairOf'[s] = "lapsed"
    BY <2>0, <2>1 DEF pairOf, Ledgered, Live, Held
  <2>4. \A s \in Ids \ gone : pairOf'[s] = pairOf[s]
    BY <2>0, <2>1, <2>2 DEF pairOf, Live, Held
  <2>5. pairOf' = [s \in Ids |-> IF s \in gone THEN "lapsed" ELSE pairOf[s]]
    <3>1. pairOf' = [s \in Ids |-> pairOf'[s]]
      BY DEF pairOf
    <3> QED BY <2>3, <2>4, <3>1
  <2>6. Ledger!Lapse(gone)
    BY <2>1, <2>3, <2>5 DEF Ledger!Lapse, pairOf
  <2> QED BY <2>6 DEF Ledger!Next
<1>3. CASE UNCHANGED <<life, minted, released>>
  BY <1>3 DEF pairOf, Live, Held
<1> QED BY <1>1, <1>2, <1>3, EncryptorSteps

\* The encryptor implements the ledger: one result of a pair, once, in time.
THEOREM PairLedgerRefined == Spec => ImplementsPairLedger
<1>1. Init => Ledger!Init /\ Ledgered
  BY DEF Init, EncryptorInit, Ledger!Init, Ledgered, Live, Held
<1>2. IInv /\ Ledgered /\ [Next]_vars => Ledgered'
  BY LedgeredKept DEF IInv, Types, TypeOK
<1>3. IInv /\ Ledgered /\ [Next]_vars =>
        [Ledger!Next]_<<[s \in Ids |-> IF s \notin minted THEN "none"
                         ELSE IF released[s] # <<>> THEN "answered"
                         ELSE IF Live(s) THEN "open" ELSE "lapsed"], released>>
  BY LedgerStep DEF IInv, Types, TypeOK, pairOf
<1> QED BY <1>1, <1>2, <1>3, InductiveInvariant, PTL DEF Spec, ImplementsPairLedger, Ledger!Spec

-----------------------------------------------------------------------------
(* One answer for a call, at most: where the request of a client is.       *)

Once(box, c) == \A i, j \in 1..Len(box) : box[i].from = c /\ box[j].from = c => i = j

AtWork(c) == {t \in Threads : job[t] # None /\ job[t].from = c}

\* No request of the client is anywhere, and nothing has arrived for it.
Silent(c) == c \notin Senders(encBox) \cup Senders(evalBox) /\ AtWork(c) = {} /\ mail[c] = None

AtEncryptor(c) ==
  /\ call[c].what \in {"pair", "values"}
  /\ c \in Senders(encBox) /\ c \notin Senders(evalBox) /\ AtWork(c) = {} /\ mail[c] = None

AtEvaluator(c) ==
  /\ call[c].what \in {"result", "direct"}
  /\ c \notin Senders(encBox) /\ mail[c] = None
  /\ \/ c \in Senders(evalBox) /\ AtWork(c) = {}
     \/ c \notin Senders(evalBox) /\ \E t \in Threads : AtWork(c) = {t}

\* What a call may be answered with.
Answers(what) ==
  CASE what = "pair"   -> {"bundle", "limit", "error"}
    [] what = "values" -> {"values", "error"}
    [] OTHER           -> {"result", "rejected", "failed", "error"}

Answered(c) ==
  /\ c \notin Senders(encBox) \cup Senders(evalBox) /\ AtWork(c) = {}
  /\ mail[c] # None /\ mail[c].kind \in Answers(call[c].what)

\* A client that waits has one request under way, or its response has arrived; one
\* that does not wait has neither.
OneAnswer(c) ==
  IF call[c] = None THEN Silent(c) ELSE AtEncryptor(c) \/ AtEvaluator(c) \/ Answered(c)

\* A letter is the only one of its client, and asks for what the client waits for.
Matching(c) ==
  /\ Once(encBox, c) /\ Once(evalBox, c)
  /\ call[c] # None => (call[c].op = None <=> call[c].what \in {"pair", "direct"})
  /\ call[c] # None =>
       \A i \in 1..Len(encBox) : encBox[i].from = c => encBox[i].op = call[c].op

Calling(c) == OneAnswer(c) /\ Matching(c)

CallInv == \A c \in Clients : Calling(c)

\* What the oldest letter of a box was, and who is left when it is taken.
LEMMA BoxTail ==
  ASSUME NEW S, NEW box \in Seq(S), box # <<>>, NEW c, c # None, Once(box, c)
  PROVE  /\ Once(Tail(box), c)
         /\ c \in Senders(box) <=> Head(box).from = c \/ c \in Senders(Tail(box))
         /\ Head(box).from = c => c \notin Senders(Tail(box))
         /\ \A i \in 1..Len(Tail(box)) : i + 1 \in 1..Len(box) /\ Tail(box)[i] = box[i + 1]
<1>1. Len(box) \in Nat \ {0} /\ Head(box) = box[1] /\ Len(Tail(box)) = Len(box) - 1
  OBVIOUS
<1>2. \A i \in 1..Len(Tail(box)) : i + 1 \in 1..Len(box) /\ Tail(box)[i] = box[i + 1]
  OBVIOUS
<1>3. \A i \in 1..Len(box) : i = 1 \/ (i - 1 \in 1..Len(Tail(box)) /\ Tail(box)[i - 1] = box[i])
  <2>1. ASSUME NEW i \in 1..Len(box), i # 1
        PROVE  i - 1 \in 1..Len(Tail(box)) /\ Tail(box)[i - 1] = box[i]
    <3>1. i - 1 \in 1..Len(Tail(box)) /\ (i - 1) + 1 = i
      BY <1>1, <2>1
    <3> QED BY <1>2, <3>1
  <2> QED BY <2>1
<1>4. Once(Tail(box), c)
  <2> SUFFICES ASSUME NEW i \in 1..Len(Tail(box)), NEW j \in 1..Len(Tail(box)),
                      Tail(box)[i].from = c, Tail(box)[j].from = c
               PROVE  i = j
    BY DEF Once
  <2>1. i + 1 = j + 1
    BY <1>2 DEF Once
  <2> QED BY <1>1, <2>1
<1>5. c \in Senders(box) <=> \E i \in 1..Len(box) : box[i].from = c
  BY DEF Senders
<1>6. c \in Senders(Tail(box)) <=> \E i \in 1..Len(Tail(box)) : Tail(box)[i].from = c
  BY DEF Senders
<1>7. c \in Senders(box) <=> Head(box).from = c \/ c \in Senders(Tail(box))
  <2>1. 1 \in 1..Len(box)
    BY <1>1
  <2> QED BY <1>1, <1>2, <1>3, <1>5, <1>6, <2>1
<1>8. Head(box).from = c => c \notin Senders(Tail(box))
  <2> SUFFICES ASSUME Head(box).from = c, NEW i \in 1..Len(Tail(box)), Tail(box)[i].from = c
               PROVE  FALSE
    BY <1>6
  <2>1. 1 \in 1..Len(box) /\ box[1].from = c /\ i + 1 \in 1..Len(box) /\ box[i + 1].from = c
    BY <1>1, <1>2
  <2>2. i + 1 = 1
    BY <2>1 DEF Once
  <2> QED BY <1>1, <2>2
<1> QED BY <1>2, <1>4, <1>7, <1>8

LEMMA BoxAppend ==
  ASSUME NEW S, NEW box \in Seq(S), NEW x, NEW c, c # None, Once(box, c)
  PROVE  /\ c \in Senders(Append(box, x)) <=> x.from = c \/ c \in Senders(box)
         /\ (x.from = c => c \notin Senders(box)) => Once(Append(box, x), c)
         /\ \A i \in 1..Len(Append(box, x)) :
              \/ i \in 1..Len(box) /\ Append(box, x)[i] = box[i]
              \/ i = Len(box) + 1 /\ Append(box, x)[i] = x
<1>1. /\ Len(box) \in Nat /\ Len(Append(box, x)) = Len(box) + 1
      /\ Append(box, x)[Len(box) + 1] = x /\ \A i \in 1..Len(box) : Append(box, x)[i] = box[i]
  OBVIOUS
<1> DEFINE L == Append(box, x)
<1> HIDE DEF L
<1>2. \A i \in 1..Len(L) : \/ i \in 1..Len(box) /\ L[i] = box[i]
                           \/ i = Len(box) + 1 /\ L[i] = x
  BY <1>1 DEF L
<1>3. c \in Senders(box) <=> \E i \in 1..Len(box) : box[i].from = c
  BY DEF Senders
<1>4. c \in Senders(L) <=> \E i \in 1..Len(L) : L[i].from = c
  BY DEF Senders
<1>5. Len(box) + 1 \in 1..Len(L) /\ L[Len(box) + 1] = x /\ \A i \in 1..Len(box) : i \in 1..Len(L) /\ L[i] = box[i]
  BY <1>1 DEF L
<1>6. c \in Senders(L) <=> x.from = c \/ c \in Senders(box)
  BY <1>2, <1>3, <1>4, <1>5
<1>7. (x.from = c => c \notin Senders(box)) => Once(L, c)
  BY <1>2, <1>3 DEF Once
<1> QED BY <1>2, <1>6, <1>7 DEF L

\* The letters of one client change hands, the others stay as they are.
LEMMA BoxOrphaned ==
  ASSUME NEW S, NEW box \in Seq(S), NEW c, c # None, NEW d, d # None, Once(box, d),
         \A x \in S : [x EXCEPT !.from = None].from = None
  PROVE  /\ Once(Orphaned(box, c), d)
         /\ d \in Senders(Orphaned(box, c)) <=> d # c /\ d \in Senders(box)
         /\ \A i \in 1..Len(Orphaned(box, c)) :
              /\ i \in 1..Len(box)
              /\ Orphaned(box, c)[i].from = d => d # c /\ Orphaned(box, c)[i] = box[i]
<1> DEFINE L == Orphaned(box, c)
<1>1. Len(box) \in Nat /\ \A i \in 1..Len(box) : box[i] \in S
  OBVIOUS
<1>2. Len(L) = Len(box)
  BY <1>1 DEF Orphaned
<1>3. \A i \in 1..Len(box) : L[i] = IF box[i].from = c THEN [box[i] EXCEPT !.from = None] ELSE box[i]
  BY DEF Orphaned
<1> HIDE DEF L
<1>4. \A i \in 1..Len(L) : i \in 1..Len(box) /\ (L[i].from = d => d # c /\ L[i] = box[i])
  BY <1>1, <1>2, <1>3
<1>5. d \in Senders(box) <=> \E i \in 1..Len(box) : box[i].from = d
  BY DEF Senders
<1>6. d \in Senders(L) <=> \E i \in 1..Len(L) : L[i].from = d
  BY DEF Senders
<1>7. d \in Senders(L) <=> d # c /\ d \in Senders(box)
  BY <1>2, <1>3, <1>4, <1>5, <1>6
<1>8. Once(L, d)
  BY <1>4 DEF Once
<1> QED BY <1>4, <1>7, <1>8 DEF L

\* A client that is not concerned by a step goes on calling as before.
LEMMA SameCalling ==
  ASSUME NEW c \in Clients, Calling(c), call'[c] = call[c], mail'[c] = mail[c],
         c \in Senders(encBox)' <=> c \in Senders(encBox), Once(encBox, c)',
         \A i \in 1..Len(encBox') : encBox'[i].from = c =>
           \E k \in 1..Len(encBox) : encBox'[i] = encBox[k],
         c \in Senders(evalBox)' <=> c \in Senders(evalBox), Once(evalBox, c)',
         AtWork(c)' = AtWork(c)
  PROVE  Calling(c)'
<1>1. OneAnswer(c)'
  BY DEF Calling, OneAnswer, Silent, AtEncryptor, AtEvaluator, Answered
<1>2. Matching(c)'
  BY DEF Calling, Matching
<1> QED BY <1>1, <1>2 DEF Calling

LEMMA SenderIs ==
  ASSUME NEW c \in Clients
  PROVE  c # None /\ \A box : c \in Senders(box) <=> \E i \in 1..Len(box) : box[i].from = c
BY CallersAssumption DEF Senders

\* The encryptor answers the oldest letter, with what its client can take.
LEMMA ServedAnswer ==
  ASSUME EncryptorTypeOK, ServeEncryptor
  PROVE  /\ encBox # <<>> /\ encBox' = Tail(encBox)
         /\ \E r \in Mail :
              /\ Respond(Head(encBox).from, r)
              /\ r.kind \in Answers(IF Head(encBox).op = None THEN "pair" ELSE "values")
<1> DEFINE q == Head(encBox)
<1>1. /\ encBox # <<>> /\ encBox' = Tail(encBox)
      /\ TurnedAway(q) \/ (q.op = None /\ EncryptPair(q)) \/ (q.op # None /\ Decrypt(q))
  BY DEF ServeEncryptor
<1>2. q \in Letter
  BY <1>1, HeadTailLetter
<1> HIDE DEF q
<1>3. q.sid \in Ids \cup {None} /\ q.op \in TrialOps \cup {None}
  BY <1>2 DEF Letter
<1>4. \A why \in {"error", "limit", "bundle", "values"} : \A s \in Ids \cup {None} :
         [kind |-> why, sid |-> s] \in Mail /\ [kind |-> why, sid |-> s].kind = why
  BY DEF Mail
<1>5. CASE q.op = None /\ EncryptPair(q)
  <2>1. \E r \in Mail : Respond(q.from, r) /\ r.kind \in {"bundle", "limit", "error"}
    BY <1>3, <1>4, <1>5 DEF EncryptPair, EncryptorRefuses
  <2> QED BY <1>1, <1>5, <2>1 DEF Answers, q
<1>6. CASE q.op # None /\ Decrypt(q)
  <2>1. \E r \in Mail : Respond(q.from, r) /\ r.kind \in {"values", "error"}
    BY <1>3, <1>4, <1>6 DEF Decrypt, Release, EncryptorRefuses
  <2> QED BY <1>1, <1>6, <2>1 DEF Answers, q
<1>7. CASE TurnedAway(q)
  <2>1. \E r \in Mail : Respond(q.from, r) /\ r.kind = "error"
    BY <1>3, <1>4, <1>7 DEF TurnedAway
  <2> QED BY <1>1, <2>1 DEF Answers, q
<1> QED BY <1>1, <1>5, <1>6, <1>7

LEMMA ServingCalls ==
  ASSUME Types, CallInv, Encrypting, NEW c \in Clients
  PROVE  Calling(c)'
<1>1. /\ EncryptorTypeOK /\ mail \in Mails /\ ServeEncryptor /\ encBox \in Seq(Letter)
      /\ UNCHANGED <<evalBox, job, call>>
  BY DEF Types, TypeOK, EncryptorTypeOK, Mails, Encrypting, evaluator, clients
<1>2. PICK r \in Mail : Respond(Head(encBox).from, r)
                       /\ r.kind \in Answers(IF Head(encBox).op = None THEN "pair" ELSE "values")
  BY <1>1, ServedAnswer
<1>3. encBox # <<>> /\ encBox' = Tail(encBox) /\ Calling(c) /\ c # None
  BY <1>1, ServedAnswer, SenderIs DEF CallInv
<1>4. /\ Once(encBox, c)' /\ Once(evalBox, c)'
      /\ c \in Senders(encBox) <=> Head(encBox).from = c \/ c \in Senders(encBox)'
      /\ Head(encBox).from = c => c \notin Senders(encBox)'
      /\ \A i \in 1..Len(encBox') : i + 1 \in 1..Len(encBox) /\ encBox'[i] = encBox[i + 1]
  <2>1. Once(encBox, c) /\ Once(evalBox, c)
    BY <1>3 DEF Calling, Matching
  <2>2. /\ Once(Tail(encBox), c)
        /\ c \in Senders(encBox) <=> Head(encBox).from = c \/ c \in Senders(Tail(encBox))
        /\ Head(encBox).from = c => c \notin Senders(Tail(encBox))
        /\ \A i \in 1..Len(Tail(encBox)) : i + 1 \in 1..Len(encBox) /\ Tail(encBox)[i] = encBox[i + 1]
    BY <1>1, <1>3, <2>1, BoxTail
  <2> QED BY <1>1, <1>3, <2>1, <2>2
<1>5. AtWork(c)' = AtWork(c) /\ Senders(evalBox)' = Senders(evalBox)
  BY <1>1 DEF AtWork, Senders
<1>6. CASE Head(encBox).from = c
  <2>1. mail'[c] = r /\ r # None
    BY <1>1, <1>2, <1>3, <1>6, MessageAssumption DEF Respond, Mails
  <2>2. c \in Senders(encBox) /\ call[c] # None /\ call[c].what \in {"pair", "values"} /\ AtEncryptor(c)
    BY <1>3, <1>4, <1>6 DEF Calling, OneAnswer, Silent, AtEncryptor, AtEvaluator, Answered
  <2>3. 1 \in 1..Len(encBox) /\ Head(encBox) = encBox[1]
    BY <1>1, <1>3
  <2>4. Head(encBox).op = call[c].op
    BY <1>3, <1>6, <2>2, <2>3 DEF Calling, Matching
  <2>5. call[c].what = IF Head(encBox).op = None THEN "pair" ELSE "values"
    BY <1>3, <2>2, <2>4 DEF Calling, Matching
  <2>6. Answered(c)'
    BY <1>1, <1>2, <1>4, <1>5, <1>6, <2>1, <2>2, <2>5 DEF AtEncryptor, Answered
  <2>7. Matching(c)'
    BY <1>1, <1>3, <1>4, <1>6, SenderIs DEF Calling, Matching
  <2> QED BY <1>1, <2>2, <2>6, <2>7 DEF Calling, OneAnswer
<1>7. CASE Head(encBox).from # c
  <2>1. mail'[c] = mail[c]
    BY <1>1, <1>2, <1>7 DEF Respond, Mails
  <2> QED BY <1>1, <1>3, <1>4, <1>5, <1>7, <2>1, SameCalling
<1> QED BY <1>6, <1>7

\* A job that only moves on stays the job of its client.
LEMMA MovedFrom ==
  ASSUME NEW t \in Threads, job[t] # None, NEW c \in Clients,
         job'[t] # None, job'[t].from = job[t].from, \A u \in Threads \ {t} : job'[u] = job[u]
  PROVE  AtWork(c)' = AtWork(c)
BY DEF AtWork

\* A native worker gets on, or ends.
LEMMA WorkerMoves ==
  ASSUME Core, NEW t \in Threads, job[t] # None, WorkerWrites(t) \/ WorkerExits(t)
  PROVE  /\ job'[t] # None /\ \A u \in Threads \ {t} : job'[u] = job[u]
         /\ job'[t].q = job[t].q /\ job'[t].from = job[t].from
         /\ job'[t].at \in {job[t].at, "end"}
<1>1. EvaluatorTypeOK /\ job[t] \in Job
  BY CoreFacts
<1>2. CASE WorkerWrites(t)
  <2>1. PICK f \in {"partial", "whole"} : job' = [job EXCEPT ![t] = [job[t] EXCEPT !.file = f]]
    BY <1>1, <1>2 DEF WorkerWrites, EvaluatorTypeOK
  <2>2. [job[t] EXCEPT !.file = f] \in Job
    BY <1>1, <2>1 DEF Job
  <2>3. /\ job'[t] = [job[t] EXCEPT !.file = f] /\ job'[t] # None
        /\ \A u \in Threads \ {t} : job'[u] = job[u]
    BY <1>1, <2>1, <2>2, JobTyped
  <2> QED BY <1>1, <2>3 DEF Job
<1>3. CASE WorkerExits(t)
  <2>1. PICK e \in {0, 1} : job' = [job EXCEPT ![t].at = "end", ![t].code = e]
    BY <1>3 DEF WorkerExits
  <2>2. job' = [job EXCEPT ![t] = [job[t] EXCEPT !.at = "end", !.code = e]]
    BY <1>1, <2>1 DEF EvaluatorTypeOK
  <2>3. [job[t] EXCEPT !.at = "end", !.code = e] \in Job
    BY <1>1 DEF Job, Steps
  <2>4. /\ job'[t] = [job[t] EXCEPT !.at = "end", !.code = e] /\ job'[t] # None
        /\ \A u \in Threads \ {t} : job'[u] = job[u]
    BY <1>1, <2>2, <2>3, JobTyped
  <2> QED BY <1>1, <2>4 DEF Job
<1> QED BY <1>2, <1>3

LEMMA WorkingCalls ==
  ASSUME Core, NEW t \in Threads, NEW c \in Clients,
         \/ Acquire(t) \/ DeserializeContext(t) \/ GenerateKeys(t) \/ LoadKeys(t) \/ Compute(t)
         \/ StartWorker(t) \/ WorkerTimeout(t) \/ WorkerStep(t)
  PROVE  UNCHANGED <<evalBox, mail>> /\ AtWork(c)' = AtWork(c)
<1>1. UNCHANGED <<evalBox, mail>>
  BY DEF Acquire, DeserializeContext, GenerateKeys, LoadKeys, Compute, StartWorker, WorkerTimeout,
         WorkerStep, WorkerWrites, WorkerExits
<1>2. job[t] # None
  BY DEF Core, Employed, At, Acquire, DeserializeContext, GenerateKeys,
         LoadKeys, Compute, StartWorker, WorkerTimeout, WorkerStep, WorkerWrites, WorkerExits
<1>3. EvaluatorTypeOK /\ job[t] \in Job
  BY <1>2, CoreFacts
<1>4. ASSUME NEW status \in Statuses, Ends(t, status)
      PROVE  AtWork(c)' = AtWork(c)
  BY <1>2, <1>4, EndedJob, MovedFrom
<1>5. ASSUME NEW step \in Steps, job' = [job EXCEPT ![t].at = step]
      PROVE  AtWork(c)' = AtWork(c)
  BY <1>2, <1>5, MovedJob, MovedFrom
<1>6. CASE Acquire(t)
  BY <1>5, <1>6 DEF Acquire, Steps
<1>7. ASSUME Fails(t)
      PROVE  AtWork(c)' = AtWork(c)
  BY <1>4, <1>7, FailsEnds
<1>8. CASE DeserializeContext(t) \/ GenerateKeys(t) \/ LoadKeys(t) \/ Compute(t)
  <2>1. "keys" \in Steps /\ "compute" \in Steps /\ "result" \in Statuses
    BY DEF Steps, Statuses
  <2> QED BY <1>4, <1>5, <1>7, <1>8, <2>1 DEF DeserializeContext, GenerateKeys, LoadKeys, Compute
<1>9. CASE StartWorker(t) \/ WorkerTimeout(t)
  <2>1. ASSUME job' = job PROVE AtWork(c)' = AtWork(c)
    BY <2>1 DEF AtWork
  <2>2. "failed" \in Statuses
    BY DEF Statuses
  <2> QED BY <1>4, <1>9, <2>1, <2>2 DEF StartWorker, WorkerTimeout
<1>10. CASE WorkerStep(t)
  <2>1. job'[t] # None /\ job'[t].from = job[t].from /\ \A u \in Threads \ {t} : job'[u] = job[u]
    BY <1>2, <1>10, WorkerMoves DEF WorkerStep
  <2> QED BY <1>1, <1>2, <2>1, MovedFrom
<1> QED BY <1>1, <1>6, <1>8, <1>9, <1>10

LEMMA Responded ==
  ASSUME mail \in Mails, NEW from \in Clients \cup {None}, NEW r \in Mail, Respond(from, r),
         NEW c \in Clients
  PROVE  /\ from = c => mail'[c] = r /\ mail'[c] # None
         /\ from # c => mail'[c] = mail[c]
BY CallersAssumption, MessageAssumption DEF Respond, Mails

\* A request is taken up or refused.
LEMMA AcceptCalls ==
  ASSUME Types, CallInv, NEW t \in Threads, Accept(t), UNCHANGED <<encBox, call>>, NEW c \in Clients
  PROVE  Calling(c)'
<1> DEFINE m == Head(evalBox)
<1>1. /\ EvaluatorTypeOK /\ mail \in Mails /\ evalBox \in Seq(Letters)
      /\ evalBox # <<>> /\ evalBox' = Tail(evalBox) /\ job[t] = None
  BY DEF Types, TypeOK, EvaluatorTypeOK, Mails, Accept, Free
<1>2. m \in Letters
  BY <1>1
<1>3. m.from \in Clients \cup {None} /\ m.body \in Body
  BY <1>2 DEF Letters
<1>4. Calling(c) /\ c # None /\ Once(encBox, c) /\ Once(evalBox, c)
  BY SenderIs DEF CallInv, Calling, Matching
<1>5. /\ Once(Tail(evalBox), c)
      /\ c \in Senders(evalBox) <=> m.from = c \/ c \in Senders(Tail(evalBox))
      /\ m.from = c => c \notin Senders(Tail(evalBox))
  BY <1>1, <1>4, BoxTail
<1> HIDE DEF m
<1>6. /\ Once(encBox, c)' /\ Once(evalBox, c)'
      /\ c \in Senders(encBox)' <=> c \in Senders(encBox)
      /\ c \in Senders(evalBox)' <=> c \in Senders(Tail(evalBox))
  BY <1>1, <1>4, <1>5
<1>7. Matching(c)'
  BY <1>4, <1>6 DEF Calling, Matching
<1>8. CASE Valid(m.body)
  <2>1. job' = [job EXCEPT ![t] = NewJob(m)] /\ mail' = mail
    BY <1>8 DEF Accept, m
  <2>2. NewJob(m) \in Job /\ NewJob(m).from = m.from
    BY <1>3 DEF NewJob, Job, Steps
  <2>3. job'[t] # None /\ job'[t].from = m.from /\ \A u \in Threads \ {t} : job'[u] = job[u]
    BY <1>1, <2>1, <2>2, JobTyped
  <2>4. AtWork(c)' = AtWork(c) \cup (IF m.from = c THEN {t} ELSE {})
    BY <1>1, <2>3 DEF AtWork
  <2>5. CASE m.from = c
    <3>1. call[c] # None /\ AtEvaluator(c) /\ AtWork(c) = {}
      BY <1>4, <1>5, <2>5 DEF Calling, OneAnswer, Silent, AtEncryptor, AtEvaluator, Answered
    <3>2. AtEvaluator(c)'
      BY <1>5, <1>6, <2>1, <2>4, <2>5, <3>1 DEF AtEvaluator
    <3> QED BY <1>7, <3>1, <3>2 DEF Calling, OneAnswer
  <2>6. CASE m.from # c
    <3>1. AtWork(c)' = AtWork(c)
      BY <2>4, <2>6
    <3> QED BY <1>4, <1>5, <1>6, <2>1, <2>6, <3>1, SameCalling
  <2> QED BY <2>5, <2>6
<1>9. CASE ~Valid(m.body)
  <2>1. Respond(m.from, Error("rejected")) /\ job' = job
    BY <1>9 DEF Accept, m
  <2>2. Error("rejected") \in Mail /\ Error("rejected").kind = "rejected"
    BY DEF Error, Mail
  <2>3. AtWork(c)' = AtWork(c)
    BY <2>1 DEF AtWork
  <2>4. CASE m.from = c
    <3>1. call[c] # None /\ AtEvaluator(c) /\ AtWork(c) = {}
      BY <1>4, <1>5, <2>4 DEF Calling, OneAnswer, Silent, AtEncryptor, AtEvaluator, Answered
    <3>2. mail'[c] # None /\ mail'[c].kind = "rejected"
      BY <1>1, <1>3, <2>1, <2>2, <2>4, Responded
    <3>3. Answered(c)'
      BY <1>5, <1>6, <2>3, <2>4, <3>1, <3>2 DEF AtEvaluator, Answered, Answers
    <3> QED BY <1>7, <3>1, <3>3 DEF Calling, OneAnswer
  <2>5. CASE m.from # c
    <3>1. mail'[c] = mail[c]
      BY <1>1, <1>3, <2>1, <2>2, <2>5, Responded
    <3> QED BY <1>4, <1>5, <1>6, <2>3, <2>5, <3>1, SameCalling
  <2> QED BY <2>4, <2>5
<1> QED BY <1>8, <1>9

\* A job ends, and its client is answered.
LEMMA FinishCalls ==
  ASSUME Types, CallInv, NEW t \in Threads, Finish(t), UNCHANGED <<encBox, call>>, NEW c \in Clients
  PROVE  Calling(c)'
<1>1. /\ EvaluatorTypeOK /\ mail \in Mails /\ job[t] # None /\ job[t] \in Job
      /\ evalBox' = evalBox /\ job' = [job EXCEPT ![t] = None]
  BY DEF Types, TypeOK, EvaluatorTypeOK, Mails, Finish, At
<1>2. job[t].from \in Clients \cup {None} /\ Verdict(t) \in Statuses
  BY <1>1, VerdictTyped DEF Job
<1> DEFINE r == [kind |-> Verdict(t), sid |-> None]
<1>3. r \in Mail /\ r.kind = Verdict(t)
  BY <1>2, StatusMail
<1>4. Respond(job[t].from, r)
  BY DEF Finish
<1> HIDE DEF r
<1>5. AtWork(c)' = AtWork(c) \ {t}
  <2>1. job'[t] = None /\ \A u \in Threads \ {t} : job'[u] = job[u]
    BY <1>1 DEF EvaluatorTypeOK
  <2> QED BY <2>1 DEF AtWork
<1>6. t \in AtWork(c) <=> job[t].from = c
  BY <1>1 DEF AtWork
<1>7. Calling(c) /\ Once(encBox, c) /\ Once(evalBox, c)
  BY DEF CallInv, Calling, Matching
<1>8. /\ Once(encBox, c)' /\ Once(evalBox, c)'
      /\ c \in Senders(encBox)' <=> c \in Senders(encBox)
      /\ c \in Senders(evalBox)' <=> c \in Senders(evalBox)
  BY <1>1, <1>7
<1>9. CASE job[t].from = c
  <2>1. call[c] # None /\ AtEvaluator(c) /\ c \notin Senders(evalBox) /\ AtWork(c) = {t}
    BY <1>6, <1>7, <1>9 DEF Calling, OneAnswer, Silent, AtEncryptor, AtEvaluator, Answered
  <2>2. mail'[c] # None /\ mail'[c].kind \in Statuses
    BY <1>1, <1>2, <1>3, <1>4, <1>9, Responded
  <2>3. Answered(c)'
    BY <1>5, <1>8, <2>1, <2>2 DEF AtEvaluator, Answered, Answers, Statuses
  <2>4. Matching(c)'
    BY <1>7, <1>8 DEF Calling, Matching
  <2> QED BY <2>1, <2>3, <2>4 DEF Calling, OneAnswer
<1>10. CASE job[t].from # c
  <2>1. mail'[c] = mail[c]
    BY <1>1, <1>2, <1>3, <1>4, <1>10, Responded
  <2>2. AtWork(c)' = AtWork(c)
    BY <1>5, <1>6, <1>10
  <2> QED BY <1>7, <1>8, <2>1, <2>2, SameCalling
<1> QED BY <1>9, <1>10

LEMMA NoSenders == Senders(<<>>) = {} /\ \A c : Once(<<>>, c)
BY DEF Senders, Once

\* A service restarts: whoever waits for it gets an error, the others wait on.
LEMMA EncryptorRestartCalls ==
  ASSUME Types, CallInv, EncryptorRestart, UNCHANGED <<evaluator, clients>>, NEW c \in Clients
  PROVE  Calling(c)'
<1>1. /\ encBox' = <<>> /\ Reset(Senders(encBox)) /\ UNCHANGED <<evalBox, job, call>>
      /\ Calling(c) /\ Once(evalBox, c) /\ mail \in Mails
  BY DEF EncryptorRestart, evaluator, clients, CallInv, Calling, Matching, Types, TypeOK, Mails
<1>2. Len(encBox') = 0 /\ Senders(encBox') = {} /\ Once(encBox', c)
  BY <1>1, NoSenders
<1>3. AtWork(c)' = AtWork(c) /\ Senders(evalBox)' = Senders(evalBox) /\ Once(evalBox, c)'
  BY <1>1 DEF AtWork
<1>4. CASE c \in Senders(encBox)
  <2>1. call[c] # None /\ AtEncryptor(c)
    BY <1>1, <1>4 DEF Calling, OneAnswer, Silent, AtEncryptor, AtEvaluator, Answered
  <2>2. [kind |-> "error", sid |-> None] \in Mail
    BY DEF Mail
  <2>3. mail'[c] # None /\ mail'[c].kind = "error"
    BY <1>1, <1>4, <2>2, MessageAssumption DEF Reset
  <2>4. Answered(c)'
    BY <1>1, <1>2, <1>3, <2>1, <2>3 DEF AtEncryptor, Answered, Answers
  <2>5. Matching(c)'
    BY <1>1, <1>2, <1>3 DEF Calling, Matching
  <2> QED BY <1>1, <2>1, <2>4, <2>5 DEF Calling, OneAnswer
<1>5. CASE c \notin Senders(encBox)
  <2>1. mail'[c] = mail[c]
    BY <1>1, <1>5 DEF Reset
  <2> QED BY <1>1, <1>2, <1>3, <1>5, <2>1, SameCalling
<1> QED BY <1>4, <1>5

LEMMA EvaluatorRestartCalls ==
  ASSUME Types, CallInv, EvaluatorRestart, UNCHANGED <<encryptor, clients>>, NEW c \in Clients
  PROVE  Calling(c)'
<1> DEFINE froms == {job[t].from : t \in {u \in Threads : job[u] # None}} \ {None}
<1>1. /\ evalBox' = <<>> /\ job' = [t \in Threads |-> None] /\ Reset(Senders(evalBox) \cup froms)
      /\ UNCHANGED <<encBox, call>> /\ Calling(c) /\ Once(encBox, c) /\ mail \in Mails /\ c # None
  BY SenderIs DEF EvaluatorRestart, encryptor, clients, CallInv, Calling, Matching, Types, TypeOK, Mails
<1>2. Senders(evalBox') = {} /\ Once(evalBox', c)
  BY <1>1, NoSenders
<1>3. AtWork(c)' = {} /\ Senders(encBox)' = Senders(encBox) /\ Once(encBox, c)'
  BY <1>1 DEF AtWork
<1>4. c \in froms <=> AtWork(c) # {}
  BY <1>1 DEF AtWork
<1> HIDE DEF froms
<1>5. Matching(c)'
  BY <1>1, <1>2, <1>3 DEF Calling, Matching
<1>6. CASE c \in Senders(evalBox) \cup froms
  <2>1. call[c] # None /\ AtEvaluator(c)
    BY <1>1, <1>4, <1>6 DEF Calling, OneAnswer, Silent, AtEncryptor, AtEvaluator, Answered
  <2>2. [kind |-> "error", sid |-> None] \in Mail
    BY DEF Mail
  <2>3. mail'[c] # None /\ mail'[c].kind = "error"
    BY <1>1, <1>6, <2>2, MessageAssumption DEF Reset
  <2>4. Answered(c)'
    BY <1>1, <1>2, <1>3, <2>1, <2>3 DEF AtEvaluator, Answered, Answers
  <2> QED BY <1>1, <1>5, <2>1, <2>4 DEF Calling, OneAnswer
<1>7. CASE c \notin Senders(evalBox) \cup froms
  <2>1. mail'[c] = mail[c] /\ AtWork(c)' = AtWork(c)
    BY <1>1, <1>3, <1>4, <1>7 DEF Reset
  <2>2. ~(call[c] # None /\ AtEvaluator(c))
    BY <1>4, <1>7 DEF AtEvaluator
  <2> QED BY <1>1, <1>2, <1>3, <1>7, <2>1, SameCalling
<1> QED BY <1>6, <1>7

\* A client without a call asks for something.
LEMMA AskingCalls ==
  ASSUME Types, CallInv, NEW d \in Clients, Asking(d), NEW c \in Clients
  PROVE  Calling(c)'
<1>1. /\ encBox \in Seq(Letter) /\ evalBox \in Seq(Letters) /\ call \in [Clients -> Call \cup {None}]
      /\ job' = job /\ mail' = mail /\ c # None /\ Calling(c)
      /\ Once(encBox, c) /\ Once(evalBox, c)
  BY SenderIs DEF Types, TypeOK, EncryptorTypeOK, EvaluatorTypeOK, CallInv, Calling, Matching, Asking, AskPair,
                  AskValues, AskResult, AskDirectly, ToEncryptor, ToEvaluator, Waits, evaluator
<1>2. AtWork(c)' = AtWork(c)
  BY <1>1 DEF AtWork
<1>3. ASSUME NEW what, NEW op, [what |-> what, op |-> op] \in Call, Waits(d, what, op)
      PROVE  /\ call[d] = None /\ Silent(d)
             /\ call'[d] # None /\ call'[d].what = what /\ call'[d].op = op
             /\ c # d => call'[c] = call[c]
  BY <1>1, <1>3, MessageAssumption DEF Waits, CallInv, Calling, OneAnswer
<1>4. ASSUME NEW sid, NEW op, NEW what \in {"pair", "values"}, op = None <=> what = "pair",
             [what |-> what, op |-> op] \in Call,
             ToEncryptor(d, sid, op), Waits(d, what, op)
      PROVE  Calling(c)'
  <2> DEFINE x == [from |-> d, sid |-> sid, op |-> op]
  <2>1. encBox' = Append(encBox, x) /\ evalBox' = evalBox /\ x.from = d /\ x.op = op
    BY <1>4 DEF ToEncryptor, evaluator
  <2> HIDE DEF x
  <2>2. /\ c \in Senders(encBox') <=> d = c \/ c \in Senders(encBox)
        /\ (d = c => c \notin Senders(encBox)) => Once(encBox', c)
        /\ \A i \in 1..Len(encBox') :
             \/ i \in 1..Len(encBox) /\ encBox'[i] = encBox[i]
             \/ i = Len(encBox) + 1 /\ encBox'[i] = x
    BY <1>1, <2>1, BoxAppend
  <2>3. Once(evalBox, c)' /\ Senders(evalBox)' = Senders(evalBox)
    BY <1>1, <2>1
  <2>4. CASE c = d
    <3>1. Silent(c) /\ call'[c] # None /\ call'[c].what = what /\ call'[c].op = op
      BY <1>3, <1>4, <2>4
    <3>2. AtEncryptor(c)'
      BY <1>1, <1>2, <2>2, <2>3, <2>4, <3>1, <1>4 DEF Silent, AtEncryptor
    <3>3. \A i \in 1..Len(encBox) : encBox[i].from # c
      BY <3>1, SenderIs DEF Silent
    <3>4. Matching(c)'
      BY <1>4, <2>1, <2>2, <2>3, <2>4, <3>1, <3>3 DEF Matching, Silent
    <3> QED BY <3>1, <3>2, <3>4 DEF Calling, OneAnswer
  <2>5. CASE c # d
    <3>1. call'[c] = call[c]
      BY <1>3, <1>4, <2>5
    <3>2. \A i \in 1..Len(encBox') : encBox'[i].from = c => \E k \in 1..Len(encBox) : encBox'[i] = encBox[k]
      BY <2>1, <2>2, <2>5
    <3> QED BY <1>1, <1>2, <2>2, <2>3, <2>5, <3>1, <3>2, SameCalling
  <2> QED BY <2>4, <2>5
<1>5. ASSUME NEW body, NEW op, NEW what \in {"result", "direct"}, op = None <=> what = "direct",
             [what |-> what, op |-> op] \in Call,
             ToEvaluator(d, body), Waits(d, what, op)
      PROVE  Calling(c)'
  <2> DEFINE x == [from |-> d, body |-> body]
  <2>1. evalBox' = Append(evalBox, x) /\ encBox' = encBox /\ x.from = d
    BY <1>5 DEF ToEvaluator, encryptor
  <2> HIDE DEF x
  <2>2. /\ c \in Senders(evalBox') <=> d = c \/ c \in Senders(evalBox)
        /\ (d = c => c \notin Senders(evalBox)) => Once(evalBox', c)
    BY <1>1, <2>1, BoxAppend
  <2>3. Once(encBox, c)' /\ Senders(encBox)' = Senders(encBox)
    BY <1>1, <2>1
  <2>4. CASE c = d
    <3>1. Silent(c) /\ call'[c] # None /\ call'[c].what = what /\ call'[c].op = op
      BY <1>3, <1>5, <2>4
    <3>2. AtEvaluator(c)'
      BY <1>1, <1>2, <2>2, <2>3, <2>4, <3>1, <1>5 DEF Silent, AtEvaluator
    <3>3. \A i \in 1..Len(encBox) : encBox[i].from # c
      BY <3>1, SenderIs DEF Silent
    <3>4. Matching(c)'
      BY <1>5, <2>1, <2>2, <2>3, <2>4, <3>1, <3>3 DEF Matching, Silent
    <3> QED BY <3>1, <3>2, <3>4 DEF Calling, OneAnswer
  <2>5. CASE c # d
    <3>1. call'[c] = call[c]
      BY <1>3, <1>5, <2>5
    <3> QED BY <1>1, <1>2, <2>1, <2>2, <2>3, <2>5, <3>1, SameCalling
  <2> QED BY <2>4, <2>5
<1>6. None \notin TrialOps
  BY EncryptorAssumption
<1>7. CASE AskPair(d)
  <2>1. [what |-> "pair", op |-> None] \in Call
    BY DEF Call
  <2> QED BY <1>4, <1>7, <2>1 DEF AskPair
<1>8. CASE AskValues(d)
  <2>1. result[d] \in TrialOps /\ [what |-> "values", op |-> result[d]] \in Call
    BY <1>8 DEF AskValues, Types, TypeOK, Call
  <2> QED BY <1>4, <1>6, <1>8, <2>1 DEF AskValues
<1>9. ASSUME NEW op \in TrialOps, AskResult(d, op)
      PROVE  Calling(c)'
  <2>1. [what |-> "result", op |-> op] \in Call
    BY DEF Call
  <2> QED BY <1>5, <1>6, <1>9, <2>1 DEF AskResult
<1>10. ASSUME NEW body, AskDirectly(d, body)
       PROVE  Calling(c)'
  <2>1. [what |-> "direct", op |-> None] \in Call
    BY DEF Call
  <2> QED BY <1>5, <1>10, <2>1 DEF AskDirectly
<1> QED BY <1>7, <1>8, <1>9, <1>10 DEF Asking

\* A client has read its response.
LEMMA ReceivedCalls ==
  ASSUME Types, CallInv, NEW d \in Clients, Receive(d), NEW c \in Clients
  PROVE  Calling(c)'
<1>1. /\ UNCHANGED <<encBox, evalBox, job>> /\ call[d] # None /\ mail[d] # None
      /\ call' = [call EXCEPT ![d] = None] /\ mail' = [mail EXCEPT ![d] = None]
      /\ call \in [Clients -> Call \cup {None}] /\ mail \in Mails /\ Calling(c)
  BY DEF Receive, Returned, encryptor, evaluator, Types, TypeOK, Mails, CallInv
<1>2. /\ AtWork(c)' = AtWork(c) /\ Senders(encBox)' = Senders(encBox) /\ Senders(evalBox)' = Senders(evalBox)
      /\ Once(encBox, c)' /\ Once(evalBox, c)'
  BY <1>1 DEF AtWork, Calling, Matching
<1>3. CASE c = d
  <2>1. Answered(c)
    BY <1>1, <1>3 DEF Calling, OneAnswer, AtEncryptor, AtEvaluator
  <2>2. call'[c] = None /\ mail'[c] = None
    BY <1>1, <1>3 DEF Mails
  <2> QED BY <1>2, <2>1, <2>2 DEF Answered, Calling, OneAnswer, Silent, Matching
<1>4. CASE c # d
  <2>1. call'[c] = call[c] /\ mail'[c] = mail[c]
    BY <1>1, <1>4 DEF Mails
  <2> QED BY <1>1, <1>2, <2>1, SameCalling
<1> QED BY <1>3, <1>4

\* A client has lost patience: what it asked for is done for nobody.
LEMMA TimeoutCalls ==
  ASSUME Types, CallInv, NEW d \in Clients, Timeout(d), NEW c \in Clients
  PROVE  Calling(c)'
<1>1. /\ encBox \in Seq(Letter) /\ evalBox \in Seq(Letters) /\ job \in Jobs
      /\ encBox' = Orphaned(encBox, d) /\ evalBox' = Orphaned(evalBox, d)
      /\ call' = [call EXCEPT ![d] = None] /\ mail' = [mail EXCEPT ![d] = None]
      /\ call \in [Clients -> Call \cup {None}] /\ mail \in Mails /\ c # None /\ d # None /\ Calling(c)
      /\ Once(encBox, c) /\ Once(evalBox, c)
  BY SenderIs DEF Timeout, Returned, Types, TypeOK, EncryptorTypeOK, EvaluatorTypeOK, Jobs, Mails, CallInv,
                  Calling, Matching
<1>2. \A x \in Letter : [x EXCEPT !.from = None].from = None
  BY DEF Letter
<1>3. \A x \in Letters : [x EXCEPT !.from = None].from = None
  BY DEF Letters
<1>4. /\ Once(encBox', c)
      /\ c \in Senders(encBox') <=> c # d /\ c \in Senders(encBox)
      /\ \A i \in 1..Len(encBox') :
           i \in 1..Len(encBox) /\ (encBox'[i].from = c => c # d /\ encBox'[i] = encBox[i])
  BY <1>1, <1>2, BoxOrphaned
<1>5. Once(evalBox', c) /\ (c \in Senders(evalBox') <=> c # d /\ c \in Senders(evalBox))
  BY <1>1, <1>3, BoxOrphaned
<1>6. AtWork(c)' = IF c = d THEN {} ELSE AtWork(c)
  <2>1. \A t \in Threads : job[t] # None => job[t] \in Job
    BY <1>1 DEF Jobs
  <2>2. \A t \in Threads :
          job'[t] = IF job[t] # None /\ job[t].from = d THEN [job[t] EXCEPT !.from = None] ELSE job[t]
    BY DEF Timeout
  <2>3. ASSUME NEW j \in Job
        PROVE  [j EXCEPT !.from = None].from = None /\ [j EXCEPT !.from = None] # None
    <3>1. [j EXCEPT !.from = None] \in Job /\ [j EXCEPT !.from = None].from = None
      BY DEF Job
    <3> QED BY <3>1, JobAssumption
  <2>4. \A t \in Threads : job'[t] # None /\ job'[t].from = c <=> c # d /\ job[t] # None /\ job[t].from = c
    BY <1>1, <2>1, <2>2, <2>3
  <2> QED BY <2>4 DEF AtWork
<1>7. CASE c = d
  <2>1. call'[c] = None /\ mail'[c] = None
    BY <1>1, <1>7 DEF Mails
  <2>2. Silent(c)'
    BY <1>4, <1>5, <1>6, <1>7, <2>1 DEF Silent
  <2>3. Matching(c)'
    BY <1>4, <1>5, <2>1 DEF Matching
  <2> QED BY <2>1, <2>2, <2>3 DEF Calling, OneAnswer
<1>8. CASE c # d
  <2>1. call'[c] = call[c] /\ mail'[c] = mail[c] /\ AtWork(c)' = AtWork(c)
    BY <1>1, <1>6, <1>8 DEF Mails
  <2>2. \A i \in 1..Len(encBox') : encBox'[i].from = c => \E k \in 1..Len(encBox) : encBox'[i] = encBox[k]
    BY <1>4
  <2> QED BY <1>1, <1>4, <1>5, <1>8, <2>1, <2>2, SameCalling
<1> QED BY <1>7, <1>8

LEMMA CallStep ==
  ASSUME IInv, CallInv, [Next]_vars
  PROVE  CallInv'
<1> SUFFICES ASSUME NEW c \in Clients PROVE Calling(c)'
  BY DEF CallInv
<1>0. Types /\ Core /\ Calling(c)
  BY IInvCore DEF IInv, CallInv
<1>1. ASSUME UNCHANGED <<encBox, evalBox, job, mail, call>>
      PROVE  Calling(c)'
  BY <1>0, <1>1 DEF Calling, OneAnswer, Silent, AtEncryptor, AtEvaluator, Answered, Matching, AtWork
<1>2. CASE Encrypting
  BY <1>0, <1>2, ServingCalls
<1>3. CASE EncryptorTick /\ UNCHANGED <<evaluator, clients>>
  BY <1>1, <1>3 DEF EncryptorTick, evaluator, clients
<1>4. CASE EncryptorRestart /\ UNCHANGED <<evaluator, clients>>
  BY <1>0, <1>4, EncryptorRestartCalls
<1>5. CASE EvaluatorRestart /\ UNCHANGED <<encryptor, clients>>
  BY <1>0, <1>5, EvaluatorRestartCalls
<1>6. ASSUME NEW t \in Threads, Answering(t) \/ Working(t)
      PROVE  Calling(c)'
  <2>1. UNCHANGED <<encBox, call>> /\ (ThreadStep(t) \/ WorkerStep(t))
    BY <1>6 DEF Answering, Working, encryptor, clients
  <2>2. CASE Accept(t)
    BY <1>0, <2>1, <2>2, AcceptCalls
  <2>3. CASE Finish(t)
    BY <1>0, <2>1, <2>3, FinishCalls
  <2>4. CASE ~Accept(t) /\ ~Finish(t)
    <3>1. UNCHANGED <<evalBox, mail>> /\ AtWork(c)' = AtWork(c)
      BY <1>0, <2>1, <2>4, WorkingCalls DEF ThreadStep
    <3>2. Once(encBox, c) /\ Once(evalBox, c)
      BY <1>0 DEF Calling, Matching
    <3> QED BY <1>0, <2>1, <3>1, <3>2, SameCalling
  <2> QED BY <2>2, <2>3, <2>4
<1>7. ASSUME NEW d \in Clients, Asking(d) \/ Receive(d) \/ Abandon(d) \/ Timeout(d)
      PROVE  Calling(c)'
  <2>1. CASE Abandon(d)
    BY <1>1, <2>1 DEF Abandon, encryptor, evaluator
  <2> QED BY <1>0, <1>7, <2>1, AskingCalls, ReceivedCalls, TimeoutCalls
<1>8. CASE UNCHANGED vars
  BY <1>1, <1>8 DEF vars, encryptor, evaluator, clients
<1> QED BY <1>2, <1>3, <1>4, <1>5, <1>6, <1>7, <1>8 DEF Next

\* No call is lost and none is answered twice: until it ends, its request waits at
\* one service, or one thread works on it, or its response has arrived, of a kind
\* that this call can be answered with; and nothing that was asked in a call that
\* has timed out reaches a later one.  What is left to CallsReturn is that the
\* services go on.
THEOREM OneAnswerForACall == Spec => []\A c \in Clients : OneAnswer(c)
<1>1. Init => CallInv
  BY NoSenders DEF Init, EncryptorInit, EvaluatorInit, CallInv, Calling, OneAnswer, Silent, Matching, AtWork
<1>2. CallInv => \A c \in Clients : OneAnswer(c)
  BY DEF CallInv, Calling
<1>3. IInv /\ CallInv /\ [Next]_vars => CallInv'
  BY CallStep
<1> QED BY <1>1, <1>2, <1>3, InductiveInvariant, PTL DEF Spec

-----------------------------------------------------------------------------
(* Locks: whoever holds one is at work on a request of its class.          *)

LocksInUse ==
  \A b \in Paths : \A t \in Threads :
    lock[b] = t => job[t] # None /\ job[t].at # "lock" /\ LockOf(job[t].q) = b

LEMMA LocksKept ==
  ASSUME LocksInUse, image' = image,
         \A b \in Paths : \A t \in Threads :
           lock'[b] = t => /\ lock[b] = t /\ job'[t] # None
                           /\ job'[t].q = job[t].q /\ job'[t].at # "lock"
  PROVE  LocksInUse'
<1>1. \A q : LockOf(q)' = LockOf(q)
  BY ValidStays
<1> SUFFICES ASSUME NEW b \in Paths, NEW t \in Threads, lock'[b] = t
             PROVE  job'[t] # None /\ job'[t].at # "lock" /\ LockOf(job[t].q)' = b
  BY DEF LocksInUse
<1>2. /\ lock[b] = t /\ job'[t] # None /\ job'[t].q = job[t].q /\ job'[t].at # "lock"
  OBVIOUS
<1>3. LockOf(job[t].q) = b
  BY <1>2 DEF LocksInUse
<1>4. LockOf(job[t].q)' = LockOf(job[t].q)
  BY <1>2 DEF LockOf
<1> QED BY <1>2, <1>3, <1>4

\* A step of thread t, which goes on or ends, and may give its locks back.
LEMMA LocksThread ==
  ASSUME Core, LocksInUse, NEW t \in Threads, image' = image, lock' \in {lock, Unlocked(t)},
         \A u \in Threads \ {t} : job'[u] = job[u],
         \/ job'[t] # None /\ job'[t].q = job[t].q /\ (job[t].at = "lock" \/ job'[t].at # "lock")
         \/ lock' = Unlocked(t)
  PROVE  LocksInUse'
<1>1. lock \in [Paths -> Threads \cup {None}] /\ t # None
  BY EvaluatorAssumption DEF Core, EvaluatorTypes, EvaluatorTypeOK
<1>2. ASSUME NEW b \in Paths, NEW u \in Threads, lock'[b] = u
      PROVE  /\ lock[b] = u /\ job'[u] # None
             /\ job'[u].q = job[u].q /\ job'[u].at # "lock"
  <2>1. lock[b] = u /\ (u = t => lock' # Unlocked(t))
    BY <1>1, <1>2, EvaluatorAssumption DEF Unlocked
  <2>2. job[u] # None /\ job[u].at # "lock"
    BY <2>1 DEF LocksInUse
  <2> QED BY <2>1, <2>2
<1> QED BY <1>2, LocksKept

LEMMA LocksStep ==
  ASSUME IInv, LocksInUse, [Next]_vars
  PROVE  LocksInUse'
<1>0. Core
  BY IInvCore
<1>1. ASSUME UNCHANGED <<image, lock, job>>
      PROVE  LocksInUse'
  BY <1>1 DEF LocksInUse, LockOf
<1>2. CASE \/ Encrypting \/ ((EncryptorTick \/ EncryptorRestart) /\ UNCHANGED <<evaluator, clients>>)
           \/ UNCHANGED vars \/ \E c \in Clients : Asking(c) \/ Receive(c) \/ Abandon(c)
  <2>1. UNCHANGED <<image, lock, job>>
    BY <1>2 DEF Encrypting, evaluator, vars, Asking, AskPair, AskValues, AskResult, AskDirectly,
                ToEncryptor, ToEvaluator, Receive, Abandon
  <2> QED BY <1>1, <2>1
<1>3. CASE EvaluatorRestart
  <2>1. \A b \in Paths : lock'[b] = None
    BY <1>3 DEF EvaluatorRestart
  <2> QED BY <2>1, EvaluatorAssumption DEF LocksInUse
<1>4. ASSUME NEW t \in Threads, ThreadStep(t) \/ WorkerStep(t)
      PROVE  LocksInUse'
  <2>1. image' = image
    BY <1>4 DEF ThreadStep, WorkerStep, Accept, Acquire, DeserializeContext, GenerateKeys, LoadKeys, Compute,
                StartWorker, WorkerTimeout, Finish, WorkerWrites, WorkerExits
  <2>2. ASSUME NEW status \in Statuses, Ends(t, status), job[t] # None, lock' \in {lock, Unlocked(t)}
        PROVE  LocksInUse'
    BY <1>0, <2>1, <2>2, EndedJob, LocksThread
  <2>3. ASSUME NEW s \in Steps, s # "lock", job' = [job EXCEPT ![t].at = s], job[t] # None, lock' = lock
        PROVE  LocksInUse'
    BY <1>0, <2>1, <2>3, MovedJob, LocksThread
  <2>4. ASSUME Fails(t), job[t] # None, lock' = lock
        PROVE  LocksInUse'
    BY <2>2, <2>4, FailsEnds
  <2>5. CASE Accept(t)
    <3>1. lock' = lock /\ job[t] = None /\ \A u \in Threads \ {t} : job'[u] = job[u]
      BY <1>0, <2>5 DEF Accept, Free, Core, EvaluatorTypes, EvaluatorTypeOK
    <3>2. \A b \in Paths : lock[b] # t
      BY <3>1 DEF LocksInUse
    <3>3. \A b \in Paths : \A u \in Threads :
            lock'[b] = u => /\ lock[b] = u /\ job'[u] # None
                            /\ job'[u].q = job[u].q /\ job'[u].at # "lock"
      BY <3>1, <3>2 DEF LocksInUse
    <3> QED BY <2>1, <3>3, LocksKept
  <2>6. CASE Acquire(t)
    <3> DEFINE s == IF image = "cpu" THEN "setup" ELSE "worker"
    <3>1. /\ job[t] # None /\ job[t].at = "lock" /\ job' = [job EXCEPT ![t].at = s]
          /\ lock' = [lock EXCEPT ![LockOf(job[t].q)] = t]
      BY <2>6 DEF Acquire, At
    <3>2. s \in Steps /\ s # "lock"
      BY DEF Steps
    <3> HIDE DEF s
    <3>3. /\ job'[t] # None /\ \A u \in Threads \ {t} : job'[u] = job[u]
          /\ job'[t].q = job[t].q /\ job'[t].at = s
      BY <1>0, <3>1, <3>2, MovedJob
    <3>4. lock \in [Paths -> Threads \cup {None}] /\ LockOf(job[t].q) \in Paths
      BY <1>0, <3>1, CoreFacts DEF EvaluatorTypeOK
    <3>5. \A b \in Paths : lock[b] # t
      BY <3>1 DEF LocksInUse
    <3>6. ASSUME NEW b \in Paths, NEW u \in Threads, lock'[b] = u
          PROVE  job'[u] # None /\ job'[u].at # "lock" /\ LockOf(job[u].q)' = b
      <4>1. CASE b = LockOf(job[t].q)
        <5>1. u = t
          BY <3>1, <3>4, <3>6, <4>1
        <5>2. LockOf(job[t].q)' = LockOf(job[t].q)
          BY <2>1, <3>3 DEF LockOf
        <5> QED BY <3>2, <3>3, <4>1, <5>1, <5>2
      <4>2. CASE b # LockOf(job[t].q)
        <5>1. lock[b] = u /\ u # t
          BY <3>1, <3>4, <3>5, <3>6, <4>2
        <5>2. job'[u] = job[u]
          BY <3>3, <5>1
        <5>3. LockOf(job[u].q)' = LockOf(job[u].q)
          BY <2>1, <5>2 DEF LockOf
        <5> QED BY <5>1, <5>2, <5>3 DEF LocksInUse
      <4> QED BY <4>1, <4>2
    <3> QED BY <3>6 DEF LocksInUse
  <2>7. CASE DeserializeContext(t) \/ GenerateKeys(t) \/ LoadKeys(t) \/ Compute(t)
    <3>1. "keys" \in Steps /\ "compute" \in Steps /\ "result" \in Statuses
      BY DEF Steps, Statuses
    <3>2. job[t] # None /\ lock' = lock
      BY <2>7 DEF At, DeserializeContext, GenerateKeys, LoadKeys, Compute
    <3> QED BY <2>2, <2>3, <2>4, <2>7, <3>1, <3>2 DEF DeserializeContext, GenerateKeys, LoadKeys, Compute
  <2>8. CASE StartWorker(t)
    <3>1. job[t] # None /\ "failed" \in Statuses
      BY <2>8 DEF StartWorker, At, Statuses
    <3> QED BY <1>1, <2>1, <2>2, <2>8, <3>1 DEF StartWorker
  <2>9. CASE WorkerTimeout(t)
    <3>1. job[t] # None /\ "failed" \in Statuses
      BY <1>0, <2>9 DEF WorkerTimeout, Core, Employed, Statuses
    <3> QED BY <2>2, <2>9, <3>1 DEF WorkerTimeout
  <2>10. CASE Finish(t)
    <3>1. lock' = Unlocked(t) /\ \A u \in Threads \ {t} : job'[u] = job[u]
      BY <1>0, <2>10 DEF Finish, Core, EvaluatorTypes, EvaluatorTypeOK
    <3> QED BY <1>0, <2>1, <3>1, LocksThread
  <2>11. CASE WorkerWrites(t) \/ WorkerExits(t)
    <3>1. job[t] # None /\ job[t].at = "worker"
      BY <1>0, <2>11 DEF WorkerWrites, WorkerExits, Core, Employed
    <3>2. EvaluatorTypeOK /\ job[t] \in Job /\ lock' \in {lock, Unlocked(t)}
      BY <1>0, <2>11, <3>1, CoreFacts DEF WorkerWrites, WorkerExits
    <3>3. /\ job'[t] # None /\ \A u \in Threads \ {t} : job'[u] = job[u]
          /\ job'[t].q = job[t].q /\ job'[t].at # "lock"
      BY <1>0, <2>11, <3>1, WorkerMoves
    <3> QED BY <1>0, <2>1, <3>2, <3>3, LocksThread
  <2> QED BY <1>4, <2>5, <2>6, <2>7, <2>8, <2>9, <2>10, <2>11 DEF ThreadStep, WorkerStep
<1>5. ASSUME NEW c \in Clients, Timeout(c)
      PROVE  LocksInUse'
  <2>1. UNCHANGED <<image, lock>>
    BY <1>5 DEF Timeout
  <2>2. ASSUME NEW b \in Paths, NEW t \in Threads, lock'[b] = t
        PROVE  lock[b] = t /\ job'[t] # None /\ job'[t].q = job[t].q /\ job'[t].at # "lock"
    <3>1. lock[b] = t /\ job[t] # None /\ job[t].at # "lock"
      BY <2>1, <2>2 DEF LocksInUse
    <3>2. job[t] \in Job
      BY <1>0, <3>1, CoreFacts
    <3>3. job'[t] = IF job[t].from = c THEN [job[t] EXCEPT !.from = None] ELSE job[t]
      BY <1>5, <3>1 DEF Timeout
    <3>4. job'[t] \in Job
      BY <3>2, <3>3 DEF Job
    <3>5. job'[t].q = job[t].q /\ job'[t].at = job[t].at
      BY <3>2, <3>3 DEF Job
    <3> QED BY <3>1, <3>4, <3>5, JobAssumption
  <2> QED BY <2>1, <2>2, LocksKept
<1> QED BY <1>2, <1>3, <1>4, <1>5 DEF Next, Answering, Working

\* A lock that is held is in use: its thread has got it, works on a request of that
\* class, and waits for no other.  So a thread that waits for a lock waits for one
\* that does not, and no threads wait for each other.  What is left to LocksFreed
\* is that a thread at work goes on.
THEOREM HeldLocksAreInUse == Spec => []LocksInUse
<1>1. Init => LocksInUse
  BY EvaluatorAssumption DEF Init, EvaluatorInit, LocksInUse
<1>2. IInv /\ LocksInUse /\ [Next]_vars => LocksInUse'
  BY LocksStep
<1> QED BY <1>1, <1>2, InductiveInvariant, PTL DEF Spec


=============================================================================
