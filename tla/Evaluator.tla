----------------------------- MODULE Evaluator -----------------------------
(***************************************************************************)
(* The evaluator in its two images.  The CPU image (api/app.py, backends/) *)
(* answers one connection after the other and calls OpenFHE, whose         *)
(* contexts and evaluation keys are registered once per process.  The GPU  *)
(* image (gpu/api/app.py) answers each connection in a thread of its own,  *)
(* which starts a native worker under a lock and waits for it at most a    *)
(* given time.                                                             *)
(*                                                                         *)
(* The material of a client (context, keys, ciphertexts) is one name; what *)
(* a request holds of it, and under which fields, decides the rest.        *)
(***************************************************************************)
EXTENDS Callers, SlotSums

CONSTANTS
  Threads,    \* threads that answer connections
  Main,       \* the one that runs serve_forever
  Materials,  \* what the clients have generated
  BatchSize   \* slots of a demo ciphertext

ASSUME EvaluatorAssumption ==
  /\ BatchSize \in Nat \ {0} /\ Main \in Threads
  /\ None \notin Threads \cup Materials \cup Nat \cup {"result", "rejected", "failed"}
  /\ Threads \cap Materials = {}

VARIABLES
  image,    \* "cpu" or "gpu"
  evalBox,  \* connections that wait for the server
  job,      \* thread -> what it works on, or None
  lock,     \* lock of a backend class -> the thread that holds it, or None
  registry, \* what OpenFHE has registered in the CPU process: <<kind, owner>>
  running   \* threads whose native worker lives

evaluator == <<image, evalBox, job, lock, registry, running>>

Binary == {"add", "subtract", "multiply"}
Reductions == {"sum", "mean", "variance"}
MultiplicationKeyOperations == {"multiply", "square", "variance"}
Operations == Binary \cup {"square"} \cup Reductions

Paths == {"evaluate", "demo", "demo_sum", "bgv"}
Fields == {"evaluation_keys", "multiplication_keys", "rotation_keys"}

Body ==
  [path  : Paths,
   op    : Operations,
   of    : Materials,                                      \* whose context and ciphertexts
   right : BOOLEAN,                                        \* ciphertext_b or values_b
   pub   : BOOLEAN,                                        \* public_key
   keys  : UNION {[F -> Materials] : F \in SUBSET Fields}, \* whose keys
   count : Nat \cup {None},                                \* valid_count, or how many values
   id    : BOOLEAN]                                        \* no request_id, or a valid one

Letters == [from : Clients \cup {None}, body : Body]

Steps == {"lock", "setup", "keys", "compute", "worker", "end"}
Statuses == {"result", "rejected", "failed"}

Job == [from : Clients \cup {None}, q : Body, at : Steps,
        file   : {"none", "partial", "whole"},  \* what the worker has written
        code   : {0, 1},                        \* its exit code
        status : Statuses \cup {None}]

ASSUME JobAssumption == None \notin Job

Owners == Materials \cup Threads \cup {"old"}
Kinds == {"context", "multiplication", "rotation"}

EvaluatorTypeOK ==
  /\ image \in {"cpu", "gpu"}
  /\ evalBox \in Seq(Letters)
  /\ job \in [Threads -> Job \cup {None}]
  /\ lock \in [Paths -> Threads \cup {None}]
  /\ registry \subseteq Kinds \X Owners
  /\ running \subseteq Threads

EvaluatorInit ==
  /\ image \in {"cpu", "gpu"}
  /\ evalBox = <<>>
  /\ job = [t \in Threads |-> None]
  /\ lock = [b \in Paths |-> None]
  /\ registry = {}
  /\ running = {}

-----------------------------------------------------------------------------
(* What a request must hold.                                               *)

NeedsMult(op) == op \in MultiplicationKeyOperations
NeedsRot(op) == op \in Reductions

\* Mutant: variance accepts the field for one key as well.
KeysForLax(op) ==
  (IF NeedsMult(op) THEN {{"evaluation_keys"}, {"multiplication_keys"}} ELSE {})
    \cup (IF NeedsRot(op) THEN {{"evaluation_keys"}, {"rotation_keys"}} ELSE {})

\* The sets of key fields that an operation accepts: the legacy field holds the
\* one kind of keys the operation needs.
KeysFor(op) ==
  IF NeedsMult(op) /\ NeedsRot(op) THEN {{"multiplication_keys", "rotation_keys"}}
  ELSE IF NeedsMult(op) THEN {{"evaluation_keys"}, {"multiplication_keys"}}
  ELSE IF NeedsRot(op) THEN {{"evaluation_keys"}, {"rotation_keys"}}
  ELSE {{}}

\* evaluate_request of both images: the GPU image needs the public key, the CPU
\* image knows no such field.
ValidEvaluate(q) ==
  /\ q.id
  /\ q.pub = (image = "gpu")
  /\ q.right = (q.op \in Binary)
  /\ DOMAIN q.keys \in KeysFor(q.op)
  /\ (q.count # None) = (q.op \in Reductions)
  /\ q.count # None => q.count >= 1

\* A demo knows no fields for keys; _demo_values: at least one.
SomeValues(q) == DOMAIN q.keys = {} /\ ~q.pub /\ q.count # None /\ q.count >= 1

\* evaluate_demo_request
ValidDemo(q) == SomeValues(q) /\ q.id /\ q.right = (q.op \in Binary)

\* evaluate_demo_sum_request
ValidDemoSum(q) == SomeValues(q) /\ q.id /\ ~q.right /\ q.op = "sum"

\* evaluate_bgv_demo_request of the CPU image, which looks at the request_id only
\* in the end.
ValidBGV(q) ==
  /\ image = "cpu" /\ SomeValues(q)
  /\ q.op \in {"multiply", "sum"} /\ q.right = (q.op = "multiply")

Valid(q) ==
  \/ q.path = "evaluate" /\ ValidEvaluate(q)
  \/ q.path = "demo" /\ ValidDemo(q)
  \/ q.path = "demo_sum" /\ ValidDemoSum(q)
  \/ q.path = "bgv" /\ ValidBGV(q)

Given(q, field) == IF field \in DOMAIN q.keys THEN q.keys[field] ELSE None

\* The keys that the API hands to the backend: whose they are, or None.
KeysUnder(q, field, needed) ==
  IF ~needed THEN None
  ELSE IF Given(q, field) # None THEN Given(q, field) ELSE Given(q, "evaluation_keys")

\* Variance has two fields, and no use for the legacy one.
MultKeys(q) ==
  IF q.op = "variance" THEN Given(q, "multiplication_keys")
                       ELSE KeysUnder(q, "multiplication_keys", NeedsMult(q.op))

RotKeys(q) ==
  IF q.op = "variance" THEN Given(q, "rotation_keys")
                       ELSE KeysUnder(q, "rotation_keys", NeedsRot(q.op))

\* The request brings the keys of its own context.
BringsKeys(q) ==
  /\ NeedsMult(q.op) => MultKeys(q) = q.of
  /\ NeedsRot(q.op) => RotKeys(q) = q.of

-----------------------------------------------------------------------------
(* A connection is taken up: by the main thread of the CPU image, by a     *)
(* thread of its own in the GPU image.                                     *)

NewJob(m) == [from |-> m.from, q |-> m.body, at |-> "lock", file |-> "none", code |-> 0,
              status |-> None]

Error(why) == [kind |-> why, sid |-> None]

\* Mutant: the CPU image answers its connections in threads as well.
FreeAny(t) == job[t] = None

Free(t) == job[t] = None /\ (image = "cpu" => t = Main)

\* do_POST: an invalid request is answered at once.
Accept(t) ==
  /\ evalBox # <<>> /\ Free(t)
  /\ evalBox' = Tail(evalBox)
  /\ IF Valid(Head(evalBox).body)
     THEN /\ job' = [job EXCEPT ![t] = NewJob(Head(evalBox))]
          /\ UNCHANGED mail
     ELSE /\ Respond(Head(evalBox).from, Error("rejected"))
          /\ UNCHANGED job
  /\ UNCHANGED <<image, lock, registry, running>>

At(t, step) == job[t] # None /\ job[t].at = step

\* _lock: one for each class.  The GPU image runs both kinds of demos in one.
LockOf(q) == IF image = "gpu" /\ q.path = "demo_sum" THEN "demo" ELSE q.path

Acquire(t) ==
  /\ At(t, "lock") /\ lock[LockOf(job[t].q)] = None
  /\ lock' = [lock EXCEPT ![LockOf(job[t].q)] = t]
  /\ job' = [job EXCEPT ![t].at = IF image = "cpu" THEN "setup" ELSE "worker"]
  /\ UNCHANGED <<image, evalBox, registry, running, mail>>

Ends(t, status) == job' = [job EXCEPT ![t].at = "end", ![t].status = status]

\* Mutant: in the CPU image a computation that raises keeps its lock.
UnlockedUnlessFailed(t) ==
  IF image = "cpu" /\ job[t].status = "failed" THEN lock
  ELSE [b \in Paths |-> IF lock[b] = t THEN None ELSE lock[b]]

\* What "with self._lock" leaves, however its block ends.
Unlocked(t) == [b \in Paths |-> IF lock[b] = t THEN None ELSE lock[b]]

-----------------------------------------------------------------------------
(* The CPU image.                                                          *)

\* Who has generated what the job computes with.
Owner(t) == IF job[t].q.path = "evaluate" THEN job[t].q.of ELSE t

\* Mutant: an evaluation starts with what earlier requests have left.
UnclearedBy(q) == IF q.path \in {"demo_sum", "evaluate"} THEN registry ELSE {}

\* What is left when a job begins: the large sum clears nothing.
ClearedBy(q) == IF q.path = "demo_sum" THEN registry ELSE {}

\* The keys that a demo generates for itself.
DemoKeys(q) ==
  CASE q.path = "demo"     -> {"multiplication", "rotation"}
    [] q.path = "demo_sum" -> {"rotation"}
    [] OTHER               -> {IF q.op = "multiply" THEN "multiplication" ELSE "rotation"}

\* An evaluation is refused for what the request holds, and fails for anything else.
Fails(t) ==
  \E status \in (IF job[t].q.path = "evaluate" THEN {"rejected", "failed"} ELSE {"failed"}) :
    Ends(t, status)

\* The context of an evaluation is deserialised.  It may stop before, or after,
\* the registries are cleared.
DeserializeContext(t) ==
  /\ image = "cpu" /\ At(t, "setup") /\ job[t].q.path = "evaluate"
  /\ \/ /\ registry' = ClearedBy(job[t].q) \cup {<<"context", Owner(t)>>}
        /\ job' = [job EXCEPT ![t].at = "keys"]
     \/ /\ registry' \in {registry, ClearedBy(job[t].q)}
        /\ Fails(t)
  /\ UNCHANGED <<image, evalBox, lock, running, mail>>

\* A demo generates a context and its keys, or raises on the way.
GenerateKeys(t) ==
  /\ image = "cpu" /\ At(t, "setup") /\ job[t].q.path # "evaluate"
  /\ \/ /\ registry' = ClearedBy(job[t].q) \cup {<<"context", t>>} \cup (DemoKeys(job[t].q) \X {t})
        /\ job' = [job EXCEPT ![t].at = "compute"]
     \/ /\ registry' \in {ClearedBy(job[t].q), ClearedBy(job[t].q) \cup {<<"context", t>>}}
        /\ Fails(t)
  /\ UNCHANGED <<image, evalBox, lock, running, mail>>

\* The keys of the request are registered; when the second artifact cannot be
\* deserialised the first one stays.
LoadKeys(t) ==
  /\ image = "cpu" /\ At(t, "keys")
  /\ LET mult == IF MultKeys(job[t].q) = None THEN {} ELSE {<<"multiplication", MultKeys(job[t].q)>>}
         rot  == IF RotKeys(job[t].q) = None THEN {} ELSE {<<"rotation", RotKeys(job[t].q)>>}
     IN  \/ /\ registry' = registry \cup mult \cup rot
            /\ job' = [job EXCEPT ![t].at = "compute"]
         \/ /\ mult \cup rot # {}
            /\ registry' \in {registry} \cup (IF rot = {} THEN {} ELSE {registry \cup mult})
            /\ Fails(t)
  /\ UNCHANGED <<image, evalBox, lock, running, mail>>

\* The kinds of keys that the computation looks up.
LooksUp(q) ==
  CASE q.path = "demo_sum" -> {"rotation"}
    [] OTHER -> (IF NeedsMult(q.op) THEN {"multiplication"} ELSE {})
                  \cup (IF NeedsRot(q.op) THEN {"rotation"} ELSE {})

\* OpenFHE finds the keys of the ciphertexts in its registry, or raises; a bad
\* ciphertext is refused, and the binding may raise for reasons of its own.
Compute(t) ==
  /\ image = "cpu" /\ At(t, "compute")
  /\ \/ LooksUp(job[t].q) \X {Owner(t)} \subseteq registry /\ Ends(t, "result")
     \/ Fails(t)
  /\ UNCHANGED <<image, evalBox, lock, registry, running, mail>>

\* What a job leaves registered: the demos clear, the others do not.
Left(t) ==
  IF job[t].q.path \in {"demo", "bgv"} THEN {}
  ELSE {<<e[1], IF e[2] = t THEN "old" ELSE e[2]>> : e \in registry}

-----------------------------------------------------------------------------
(* The GPU image.                                                          *)

\* subprocess.run starts the worker, or cannot.
StartWorker(t) ==
  /\ image = "gpu" /\ At(t, "worker") /\ t \notin running
  /\ \/ running' = running \cup {t} /\ UNCHANGED <<job, lock>>
     \/ /\ Ends(t, "failed")
        /\ lock' = IF job[t].q.path = "evaluate" THEN lock ELSE Unlocked(t)
        /\ UNCHANGED running
  /\ UNCHANGED <<image, evalBox, registry, mail>>

\* The names of the arguments of the command, and those that main of the worker
\* requires.
Arguments(q) ==
  {"operation", "context", "public-key", "left", "output"}
    \cup (IF q.right THEN {"right"} ELSE {})
    \cup (IF MultKeys(q) # None THEN {"multiplication-keys"} ELSE {})
    \cup (IF RotKeys(q) # None THEN {"rotation-keys"} ELSE {})
    \cup (IF q.count # None THEN {"valid-count"} ELSE {})

Required(op) ==
  {"operation", "context", "public-key", "left", "output"}
    \cup (IF op \in Binary THEN {"right"} ELSE {})
    \cup (IF NeedsMult(op) THEN {"multiplication-keys"} ELSE {})
    \cup (IF NeedsRot(op) THEN {"rotation-keys", "valid-count"} ELSE {})

\* The same command as the FIDES adapter of the SDK builds it from the files of a
\* workspace.
AdapterArguments(op, right, count) ==
  {"operation", "context", "public-key", "left", "output"}
    \cup (IF right # None THEN {"right"} ELSE {})
    \cup (IF op \in {"multiply", "square", "variance"} THEN {"multiplication-keys"} ELSE {})
    \cup (IF op \in {"sum", "mean", "variance"} THEN {"rotation-keys"} ELSE {})
    \cup (IF count # None THEN {"valid-count"} ELSE {})

\* The rotations in the metadata of the context.
Announced(q) == IF q.op \in Reductions THEN Rotations(q.count) ELSE {}

\* main of he-gpu-worker and of he-gpu-demo: the result is written when the
\* computation is done, which needs the keys of the ciphertexts.
WorkerWrites(t) ==
  /\ t \in running /\ job[t].file # "whole"
  /\ job[t].q.path = "evaluate" => Required(job[t].q.op) \subseteq Arguments(job[t].q) /\ BringsKeys(job[t].q)
  /\ job' = [job EXCEPT ![t].file = IF @ = "none" THEN "partial" ELSE "whole"]
  /\ UNCHANGED <<image, evalBox, lock, registry, running, mail>>

\* It exits with 0 after the result is written, and with 1 whenever it fails.
WorkerExits(t) ==
  /\ t \in running
  /\ running' = running \ {t}
  /\ \E c \in {0, 1} :
       /\ c = 0 => job[t].file = "whole"
       /\ job' = [job EXCEPT ![t].at = "end", ![t].code = c]
  /\ lock' = IF job[t].q.path = "evaluate" THEN lock ELSE Unlocked(t)
  /\ UNCHANGED <<image, evalBox, registry, mail>>

\* Mutant: a worker that has timed out is left alone.
TimeoutUnkilled(t) ==
  /\ t \in running /\ At(t, "worker")
  /\ Ends(t, "failed")
  /\ lock' = IF job[t].q.path = "evaluate" THEN lock ELSE Unlocked(t)
  /\ UNCHANGED <<image, evalBox, registry, mail, running>>

\* Mutant: the demo worker runs without a time limit.
TimeoutEvaluate(t) ==
  /\ t \in running /\ job[t].q.path = "evaluate"
  /\ running' = running \ {t}
  /\ Ends(t, "failed")
  /\ UNCHANGED <<image, evalBox, lock, registry, mail>>

\* TimeoutExpired: subprocess.run has killed the worker and waited for its end.
WorkerTimeout(t) ==
  /\ t \in running
  /\ running' = running \ {t}
  /\ Ends(t, "failed")
  /\ lock' = IF job[t].q.path = "evaluate" THEN lock ELSE Unlocked(t)
  /\ UNCHANGED <<image, evalBox, registry, mail>>

-----------------------------------------------------------------------------
\* Mutant: the exit code of the worker is not looked at.
VerdictByFile(t) ==
  IF job[t].status # None THEN job[t].status
  ELSE IF job[t].file = "none" THEN "failed" ELSE "result"

\* What the API makes of the end of a job: of the status the backend has given
\* it, or of the worker's exit code and output.
Verdict(t) ==
  IF job[t].status # None
  THEN IF job[t].status = "result" /\ job[t].q.path = "bgv" /\ ~job[t].q.id
       THEN "rejected" ELSE job[t].status
  ELSE IF job[t].code # 0 THEN "rejected"
  ELSE IF job[t].file = "none" THEN "failed"
  ELSE "result"

\* The backend cleans up and releases its lock, and the response is sent.
Finish(t) ==
  /\ At(t, "end")
  /\ job' = [job EXCEPT ![t] = None]
  /\ registry' = Left(t)
  /\ lock' = Unlocked(t)
  /\ Respond(job[t].from, [kind |-> Verdict(t), sid |-> None])
  /\ UNCHANGED <<image, evalBox, running>>

\* Steps of a thread of the API, and of its worker.
ThreadStep(t) ==
  \/ Accept(t) \/ Acquire(t)
  \/ DeserializeContext(t) \/ GenerateKeys(t) \/ LoadKeys(t) \/ Compute(t)
  \/ StartWorker(t) \/ WorkerTimeout(t) \/ Finish(t)

WorkerStep(t) == WorkerWrites(t) \/ WorkerExits(t)

\* The container restarts: processes, locks and registries are gone.
EvaluatorRestart ==
  /\ evalBox' = <<>>
  /\ job' = [t \in Threads |-> None]
  /\ lock' = [b \in Paths |-> None]
  /\ registry' = {}
  /\ running' = {}
  /\ Reset(Senders(evalBox) \cup ({job[t].from : t \in {u \in Threads : job[u] # None}} \ {None}))
  /\ UNCHANGED image

=============================================================================
