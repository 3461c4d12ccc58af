------------------------- MODULE EvaluationServices -------------------------
(***************************************************************************)
(* The services of a trial together.  A client has a pair encrypted by the *)
(* encryptor, has the evaluator compute with it, and has the result        *)
(* decrypted (client/service_trial.py); when a call fails or times out it  *)
(* repeats it, or gives up.  It may also call the evaluator with material  *)
(* of its own, or with the plaintexts of a demo.  Either service may       *)
(* restart at any time.                                                    *)
(***************************************************************************)
EXTENDS Encryptor, Evaluator

CONSTANTS
  DirectBodies, \* image -> what clients ask of it with material of their own
  MaxBacklog    \* connections that a listening socket holds

ASSUME ServicesAssumption ==
  /\ MaxBacklog \in Nat \ {0}
  /\ Ids \subseteq Materials
  /\ TrialOps \subseteq {"add", "subtract"}
  /\ DirectBodies \in [{"cpu", "gpu"} -> SUBSET Body]

VARIABLES
  call,   \* client -> what it waits for, or None
  bundle, \* client -> the pair it has, or None
  result  \* client -> the operation whose encrypted result it has, or None

clients == <<call, bundle, result>>
vars == <<encryptor, evaluator, mail, clients>>

Call == [what : {"pair", "result", "values", "direct"}, op : TrialOps \cup {None}]

Mail ==
  [kind : {"error", "limit", "values", "bundle", "result", "rejected", "failed"}, sid : Ids \cup {None}]

ASSUME MessageAssumption == None \notin Mail \cup Call

TypeOK ==
  /\ EncryptorTypeOK /\ EvaluatorTypeOK
  /\ mail \in [Clients -> Mail \cup {None}]
  /\ call \in [Clients -> Call \cup {None}]
  /\ bundle \in [Clients -> Ids \cup {None}]
  /\ result \in [Clients -> TrialOps \cup {None}]

Init ==
  /\ EncryptorInit /\ EvaluatorInit
  /\ mail = [c \in Clients |-> None]
  /\ call = [c \in Clients |-> None]
  /\ bundle = [c \in Clients |-> None]
  /\ result = [c \in Clients |-> None]

-----------------------------------------------------------------------------
(* Calls.                                                                  *)

Waits(c, what, op) ==
  /\ call[c] = None
  /\ call' = [call EXCEPT ![c] = [what |-> what, op |-> op]]
  /\ UNCHANGED <<mail, bundle, result>>

ToEncryptor(c, sid, op) ==
  /\ Len(encBox) < MaxBacklog
  /\ encBox' = Append(encBox, [from |-> c, sid |-> sid, op |-> op])
  /\ UNCHANGED <<life, minted, released, evaluator>>

ToEvaluator(c, body) ==
  /\ Len(evalBox) < MaxBacklog
  /\ evalBox' = Append(evalBox, [from |-> c, body |-> body])
  /\ UNCHANGED <<encryptor, image, job, lock, registry, running>>

\* A bundle holds no public key: trials are made against the CPU image.
AskPair(c) ==
  /\ image = "cpu" /\ bundle[c] = None
  /\ ToEncryptor(c, None, None)
  /\ Waits(c, "pair", None)

PairBody(s, op) ==
  [path |-> "evaluate", op |-> op, of |-> s, right |-> TRUE, pub |-> FALSE, keys |-> <<>>,
   count |-> None, id |-> TRUE]

AskResult(c, op) ==
  /\ image = "cpu" /\ bundle[c] # None
  /\ ToEvaluator(c, PairBody(bundle[c], op))
  /\ Waits(c, "result", op)

AskValues(c) ==
  /\ image = "cpu" /\ bundle[c] # None /\ result[c] # None
  /\ ToEncryptor(c, bundle[c], result[c])
  /\ Waits(c, "values", result[c])

AskDirectly(c, body) ==
  /\ ToEvaluator(c, body)
  /\ Waits(c, "direct", None)

-----------------------------------------------------------------------------
(* Answers.                                                                *)

Returned(c) ==
  /\ call' = [call EXCEPT ![c] = None]
  /\ mail' = [mail EXCEPT ![c] = None]

ReceivePair(c) ==
  /\ mail[c].kind = "bundle"
  /\ bundle' = [bundle EXCEPT ![c] = mail[c].sid]
  /\ UNCHANGED result

ReceiveResult(c) ==
  /\ mail[c].kind = "result" /\ call[c].what = "result"
  /\ result' = [result EXCEPT ![c] = call[c].op]
  /\ UNCHANGED bundle

GiveUp(c) ==
  /\ bundle' = [bundle EXCEPT ![c] = None]
  /\ result' = [result EXCEPT ![c] = None]

\* An error, or a response that ends a direct call.
ReceiveOther(c) ==
  /\ \/ mail[c].kind \in {"error", "limit", "rejected", "failed"}
     \/ mail[c].kind = "result" /\ call[c].what = "direct"
  /\ UNCHANGED <<bundle, result>>

Receive(c) ==
  /\ call[c] # None /\ mail[c] # None
  /\ \/ ReceivePair(c) \/ ReceiveResult(c) \/ ReceiveOther(c)
     \/ mail[c].kind = "values" /\ GiveUp(c)
  /\ Returned(c)
  /\ UNCHANGED <<encryptor, evaluator>>

Abandon(c) ==
  /\ bundle[c] # None /\ call[c] = None
  /\ GiveUp(c)
  /\ UNCHANGED <<encryptor, evaluator, mail, call>>

\* The timeout passes, or the response is lost: what was asked is done all the
\* same.
Timeout(c) ==
  /\ call[c] # None
  /\ Returned(c)
  /\ encBox' = Orphaned(encBox, c)
  /\ evalBox' = Orphaned(evalBox, c)
  /\ job' = [t \in Threads |-> IF job[t] # None /\ job[t].from = c
                               THEN [job[t] EXCEPT !.from = None] ELSE job[t]]
  /\ UNCHANGED <<life, minted, released, image, lock, registry, running, bundle, result>>

-----------------------------------------------------------------------------
Encrypting == ServeEncryptor /\ UNCHANGED <<evaluator, clients>>
Answering(t) == ThreadStep(t) /\ UNCHANGED <<encryptor, clients>>
Working(t) == WorkerStep(t) /\ UNCHANGED <<encryptor, clients>>

Asking(c) ==
  \/ AskPair(c) \/ AskValues(c)
  \/ \E op \in TrialOps : AskResult(c, op)
  \/ \E body \in DirectBodies[image] : AskDirectly(c, body)

Next ==
  \/ Encrypting
  \/ EncryptorTick /\ UNCHANGED <<evaluator, clients>>
  \/ EncryptorRestart /\ UNCHANGED <<evaluator, clients>>
  \/ EvaluatorRestart /\ UNCHANGED <<encryptor, clients>>
  \/ \E t \in Threads : Answering(t) \/ Working(t)
  \/ \E c \in Clients : Asking(c) \/ Receive(c) \/ Abandon(c) \/ Timeout(c)

Spec == Init /\ [][Next]_vars

\* The servers serve, their threads run, subprocess.run ends at its time limit,
\* and a response that has arrived is read.  A worker may hang, nobody has to
\* call anything, and no client has to lose patience.
FairSpec ==
  /\ Spec
  /\ WF_vars(Encrypting)
  /\ \A t \in Threads : WF_vars(Answering(t))
  /\ \A c \in Clients : WF_vars(Receive(c))

-----------------------------------------------------------------------------
(* Properties.                                                             *)

\* A native worker lives only under the lock of its class, held by the thread
\* that has started it: no timeout, failure or answer leaves one behind, and at
\* most one of each binary uses the device.
WorkersUnderLock ==
  \A t \in running : job[t] # None /\ lock[LockOf(job[t].q)] = t

\* Whether a request is answered does not depend on what earlier ones have left
\* in the process: a result was computed with the keys of its own request.
AnswersFromOwnKeys ==
  \A t \in Threads :
    At(t, "end") /\ Verdict(t) = "result" /\ job[t].q.path = "evaluate" => BringsKeys(job[t].q)

\* What a job has registered is there when it computes: nothing else has
\* cleared the registries of the process in between.
RegistryStays ==
  \A t \in Threads :
    At(t, "compute") =>
      /\ <<"context", Owner(t)>> \in registry
      /\ job[t].q.path # "evaluate" => DemoKeys(job[t].q) \X {t} \subseteq registry

\* A result of the GPU image is the complete output of a worker that succeeded.
ResultsAreWhole ==
  \A t \in Threads :
    At(t, "end") /\ Verdict(t) = "result" /\ image = "gpu" =>
      job[t].file = "whole" /\ job[t].code = 0

\* A worker is started with every argument that its operation requires of it.
InvokedWithNeeds ==
  \A t \in running :
    job[t].q.path = "evaluate" => Required(job[t].q.op) \subseteq Arguments(job[t].q)

\* A reduction reaches every valid slot: the large demo sums add each value once,
\* also those of an incomplete batch, and the rotations that are announced for a
\* reduction on the GPU lead to each of its slots.
SumsReachEverySlot ==
  \A t \in Threads :
    job[t] # None =>
      LET q == job[t].q
      IN  /\ q.path = "demo_sum" =>
               \A i \in 0..(q.count - 1) : TimesSummed(image, q.count, BatchSize, i) = 1
          /\ q.path = "evaluate" /\ image = "gpu" /\ q.op \in Reductions =>
               Gathered(Announced(q), q.count) = 0..(q.count - 1)

\* A session of the encryptor ends by its expiry, by the one answer it is for,
\* or with the process: a decryption that fails leaves it.
FailuresKeepSession ==
  [][\A s \in Ids : Live(s) /\ life'[s] = None => released'[s] # released[s] \/ EncryptorRestart]_vars

\* A pair is refused only while as many others are within their time.
LimitMeansLive ==
  [][\A c \in Clients :
       mail[c] = None /\ mail'[c] # None /\ mail'[c].kind = "limit"
         => Cardinality({s \in Ids : Live(s)}) >= MaxSessions]_vars

\* The promise of the encryptor: one result of a pair, once, before it lapses.
Ledger == INSTANCE PairLedger WITH
  pair <- [s \in Ids |-> IF s \notin minted THEN "none"
                         ELSE IF released[s] # <<>> THEN "answered"
                         ELSE IF Live(s) THEN "open" ELSE "lapsed"]

ImplementsPairLedger == Ledger!Spec

\* A thread that has a lock gives it back, although workers may hang.
LocksFreed ==
  \A t \in Threads : (\E b \in Paths : lock[b] = t) ~> (\A b \in Paths : lock[b] # t)

\* Every call of the encryptor and of the CPU image returns.
CallsReturn == \A c \in Clients : image = "cpu" /\ call[c] # None ~> call[c] = None

=============================================================================
