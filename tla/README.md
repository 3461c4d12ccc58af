# Formal models of the HE demo platform

TLA+ modules, TLC configurations and TLAPS proofs for the stateful parts of this
repository: the SDK workspace, the native runtimes of a process, the
database-backed worker, the trusted gateway with its client, the encryptor with the
evaluators in both images, and the rules by which a session evaluates, decrypts and
releases values. Cryptography is external: a ciphertext is a value (in `SessionRules`
and `GatewayValues` a record of what it holds), a key bundle is a name, a SHA-256
digest is the content itself.

## 1. Inventory

| Part | Code | State it keeps | Operations |
|---|---|---|---|
| SDK workspace | `he_sdk/artifacts.py`, `he_sdk/session.py`, `openfhe_cpu/runtime.py` | a directory: `manifest.json`, `material/*`, `ciphertexts/*.bin`, fixed temporary names | `initialize_workspace`, `save_ciphertext`, `load_ciphertext`, `open_workspace`, `list_ciphertexts` |
| Native runtimes | `he_sdk/native_runtime.py`, `he_sdk/backends/*.py`, `gpu/he_sdk_fides/.../backend.py` | the claim, the lease, the evaluation-key table of the OpenFHE binding: one of each per process | `HESession.create`, `open_workspace`, every operation, `close` |
| Session rules | `he_sdk/session.py`, `ciphertext.py`, `contracts.py`, `config.py` | metadata of each ciphertext: level, shape, origin | `encrypt`, the evaluations, `decrypt` |
| Result release | `he_sdk/result_release.py`, `release_artifacts.py` | recipient keys, released results | `create_result_recipient`, `release_result`, `load`, `decrypt` |
| Database worker | `he_worker/postgres.py`, `runner.py`, `postgres/init/001_he_store.sql` | one row of `he_store.runs`, the rows of `he_store.artifacts` of the run | `execute_postgres`: set running, download, execute, publish, set finished |
| Worker command line | `he_worker/__main__.py`, `request.py` | none | validates one request from the environment |
| Trusted gateway | `gateway/app.py` | sessions with a time limit, ciphertexts of each | create, encrypt, evaluate, decrypt, delete |
| Remote client | `he_client/client.py` | session identifier, closed flag, handles in the hands of callers | encrypt, evaluations, composites, decrypt, close |
| Encryptor | `encryptor/app.py` | one-shot sessions with a time limit | encrypt_pair, decrypt |
| CPU evaluator | `api/app.py`, `backends/*.py`, `common/operations.py` | none of its own; the process-global registries of OpenFHE, under one lock per backend class | evaluate, CKKS, BGV and large-sum demos |
| GPU evaluator | `gpu/api/app.py` | two locks and the worker processes | evaluate, demos |
| GPU worker, bindings | `gpu/worker`, `gpu/he_sdk_fides/native` | none between calls | one operation per process |
| Command-line clients | `client/*.py`, `gpu/client` | a bundle and a result in hand | the trial of `service_trial.py`: pair, evaluation, decryption |
| Benchmarks, notebooks | `examples/`, `scripts/`, `he_sdk/smoke.py` | none | scripts |

How they interact. An `HESession` owns a backend; creating one claims the
process's native runtime and, for OpenFHE, its lease. The session writes and
reads a workspace directory that other processes (an analyst, a worker) open with
public keys only. The worker downloads such a workspace from PostgreSQL into a
private directory, opens a session on it, saves one result, and publishes every
file back. `HEClient` talks HTTP to the gateway, which keeps contexts, keys and
ciphertexts in memory. The encryptor and the evaluators form the older pair of
services: the encryptor keeps the secret key, the evaluator is stateless.

What is hard in this code, and hard to test:

- A save is some ten file operations on two files; a crash can come between any
  two, readers can come between any two, and temporary names are fixed.
- `close` and a failing constructor act on state of the whole process (lease,
  key table), on behalf of one object.
- Attempts on one run work on private copies downloaded earlier; the store only
  sees inserts under a unique key, ordered by an identity column, and a commit
  in an error path commits whatever the open transaction holds.
- The SDK judges ciphertexts by metadata that it carries beside them, through
  chains of operations, files and sessions; nothing compares the two.
- A client that has timed out does not know whether its request was, or will
  be, served; sessions end by delete, by expiry and by restart.
- The backends of the CPU image each have a lock of their own, around registries that
  OpenFHE keeps once per process and that some of them clear and others do not. The
  GPU image answers in threads and waits for workers that fail, hang or
  write half a file.
- The fields of a request, the arguments of a worker and the rotations announced to the
  libraries are derived from lists kept apart in four programs.

`PROJECT.json` lists these hazards line by line with the properties that would
catch each of them.

What makes each part correct: a workspace is a map from names to ciphertexts
that survives crashes; a process computes with one OpenFHE session, whose keys
are present while it computes; a run only ever offers manifests whose
ciphertexts it has, and what an attempt reports is in it; what a session agrees to
decrypt or release is what its metadata says; a handle of a client
means the same ciphertext for the gateway, sessions in use are not purged, and
every call returns; the encryptor gives out one result of a pair, once, in time; an
evaluator computes with the keys of the request and nothing else, answers with whole
results only, and gives its locks back.

## 2. Modules

| Module | Models | Used by |
|---|---|---|
| `Workspace` | the workspace directory and the processes that use it | `MCWorkspace`, `WorkspaceProofs` |
| `ArtifactStore` | the abstract map of artifacts that `Workspace` implements | `Workspace` (INSTANCE) |
| `NativeRuntime` | claim, lease, key table, sessions, threads | `MCNativeRuntime`, `NativeRuntimeProofs` |
| `RunStore` | one run, its rows, the attempts | `MCRunStore`, `RunStoreProofs` |
| `RunLedger` | the abstract table of outputs that `RunStore` implements | `RunStore` (INSTANCE) |
| `Gateway` | sessions and ciphertexts of the gateway, its single thread, clock, restarts | `RemoteClient` (EXTENDS) |
| `RemoteClient` | `HEClient` composed with `Gateway` over a lossy network | `RemoteClientProofs` |
| `GatewayValues` | what the slots of the ciphertexts of one gateway session hold | `GatewayValuesProofs` |
| `SlotSums` | rotations and batches of the sums over packed slots | `Evaluator`, `GatewayValues` (EXTENDS), `SlotSumsProofs` |
| `Callers` | the mailboxes of the clients of the older services | `Encryptor`, `Evaluator` (EXTENDS) |
| `Encryptor` | the one-shot sessions of the encryptor | `EvaluationServices` (EXTENDS) |
| `PairLedger` | the abstract ledger that the encryptor implements | `EvaluationServices` (INSTANCE) |
| `Evaluator` | the evaluator in either image: requests, threads, locks, registries, workers | `EvaluationServices` (EXTENDS) |
| `EvaluationServices` | encryptor, evaluator and trial clients over a lossy network | `MCEvaluationServices`, `EvaluationServicesProofs` |
| `SessionRules` | the checks of `HESession`, of saves, loads and releases, and the ciphertexts they are about | `MCSessionRules`, `SessionRulesProofs` |
| `MC*` | symmetry, requests and materials for TLC | the runs |
| `*Proofs` | inductive invariants and theorems | TLAPS |

### Workspace

Each process is at a program counter `pc[p]`; one action is one file operation,
named after what the code does there. `file[x]` is what path `x` holds, `tmp[x]`
what its temporary name holds; `Torn` is a partly written file. `os.replace`
(`Replace`) moves `tmp` to `file`, and a process that still has the file open goes
on writing to it under its new name (`fd[p].at`): this is what two writers of one
temporary name do to each other. `material[f]` is the bundle a material file was
exported from; `sess[p]` is the identity a session stamps on what it saves and
the set of bundles its keys come from (a set with two members is a mixture).
`begun` says that `material/` and `ciphertexts/` are there: a process that crashes right
after `MakeDirectory` leaves a directory that is not empty, and that nobody initializes any more.
`Crash` may come between any two steps, and also stands for an idle process that
closes its session. `interrupted` is a history variable: names whose last save
stopped between the move of the ciphertext and the move of the manifest.

The code has no lock; how calls may overlap is the constant `Overlap`: `"none"`
(processes take turns), `"readers"` (loads and opens overlap one save) and
`"writers"` (anything). `Rewrite` says whether an artifact that is recorded may
be saved again. Both describe the users of the directory, not the code, so each
property is checked under the weakest discipline under which the code gives it.

### NativeRuntime

A step is what a thread does between two places where another can run. `claimed`,
`lease` and `keys` are the state of the process, `runtime[s]`, `owns[s]`, `closed[s]`
the fields of the backend and session objects. `close` of OpenFHE is the sequence
`Close` (both guards), `DropRuntime`, `ClearKeys` (clears the table for everybody),
`Disown`, `ReleaseLease`, `MarkClosed`, and the error path in which the binding
raises while it clears (`abort`, `rethrow`). A constructor can fail before or after
its keys are in the table. Sessions of the FIDES adapter are of two kinds: created
(claims the process) and opened on a workspace (no claim, a subprocess computes).
`Shared` says whether threads use and close each other's sessions.

### RunStore

An attempt is a worker process. `rows` holds all rows, those of open transactions
included; `committed` says whose transactions have committed. `Newest` is the
`DISTINCT ON ... ORDER BY id DESC` query. `Insert` is `INSERT ... ON CONFLICT DO
NOTHING` under the unique index over path and checksum: it waits (is not
enabled) while another open transaction holds the same key. `SetFailed` commits
what the transaction has inserted, as the code's error path does, and `Crash` rolls
it back; a failed SQL statement is a `Crash` too, since the transaction then refuses
the update of the status. Evaluation is deterministic: a ciphertext is determined
by operation and input. Rows of key material and inputs are the same in every
copy and never insert anything; they are left out.

### Gateway and RemoteClient

The server answers the head of `backlog` in one step (`HTTPServer` is
single-threaded, and each operation holds one lock). A session's `life` is the number
of ticks until `expires_at`; an expired session stays in `sessions` until a request
purges it (`Purged`), and a request that finds its session renews it even when it is
then refused (`RefuseFound`). `Refuse` with reason `crypto` is any exception of the
binding. A client's request may be lost before it is served (`ConnectionLost`), or the
client may give up (`Timeout`): then its entry stays in the backlog with
nobody to answer to, and is served later. `Restart` empties the server and resets the
connections. `quiet` is a history variable: ticks since a request last found the
session. The composite operations of `HEClient` (variance, covariance, correlation,
weighted sum, risk score) are sequences of the modelled calls.

### GatewayValues

`RemoteClient` says which ciphertexts exist and how long they are; `GatewayValues` says
what is in them: whether the slots behind the logical length are still zero, and whether
the logical slots hold what was asked for. One session and no client are
enough, since slots change only in the operations of `evaluate`. `OfTwo` is slot-wise;
`WithPublic` is a public vector (padded with zeros) or a public scalar (added to every slot);
`Reduce` is `EvalSum` over the logical length, which adds up the next power of two of slots.

### SlotSums

Pure functions: `Power(b)[k]` is the step of a loop that starts at 1 and is multiplied by `b` (a
recursive function, so that it can be reasoned about), `Rotations` is `fides_sum_rotation_indices` (its copy in the FIDES
adapter too), `Batches` and `Batch` cut a large demo sum, `Doubled` is how far `EvalSum`
sums. `Gathered` is the reference the rotations are checked against: the slots that an
accumulation by fours reaches with given rotations.

### Encryptor, Evaluator, EvaluationServices

`encBox` and `evalBox` are the connections that wait for each server, `mail[c]` the
response that has arrived, `call[c]` what a client waits for.

*Encryptor.* One step per request, since its server is single-threaded and the session lock is
taken inside. `life[s]` counts down like the gateway's, but is never renewed; `released[s]`
is a history variable, the results of a pair that were given out. A decryption that fails
leaves the session; one that succeeds ends it, even if its response is lost. What is refused for
its form, or because the binding is missing, does not even purge (`TurnedAway`); what
`encrypt_pair` and `decrypt` refuse themselves comes after their purge (`EncryptorRefuses`).

*Evaluator.* `image` is chosen in the initial state. `job[t]` is what thread `t` works on: in
the CPU image only `Main` takes connections, in the GPU image any thread does. A valid request goes
from `lock` over `setup`, `keys` and `compute` (CPU) or `worker` (GPU) to `end`.
`ValidEvaluate`, `ValidDemo`, `ValidDemoSum` and `ValidBGV` are the checks of the four
handlers. `registry` is what OpenFHE has registered in the process, as pairs of a kind (context, multiplication
or rotation key) and an owner; each backend clears and leaves what its code does:
the stateless backend clears when it starts, the demos before and after, the large sum never. A
demo owns its context, so its owner is its thread while it runs and `"old"` after.
An exception can come at each of these steps, before or after the effect on the registries. In the
GPU image a worker (`running`) writes its file in two steps, exits with 0 or 1, hangs, or
fails to start; `WorkerTimeout` is `subprocess.run`, which kills and reaps it.
`Arguments` is the command the API builds, `Required` what `main.cpp` refuses to run without,
`AdapterArguments` the command of the FIDES adapter.

*Clients.* `AskPair`, `AskResult` and `AskValues` are the trial of `service_trial.py`, which
only the CPU image can complete (a bundle has no public key); `AskDirectly` sends one of
`DirectBodies`. A client may abandon a trial, a timeout leaves its request in
the box or in the hands of a thread, and both services restart at any time.

### SessionRules

A value is metadata plus `body`. The metadata are the fields the code checks
(`session` is `_session_id`, `key` is `key_bundle_id`, or `recipient_id` once released,
`shape` is `logical_shape`, with `Unit` for a scalar's `()`; `valid_count` always follows the
shape). The body is what the native ciphertext really holds: its key, the depth it has
used, the slots that hold the result, whether the others are zero, and whether it is still
the right result. Guards read metadata only; the operators of the runtime
(`Product`, `Summed`, `Variance`...) change bodies only, as `openfhe_cpu/runtime.py` composes
the library's calls. A released result is under the analyst's key; `Release` stands for
`release_result` and for `reencrypt_for_recipient` with a key loaded from the directory that
`Export` wrote. `Save` and `Load` are one step each, since `Workspace` has their
steps. A session has an engine: a FIDES session of its own neither saves nor
loads, and one opened on a workspace neither encrypts, releases nor creates a workspace.
There are several directories, as in `docs/he-sdk-result-only-pre.md`, where released results
have one of their own; each has a manifest, with the context and `engine_version` of the session that
happened to save there first (`Initialise`). A process imports some version of the OpenFHE binding
when it creates or opens a session (`Bindings`). Saving, loading and opening compare the
context only (`Validates`); `load_released_result` and `load_recipient_public_key` compare the
version too (`MayLoadReleased`, `MayTarget`). A FIDES session's version is compared with nothing.
Analyst's keys live as long as the session that made them (they call its backend).
A closed session has neither engine nor secret key, since `close` drops its backend's runtime.
What is left out: the ranges of values and batch sizes, and configurations other than
one per context.

## 3. Runs

| Run | Checks | Shows |
|---|---|---|
| `ws_handoff` | `TypeOK`, `RecordMatchesFile`, `LoadSound`, `SaveFailsOnlyUninitialised`, `ImplementsStore` | taking turns with overwrites and crashes anywhere, the workspace is a map of artifacts; an interrupted save spoils at most its own name and blocks nobody |
| `ws_readers` | `ManifestWhole`, `KeysMatchIdentity` | readers beside one writer of new artifacts never see half a manifest and never compute with mixed keys |
| `ws_lost_record` | `RecordsPersist` (violated) | overlapping saves of different names lose a record |
| `native_owned` | `TypeOK`, `OneActive`, `KeysPresent`, `LeaseOwned`, `OneNative` | with sessions not shared by threads, failed starts and failed closes included |
| `run_sequential` | `TypeOK`, `ImplementsLedger` | attempts one after the other, with crashes: an attempt changes the table in one step or not at all, and what the next one downloads is one table |
| `run_racing` | `SucceededIsPublished`, `ManifestsBacked`, `NoWaitCycle`, `AttemptEnds` | overlapping attempts, crashes, failures half-way through the inserts |
| `run_fail_open` | `FailClosed` (violated) | two attempts without overwrite both find the output absent; the later one replaces it |
| `run_stale_overwrite` | `ReportedIsNewest` (violated) | overwriting an output with content it had before (A, B, A) succeeds and leaves B the newest |
| `gw_client` | `TypeOK`, `HandlesResolve`, `ClosedLeavesNothing`, `UsedSessionsStay`, `LimitMeansLive`, `CallsReturn` | lost responses, late requests, expiry, restart, reductions, and a limit that the sessions the client has lost use up |
| `gw_padding` | `SumOfLogicalValues` (violated) | a public scalar reaches the padding, and a later sum adds it up |
| `services` | `TypeOK`, `WorkersUnderLock`, `AnswersFromOwnKeys`, `RegistryStays`, `ResultsAreWhole`, `InvokedWithNeeds`, `SumsReachEverySlot`, `FailuresKeepSession`, `ImplementsPairLedger`, `LocksFreed`, `CallsReturn` | encryptor, evaluator in either image and a client that retries, times out and gives up: nothing leaks from one request into another, a pair is answered once, locks and calls end |
| `sdk_rules` | `TypeOK`, `LevelCoversDepth`, `DecryptsRight`, `AnalystsReadAggregates`, `ReleasedIsLoadable` | two sessions, an analyst, two directories and two versions of the binding: metadata and ciphertexts agree through every chain of operations, saves, loads and releases; a saved release is refused to its analyst only for the version of another session |

Four runs are violations: what a document, a message or a test says is not what
the code does. `PROJECT.json` ("findings") quotes both.

- `ws_lost_record`: `save_ciphertext` reads the manifest (line 265) and writes its
  copy back (line 289) without a lock.
- `run_fail_open`: the check in `runner.py:16` looks at the attempt's private copy.
- `run_stale_overwrite`: `ON CONFLICT DO NOTHING` inserts no row for content that is
  already there, so `id DESC` still prefers the row in between.
- `gw_padding`: `(x + PublicScalar(s)).sum()` of three values is their sum plus `4s`, since
  `gateway/app.py` adds `s` to all eight slots and `EvalSum` over 3 adds up four. The
  SDK does not have this flaw: `DecryptsRight` of `SessionRules` is proved, because there a public
  scalar is a vector padded with zeros.

Three more limits of the code follow from the same models and are why the passing
runs have the discipline they have: a load that overlaps the overwriting of its
artifact can verify one file and deserialize another (`LoadSound` needs `Rewrite` to
be exclusive), two threads that close one session release the lease twice
(`OneActive` needs `Shared = FALSE`), and a released result can be saved where its analyst cannot
load it (`ReleasedIsAlwaysLoadable` of `SessionRules`, which no run checks). For the last one TLC finds
ten states with two versions of the binding: the owner releases a sum and saves it to one directory; a
process with another version opens that directory, loads the sum and saves it to a new directory, whose
manifest records its own version; no save compares that version, `load_released_result` does
(`release_artifacts.py:151`) and refuses. The owner's own saves into a directory begun that way end the
same. `ReleasedIsLoadable` therefore makes this one exception, and no other: the version
in the manifest is that of another session of the context and differs from that of the analyst's session.

Every property has a mutant in `PROJECT.json`: a changed definition, kept beside the
original in its module and marked `Mutant`, under which TLC finds the property violated.

### Bounds

- Workspace: two processes, two names; two values, so that old and new content
  differ; two bundles and two material files where a mixture must be
  possible (`ws_readers`), one where not. All are symmetric. Two processes are
  enough for every interleaving property: each is about one call and what another
  does to the same file. Nothing counts, so there is no bound in the guards.
- NativeRuntime: two threads and three sessions: one to close, one to start in
  between, one to find the lease free.
- RunStore: three attempts in sequence (the shortest history that restores earlier
  content), two when they race; two outputs, so that inserts have an order; two
  operations; one input. The identity column is bounded by the number of inserts,
  which the number of attempts bounds.
- Gateway: `Ids` bounds the sessions of a behaviour (a client does not ask for a
  session when none is left; refused creations use none up); `TTL` 2, so that a session can
  be renewed half-way; `MaxBacklog` 2 requests waiting; `Lengths` {2, 3} and
  `MaxCiphertexts` 2, so that lengths differ and the limit is met; one place and two identifiers, so that a
  session the client has lost keeps it out. The theorems cover any number of clients.
  The values in the code (32 sessions, 128 ciphertexts, 900 seconds) only scale these.
- Encryptor and evaluator: one client, one pair, `TTL` 1 and one connection waiting per
  server. The client can lose its pair and ask again (refused, since the identifier is used up,
  with an error), and its orphaned requests are served beside its new ones, so a
  second client would only add names. Two threads, so that one waits for the other's lock.
  `BatchSize` 4 with six values, so that a large sum has an incomplete batch; `valid_count`s 17 (one
  beyond a power of four) and 5. The requests sent directly (`MCBodies`) are chosen for the checks:
  right keys, keys of another context, the legacy field where it suffices and where it does not,
  each demo, a bad `request_id`. The theorems cover every other request.
- GatewayValues: lengths 3 and 4, one a power of two; the shortest counterexample has three ciphertexts.
- SessionRules: two sessions, so that one can open the other's workspace or have
  a context of its own; two variables, which a binary operation and a release need; one analyst;
  two directories of one name each, and two versions, so that a result can be copied to a directory that another
  version began. At most three values at a time (`MaxHeld`), which have used up two levels together
  (`MaxLevels`): a state beyond is checked, but not continued (`WithinBounds`, a CONSTRAINT; the run has no temporal
  property). A release that is copied is three values, and every chain of operations in one place stays
  within the bound. `Lengths` {2}: the scalar's shape is the second one that mismatches need, and a
  vector of two slots is reduced differently from a scalar. `MaxDepth` 2 (3 in the
  code) just fits one variance. Levels are bounded by the guards of the code.

### Fairness

- `RunStore!FairSpec`: weak fairness of each attempt's `Progress`. A worker is a sequential
  program in which only an insert waits, and only for another attempt, which the
  server ends. Nobody has to start an attempt, and crashes and exceptions are not
  fair: an attempt may not rely on failing in order to end.
- `RemoteClient!FairSpec`: weak fairness of the server (`serve_forever`) and of reading a
  response that has arrived. Nothing is assumed of the clock, the callers, timeouts or
  losses: `CallsReturn` does not rely on `timeout=`. It does assume that the
  server can read each request's body, since `do_POST` blocks on a body that never comes.
- `EvaluationServices!FairSpec`: weak fairness of the encryptor's server, of each thread of the
  evaluator, and of reading a response. A thread's steps include `WorkerTimeout`: the
  time limit of `subprocess.run` is the one thing that ends a hanging worker, whose own steps
  are not fair. `LocksFreed` says that a lock that is held comes back. It is not claimed that a
  given GPU request is answered: `threading.Lock` is not fair to those who wait.

Deadlock is checked for the workspace, the gateway and the services. The native and worker runs
switch it off: every session object may be used up, and every attempt may have ended;
so does `sdk_rules`, where every session may have been closed.

## 4. Proofs

Each theorem holds for every value of the constants (any number of processes,
names, threads, attempts, outputs). `ASSUME`s only say that model values such as
`None` and `Torn` differ from data (a record is never `None`), bound constants to their types,
and say that a bundle has at least one material file (`MaterialAssumption`) and that nothing is neither a
letter nor a call (`MessageAssumption`). A theorem with a condition
on the constants (`Overlap`, `Rewrite`, `Shared`, `Concurrent`, `LocalFailures`, the requests, `Lengths`) names it as its
antecedent. Where the property holds in a run, that is the discipline of the run; where a run violates it
(`RecordsPersist`, `FailClosed`, `ReportedIsNewest`, `SumOfLogicalValues`), the theorem says how the code has
to be used so that it holds after all.

`WorkspaceProofs`

- `TypeCorrect`: `TypeOK`. Needs `CallInv` (what each program counter says about
  `arg`, `copy`, `fd`), because writing `copy[p]` to the manifest is only well typed when
  `copy[p]` is a manifest.
- `ManifestIsWhole`: unless saves overlap, `Man # Torn`. Argument: at most one process
  saves (`OneSaver`), so the temporary manifest it moves is the one it
  has finished writing.
- `FilesMatchRecords`: unless saves overlap, `RecordMatchesFile`. The invariant follows a
  save through its steps: what the temporary file holds, that the copy in memory still
  is the manifest plus one record, and that the moved file is what was hashed.
- `RecordsStay`: unless saves overlap, `RecordsPersist`. The copy that a save adds its record to is still
  the manifest when it is moved, so nothing that is recorded disappears; `ws_lost_record` is the same with two savers.
- `KeysAreOwn` (`KeysMatchIdentity`) and `RefusedOnlyUninitialised`
  (`SaveFailsOnlyUninitialised`): unless saves overlap. The manifest is the last file that
  `initialize_workspace` writes, so `MaterialInv` says: once there is a manifest all material is of its
  bundle; who exports does so while there is none, and what it has exported is of its own bundle; who has
  read the manifest to open the workspace finds it unchanged. A save that was refused without a
  manifest leaves a directory that nobody can initialize any more (`Spoiled`), so the refusal stays true.
- `LoadsAreSound` (`LoadSound`): for `Orderly`, that is calls that take turns, or readers beside saves of new
  artifacts only. `LoadInv` says that the record a load has read is still the one in the manifest, and that
  the file it has verified is still that of the record. Both clauses fail when a recorded artifact is
  rewritten beside a load: this is where `Orderly` is needed, and no weaker condition is true.
- `StoreRefined` (`ImplementsStore`): for `Orderly`, each file operation is a step of `ArtifactStore` or a stutter.
  A save takes effect when its manifest is moved; a file that is moved before it spoils its name at most.

`NativeRuntimeProofs`

- `TypeCorrect`, `OneNativeLibrary` (`OneNative`): for shared sessions too. The claim is
  never given up, and no native session is constructed without it.
- `OneActiveSession`, `KeysStay`, `LeaseNotLost`: for `Shared = FALSE`. The inductive
  invariant says that exactly one thread or session holds the lease while it is taken: an owner,
  or a thread between disowning and releasing. Keys are only cleared by the holder, before
  it lets go.

`RunStoreProofs`, of attempts that overlap, fail and crash:

- `TypeCorrect`.
- `ManifestsStayBacked` (`ManifestsBacked`): per attempt, every entry of the manifest of its
  private copy is backed by a committed row or by a file it has yet to insert; files
  are inserted before the manifest, because of the sort.
- `ReportedIsPublished` (`SucceededIsPublished`): rows it passed without inserting exist
  and are committed, since an insert waits for an open transaction with the same key.
- `InsertsNeverDeadlock` (`NoWaitCycle`): an attempt waits only for one that is further on
  in the same order; a set of attempts that all wait would have no furthest member.
- `SomeoneAlwaysGoes` and `AttemptsWear` are what `AttemptEnds` needs besides fairness: while attempts are under
  way the furthest of them is held back by nobody (`LiveRows`: an open transaction belongs to an attempt that
  is still going), and every step of the run brings one attempt nearer to its end (`Distance`) and moves no
  other away from it.

`RunStoreProofs`, of attempts that follow each other (`OneByOne`: one at a time, reading its own files):

- One invariant, `TurnInv`: rows are numbered (`Numbered`), where there are rows there is a newest (`Topped`), what can
  be downloaded is recorded in the newest manifest (`Covered`); the copy of the active attempt is what can be
  downloaded plus its own result, which is new or may replace (`CopyIsNewest`), and what it has
  inserted is its result and its manifest only, newer than everything visible (`Pending`).
- `OneByOneFailsClosed` (`FailClosed`): with crashes anywhere, and overwriting requests among the others.
- `LedgerRefined` (`ImplementsLedger`) and `SequentialReported` (`ReportedIsNewest`): for `Sequential`, that is `OneByOne`
  and no request that overwrites. Then the newest manifest records the newest ciphertexts (`OneTable`),
  everything else of the copy is stored, so `ON CONFLICT DO NOTHING` inserts nothing for it, and the commit is the one
  step that changes the table. The three conditions are needed: `run_fail_open` is what happens when attempts overlap,
  `run_stale_overwrite` when they replace outputs, and a file that cannot be read between two
  inserts leaves a committed ciphertext without its record.

`SessionRulesProofs` (for every depth, every set of lengths, any sessions and analysts)

- One invariant, `IInv`, gives all six theorems: the metadata of every value held or saved
  tells the truth about its body (`Honest`), a released value is addressed to an analyst
  of its own context (`Addressed`), a saved value is of the manifest's context, and a recorded version is that of
  the session that made the key, or of some session of the context (`VersionsRecorded`). It
  is stronger than the properties because a binary operation needs more than rightness:
  both bodies must be as wide as their equal shapes say, and a vector's padding must still be
  zero for a later reduction to be right.
- The lemmas before it say what each operator of the runtime does to a body; the
  central one is `ReducedBody`: a reduction uses exactly the levels it is charged.
- `TypeCorrect`, `LevelsCover` (`LevelCoversDepth`), `DecryptionIsRight` (`DecryptsRight`),
  `OnlyAggregatesReachAnalysts` (`AnalystsReadAggregates`), `ReleasesAreLoadable`
  (`ReleasedIsLoadable`): for every analyst that can still work, every directory and name, whatever the save let through
  passes the analyst's checks, except for the version of another session.
- `OneVersionSuffices`: where all versions are equal, `ReleasedIsAlwaysLoadable`. The condition is
  needed: with two versions the counterexample above refutes it.

`RemoteClientProofs` (any clients, sessions, lengths, limits and requests under way)

- One invariant, `IInv`, gives the theorems. `ServerInv`: a stored session was given out, and its
  remaining time and its silence add up to the limit. `BacklogInv`: what waits is well-formed, and of a client
  that waits there is at most its one request. `ClientInv`: a handle is of its client's session, or
  that session is gone for good; a response that has arrived is true of the server (`Arrived`). The last
  one is what `HandlesResolve` lacks: between serving and reading, the server may
  purge, restart or serve requests that nobody waits for.
- The proof of a step is in two halves: `Kept` (sessions only grow or end, `Grown`), which every
  handler and the clock give, and what each action of a client does with a server that is only `Kept`.
- `TypeCorrect`, `HandlesAlwaysResolve` (`HandlesResolve`), `NothingLeftAfterClose`
  (`ClosedLeavesNothing`), `UseKeepsSessions` (`UsedSessionsStay`), `RefusedAtLimit` (`LimitMeansLive`).
- `EveryCallAttended`: a client that waits has exactly one request in the backlog, its own, or a response that has
  arrived; one that does not wait has neither. It is the part of `CallsReturn` that needs no fairness: no step
  (serving, restart, lost connection, timeout) makes a call disappear without an answer, or answers twice.

`EvaluationServicesProofs` (any clients, threads, materials and requests, both images)

- The invariant follows a job through its steps: `Placed` (a valid request, the
  lock from setup to computation, `Main` alone in the CPU image), `Written` (only a worker with the right keys
  writes, and 0 is its exit code only after that), `Registered` (what is in `registry` at
  each step), `Employed` (a living worker belongs to a job that waits for it). The CPU properties
  rest on `Placed`: the locks alone do not protect the registries, the single thread does.
- `Ledgered` ties the encryptor's sessions to what was given out; with it each step is a step of
  `PairLedger` or a stutter (`PairLedgerRefined`: `ImplementsPairLedger` as a theorem).
- `TypeCorrect`, `WorkersHoldLocks` (`WorkersUnderLock`), `AnswersFromRequestKeys`
  (`AnswersFromOwnKeys`), `RegistryUntouched` (`RegistryStays`), `GpuResultsWhole` (`ResultsAreWhole`),
  `WorkersGetArguments` (`InvokedWithNeeds`), `FailuresLeaveSession` (`FailuresKeepSession`),
  `LimitNeedsLive` (`LimitMeansLive` of the encryptor, which no run repeats), `AdapterPassesRequired`.
- `SumsAreComplete` (`SumsReachEverySlot`) from the lemmas of `SlotSumsProofs`: for every number of values and size of a
  batch, not only those of the run.
- `OneAnswerForACall`: until a call ends, its request waits at one service, or one thread works on it, or a response
  of a kind it can be answered with has arrived, and no two of these. `HeldLocksAreInUse`: a held lock is that of a
  job at work that waits for no lock. They are the parts of `CallsReturn` and `LocksFreed` that need no fairness.

`SlotSumsProofs` (lemmas)

- Powers grow and are unbounded; every index has digits to base four, and the rotations below the number of values
  lead to it (`Gathered`); the doubling sum stops at the first power of two, and exactly at the vector if its length
  is one; each value is in one batch. Induction over the numbers is replaced by a least
  counterexample, which a set of numbers has (`LeastOf`, from the well-foundedness of `<` on `Nat`).

`GatewayValuesProofs`

- `SumsOfPowersAreRight`: where all lengths are powers of two (`PowersOfTwo`), `SumOfLogicalValues`. The invariant is the
  property with the types; a reduction is right although the padding may hold a scalar, because it adds up no slot of it.

Only model-checked: the liveness properties `AttemptEnds`, `CallsReturn` (of both) and `LocksFreed`, since fairness
and ENABLED are outside the prover's reach. Their safety halves are the theorems `SomeoneAlwaysGoes`, `AttemptsWear`,
`EveryCallAttended`, `OneAnswerForACall` and `HeldLocksAreInUse`; what TLC adds is that, under the stated fairness, they suffice.

## 5. Not modelled

- Encryption, evaluation, key generation and serialization formats: calls of OpenFHE or FIDES. What a library does
  with a `valid_count` beyond its slots (`api/app.py:206`), or with the rotation keys of the
  other one (`openfhe_cpu/runtime.py:62`), is not in this repository.
- The memory of the GPU, which the service and programs that use the FIDES adapter share: the adapter starts
  workers without a lock, each with files of its own.
- The worker's command line, benchmarks, notebooks, container images and CI keep no state.
- The status of a run after a failed statement (`he_worker/postgres.py:202`), which stays `running`: it
  is written for people and read by no code.
- What makes a request malformed (JSON, base64, sizes): every handler refuses it before it touches state.
- The arithmetic of the composite operations of `HEClient`. Their intermediate ciphertexts are those of
  the calls they make, in any order.
- Waiting of a server for a body that never comes: see Fairness.

## 6. Plan

Done, in this order: `Workspace` with `ArtifactStore` (everything else is built on what is
on disk), `NativeRuntime`, `RunStore` with `RunLedger`, `Gateway` with `RemoteClient`,
`SessionRules`, `Encryptor` and `Evaluator` composed in `EvaluationServices`, `GatewayValues` with
`SlotSums`; proofs for all of these; the refinements as step simulations; and last the arithmetic of the
sums, the conditions under which the violated properties hold, and the safety halves of the liveness properties.

Next: the converse of the conditions, as far as it can be stated as a safety property (which `Rewrite` or which
request makes a violation reachable), the ranges of values and the other fields of a configuration in
`SessionRules`, and the device that
the FIDES adapter and the GPU service share, once the code says how much of it a worker takes.
