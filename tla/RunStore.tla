------------------------------ MODULE RunStore ------------------------------
(***************************************************************************)
(* One database-backed run of he_worker (postgres.py and runner.py): the   *)
(* row of he_store.runs, the rows of he_store.artifacts that belong to it, *)
(* and the worker processes that execute an operation on it.  A process is *)
(* an attempt; it downloads the newest row of each path, works on a        *)
(* private copy of the workspace, and publishes the copy in a transaction. *)
(*                                                                         *)
(* An attempt's operation reads an input and writes an output.  The rows   *)
(* of the inputs and of the key material are stored with the run and are   *)
(* the same in every copy, so that publishing them inserts nothing: they   *)
(* are left out.  Evaluation is deterministic: a ciphertext is determined  *)
(* by the operation and the input.  The paths are numbered in the order in *)
(* which the worker sorts them: the outputs, and then manifest.json.       *)
(***************************************************************************)
EXTENDS Naturals

CONSTANTS
  Attempts,      \* worker processes started for the run
  Inputs, Ops,   \* input artifacts and operations
  NumOutputs,    \* number of output names
  Requests,      \* requests the attempts are started with
  Concurrent,    \* whether an attempt may start while another one is active
  LocalFailures, \* whether reading a local file may fail while publishing
  Owner,         \* who stored the workspace
  None

Outputs == 1..NumOutputs
ManifestPath == NumOutputs + 1
Paths == 1..ManifestPath

ASSUME ConstantsAssumption ==
  /\ NumOutputs \in Nat \ {0}
  /\ Requests \subseteq [op : Ops, left : Inputs, output : Outputs, overwrite : BOOLEAN]
  /\ Concurrent \in BOOLEAN /\ LocalFailures \in BOOLEAN
  /\ Owner \notin Attempts

VARIABLES
  status,    \* the status column of the run, or "absent"
  rows,      \* rows of the run in he_store.artifacts, the uncommitted ones included
  nextId,    \* the identity column of he_store.artifacts
  committed, \* attempts whose publishing transaction has committed
  pc,        \* attempt -> next step of execute_postgres
  req,       \* attempt -> its request, or None
  ws,        \* attempt -> its private workspace: path -> content, or None
  pos        \* attempt -> number of the file that _publish_workspace inserts next

run == <<status, rows, nextId, committed>>
vars == <<run, pc, req, ws, pos>>

-----------------------------------------------------------------------------
Results == [op : Ops, left : Inputs]
Indexes == [Outputs -> Results \cup {None}]
ContentOf(path) == IF path = ManifestPath THEN Indexes ELSE Results
EmptyIndex == [o \in Outputs |-> None]

ASSUME NoneIsNoContent == None \notin Results /\ None \notin Indexes

RowAt(path) ==
  [id : Nat, path : {path}, content : ContentOf(path), by : Attempts \cup {Owner}]

Active == {"load", "execute", "publish", "commit", "succeed", "fail"}
Ended == {"succeeded", "failed", "raised"}

Result(a) == [op |-> req[a].op, left |-> req[a].left]

\* What a new statement sees under READ COMMITTED.
Committed(r) == r.by = Owner \/ r.by \in committed
Visible == {r \in rows : Committed(r)}

\* SELECT DISTINCT ON (workspace_path) ... ORDER BY workspace_path, id DESC
Newest(path) ==
  LET top == {r \in Visible : /\ r.path = path
                              /\ \A s \in Visible : s.path = path => s.id <= r.id}
  IN  IF top = {} THEN None ELSE (CHOOSE r \in top : TRUE).content

TypeOK ==
  /\ status \in {"absent", "queued", "running", "succeeded", "failed"}
  /\ \A r \in rows : r.path \in Paths /\ r \in RowAt(r.path)
  /\ nextId \in Nat
  /\ committed \subseteq Attempts
  /\ pc \in [Attempts -> {"new"} \cup Active \cup Ended]
  /\ req \in [Attempts -> Requests \cup {None}]
  /\ ws = [a \in Attempts |-> [x \in Paths |-> ws[a][x]]]
  /\ \A a \in Attempts, x \in Paths : ws[a][x] \in ContentOf(x) \cup {None}
  /\ pos \in [Attempts -> 1..(ManifestPath + 1)]

\* The run may not exist, and may have been created without a workspace.
Init ==
  /\ status \in {"absent", "queued"}
  /\ \/ rows = {}
     \/ /\ status = "queued"
        /\ rows = {[id |-> 0, path |-> ManifestPath, content |-> EmptyIndex, by |-> Owner]}
  /\ nextId = 1
  /\ committed = {}
  /\ pc = [a \in Attempts |-> "new"]
  /\ req = [a \in Attempts |-> None]
  /\ ws = [a \in Attempts |-> [x \in Paths |-> None]]
  /\ pos = [a \in Attempts |-> 1]

Goto(a, label) == pc' = [pc EXCEPT ![a] = label]

-----------------------------------------------------------------------------
\* execute_postgres and _set_running: whatever the status was, it is running.
SetRunning(a, q) ==
  /\ pc[a] = "new"
  /\ Concurrent \/ \A b \in Attempts : pc[b] \notin Active
  /\ req' = [req EXCEPT ![a] = q]
  /\ IF status = "absent"
     THEN Goto(a, "raised") /\ UNCHANGED status
     ELSE Goto(a, "load") /\ status' = "running"
  /\ UNCHANGED <<rows, nextId, committed, ws, pos>>

\* _load_workspace: there are rows, and a manifest among them.
Load(a) ==
  /\ pc[a] = "load"
  /\ IF Newest(ManifestPath) = None
     THEN Goto(a, "fail") /\ UNCHANGED ws
     ELSE Goto(a, "execute") /\ ws' = [ws EXCEPT ![a] = [x \in Paths |-> Newest(x)]]
  /\ UNCHANGED <<run, req, pos>>

\* execute on the private copy: the output must be new or an intended
\* replacement; it is saved with its record.
Execute(a) ==
  /\ pc[a] = "execute"
  /\ IF ws[a][ManifestPath][req[a].output] # None /\ ~req[a].overwrite
     THEN Goto(a, "fail") /\ UNCHANGED ws
     ELSE /\ Goto(a, "publish")
          /\ ws' = [ws EXCEPT ![a][req[a].output] = Result(a),
                              ![a][ManifestPath][req[a].output] = Result(a)]
  /\ UNCHANGED <<run, req, pos>>

\* execute raises: no such backend, a level too deep, an input of another kind.
ExecuteRaises(a) ==
  /\ pc[a] = "execute"
  /\ Goto(a, "fail")
  /\ UNCHANGED <<run, req, ws, pos>>

-----------------------------------------------------------------------------
(* _publish_workspace: one transaction of inserts, in the order of the     *)
(* paths, and a commit.                                                    *)

\* Mutant: the files come as the directory lists them.
FileAtUnsorted(a, i) == IF req[a].overwrite THEN ManifestPath + 1 - i ELSE i

\* The i-th file: sorted, and so the same in every copy.
FileAt(a, i) == i

\* The file that is inserted next, and what it holds.
Here(a) == FileAt(a, pos[a])
Payload(a) == ws[a][Here(a)]

\* Mutant: the unique key is the artifact type and the checksum.
SameKeyByType(a) ==
  {r \in rows : /\ (r.path = ManifestPath) = (Here(a) = ManifestPath)
                /\ r.content = Payload(a)}

\* The unique key of a row is its path and checksum.
SameKey(a) == {r \in rows : r.path = Here(a) /\ r.content = Payload(a)}

\* The server holds an insert back until the transaction that inserted the
\* same key has ended.
WaitsFor(a, b) ==
  /\ pc[a] = "publish"
  /\ \E r \in SameKey(a) : r.by = b /\ b # a /\ ~Committed(r)

Advance(a) ==
  /\ pos' = [pos EXCEPT ![a] = @ + 1]
  /\ Goto(a, IF pos[a] = ManifestPath THEN "commit" ELSE "publish")

AddRow(a, owner) ==
  /\ rows' = rows \cup {[id |-> nextId, path |-> Here(a), content |-> Payload(a), by |-> owner]}
  /\ nextId' = nextId + 1

\* Mutant: the insert is repeated until it inserts a row.
InsertUntilNew(a) ==
  /\ pc[a] = "publish"
  /\ \A b \in Attempts : ~WaitsFor(a, b)
  /\ IF Payload(a) = None THEN Advance(a) /\ UNCHANGED <<rows, nextId>>
     ELSE IF SameKey(a) = {} THEN Advance(a) /\ AddRow(a, a)
     ELSE UNCHANGED <<rows, nextId, pos, pc>>
  /\ UNCHANGED <<status, committed, req, ws>>

\* Mutant: every insert is committed at once.
InsertAndCommit(a) ==
  /\ pc[a] = "publish"
  /\ Advance(a)
  /\ IF Payload(a) = None \/ SameKey(a) # {}
     THEN UNCHANGED <<rows, nextId>>
     ELSE AddRow(a, Owner)
  /\ UNCHANGED <<status, committed, req, ws>>

\* INSERT ... ON CONFLICT DO NOTHING
Insert(a) ==
  /\ pc[a] = "publish"
  /\ \A b \in Attempts : ~WaitsFor(a, b)
  /\ Advance(a)
  /\ IF Payload(a) = None \/ SameKey(a) # {}
     THEN UNCHANGED <<rows, nextId>>
     ELSE AddRow(a, a)
  /\ UNCHANGED <<status, committed, req, ws>>

\* Path.read_bytes raises between two inserts.
ReadFails(a) ==
  /\ LocalFailures
  /\ pc[a] = "publish"
  /\ Goto(a, "fail")
  /\ UNCHANGED <<run, req, ws, pos>>

Commit(a) ==
  /\ pc[a] = "commit"
  /\ Goto(a, "succeed")
  /\ committed' = committed \cup {a}
  /\ UNCHANGED <<status, rows, nextId, req, ws, pos>>

-----------------------------------------------------------------------------
\* Mutant: the status is the one the runner returns.
SetCompleted(a) ==
  /\ pc[a] = "succeed"
  /\ Goto(a, "succeeded")
  /\ status' = "completed"
  /\ UNCHANGED <<rows, nextId, committed, req, ws, pos>>

\* _set_finished
SetSucceeded(a) ==
  /\ pc[a] = "succeed"
  /\ Goto(a, "succeeded")
  /\ status' = "succeeded"
  /\ UNCHANGED <<rows, nextId, committed, req, ws, pos>>

\* After an error the commit of _set_finished is the commit of the transaction
\* that is open, with whatever that transaction has inserted.
SetFailed(a) ==
  /\ pc[a] = "fail"
  /\ Goto(a, "failed")
  /\ status' = "failed"
  /\ committed' = committed \cup {a}
  /\ UNCHANGED <<rows, nextId, req, ws, pos>>

\* The process is killed, or a statement fails: then the transaction refuses
\* the update of _set_finished as well.  The server rolls back what was open
\* and the status stays as it is.
Crash(a) ==
  /\ pc[a] \in Active
  /\ Goto(a, "raised")
  /\ rows' = {r \in rows : r.by # a \/ a \in committed}
  /\ UNCHANGED <<status, nextId, committed, req, ws, pos>>

-----------------------------------------------------------------------------
\* What an attempt does when nothing goes wrong, and when something has.
Progress(a) ==
  \/ Load(a) \/ Execute(a) \/ Insert(a) \/ Commit(a)
  \/ SetSucceeded(a) \/ SetFailed(a)

Step(a) == Progress(a) \/ ExecuteRaises(a) \/ ReadFails(a)

Next ==
  \E a \in Attempts :
    \/ \E q \in Requests : SetRunning(a, q)
    \/ Step(a)
    \/ Crash(a)

Spec == Init /\ [][Next]_vars

\* A process that has begun goes on: nothing in it waits but an insert, and the
\* server answers every statement.  Nobody has to start an attempt, and nothing
\* has to go wrong.
FairSpec == Spec /\ \A a \in Attempts : WF_vars(Progress(a))

-----------------------------------------------------------------------------
(* Properties.                                                             *)

\* Whatever an attempt that returned has reported is in the store for good:
\* its output, and a manifest that records it.
SucceededIsPublished ==
  \A a \in Attempts :
    pc[a] = "succeeded" =>
      /\ \E r \in Visible : r.path = req[a].output /\ r.content = Result(a)
      /\ \E r \in Visible :
           r.path = ManifestPath /\ r.content[req[a].output] = Result(a)

\* A manifest that can be downloaded records only ciphertexts that are stored,
\* with attempts racing, crashing and failing half-way through the inserts.
ManifestsBacked ==
  \A m \in Visible : m.path = ManifestPath =>
    \A o \in Outputs : m.content[o] # None =>
      \E r \in Visible : r.path = o /\ r.content = m.content[o]

\* The inserts of racing attempts never wait for each other in a circle, which
\* the server would resolve by failing one of them.
NoWaitCycle ==
  \A S \in (SUBSET Attempts) \ {{}} :
    \E a \in S : \A b \in S : ~WaitsFor(a, b)

\* Every attempt that starts ends, however many race for the same keys.
AttemptEnds == \A a \in Attempts : pc[a] \in Active ~> pc[a] \in Ended

NewestIndex == IF Newest(ManifestPath) = None THEN EmptyIndex ELSE Newest(ManifestPath)

\* An output is replaced only by an attempt that was started to replace it.
FailClosed ==
  [][\A o \in Outputs : Newest(o) # None /\ Newest(o)' # Newest(o) =>
       \E a \in committed' \ committed : req[a].overwrite]_vars

\* When an attempt is reported as succeeded, its result is what the next
\* attempt downloads.
ReportedIsNewest ==
  [][\A a \in Attempts :
       pc[a] = "succeed" /\ pc'[a] = "succeeded" => Newest(req[a].output) = Result(a)]_vars

\* What nobody has asked for: the newest ciphertext of an output is not the one
\* that the newest manifest records.
Mixed == [op |-> None, left |-> None]

\* What a run promises whoever starts its attempts one after the other: the
\* workspace that the next attempt downloads is one table.
outputView ==
  [o \in Outputs |-> IF Newest(o) = NewestIndex[o] THEN Newest(o) ELSE Mixed]

stageView ==
  [a \in Attempts |->
     IF pc[a] \in {"new"} \cup Ended THEN pc[a]
     ELSE IF a \in committed THEN "published" ELSE "working"]

Ledger == INSTANCE RunLedger
            WITH output <- outputView, stage <- stageView, asked <- req

\* Attempts that do not overlap implement the ledger of RunLedger.
ImplementsLedger == Ledger!Spec

=============================================================================
