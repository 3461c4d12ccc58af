---------------------------- MODULE SessionRules ----------------------------
(***************************************************************************)
(* The rules of HESession and of result release (he_sdk/session.py,        *)
(* result_release.py, release_artifacts.py, contracts.py): which values a  *)
(* session evaluates, saves, loads, decrypts or releases, judged by their  *)
(* metadata, and what the ciphertexts behind them really hold.             *)
(*                                                                         *)
(* A value carries metadata, which is all the rules look at, and a body,   *)
(* which stands for the native ciphertext: the key it is under, the depth  *)
(* it has used up, the slots that hold the result, whether the slots after *)
(* them are zero, whether it went through a reduction, and whether it is   *)
(* still the right result.  The rules never read the body.                 *)
(*                                                                         *)
(* Saving and loading are one step here; Workspace has their steps.        *)
(***************************************************************************)
EXTENDS Naturals

CONSTANTS
  Sessions,     \* HESession objects, each in a process of its choice
  Contexts,     \* context_id; the owner's key bundle has the same name
  Recipients,   \* recipient_id of analysts
  Slots,        \* the variables programs keep values in
  Directories,  \* workspace directories
  Names,        \* artifact names in a workspace
  Versions,     \* engine_version of the OpenFHE binding a process imports
  Lengths,      \* lengths of input vectors
  MaxDepth,     \* CKKSConfig.multiplicative_depth
  None

ASSUME ConstantsAssumption ==
  /\ Lengths \subseteq Nat \ {0}
  /\ MaxDepth \in Nat
  /\ Contexts \cap Recipients = {}
  /\ None \notin Sessions \cup Contexts \cup Recipients \cup Versions

VARIABLES
  sess,       \* what each session is, None before it is created
  value,      \* what each variable holds
  workspace,  \* manifest of each directory, None before the first save
  artifact,   \* what each name holds in each directory
  recipient,  \* analyst keys
  exported    \* recipients whose public key was saved to a directory

vars == <<sess, value, workspace, artifact, recipient, exported>>
keysAndSessions == <<sess, recipient, exported>>
stored == <<workspace, artifact>>

Engines == {"openfhe", "fides"}
BinaryOps == {"add", "multiply"}   \* subtract follows the rules of add
Reductions == {"sum", "mean", "variance"}
Unit == 0       \* logical_shape of a scalar: ()

\* A closed session has no engine: its backend has dropped context and keys.
\* The engine_version of a FIDES session is compared with nothing, and left out.
Session == [ctx : Contexts, engine : Engines \cup {None}, secret : BOOLEAN,
            version : Versions \cup {None}]
Body == [key : Contexts \cup Recipients, depth : Nat, width : Nat,
         clean : BOOLEAN, reduced : BOOLEAN, right : BOOLEAN]
Value == [type : {"vector", "scalar", "released"}, session : Sessions \cup {None},
          ctx : Contexts, key : Contexts \cup Recipients, shape : Lengths \cup {Unit},
          level : 0..MaxDepth, op : Reductions \cup {None}, body : Body]
Recipient == [ctx : Contexts, session : Sessions, version : Versions]
Manifest == [ctx : Contexts, version : Versions]

ASSUME NoneAssumption == None \notin Engines /\ None \notin Session /\ None \notin Manifest

TypeOK ==
  /\ sess \in [Sessions -> Session \cup {None}]
  /\ value \in [Slots -> Value \cup {None}]
  /\ workspace \in [Directories -> Manifest \cup {None}]
  /\ artifact \in [Directories -> [Names -> Value \cup {None}]]
  /\ recipient \in [Recipients -> Recipient \cup {None}]
  /\ exported \subseteq Recipients

Init ==
  /\ sess = [s \in Sessions |-> None]
  /\ value = [x \in Slots |-> None]
  /\ workspace = [d \in Directories |-> None]
  /\ artifact = [d \in Directories |-> [n \in Names |-> None]]
  /\ recipient = [r \in Recipients |-> None]
  /\ exported = {}

-----------------------------------------------------------------------------
(* What the runtime does to ciphertexts.                                   *)

Deeper(m, n) == IF m > n THEN m ELSE n
Fewer(m, n) == IF m < n THEN m ELSE n

Fresh(c, n) ==
  [key |-> c, depth |-> 0, width |-> n, clean |-> TRUE, reduced |-> FALSE, right |-> TRUE]

\* A result of two ciphertexts, which have to be under one key.
Joined(b, d) ==
  [b EXCEPT !.depth   = Deeper(b.depth, d.depth),
            !.width   = Fewer(b.width, d.width),
            !.clean   = b.clean /\ d.clean,
            !.reduced = b.reduced /\ d.reduced,
            !.right   = b.right /\ d.right /\ b.key = d.key /\ b.width = d.width]

\* EvalMult and EvalSquare: one level, and zero wherever a factor is zero.
Product(b, d) ==
  [Joined(b, d) EXCEPT !.depth = @ + 1, !.clean = b.clean \/ d.clean]

\* EvalMult with a public number.
Scaled(b) == [b EXCEPT !.depth = @ + 1]

\* EvalSum adds slots in rounds that reach past the n-th, and leaves partial
\* sums in the slots after the first; with one slot it does nothing.
Summed(b, n) ==
  [b EXCEPT !.width   = 1,
            !.clean   = @ /\ n = 1,
            !.reduced = TRUE,
            !.right   = @ /\ (b.clean \/ n = 1)]

Mean(b, n) == Scaled(Summed(b, n))

Variance(b, n) ==
  Joined(Scaled(Summed(Product(b, b), n)), Product(Mean(b, n), Mean(b, n)))

Combined(op, b, d) == IF op = "multiply" THEN Product(b, d) ELSE Joined(b, d)

Reduced(op, b, n) ==
  CASE op = "sum"      -> Summed(b, n)
    [] op = "mean"     -> Mean(b, n)
    [] op = "variance" -> Variance(b, n)

\* ReKeyGen from the owner's secret key, and ReEncrypt.
Rekeyed(b, c, r) == [b EXCEPT !.key = r, !.right = @ /\ b.key = c]

-----------------------------------------------------------------------------
(* What the sessions check.                                                *)

\* Mutant: variance counted as the one product it begins with.
CostOfOneProduct(op) == IF op \in {"add", "sum"} THEN 0 ELSE 1

Cost(op) ==
  CASE op \in {"add", "sum"}                 -> 0
    [] op \in {"multiply", "square", "mean"} -> 1
    [] op = "variance"                       -> 2

\* valid_count, which the code always sets together with logical_shape.
Count(v) == IF v.shape = Unit THEN 1 ELSE v.shape

Open(s) == sess[s] # None /\ sess[s].engine # None

Owned(s, v) ==
  /\ Open(s)
  /\ v # None
  /\ v.type \in {"vector", "scalar"}
  /\ v.session = s
  /\ v.ctx = sess[s].ctx
  /\ v.key = sess[s].ctx

\* A FIDES session of its own neither saves nor loads; one opened on a
\* workspace neither encrypts nor creates a workspace.
Serializes(s) == sess[s].engine = "openfhe" \/ ~sess[s].secret
Encrypts(s) == sess[s].engine = "openfhe" \/ sess[s].secret
Initialises(s) == sess[s].engine = "openfhe"
Releases(s) == sess[s].engine = "openfhe"

\* The checks on the scalar that a released result is.
Approved(v) == v.shape = Unit /\ v.op \in Reductions

MayDecrypt(s, v) == Owned(s, v) /\ sess[s].secret

\* A recipient works through the backend of the session that created it.
Alive(r) == recipient[r] # None /\ Open(recipient[r].session)

MayRead(r, v) ==
  /\ Alive(r)
  /\ v # None
  /\ v.type = "released"
  /\ v.key = r
  /\ v.ctx = recipient[r].ctx
  /\ v.op \in Reductions

\* validate_workspace: any session of the context, whatever its version.
Validates(s, d) == workspace[d] # None /\ workspace[d].ctx = sess[s].ctx

\* A saved result that names r as the analyst it was released to.
ReleasedTo(r, d, n) ==
  artifact[d][n] # None /\ artifact[d][n].type = "released" /\ artifact[d][n].key = r

\* load_released_result, unlike validate_workspace, compares the version too.
MayLoadReleased(r, d, n) ==
  /\ Alive(r)
  /\ workspace[d] # None
  /\ workspace[d].ctx = recipient[r].ctx
  /\ workspace[d].version = recipient[r].version
  /\ ReleasedTo(r, d, n)
  /\ Approved(artifact[d][n])

-----------------------------------------------------------------------------
(* Operations.                                                             *)

Put(x, v) == value' = [value EXCEPT ![x] = v]

\* What the process of a new session has as engine_version.
Bindings(engine) == IF engine = "openfhe" THEN Versions ELSE {None}

Create(s, engine) ==
  /\ sess[s] = None
  /\ \E c \in Contexts, v \in Bindings(engine) :
       /\ \A t \in Sessions : sess[t] # None => sess[t].ctx # c
       /\ sess' = [sess EXCEPT ![s] = [ctx |-> c, engine |-> engine, secret |-> TRUE,
                                       version |-> v]]
  /\ UNCHANGED <<value, stored, recipient, exported>>

\* The binding of the process may have another version than the manifest says.
OpenWorkspace(s, engine, d) ==
  /\ sess[s] = None
  /\ workspace[d] # None
  /\ \E v \in Bindings(engine) :
       sess' = [sess EXCEPT ![s] = [ctx |-> workspace[d].ctx, engine |-> engine,
                                    secret |-> FALSE, version |-> v]]
  /\ UNCHANGED <<value, stored, recipient, exported>>

Close(s) ==
  /\ Open(s)
  /\ sess' = [sess EXCEPT ![s].engine = None, ![s].secret = FALSE]
  /\ UNCHANGED <<value, stored, recipient, exported>>

Encrypt(s, n, x) ==
  /\ Open(s)
  /\ Encrypts(s)
  /\ Put(x, [type |-> "vector", session |-> s, ctx |-> sess[s].ctx, key |-> sess[s].ctx,
             shape |-> n, level |-> 0, op |-> None, body |-> Fresh(sess[s].ctx, n)])
  /\ UNCHANGED <<keysAndSessions, stored>>

\* Mutant: the logical shapes are not compared.
BinaryOfAnyShape(s, op, l, r, x) ==
  /\ Owned(s, value[l]) /\ Owned(s, value[r])
  /\ LET level == Deeper(value[l].level, value[r].level) + Cost(op)
     IN  /\ level <= MaxDepth
         /\ Put(x, [value[l] EXCEPT !.type  = "vector",
                                    !.level = level,
                                    !.op    = None,
                                    !.body  = Combined(op, @, value[r].body)])
  /\ UNCHANGED <<keysAndSessions, stored>>

\* _binary: of scalars too, which gives a vector of no shape. The operation
\* that a vector's metadata may still name is read by nothing, and left out.
Binary(s, op, l, r, x) ==
  /\ Owned(s, value[l]) /\ Owned(s, value[r])
  /\ value[l].shape = value[r].shape
  /\ LET level == Deeper(value[l].level, value[r].level) + Cost(op)
     IN  /\ level <= MaxDepth
         /\ Put(x, [value[l] EXCEPT !.type  = "vector",
                                    !.level = level,
                                    !.op    = None,
                                    !.body  = Combined(op, @, value[r].body)])
  /\ UNCHANGED <<keysAndSessions, stored>>

\* Mutant: square does not look at the depth that is left.
SquareUnchecked(s, l, x) ==
  /\ Owned(s, value[l])
  /\ Put(x, [value[l] EXCEPT !.type  = "vector",
                             !.level = @ + Cost("square"),
                             !.op    = None,
                             !.body  = Product(@, @)])
  /\ UNCHANGED <<keysAndSessions, stored>>

Square(s, l, x) ==
  /\ Owned(s, value[l])
  /\ value[l].level + Cost("square") <= MaxDepth
  /\ Put(x, [value[l] EXCEPT !.type  = "vector",
                             !.level = @ + Cost("square"),
                             !.op    = None,
                             !.body  = Product(@, @)])
  /\ UNCHANGED <<keysAndSessions, stored>>

Reduce(s, op, l, x) ==
  /\ Owned(s, value[l])
  /\ value[l].level + Cost(op) <= MaxDepth
  /\ Put(x, [value[l] EXCEPT !.type  = "scalar",
                             !.shape = Unit,
                             !.level = @ + Cost(op),
                             !.op    = op,
                             !.body  = Reduced(op, @, Count(value[l]))])
  /\ UNCHANGED <<keysAndSessions, stored>>

CreateRecipient(s, r) ==
  /\ Open(s)
  /\ Releases(s)
  /\ recipient[r] = None
  /\ recipient' = [recipient EXCEPT ![r] = [ctx |-> sess[s].ctx, session |-> s,
                                            version |-> sess[s].version]]
  /\ UNCHANGED <<sess, value, stored, exported>>

\* save_public_key, to a directory of its own.
Export(r) ==
  /\ Alive(r)
  /\ r \notin exported
  /\ exported' = exported \cup {r}
  /\ UNCHANGED <<sess, value, stored, recipient>>

\* The public key of r is at hand: r belongs to the session, or its exported key
\* passes load_recipient_public_key, which compares context and version.
MayTarget(s, r) ==
  /\ recipient[r] # None
  /\ recipient[r].ctx = sess[s].ctx
  /\ \/ recipient[r].session = s
     \/ r \in exported /\ recipient[r].version = sess[s].version

\* Mutant: a release does not check whose value it is given.
ReleaseUnowned(s, l, r, x) ==
  /\ Open(s)
  /\ Releases(s)
  /\ value[l] # None
  /\ value[l].type = "scalar"
  /\ sess[s].secret
  /\ MayTarget(s, r)
  /\ Put(x, [value[l] EXCEPT !.type = "released",
                             !.key  = r,
                             !.ctx  = sess[s].ctx,
                             !.body = Rekeyed(@, sess[s].ctx, r)])
  /\ UNCHANGED <<keysAndSessions, stored>>

\* release_result to a recipient of the session, or reencrypt_for_recipient
\* with a public key that load_recipient_public_key read from its directory.
Release(s, l, r, x) ==
  /\ Owned(s, value[l])
  /\ Releases(s)
  /\ value[l].type = "scalar"
  /\ value[l].op \in Reductions
  /\ sess[s].secret
  /\ MayTarget(s, r)
  /\ Put(x, [value[l] EXCEPT !.type = "released",
                             !.key  = r,
                             !.body = Rekeyed(@, sess[s].ctx, r)])
  /\ UNCHANGED <<keysAndSessions, stored>>

MaySave(s, v) ==
  \/ Owned(s, v)
  \/ /\ Open(s)
     /\ v # None
     /\ v.type = "released"
     /\ v.session = s
     /\ v.ctx = sess[s].ctx
     /\ Approved(v)

\* initialize_workspace records the context and the version of the session that
\* happens to save first.
Initialise(s, d) ==
  workspace' = [workspace EXCEPT ![d] = [ctx |-> sess[s].ctx, version |-> sess[s].version]]

\* Mutant: a save does not compare its session with the manifest.
SaveUnvalidated(s, l, d, n) ==
  /\ MaySave(s, value[l])
  /\ Serializes(s)
  /\ \/ workspace[d] # None /\ UNCHANGED workspace
     \/ workspace[d] = None /\ Initialises(s) /\ Initialise(s, d)
  /\ artifact' = [artifact EXCEPT ![d][n] = [value[l] EXCEPT !.session = None]]
  /\ UNCHANGED <<keysAndSessions, value>>

\* A session with another version than the manifest's may save as well.
Save(s, l, d, n) ==
  /\ MaySave(s, value[l])
  /\ Serializes(s)
  /\ \/ Validates(s, d) /\ UNCHANGED workspace
     \/ workspace[d] = None /\ Initialises(s) /\ Initialise(s, d)
  /\ artifact' = [artifact EXCEPT ![d][n] = [value[l] EXCEPT !.session = None]]
  /\ UNCHANGED <<keysAndSessions, value>>

Load(s, d, n, x) ==
  /\ Open(s)
  /\ Serializes(s)
  /\ Validates(s, d)
  /\ artifact[d][n] # None
  /\ artifact[d][n].type = "released" => Approved(artifact[d][n])
  /\ Put(x, [artifact[d][n] EXCEPT !.session = s])
  /\ UNCHANGED <<keysAndSessions, stored>>

LoadReleased(r, d, n, x) ==
  /\ MayLoadReleased(r, d, n)
  /\ Put(x, [artifact[d][n] EXCEPT !.session = recipient[r].session])
  /\ UNCHANGED <<keysAndSessions, stored>>

Evaluate(s, x) ==
  \/ \E op \in BinaryOps, l, r \in Slots : Binary(s, op, l, r, x)
  \/ \E l \in Slots : Square(s, l, x)
  \/ \E op \in Reductions, l \in Slots : Reduce(s, op, l, x)

Next ==
  \/ \E s \in Sessions :
       \/ \E engine \in Engines :
            \/ Create(s, engine)
            \/ \E d \in Directories : OpenWorkspace(s, engine, d)
       \/ Close(s)
       \/ \E r \in Recipients : CreateRecipient(s, r)
       \/ \E l \in Slots, d \in Directories, n \in Names : Save(s, l, d, n)
  \/ \E s \in Sessions, x \in Slots :
       \/ \E n \in Lengths : Encrypt(s, n, x)
       \/ Evaluate(s, x)
       \/ \E l \in Slots, r \in Recipients : Release(s, l, r, x)
       \/ \E d \in Directories, n \in Names : Load(s, d, n, x)
  \/ \E r \in Recipients :
       \/ Export(r)
       \/ \E d \in Directories, n \in Names, x \in Slots : LoadReleased(r, d, n, x)

Spec == Init /\ [][Next]_vars

-----------------------------------------------------------------------------
(* Properties.                                                             *)

Held ==
  ({value[x] : x \in Slots} \cup {artifact[d][n] : d \in Directories, n \in Names})
    \ {None}

\* The levels that sessions add up from the table of contracts cover the depth
\* that the runtime really uses, so no ciphertext outgrows its modulus chain,
\* however values were combined, saved and loaded on the way.
LevelCoversDepth == \A v \in Held : v.body.depth <= v.level /\ v.level <= MaxDepth

\* What a session agrees to decrypt is under its key, is the right result, and
\* has at least as many slots as decrypt reads.
DecryptsRight ==
  \A s \in Sessions, x \in Slots :
    MayDecrypt(s, value[x]) =>
      /\ value[x].body.key = sess[s].ctx
      /\ value[x].body.right
      /\ Count(value[x]) <= value[x].body.width

\* Whatever is under an analyst's key is a reduction that an owner released,
\* and what an analyst's key object agrees to decrypt is under that key and
\* right: there is no way to it but release_result and reencrypt_for_recipient.
AnalystsReadAggregates ==
  /\ \A v \in Held :
       v.body.key \in Recipients => v.type = "released" /\ v.body.reduced
  /\ \A r \in Recipients, x \in Slots :
       MayRead(r, value[x]) => value[x].body.key = r /\ value[x].body.right

\* A released result that some session saved is one its analyst can load, unless
\* the directory was begun by another session of the context, whose binding has
\* another version than the analyst's. Apart from that version, save_ciphertext
\* checks whatever load_released_result will check.
ReleasedIsLoadable ==
  \A r \in Recipients, d \in Directories, n \in Names :
    Alive(r) /\ ReleasedTo(r, d, n) =>
      \/ MayLoadReleased(r, d, n)
      \/ \E s \in Sessions :
           /\ s # recipient[r].session
           /\ sess[s] # None
           /\ sess[s].ctx = recipient[r].ctx
           /\ sess[s].version = workspace[d].version
           /\ sess[s].version # sess[recipient[r].session].version

\* The analyst can load whatever was saved for it: this holds where all processes
\* have one version of the binding, and not with two.
ReleasedIsAlwaysLoadable ==
  \A r \in Recipients, d \in Directories, n \in Names :
    Alive(r) /\ ReleasedTo(r, d, n) => MayLoadReleased(r, d, n)

=============================================================================
