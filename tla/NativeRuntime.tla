--------------------------- MODULE NativeRuntime ---------------------------
(***************************************************************************)
(* The native HE runtimes of one Python process: the claim of              *)
(* he_sdk/native_runtime.py, the lease of OpenFHEBackend, and the          *)
(* evaluation keys that the OpenFHE binding keeps in a table of the        *)
(* process.  Threads create, use and close HESession objects; a step is    *)
(* what one thread does between two places where another can run.          *)
(*                                                                         *)
(* A session is of one of three kinds: "openfhe" (created, or opened from  *)
(* a workspace), "fides" (created: a native library with its own keys) and *)
(* "worker" (a FIDES workspace, computed by a subprocess).                 *)
(***************************************************************************)
CONSTANTS
  Threads,
  Sessions, \* session objects, each created once
  Shared,   \* whether threads use and close each other's sessions
  None

Kinds == {"openfhe", "fides", "worker"}

ASSUME ConstantsAssumption ==
  /\ None \notin Sessions \cup Threads \cup Kinds
  /\ Shared \in BOOLEAN

VARIABLES
  claimed,  \* the native runtime of the process, or None
  lease,    \* whether _lease_lock is held
  keys,     \* sessions whose evaluation keys are in the table
  kind,     \* session -> its kind, or None while the object does not exist
  creator,  \* session -> thread that created it, or None
  runtime,  \* session -> whether its backend has a runtime (_runtime, _native)
  owns,     \* session -> _owns_lease of its backend
  closed,   \* session -> whether it is closed, or was never constructed
  pc, obj   \* thread -> next step of its call, session of its call

process == <<claimed, lease, keys>>
objects == <<kind, creator, runtime, owns, closed>>
vars == <<process, objects, pc, obj>>

CreatePCs == {"claim", "lease", "generate", "construct", "revoke", "return"}
ClosePCs == {"drop", "clear", "disown", "abort", "release", "rethrow", "mark"}

TypeOK ==
  /\ claimed \in {None, "openfhe", "fides"}
  /\ lease \in BOOLEAN
  /\ keys \subseteq Sessions
  /\ kind \in [Sessions -> Kinds \cup {None}]
  /\ creator \in [Sessions -> Threads \cup {None}]
  /\ runtime \in [Sessions -> BOOLEAN]
  /\ owns \in [Sessions -> BOOLEAN]
  /\ closed \in [Sessions -> BOOLEAN]
  /\ pc \in [Threads -> {"idle", "use"} \cup CreatePCs \cup ClosePCs]
  /\ obj \in [Threads -> Sessions \cup {None}]

Init ==
  /\ claimed = None
  /\ lease = FALSE
  /\ keys = {}
  /\ kind = [s \in Sessions |-> None]
  /\ creator = [s \in Sessions |-> None]
  /\ runtime = [s \in Sessions |-> FALSE]
  /\ owns = [s \in Sessions |-> FALSE]
  /\ closed = [s \in Sessions |-> FALSE]
  /\ pc = [t \in Threads |-> "idle"]
  /\ obj = [t \in Threads |-> None]

Goto(t, label) == pc' = [pc EXCEPT ![t] = label] /\ UNCHANGED obj

Return(t) ==
  /\ pc' = [pc EXCEPT ![t] = "idle"]
  /\ obj' = [obj EXCEPT ![t] = None]

\* The constructor raises: nobody ever sees the object.
Discard(t) == Return(t) /\ closed' = [closed EXCEPT ![obj[t]] = TRUE]

\* The session is constructed, and not in the hands of another thread unless
\* threads share.
MayUse(t, s) ==
  /\ pc[t] = "idle" /\ kind[s] # None /\ ~closed[s]
  /\ \A u \in Threads : obj[u] = s => pc[u] \notin CreatePCs
  /\ Shared \/ creator[s] = t

-----------------------------------------------------------------------------
(* HESession.create and open_workspace.                                    *)

\* Mutant: a workspace opened for the GPU worker claims a runtime too.
CreateClaiming(t, s, k) ==
  /\ pc[t] = "idle" /\ kind[s] = None
  /\ kind' = [kind EXCEPT ![s] = k]
  /\ creator' = [creator EXCEPT ![s] = t]
  /\ obj' = [obj EXCEPT ![t] = s]
  /\ pc' = [pc EXCEPT ![t] = "claim"]
  /\ UNCHANGED <<process, runtime, owns, closed>>

\* The object is made, and its backend is chosen: only the native backends
\* claim the process.
Create(t, s, k) ==
  /\ pc[t] = "idle" /\ kind[s] = None
  /\ kind' = [kind EXCEPT ![s] = k]
  /\ creator' = [creator EXCEPT ![s] = t]
  /\ obj' = [obj EXCEPT ![t] = s]
  /\ pc' = [pc EXCEPT ![t] = IF k = "worker" THEN "construct" ELSE "claim"]
  /\ UNCHANGED <<process, runtime, owns, closed>>

\* claim_native_runtime, under its lock
Claim(t) ==
  /\ pc[t] = "claim"
  /\ IF claimed \in {None, kind[obj[t]]}
     THEN /\ claimed' = kind[obj[t]]
          /\ Goto(t, IF kind[obj[t]] = "openfhe" THEN "lease" ELSE "construct")
          /\ UNCHANGED objects
     ELSE /\ Discard(t)
          /\ UNCHANGED <<claimed, kind, creator, runtime, owns>>
  /\ UNCHANGED <<lease, keys>>

\* The FIDES package does not import, before the claim; or the profile is not
\* supported or the OpenFHE binding does not import, and the claim stays.
Reject(t) ==
  /\ pc[t] = "lease" \/ (pc[t] = "claim" /\ kind[obj[t]] = "fides")
  /\ Discard(t)
  /\ UNCHANGED <<process, kind, creator, runtime, owns>>

\* Mutant: the result of the acquisition is not looked at.
AcquireBlindly(t) ==
  /\ pc[t] = "lease"
  /\ Goto(t, "generate")
  /\ lease' = TRUE
  /\ owns' = [owns EXCEPT ![obj[t]] = TRUE]
  /\ UNCHANGED <<claimed, keys, kind, creator, runtime, closed>>

\* _lease_lock.acquire(blocking=False); _owns_lease is set before anything
\* else can go wrong, on an object no other thread has.
AcquireLease(t) ==
  /\ pc[t] = "lease"
  /\ IF lease
     THEN Discard(t) /\ UNCHANGED <<lease, owns>>
     ELSE /\ Goto(t, "generate")
          /\ lease' = TRUE
          /\ owns' = [owns EXCEPT ![obj[t]] = TRUE]
          /\ UNCHANGED closed
  /\ UNCHANGED <<claimed, keys, kind, creator, runtime>>

\* The binding generates or reads the evaluation keys into its table.
GenerateKeys(t) ==
  /\ pc[t] = "generate"
  /\ Goto(t, "construct")
  /\ keys' = keys \cup {obj[t]}
  /\ UNCHANGED <<claimed, lease, objects>>

Construct(t) ==
  /\ pc[t] = "construct"
  /\ runtime' = [runtime EXCEPT ![obj[t]] = TRUE]
  /\ Goto(t, "return")
  /\ UNCHANGED <<process, kind, creator, owns, closed>>

\* Mutant: the lease is not given back when the constructor fails.
ConstructFailsHolding(t) ==
  /\ pc[t] \in {"generate", "construct"}
  /\ Discard(t)
  /\ owns' = [owns EXCEPT ![obj[t]] = FALSE]
  /\ UNCHANGED <<process, kind, creator, runtime>>

\* The constructor fails before or after the keys are in the table; the
\* handler of OpenFHEBackend disowns the lease, and releases it.
ConstructFails(t) ==
  /\ pc[t] \in {"generate", "construct"}
  /\ IF owns[obj[t]]
     THEN Goto(t, "revoke") /\ UNCHANGED closed
     ELSE Discard(t)
  /\ owns' = [owns EXCEPT ![obj[t]] = FALSE]
  /\ UNCHANGED <<process, kind, creator, runtime>>

Revoke(t) ==
  /\ pc[t] = "revoke"
  /\ lease' = FALSE
  /\ Discard(t)
  /\ UNCHANGED <<claimed, keys, kind, creator, runtime, owns>>

Created(t) ==
  /\ pc[t] = "return"
  /\ Return(t)
  /\ UNCHANGED <<process, objects>>

-----------------------------------------------------------------------------
\* An operation: _active() checks the runtime, and the binding then computes
\* with the keys of the table.
Use(t, s) ==
  /\ MayUse(t, s)
  /\ runtime[s]
  /\ pc' = [pc EXCEPT ![t] = "use"]
  /\ obj' = [obj EXCEPT ![t] = s]
  /\ UNCHANGED <<process, objects>>

EndUse(t) ==
  /\ pc[t] = "use"
  /\ Return(t)
  /\ UNCHANGED <<process, objects>>

-----------------------------------------------------------------------------
(* HESession.close and the close of its backend.                           *)

\* The two guards: a closed session, and a backend without the lease.  The
\* FIDES backends have no lease to give back.
Close(t, s) ==
  /\ MayUse(t, s)
  /\ obj' = [obj EXCEPT ![t] = s]
  /\ pc' = [pc EXCEPT ![t] = IF kind[s] # "openfhe" \/ owns[s] THEN "drop" ELSE "mark"]
  /\ UNCHANGED <<process, objects>>

DropRuntime(t) ==
  /\ pc[t] = "drop"
  /\ runtime' = [runtime EXCEPT ![obj[t]] = FALSE]
  /\ Goto(t, IF kind[obj[t]] = "openfhe" THEN "clear" ELSE "mark")
  /\ UNCHANGED <<process, kind, creator, owns, closed>>

\* Mutant: the lease is given back before the table is cleared.
ClearReleased(t) ==
  /\ \/ /\ pc[t] = "clear" /\ lease
        /\ lease' = FALSE /\ UNCHANGED <<keys, pc>>
     \/ /\ pc[t] = "clear" /\ ~lease
        /\ keys' = {} /\ UNCHANGED lease
        /\ pc' = [pc EXCEPT ![t] = "mark"]
  /\ UNCHANGED <<claimed, objects, obj>>

\* ClearEvalMultKeys, ClearEvalAutomorphismKeys and ReleaseAllContexts clear
\* the table of the process, whoever the keys belong to.  If the binding raises
\* instead, the lease is released all the same.
ClearKeys(t) ==
  /\ pc[t] = "clear"
  /\ \/ keys' = {} /\ Goto(t, "disown")
     \/ UNCHANGED keys /\ Goto(t, "abort")
  /\ UNCHANGED <<claimed, lease, objects>>

Disown(t) ==
  /\ pc[t] \in {"disown", "abort"}
  /\ owns' = [owns EXCEPT ![obj[t]] = FALSE]
  /\ Goto(t, IF pc[t] = "disown" THEN "release" ELSE "rethrow")
  /\ UNCHANGED <<process, kind, creator, runtime, closed>>

\* Mutant: closing a session also gives up the claim.
ReleaseClaim(t) ==
  /\ pc[t] \in {"release", "rethrow"}
  /\ lease' = FALSE
  /\ claimed' = None
  /\ IF pc[t] = "release" THEN Goto(t, "mark") ELSE Return(t)
  /\ UNCHANGED <<keys, objects>>

\* Releasing a lock that is not held raises, like the error of the binding:
\* then the session is not marked as closed.
ReleaseLease(t) ==
  /\ pc[t] \in {"release", "rethrow"}
  /\ lease' = FALSE
  /\ IF lease /\ pc[t] = "release" THEN Goto(t, "mark") ELSE Return(t)
  /\ UNCHANGED <<claimed, keys, objects>>

MarkClosed(t) ==
  /\ pc[t] = "mark"
  /\ closed' = [closed EXCEPT ![obj[t]] = TRUE]
  /\ Return(t)
  /\ UNCHANGED <<process, kind, creator, runtime, owns>>

-----------------------------------------------------------------------------
Step(t) ==
  \/ Claim(t) \/ Reject(t) \/ AcquireLease(t) \/ GenerateKeys(t) \/ Construct(t)
  \/ ConstructFails(t) \/ Revoke(t) \/ Created(t) \/ EndUse(t)
  \/ DropRuntime(t) \/ ClearKeys(t) \/ Disown(t) \/ ReleaseLease(t) \/ MarkClosed(t)

Next ==
  \E t \in Threads :
    \/ \E s \in Sessions, k \in Kinds : Create(t, s, k)
    \/ \E s \in Sessions : Use(t, s) \/ Close(t, s)
    \/ Step(t)

Spec == Init /\ [][Next]_vars

-----------------------------------------------------------------------------
(* Properties.                                                             *)

Active(s) == kind[s] = "openfhe" /\ runtime[s]

\* At most one OpenFHE session has a runtime.
OneActive == \A s, r \in Sessions : Active(s) /\ Active(r) => s = r

\* The keys of a session stay in the table of the process while it has a
\* runtime, and while an operation that found one is computing with them: no
\* other session's end or failed start clears them.
KeysPresent ==
  /\ \A s \in Sessions : Active(s) => s \in keys
  /\ \A t \in Threads : pc[t] = "use" /\ kind[obj[t]] = "openfhe" => obj[t] \in keys

\* The lease is held only on behalf of a session that can still give it back:
\* one that owns it, or whose thread is about to release it.
LeaseOwned ==
  lease => \/ \E s \in Sessions : owns[s]
           \/ \E t \in Threads : pc[t] \in {"revoke", "release", "rethrow"}

\* The process never has sessions on both native libraries.
OneNative ==
  \A s, r \in Sessions :
    runtime[s] /\ runtime[r] /\ {kind[s], kind[r]} \subseteq {"openfhe", "fides"}
      => kind[s] = kind[r]

=============================================================================
