------------------------ MODULE NativeRuntimeProofs ------------------------
(***************************************************************************)
(* Proofs about NativeRuntime, for threads that keep their sessions to     *)
(* themselves: one active session, with its keys, whatever fails.          *)
(***************************************************************************)
EXTENDS NativeRuntime, TLAPS

(* A call has a session, and the native sessions are those of the claim.   *)
CallInv ==
  \A t \in Threads :
    /\ pc[t] = "idle" <=> obj[t] = None
    /\ pc[t] # "idle" => kind[obj[t]] # None

Native == {"openfhe", "fides"}

ClaimInv ==
  /\ \A s \in Sessions : kind[s] = None => ~runtime[s]
  /\ \A s \in Sessions : runtime[s] /\ kind[s] \in Native => claimed = kind[s]
  /\ \A t \in Threads :
       /\ pc[t] \in {"claim", "lease", "generate"} => kind[obj[t]] \in Native
       /\ pc[t] \in {"lease", "generate", "construct"} /\ kind[obj[t]] \in Native =>
            claimed = kind[obj[t]]

TypeInv == TypeOK /\ CallInv /\ ClaimInv

(* Threads that do not share: a call has its session to itself.            *)
OwnInv == \A t \in Threads : pc[t] # "idle" => creator[obj[t]] = t

(* Who holds the lease, or is about to release it.                         *)
Holds(s) ==
  owns[s] \/ \E t \in Threads : obj[t] = s /\ pc[t] \in {"revoke", "release", "rethrow"}

LeaseInv ==
  /\ \A s \in Sessions : Holds(s) => lease
  /\ \A s, r \in Sessions : Holds(s) /\ Holds(r) => s = r
  /\ lease => \E s \in Sessions : Holds(s)

(* What a session has, by the step of the call it is in.                   *)
SessionInv ==
  /\ \A s \in Sessions : Active(s) => owns[s] /\ s \in keys
  /\ \A s \in Sessions : owns[s] => kind[s] = "openfhe"
  /\ \A s \in Sessions : kind[s] = None => ~runtime[s] /\ ~owns[s]
  /\ \A t \in Threads :
       /\ pc[t] = "use" => runtime[obj[t]]
       /\ pc[t] = "claim" => kind[obj[t]] \in {"openfhe", "fides"}
       /\ pc[t] = "lease" => kind[obj[t]] = "openfhe"
       /\ pc[t] = "generate" => owns[obj[t]]
       /\ pc[t] = "construct" /\ kind[obj[t]] = "openfhe" => owns[obj[t]] /\ obj[t] \in keys
       /\ pc[t] \in {"claim", "lease", "generate", "construct", "revoke"} => ~runtime[obj[t]]
       /\ pc[t] \in {"claim", "lease", "revoke", "release", "rethrow"} => ~owns[obj[t]]
       /\ pc[t] = "drop" /\ kind[obj[t]] = "openfhe" => owns[obj[t]]
       /\ pc[t] \in {"clear", "disown", "abort"} => owns[obj[t]] /\ ~runtime[obj[t]]


USE ConstantsAssumption

(* Nothing is claimed, held or constructed in a fresh process.             *)
LEMMA InitTypeInv == Init => TypeInv
  BY DEF Init, TypeInv, TypeOK, CallInv, ClaimInv

(* A step keeps the types and the claim, whether threads share or not.     *)
LEMMA StepTypeInv ==
  ASSUME TypeInv, [Next]_vars
  PROVE  TypeInv'
<1>1. ASSUME NEW t \in Threads, NEW s \in Sessions, NEW k \in Kinds, Create(t, s, k)
      PROVE  TypeInv'
  <2>1. TypeOK'
    BY <1>1 DEF Create, process, TypeInv, TypeOK, CallInv, ClaimInv, Native, Kinds,
       CreatePCs, ClosePCs
  <2>2. CallInv'
    BY <1>1 DEF Create, process, TypeInv, TypeOK, CallInv, Kinds
  <2>3. ClaimInv'
    BY <1>1 DEF Create, process, TypeInv, TypeOK, CallInv, ClaimInv, Native, Kinds
  <2>4. QED
    BY <2>1, <2>2, <2>3 DEF TypeInv
<1>2. ASSUME NEW t \in Threads, NEW s \in Sessions, Use(t, s)
      PROVE  TypeInv'
  <2>1. TypeOK'
    BY <1>2 DEF Use, MayUse, process, objects, TypeInv, TypeOK, CallInv, ClaimInv, Native,
       Kinds, CreatePCs, ClosePCs
  <2>2. CallInv'
    BY <1>2 DEF Use, MayUse, process, objects, TypeInv, TypeOK, CallInv, Kinds
  <2>3. ClaimInv'
    BY <1>2 DEF Use, MayUse, process, objects, TypeInv, TypeOK, CallInv, ClaimInv, Native,
       Kinds
  <2>4. QED
    BY <2>1, <2>2, <2>3 DEF TypeInv
<1>3. ASSUME NEW t \in Threads, NEW s \in Sessions, Close(t, s)
      PROVE  TypeInv'
  <2>1. TypeOK'
    BY <1>3 DEF Close, MayUse, process, objects, TypeInv, TypeOK, CallInv, ClaimInv,
       Native, Kinds, CreatePCs, ClosePCs
  <2>2. CallInv'
    BY <1>3 DEF Close, MayUse, process, objects, TypeInv, TypeOK, CallInv, Kinds
  <2>3. ClaimInv'
    BY <1>3 DEF Close, MayUse, process, objects, TypeInv, TypeOK, CallInv, ClaimInv,
       Native, Kinds
  <2>4. QED
    BY <2>1, <2>2, <2>3 DEF TypeInv
<1>4. ASSUME NEW t \in Threads, Claim(t)
      PROVE  TypeInv'
  <2>1. TypeOK'
    <3>1. obj[t] \in Sessions /\ kind[obj[t]] \in Native
      BY <1>4 DEF Claim, TypeInv, TypeOK, CallInv, ClaimInv
    <3>2. pc' \in [Threads -> {"idle", "use"} \cup CreatePCs \cup ClosePCs]
          /\ obj' \in [Threads -> Sessions \cup {None}]
      BY <1>4 DEF Claim, Goto, Return, Discard, TypeInv, TypeOK, CreatePCs
    <3>3. claimed' \in {None, "openfhe", "fides"} /\ closed' \in [Sessions -> BOOLEAN]
      BY <1>4, <3>1 DEF Claim, Discard, objects, Native, TypeInv, TypeOK
    <3>4. UNCHANGED <<lease, keys, kind, creator, runtime, owns>>
      BY <1>4 DEF Claim, objects
    <3>5. QED
      BY <3>2, <3>3, <3>4 DEF TypeInv, TypeOK
  <2>2. CallInv'
    BY <1>4 DEF Claim, Goto, Return, Discard, objects, TypeInv, TypeOK, CallInv, Kinds
  <2>3. ClaimInv'
    BY <1>4 DEF Claim, Goto, Return, Discard, objects, TypeInv, TypeOK, CallInv, ClaimInv,
       Native, Kinds
  <2>4. QED
    BY <2>1, <2>2, <2>3 DEF TypeInv
<1>5. ASSUME NEW t \in Threads, Reject(t)
      PROVE  TypeInv'
  <2>1. TypeOK'
    BY <1>5 DEF Reject, Return, Discard, process, TypeInv, TypeOK, CallInv, ClaimInv,
       Native, Kinds, CreatePCs, ClosePCs
  <2>2. CallInv'
    BY <1>5 DEF Reject, Return, Discard, process, TypeInv, TypeOK, CallInv, Kinds
  <2>3. ClaimInv'
    BY <1>5 DEF Reject, Return, Discard, process, TypeInv, TypeOK, CallInv, ClaimInv,
       Native, Kinds
  <2>4. QED
    BY <2>1, <2>2, <2>3 DEF TypeInv
<1>6. ASSUME NEW t \in Threads, AcquireLease(t)
      PROVE  TypeInv'
  <2>1. TypeOK'
    <3>1. obj[t] \in Sessions
      BY <1>6 DEF AcquireLease, TypeInv, TypeOK, CallInv
    <3>2. pc' \in [Threads -> {"idle", "use"} \cup CreatePCs \cup ClosePCs]
          /\ obj' \in [Threads -> Sessions \cup {None}]
      BY <1>6 DEF AcquireLease, Goto, Return, Discard, TypeInv, TypeOK, CreatePCs
    <3>3. lease' \in BOOLEAN
          /\ owns' \in [Sessions -> BOOLEAN] /\ closed' \in [Sessions -> BOOLEAN]
      BY <1>6, <3>1 DEF AcquireLease, Discard, TypeInv, TypeOK
    <3>4. QED
      BY <1>6, <3>2, <3>3 DEF AcquireLease, TypeInv, TypeOK
  <2>2. CallInv'
    BY <1>6 DEF AcquireLease, Goto, Return, Discard, TypeInv, TypeOK, CallInv, Kinds
  <2>3. ClaimInv'
    BY <1>6 DEF AcquireLease, Goto, Return, Discard, TypeInv, TypeOK, CallInv, ClaimInv,
       Native, Kinds
  <2>4. QED
    BY <2>1, <2>2, <2>3 DEF TypeInv
<1>7. ASSUME NEW t \in Threads, GenerateKeys(t)
      PROVE  TypeInv'
  <2>1. TypeOK'
    BY <1>7 DEF GenerateKeys, Goto, objects, TypeInv, TypeOK, CallInv, ClaimInv, Native,
       Kinds, CreatePCs, ClosePCs
  <2>2. CallInv'
    BY <1>7 DEF GenerateKeys, Goto, objects, TypeInv, TypeOK, CallInv, Kinds
  <2>3. ClaimInv'
    BY <1>7 DEF GenerateKeys, Goto, objects, TypeInv, TypeOK, CallInv, ClaimInv, Native,
       Kinds
  <2>4. QED
    BY <2>1, <2>2, <2>3 DEF TypeInv
<1>8. ASSUME NEW t \in Threads, Construct(t)
      PROVE  TypeInv'
  <2>1. TypeOK'
    BY <1>8 DEF Construct, Goto, process, TypeInv, TypeOK, CallInv, ClaimInv, Native,
       Kinds, CreatePCs, ClosePCs
  <2>2. CallInv'
    BY <1>8 DEF Construct, Goto, process, TypeInv, TypeOK, CallInv, Kinds
  <2>3. ClaimInv'
    BY <1>8 DEF Construct, Goto, process, TypeInv, TypeOK, CallInv, ClaimInv, Native, Kinds
  <2>4. QED
    BY <2>1, <2>2, <2>3 DEF TypeInv
<1>9. ASSUME NEW t \in Threads, ConstructFails(t)
      PROVE  TypeInv'
  <2>1. TypeOK'
    <3>1. obj[t] \in Sessions
      BY <1>9 DEF ConstructFails, TypeInv, TypeOK, CallInv
    <3>2. pc' \in [Threads -> {"idle", "use"} \cup CreatePCs \cup ClosePCs]
          /\ obj' \in [Threads -> Sessions \cup {None}]
      BY <1>9 DEF ConstructFails, Goto, Return, Discard, TypeInv, TypeOK, CreatePCs
    <3>3. owns' \in [Sessions -> BOOLEAN] /\ closed' \in [Sessions -> BOOLEAN]
      BY <1>9, <3>1 DEF ConstructFails, Discard, TypeInv, TypeOK
    <3>4. QED
      BY <1>9, <3>2, <3>3 DEF ConstructFails, process, TypeInv, TypeOK
  <2>2. CallInv'
    BY <1>9 DEF ConstructFails, Goto, Return, Discard, process, TypeInv, TypeOK, CallInv,
       Kinds
  <2>3. ClaimInv'
    BY <1>9 DEF ConstructFails, Goto, Return, Discard, process, TypeInv, TypeOK, CallInv,
       ClaimInv, Native, Kinds
  <2>4. QED
    BY <2>1, <2>2, <2>3 DEF TypeInv
<1>10. ASSUME NEW t \in Threads, Revoke(t)
      PROVE  TypeInv'
  <2>1. TypeOK'
    BY <1>10 DEF Revoke, Return, Discard, TypeInv, TypeOK, CallInv, ClaimInv, Native,
       Kinds, CreatePCs, ClosePCs
  <2>2. CallInv'
    BY <1>10 DEF Revoke, Return, Discard, TypeInv, TypeOK, CallInv, Kinds
  <2>3. ClaimInv'
    BY <1>10 DEF Revoke, Return, Discard, TypeInv, TypeOK, CallInv, ClaimInv, Native, Kinds
  <2>4. QED
    BY <2>1, <2>2, <2>3 DEF TypeInv
<1>11. ASSUME NEW t \in Threads, Created(t)
      PROVE  TypeInv'
  <2>1. TypeOK'
    BY <1>11 DEF Created, Return, process, objects, TypeInv, TypeOK, CallInv, ClaimInv,
       Native, Kinds, CreatePCs, ClosePCs
  <2>2. CallInv'
    BY <1>11 DEF Created, Return, process, objects, TypeInv, TypeOK, CallInv, Kinds
  <2>3. ClaimInv'
    BY <1>11 DEF Created, Return, process, objects, TypeInv, TypeOK, CallInv, ClaimInv,
       Native, Kinds
  <2>4. QED
    BY <2>1, <2>2, <2>3 DEF TypeInv
<1>12. ASSUME NEW t \in Threads, EndUse(t)
      PROVE  TypeInv'
  <2>1. TypeOK'
    BY <1>12 DEF EndUse, Return, process, objects, TypeInv, TypeOK, CallInv, ClaimInv,
       Native, Kinds, CreatePCs, ClosePCs
  <2>2. CallInv'
    BY <1>12 DEF EndUse, Return, process, objects, TypeInv, TypeOK, CallInv, Kinds
  <2>3. ClaimInv'
    BY <1>12 DEF EndUse, Return, process, objects, TypeInv, TypeOK, CallInv, ClaimInv,
       Native, Kinds
  <2>4. QED
    BY <2>1, <2>2, <2>3 DEF TypeInv
<1>13. ASSUME NEW t \in Threads, DropRuntime(t)
      PROVE  TypeInv'
  <2>1. TypeOK'
    BY <1>13 DEF DropRuntime, Goto, process, TypeInv, TypeOK, CallInv, ClaimInv, Native,
       Kinds, CreatePCs, ClosePCs
  <2>2. CallInv'
    BY <1>13 DEF DropRuntime, Goto, process, TypeInv, TypeOK, CallInv, Kinds
  <2>3. ClaimInv'
    BY <1>13 DEF DropRuntime, Goto, process, TypeInv, TypeOK, CallInv, ClaimInv, Native,
       Kinds
  <2>4. QED
    BY <2>1, <2>2, <2>3 DEF TypeInv
<1>14. ASSUME NEW t \in Threads, ClearKeys(t)
      PROVE  TypeInv'
  <2>1. TypeOK'
    BY <1>14 DEF ClearKeys, Goto, objects, TypeInv, TypeOK, CallInv, ClaimInv, Native,
       Kinds, CreatePCs, ClosePCs
  <2>2. CallInv'
    BY <1>14 DEF ClearKeys, Goto, objects, TypeInv, TypeOK, CallInv, Kinds
  <2>3. ClaimInv'
    BY <1>14 DEF ClearKeys, Goto, objects, TypeInv, TypeOK, CallInv, ClaimInv, Native, Kinds
  <2>4. QED
    BY <2>1, <2>2, <2>3 DEF TypeInv
<1>15. ASSUME NEW t \in Threads, Disown(t)
      PROVE  TypeInv'
  <2>1. TypeOK'
    BY <1>15 DEF Disown, Goto, process, TypeInv, TypeOK, CallInv, ClaimInv, Native, Kinds,
       CreatePCs, ClosePCs
  <2>2. CallInv'
    BY <1>15 DEF Disown, Goto, process, TypeInv, TypeOK, CallInv, Kinds
  <2>3. ClaimInv'
    BY <1>15 DEF Disown, Goto, process, TypeInv, TypeOK, CallInv, ClaimInv, Native, Kinds
  <2>4. QED
    BY <2>1, <2>2, <2>3 DEF TypeInv
<1>16. ASSUME NEW t \in Threads, ReleaseLease(t)
      PROVE  TypeInv'
  <2>1. TypeOK'
    <3>1. pc' \in [Threads -> {"idle", "use"} \cup CreatePCs \cup ClosePCs]
          /\ obj' \in [Threads -> Sessions \cup {None}]
      BY <1>16 DEF ReleaseLease, Goto, Return, TypeInv, TypeOK, ClosePCs
    <3>2. QED
      BY <1>16, <3>1 DEF ReleaseLease, objects, TypeInv, TypeOK
  <2>2. CallInv'
    BY <1>16 DEF ReleaseLease, Goto, Return, objects, TypeInv, TypeOK, CallInv, Kinds
  <2>3. ClaimInv'
    BY <1>16 DEF ReleaseLease, Goto, Return, objects, TypeInv, TypeOK, CallInv, ClaimInv,
       Native, Kinds
  <2>4. QED
    BY <2>1, <2>2, <2>3 DEF TypeInv
<1>17. ASSUME NEW t \in Threads, MarkClosed(t)
      PROVE  TypeInv'
  <2>1. TypeOK'
    BY <1>17 DEF MarkClosed, Return, process, TypeInv, TypeOK, CallInv, ClaimInv, Native,
       Kinds, CreatePCs, ClosePCs
  <2>2. CallInv'
    BY <1>17 DEF MarkClosed, Return, process, TypeInv, TypeOK, CallInv, Kinds
  <2>3. ClaimInv'
    BY <1>17 DEF MarkClosed, Return, process, TypeInv, TypeOK, CallInv, ClaimInv, Native,
       Kinds
  <2>4. QED
    BY <2>1, <2>2, <2>3 DEF TypeInv
<1>18. CASE UNCHANGED vars
  BY <1>18 DEF vars, CallInv, ClaimInv, ClosePCs, CreatePCs, Kinds, Native, TypeInv,
     TypeOK, objects, process, TypeInv
<1>19. QED
  BY <1>1, <1>2, <1>3, <1>4, <1>5, <1>6, <1>7, <1>8, <1>9, <1>10, <1>11, <1>12, <1>13,
     <1>14, <1>15, <1>16, <1>17, <1>18 DEF Next, Step

\* Every variable keeps its type, whoever shares sessions with whom.
THEOREM TypeCorrect == Spec => []TypeOK
<1>1. Init => TypeInv
  BY InitTypeInv
<1>2. TypeInv /\ [Next]_vars => TypeInv'
  BY StepTypeInv
<1>3. TypeInv => TypeOK
  BY DEF TypeInv
<1>4. QED
  BY <1>1, <1>2, <1>3, PTL DEF Spec

\* A process never has sessions on both native libraries: the claim is never
\* given up, even when the session it was made for fails or is closed.
THEOREM OneNativeLibrary == Spec => []OneNative
<1>1. Init => TypeInv
  BY InitTypeInv
<1>2. TypeInv /\ [Next]_vars => TypeInv'
  BY StepTypeInv
<1>3. TypeInv => OneNative
  BY DEF TypeInv, ClaimInv, OneNative, Native
<1>4. QED
  BY <1>1, <1>2, <1>3, PTL DEF Spec

-----------------------------------------------------------------------------
Inv == OwnInv /\ LeaseInv /\ SessionInv

(* Nobody holds the lease of a fresh process.                              *)
LEMMA InitInv == Init => Inv
  BY DEF Init, Inv, OwnInv, LeaseInv, Holds, SessionInv, Active

(* A step keeps the lease with one session, and that session's keys.       *)
LEMMA StepInv ==
  ASSUME ~Shared, TypeInv, Inv, [Next]_vars
  PROVE  Inv'
<1>1. ASSUME NEW t \in Threads, NEW s \in Sessions, NEW k \in Kinds, Create(t, s, k)
      PROVE  Inv'
  <2>1. OwnInv'
    BY <1>1 DEF Create, process, TypeInv, TypeOK, CallInv, Inv, OwnInv
  <2>2. LeaseInv'
    BY <1>1 DEF Create, process, TypeInv, TypeOK, CallInv, Inv, OwnInv, LeaseInv, Holds,
       SessionInv, Active, Kinds
  <2>3. SessionInv'
    BY <1>1 DEF Create, process, TypeInv, TypeOK, CallInv, Inv, OwnInv, LeaseInv, Holds,
       SessionInv, Active, Kinds, ClaimInv, Native
  <2>4. QED
    BY <2>1, <2>2, <2>3 DEF Inv
<1>2. ASSUME NEW t \in Threads, NEW s \in Sessions, Use(t, s)
      PROVE  Inv'
  <2>1. OwnInv'
    BY <1>2 DEF Use, MayUse, process, objects, TypeInv, TypeOK, CallInv, Inv, OwnInv
  <2>2. LeaseInv'
    BY <1>2 DEF Use, MayUse, process, objects, TypeInv, TypeOK, CallInv, Inv, OwnInv,
       LeaseInv, Holds, SessionInv, Active, Kinds
  <2>3. SessionInv'
    BY <1>2 DEF Use, MayUse, process, objects, TypeInv, TypeOK, CallInv, Inv, OwnInv,
       LeaseInv, Holds, SessionInv, Active, Kinds, ClaimInv, Native
  <2>4. QED
    BY <2>1, <2>2, <2>3 DEF Inv
<1>3. ASSUME NEW t \in Threads, NEW s \in Sessions, Close(t, s)
      PROVE  Inv'
  <2>1. OwnInv'
    BY <1>3 DEF Close, MayUse, process, objects, TypeInv, TypeOK, CallInv, Inv, OwnInv
  <2>2. LeaseInv'
    BY <1>3 DEF Close, MayUse, process, objects, TypeInv, TypeOK, CallInv, Inv, OwnInv,
       LeaseInv, Holds, SessionInv, Active, Kinds
  <2>3. SessionInv'
    BY <1>3 DEF Close, MayUse, process, objects, TypeInv, TypeOK, CallInv, Inv, OwnInv,
       LeaseInv, Holds, SessionInv, Active, Kinds, ClaimInv, Native
  <2>4. QED
    BY <2>1, <2>2, <2>3 DEF Inv
<1>4. ASSUME NEW t \in Threads, Claim(t)
      PROVE  Inv'
  <2>1. OwnInv'
    BY <1>4 DEF Claim, Goto, Return, Discard, objects, TypeInv, TypeOK, CallInv, Inv, OwnInv
  <2>2. LeaseInv'
    BY <1>4 DEF Claim, Goto, Return, Discard, objects, TypeInv, TypeOK, CallInv, Inv,
       OwnInv, LeaseInv, Holds, SessionInv, Active, Kinds
  <2>3. SessionInv'
    BY <1>4 DEF Claim, Goto, Return, Discard, objects, TypeInv, TypeOK, CallInv, Inv,
       OwnInv, LeaseInv, Holds, SessionInv, Active, Kinds, ClaimInv, Native
  <2>4. QED
    BY <2>1, <2>2, <2>3 DEF Inv
<1>5. ASSUME NEW t \in Threads, Reject(t)
      PROVE  Inv'
  <2>1. OwnInv'
    BY <1>5 DEF Reject, Return, Discard, process, TypeInv, TypeOK, CallInv, Inv, OwnInv
  <2>2. LeaseInv'
    BY <1>5 DEF Reject, Return, Discard, process, TypeInv, TypeOK, CallInv, Inv, OwnInv,
       LeaseInv, Holds, SessionInv, Active, Kinds
  <2>3. SessionInv'
    BY <1>5 DEF Reject, Return, Discard, process, TypeInv, TypeOK, CallInv, Inv, OwnInv,
       LeaseInv, Holds, SessionInv, Active, Kinds, ClaimInv, Native
  <2>4. QED
    BY <2>1, <2>2, <2>3 DEF Inv
<1>6. ASSUME NEW t \in Threads, AcquireLease(t)
      PROVE  Inv'
  <2>1. OwnInv'
    BY <1>6 DEF AcquireLease, Goto, Return, Discard, TypeInv, TypeOK, CallInv, Inv, OwnInv
  <2>2. LeaseInv'
    BY <1>6 DEF AcquireLease, Goto, Return, Discard, TypeInv, TypeOK, CallInv, Inv, OwnInv,
       LeaseInv, Holds, SessionInv, Active, Kinds
  <2>3. SessionInv'
    BY <1>6 DEF AcquireLease, Goto, Return, Discard, TypeInv, TypeOK, CallInv, Inv, OwnInv,
       LeaseInv, Holds, SessionInv, Active, Kinds, ClaimInv, Native
  <2>4. QED
    BY <2>1, <2>2, <2>3 DEF Inv
<1>7. ASSUME NEW t \in Threads, GenerateKeys(t)
      PROVE  Inv'
  <2>1. OwnInv'
    BY <1>7 DEF GenerateKeys, Goto, objects, TypeInv, TypeOK, CallInv, Inv, OwnInv
  <2>2. LeaseInv'
    BY <1>7 DEF GenerateKeys, Goto, objects, TypeInv, TypeOK, CallInv, Inv, OwnInv,
       LeaseInv, Holds, SessionInv, Active, Kinds
  <2>3. SessionInv'
    BY <1>7 DEF GenerateKeys, Goto, objects, TypeInv, TypeOK, CallInv, Inv, OwnInv,
       LeaseInv, Holds, SessionInv, Active, Kinds, ClaimInv, Native
  <2>4. QED
    BY <2>1, <2>2, <2>3 DEF Inv
<1>8. ASSUME NEW t \in Threads, Construct(t)
      PROVE  Inv'
  <2>1. OwnInv'
    BY <1>8 DEF Construct, Goto, process, TypeInv, TypeOK, CallInv, Inv, OwnInv
  <2>2. LeaseInv'
    BY <1>8 DEF Construct, Goto, process, TypeInv, TypeOK, CallInv, Inv, OwnInv, LeaseInv,
       Holds, SessionInv, Active, Kinds
  <2>3. SessionInv'
    BY <1>8 DEF Construct, Goto, process, TypeInv, TypeOK, CallInv, Inv, OwnInv, LeaseInv,
       Holds, SessionInv, Active, Kinds, ClaimInv, Native
  <2>4. QED
    BY <2>1, <2>2, <2>3 DEF Inv
<1>9. ASSUME NEW t \in Threads, ConstructFails(t)
      PROVE  Inv'
  <2>1. OwnInv'
    BY <1>9 DEF ConstructFails, Goto, Return, Discard, process, TypeInv, TypeOK, CallInv,
       Inv, OwnInv
  <2>2. LeaseInv'
    BY <1>9 DEF ConstructFails, Goto, Return, Discard, process, TypeInv, TypeOK, CallInv,
       Inv, OwnInv, LeaseInv, Holds, SessionInv, Active, Kinds
  <2>3. SessionInv'
    BY <1>9 DEF ConstructFails, Goto, Return, Discard, process, TypeInv, TypeOK, CallInv,
       Inv, OwnInv, LeaseInv, Holds, SessionInv, Active, Kinds, ClaimInv, Native
  <2>4. QED
    BY <2>1, <2>2, <2>3 DEF Inv
<1>10. ASSUME NEW t \in Threads, Revoke(t)
      PROVE  Inv'
  <2>1. OwnInv'
    BY <1>10 DEF Revoke, Return, Discard, TypeInv, TypeOK, CallInv, Inv, OwnInv
  <2>2. LeaseInv'
    BY <1>10 DEF Revoke, Return, Discard, TypeInv, TypeOK, CallInv, Inv, OwnInv, LeaseInv,
       Holds, SessionInv, Active, Kinds
  <2>3. SessionInv'
    BY <1>10 DEF Revoke, Return, Discard, TypeInv, TypeOK, CallInv, Inv, OwnInv, LeaseInv,
       Holds, SessionInv, Active, Kinds, ClaimInv, Native
  <2>4. QED
    BY <2>1, <2>2, <2>3 DEF Inv
<1>11. ASSUME NEW t \in Threads, Created(t)
      PROVE  Inv'
  <2>1. OwnInv'
    BY <1>11 DEF Created, Return, process, objects, TypeInv, TypeOK, CallInv, Inv, OwnInv
  <2>2. LeaseInv'
    BY <1>11 DEF Created, Return, process, objects, TypeInv, TypeOK, CallInv, Inv, OwnInv,
       LeaseInv, Holds, SessionInv, Active, Kinds
  <2>3. SessionInv'
    BY <1>11 DEF Created, Return, process, objects, TypeInv, TypeOK, CallInv, Inv, OwnInv,
       LeaseInv, Holds, SessionInv, Active, Kinds, ClaimInv, Native
  <2>4. QED
    BY <2>1, <2>2, <2>3 DEF Inv
<1>12. ASSUME NEW t \in Threads, EndUse(t)
      PROVE  Inv'
  <2>1. OwnInv'
    BY <1>12 DEF EndUse, Return, process, objects, TypeInv, TypeOK, CallInv, Inv, OwnInv
  <2>2. LeaseInv'
    BY <1>12 DEF EndUse, Return, process, objects, TypeInv, TypeOK, CallInv, Inv, OwnInv,
       LeaseInv, Holds, SessionInv, Active, Kinds
  <2>3. SessionInv'
    BY <1>12 DEF EndUse, Return, process, objects, TypeInv, TypeOK, CallInv, Inv, OwnInv,
       LeaseInv, Holds, SessionInv, Active, Kinds, ClaimInv, Native
  <2>4. QED
    BY <2>1, <2>2, <2>3 DEF Inv
<1>13. ASSUME NEW t \in Threads, DropRuntime(t)
      PROVE  Inv'
  <2>1. OwnInv'
    BY <1>13 DEF DropRuntime, Goto, process, TypeInv, TypeOK, CallInv, Inv, OwnInv
  <2>2. LeaseInv'
    BY <1>13 DEF DropRuntime, Goto, process, TypeInv, TypeOK, CallInv, Inv, OwnInv,
       LeaseInv, Holds, SessionInv, Active, Kinds
  <2>3. SessionInv'
    BY <1>13 DEF DropRuntime, Goto, process, TypeInv, TypeOK, CallInv, Inv, OwnInv,
       LeaseInv, Holds, SessionInv, Active, Kinds, ClaimInv, Native
  <2>4. QED
    BY <2>1, <2>2, <2>3 DEF Inv
<1>14. ASSUME NEW t \in Threads, ClearKeys(t)
      PROVE  Inv'
  <2>1. OwnInv'
    BY <1>14 DEF ClearKeys, Goto, objects, TypeInv, TypeOK, CallInv, Inv, OwnInv
  <2>2. LeaseInv'
    BY <1>14 DEF ClearKeys, Goto, objects, TypeInv, TypeOK, CallInv, Inv, OwnInv, LeaseInv,
       Holds, SessionInv, Active, Kinds
  <2>3. SessionInv'
    BY <1>14 DEF ClearKeys, Goto, objects, TypeInv, TypeOK, CallInv, Inv, OwnInv, LeaseInv,
       Holds, SessionInv, Active, Kinds, ClaimInv, Native
  <2>4. QED
    BY <2>1, <2>2, <2>3 DEF Inv
<1>15. ASSUME NEW t \in Threads, Disown(t)
      PROVE  Inv'
  <2>1. OwnInv'
    BY <1>15 DEF Disown, Goto, process, TypeInv, TypeOK, CallInv, Inv, OwnInv
  <2>2. LeaseInv'
    BY <1>15 DEF Disown, Goto, process, TypeInv, TypeOK, CallInv, Inv, OwnInv, LeaseInv,
       Holds, SessionInv, Active, Kinds
  <2>3. SessionInv'
    BY <1>15 DEF Disown, Goto, process, TypeInv, TypeOK, CallInv, Inv, OwnInv, LeaseInv,
       Holds, SessionInv, Active, Kinds, ClaimInv, Native
  <2>4. QED
    BY <2>1, <2>2, <2>3 DEF Inv
<1>16. ASSUME NEW t \in Threads, ReleaseLease(t)
      PROVE  Inv'
  <2>1. OwnInv'
    BY <1>16 DEF ReleaseLease, Goto, Return, objects, TypeInv, TypeOK, CallInv, Inv, OwnInv
  <2>2. LeaseInv'
    BY <1>16 DEF ReleaseLease, Goto, Return, objects, TypeInv, TypeOK, CallInv, Inv,
       OwnInv, LeaseInv, Holds, SessionInv, Active, Kinds
  <2>3. SessionInv'
    BY <1>16 DEF ReleaseLease, Goto, Return, objects, TypeInv, TypeOK, CallInv, Inv,
       OwnInv, LeaseInv, Holds, SessionInv, Active, Kinds, ClaimInv, Native
  <2>4. QED
    BY <2>1, <2>2, <2>3 DEF Inv
<1>17. ASSUME NEW t \in Threads, MarkClosed(t)
      PROVE  Inv'
  <2>1. OwnInv'
    BY <1>17 DEF MarkClosed, Return, process, TypeInv, TypeOK, CallInv, Inv, OwnInv
  <2>2. LeaseInv'
    BY <1>17 DEF MarkClosed, Return, process, TypeInv, TypeOK, CallInv, Inv, OwnInv,
       LeaseInv, Holds, SessionInv, Active, Kinds
  <2>3. SessionInv'
    BY <1>17 DEF MarkClosed, Return, process, TypeInv, TypeOK, CallInv, Inv, OwnInv,
       LeaseInv, Holds, SessionInv, Active, Kinds, ClaimInv, Native
  <2>4. QED
    BY <2>1, <2>2, <2>3 DEF Inv
<1>18. CASE UNCHANGED vars
  BY <1>18 DEF vars, Active, CallInv, ClaimInv, Holds, Inv, Kinds, LeaseInv, Native,
     OwnInv, SessionInv, TypeInv, TypeOK, objects, process, Inv
<1>19. QED
  BY <1>1, <1>2, <1>3, <1>4, <1>5, <1>6, <1>7, <1>8, <1>9, <1>10, <1>11, <1>12, <1>13,
     <1>14, <1>15, <1>16, <1>17, <1>18 DEF Next, Step

\* At most one OpenFHE session of a process has a runtime, however creations
\* race, fail and follow each other.
THEOREM OneActiveSession == ~Shared => (Spec => []OneActive)
<1> SUFFICES ASSUME ~Shared
             PROVE  Spec => []OneActive
  OBVIOUS
<1>1. Init => TypeInv /\ Inv
  BY InitTypeInv, InitInv
<1>2. TypeInv /\ Inv /\ [Next]_vars => (TypeInv /\ Inv)'
  BY StepTypeInv, StepInv
<1>3. Inv => OneActive
  BY DEF Inv, LeaseInv, Holds, SessionInv, OneActive
<1>4. QED
  BY <1>1, <1>2, <1>3, PTL DEF Spec

\* The end or the failed start of one session never clears the keys another
\* session computes with.
THEOREM KeysStay == ~Shared => (Spec => []KeysPresent)
<1> SUFFICES ASSUME ~Shared
             PROVE  Spec => []KeysPresent
  OBVIOUS
<1>1. Init => TypeInv /\ Inv
  BY InitTypeInv, InitInv
<1>2. TypeInv /\ Inv /\ [Next]_vars => (TypeInv /\ Inv)'
  BY StepTypeInv, StepInv
<1>3. TypeInv /\ Inv => KeysPresent
  BY DEF TypeInv, TypeOK, CallInv, Inv, SessionInv, KeysPresent, Active
<1>4. QED
  BY <1>1, <1>2, <1>3, PTL DEF Spec

\* The lease is never lost: whoever holds it can still give it back.
THEOREM LeaseNotLost == ~Shared => (Spec => []LeaseOwned)
<1> SUFFICES ASSUME ~Shared
             PROVE  Spec => []LeaseOwned
  OBVIOUS
<1>1. Init => TypeInv /\ Inv
  BY InitTypeInv, InitInv
<1>2. TypeInv /\ Inv /\ [Next]_vars => (TypeInv /\ Inv)'
  BY StepTypeInv, StepInv
<1>3. Inv => LeaseOwned
  BY DEF Inv, LeaseInv, Holds, LeaseOwned
<1>4. QED
  BY <1>1, <1>2, <1>3, PTL DEF Spec

=============================================================================
