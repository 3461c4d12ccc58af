----------------------------- MODULE RunLedger -----------------------------
(***************************************************************************)
(* What a run of he_worker promises: a table of outputs in which an        *)
(* attempt puts its result in one step or not at all, never over a result  *)
(* it was not asked to replace.                                            *)
(***************************************************************************)
EXTENDS Naturals

CONSTANTS Attempts, Inputs, Ops, NumOutputs, Requests, None

VARIABLES output, \* output -> result, or None
          stage,  \* attempt -> how far it has come
          asked   \* attempt -> its request, or None

Outputs == 1..NumOutputs

Init ==
  /\ output = [o \in Outputs |-> None]
  /\ stage = [a \in Attempts |-> "new"]
  /\ asked = [a \in Attempts |-> None]

\* A run that does not exist refuses every attempt.
Begin(a, q) ==
  /\ stage[a] = "new"
  /\ asked' = [asked EXCEPT ![a] = q]
  /\ \E s \in {"working", "raised"} : stage' = [stage EXCEPT ![a] = s]
  /\ UNCHANGED output

Publish(a) ==
  /\ stage[a] = "working"
  /\ output[asked[a].output] = None \/ asked[a].overwrite
  /\ output' = [output EXCEPT ![asked[a].output] = [op |-> asked[a].op, left |-> asked[a].left]]
  /\ stage' = [stage EXCEPT ![a] = "published"]
  /\ UNCHANGED asked

\* A failure before the result is there leaves the table as it was; a crash
\* after it leaves the result.
End(a) ==
  /\ \/ stage[a] = "working" /\ \E s \in {"failed", "raised"} : stage' = [stage EXCEPT ![a] = s]
     \/ stage[a] = "published" /\ \E s \in {"succeeded", "raised"} : stage' = [stage EXCEPT ![a] = s]
  /\ UNCHANGED <<output, asked>>

Next ==
  \E a \in Attempts :
    \/ \E q \in Requests : Begin(a, q)
    \/ Publish(a)
    \/ End(a)

Spec == Init /\ [][Next]_<<output, stage, asked>>

=============================================================================
