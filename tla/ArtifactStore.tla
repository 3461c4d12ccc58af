--------------------------- MODULE ArtifactStore ---------------------------
(***************************************************************************)
(* What a workspace promises: a map from artifact names to ciphertexts.    *)
(* A save that does not finish may lose the previous value of its own name *)
(* and of no other; a load answers with the value that the last finished   *)
(* save of the name stored, or does not answer.                            *)
(***************************************************************************)
CONSTANTS Procs, Names, Values, None, Lost

VARIABLES
  store,    \* name -> value, None when never saved, Lost when not loadable
  request   \* process -> its pending request, the answer to the last one, or None

vars == <<store, request>>

Pending(p, op) == request[p] # None /\ request[p].op = op

Init ==
  /\ store = [n \in Names |-> None]
  /\ request = [p \in Procs |-> None]

Ask(p) ==
  /\ ~Pending(p, "save") /\ ~Pending(p, "load")
  /\ \E op \in {"save", "load"}, n \in Names, v \in Values \cup {None} :
       /\ (op = "load") <=> (v = None)
       /\ request' = [request EXCEPT ![p] = [op |-> op, name |-> n, val |-> v]]
  /\ UNCHANGED store

\* Overwriting has begun: the old value can no longer be loaded.
Spoil(p) ==
  /\ Pending(p, "save") /\ store[request[p].name] # None
  /\ store' = [store EXCEPT ![request[p].name] = Lost]
  /\ UNCHANGED request

\* The value is stored, at the end of the save or, when it is the value that
\* was lost there, before.
Put(p) ==
  /\ Pending(p, "save")
  /\ store' = [store EXCEPT ![request[p].name] = request[p].val]
  /\ \/ request' = [request EXCEPT ![p] = None]
     \/ store[request[p].name] = Lost /\ UNCHANGED request

Answer(p) ==
  /\ Pending(p, "load") /\ store[request[p].name] \in Values
  /\ request' = [request EXCEPT
                   ![p] = [op |-> "answer", name |-> @.name, val |-> store[@.name]]]
  /\ UNCHANGED store

\* The request failed, its process died, or its answer is forgotten.
Drop(p) ==
  /\ request[p] # None
  /\ request' = [request EXCEPT ![p] = None]
  /\ UNCHANGED store

Next == \E p \in Procs : Ask(p) \/ Spoil(p) \/ Put(p) \/ Answer(p) \/ Drop(p)

Spec == Init /\ [][Next]_vars

=============================================================================
