---------------------------- MODULE MCRunStore -----------------------------
(***************************************************************************)
(* Instances of RunStore for TLC.                                          *)
(***************************************************************************)
EXTENDS RunStore, TLC

CONSTANTS o1, o2 \* model values: two operations

MCOps == {o1, o2}
MCInputs == {"in"}

RequestsWith(flags) ==
  [op : MCOps, left : MCInputs, output : 1..NumOutputs, overwrite : flags]

FailClosedRequests == RequestsWith({FALSE})
ReplacingRequests == RequestsWith({TRUE})
MixedRequests == RequestsWith(BOOLEAN)

Symmetry == Permutations(Attempts) \cup Permutations(MCOps)

=============================================================================
