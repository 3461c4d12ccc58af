------------------------ MODULE MCEvaluationServices ------------------------
(***************************************************************************)
(* Instances of EvaluationServices for TLC.                                *)
(***************************************************************************)
EXTENDS EvaluationServices, TLC

CONSTANTS m1, m2

\* A request to evaluate with material of m1, and one of a demo.
Evaluating(op, pub, keys, count) ==
  [path |-> "evaluate", op |-> op, of |-> m1, right |-> op \in Binary, pub |-> pub,
   keys |-> keys, count |-> count, id |-> TRUE]

Demo(path, op, count, id) ==
  [path |-> path, op |-> op, of |-> m1, right |-> op \in Binary, pub |-> FALSE,
   keys |-> <<>>, count |-> count, id |-> id]

\* For the CPU image: the keys of the context and those of another one, the legacy
\* field alone for variance, and the demos.
CpuBodies ==
  {Evaluating("multiply", FALSE, "evaluation_keys" :> m1, None),
   Evaluating("multiply", FALSE, "multiplication_keys" :> m2, None),
   Demo("demo_sum", "sum", 6, TRUE),
   Demo("bgv", "multiply", 2, FALSE)}

\* For the GPU image: keys in two fields, in the legacy field alone, and the demos.
GpuBodies ==
  {Evaluating("sum", TRUE, "evaluation_keys" :> m1, 17),
   Evaluating("variance", TRUE, "evaluation_keys" :> m1, 5),
   Demo("demo", "mean", 3, TRUE),
   Demo("demo_sum", "sum", 6, TRUE)}

MCBodies == [i \in {"cpu", "gpu"} |-> IF i = "cpu" THEN CpuBodies ELSE GpuBodies]

MCMaterials == Ids \cup {m1, m2}

=============================================================================
