---------------------------- MODULE MCWorkspace ----------------------------
(* Small instances of Workspace for TLC.                                   *)
EXTENDS Workspace, TLC

\* Processes, artifacts, ciphertexts, bundles and material files are
\* interchangeable: no definition compares two of them but by equality.
Symmetry ==
  Permutations(Procs) \cup Permutations(Names) \cup Permutations(Values)
    \cup Permutations(Bundles) \cup Permutations(MaterialFiles)

=============================================================================
