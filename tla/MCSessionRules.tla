--------------------------- MODULE MCSessionRules ---------------------------
(***************************************************************************)
(* Instances of SessionRules for TLC.                                      *)
(***************************************************************************)
EXTENDS SessionRules, FiniteSets, TLC

CONSTANTS
  MaxHeld,     \* values held at a time, by variables and in directories
  MaxLevels    \* levels that these values have used up together

Symmetry ==
  Permutations(Sessions) \cup Permutations(Contexts) \cup Permutations(Recipients)
    \cup Permutations(Slots) \cup Permutations(Directories) \cup Permutations(Versions)

\* A place counts once for holding a value, and once more for each level of it.
PlacesHolding(places, Content(_), levels) ==
  Cardinality({p \in places \X levels : Content(p[1]) # None /\ p[2] <= Content(p[1]).level})

Total(levels) ==
  PlacesHolding(Slots, LAMBDA x : value[x], levels)
    + PlacesHolding(Directories \X Names, LAMBDA a : artifact[a[1]][a[2]], levels)

\* States beyond these bounds are checked, but not continued.
WithinBounds == Total({0}) <= MaxHeld /\ Total(1..MaxDepth) <= MaxLevels

=============================================================================
