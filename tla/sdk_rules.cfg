SPECIFICATION Spec
CONSTANTS
  Sessions = {s1, s2}
  Contexts = {c1, c2}
  Recipients = {r1}
  Slots = {x1, x2}
  Directories = {d1, d2}
  Names = {n1}
  Versions = {v1, v2}
  MaxHeld = 3
  MaxLevels = 2
  Lengths = {2}
  MaxDepth = 2
  None = None
CHECK_DEADLOCK FALSE
SYMMETRY Symmetry
CONSTRAINT WithinBounds
INVARIANTS TypeOK LevelCoversDepth DecryptsRight AnalystsReadAggregates ReleasedIsLoadable
