SPECIFICATION Spec
CONSTANTS
  Procs = {p1, p2}
  Names = {a, b}
  Values = {v1, v2}
  Bundles = {k1}
  MaterialFiles = {f1}
  Overlap = "none"
  Rewrite = TRUE
  Manifest = Manifest
  Torn = Torn
  None = None
SYMMETRY Symmetry
INVARIANTS
  TypeOK
  RecordMatchesFile
  LoadSound
  SaveFailsOnlyUninitialised
PROPERTIES
  ImplementsStore
