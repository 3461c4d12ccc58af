SPECIFICATION Spec
CONSTANTS
  Procs = {p1, p2}
  Names = {a, b}
  Values = {v1, v2}
  Bundles = {k1}
  MaterialFiles = {f1}
  Overlap = "writers"
  Rewrite = FALSE
  Manifest = Manifest
  Torn = Torn
  None = None
SYMMETRY Symmetry
PROPERTIES
  RecordsPersist
