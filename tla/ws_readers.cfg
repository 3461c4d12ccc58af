SPECIFICATION Spec
CONSTANTS
  Procs = {p1, p2}
  Names = {a, b}
  Values = {v1, v2}
  Bundles = {k1, k2}
  MaterialFiles = {f1, f2}
  Overlap = "readers"
  Rewrite = FALSE
  Manifest = Manifest
  Torn = Torn
  None = None
SYMMETRY Symmetry
INVARIANTS
  ManifestWhole
  KeysMatchIdentity
