SPECIFICATION Spec
CONSTANTS
  None = None
  Clients = {c1, c2}
  Edits = {e1, e2, e3}
  DocIds = {d1, d2, d3}
  Kinds = {"typed", "forced"}
  Worlds <- AllPeers
SYMMETRY PeerSymmetry
CHECK_DEADLOCK FALSE
INVARIANTS
  TypeOK
  OneDocument
  SavedMeansDurable
  UnsavedIsDirty
PROPERTIES
  DirtyUntilWritten
