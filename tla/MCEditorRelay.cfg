SPECIFICATION FairSpec
CONSTANTS
  Clients = {c1, c2}
  Edits = {e1}
  Original = original
  Cloned = TRUE
  Restarts = TRUE
CHECK_DEADLOCK FALSE
INVARIANTS
  TypeOK
  NoEcho
  CausallyClosed
  Converging
PROPERTIES
  EveryEditShown
  ImplementsSharedDraft
