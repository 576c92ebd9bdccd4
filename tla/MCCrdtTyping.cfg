SPECIFICATION FairSpec
CONSTANTS
  None = None
  Clients = {c1}
  Edits = {e1, e2, e3}
  DocIds = {d1, d2}
  Kinds = {"typed"}
  Worlds <- JustBusy
CHECK_DEADLOCK FALSE
PROPERTIES
  RowNeverForgets
  EveryEditSaved
