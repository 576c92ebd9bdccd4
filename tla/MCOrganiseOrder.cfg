SPECIFICATION OrganiseSpec
CONSTANTS
  h1 = h1
  h2 = h2
  h3 = h3
  c1 = c1
  c2 = c2
  Clients = {c1, c2}
  Highlights = {h1, h2, h3}
  Tags = {t1, t2}
  Untagged = Untagged
  Label = Label
  Scenes <- OnePage
CHECK_DEADLOCK FALSE
INVARIANTS
  ReorderPersists
