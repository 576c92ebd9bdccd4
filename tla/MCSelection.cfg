SPECIFICATION Spec
CONSTANTS
  None = None
  Clients = {c1, c2}
  Documents <- PlainDocuments
  MaxEmits = 2
  MaxInputs = 3
SYMMETRY TabSymmetry
CHECK_DEADLOCK FALSE
INVARIANTS
  TypeOK
  OffsetsAgree
  OneHighlightPerSelection
  
  SelectionIsCurrent
