SPECIFICATION Spec
CONSTANTS
  a = a
  b = b
  c = c
  d = d
  Nil = Nil
  Obj <- Four
  Field <- MCField
  Type <- MCType
  TypeOf <- MCTypeOf
  Outgoing <- MCOutgoing
  Label <- MCLabel
  LabelOf <- MCLabelOf
  Depths <- Between2
SYMMETRY Interchangeable
INVARIANTS
  WalkCovers
CHECK_DEADLOCK FALSE
