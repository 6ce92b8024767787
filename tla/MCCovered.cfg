SPECIFICATION Spec
CONSTANTS
  a = a
  b = b
  c = c
  d = d
  Nil = Nil
  Obj <- Four
  Field <- MCField
  Type <- MCType
  TypeOf <- MCTypeOf
  Outgoing <- MCOutgoing
  Label <- MCLabel
  LabelOf <- MCLabelOf
  Depths <- Covered
SYMMETRY Interchangeable
INVARIANTS
  WalkCovers
  WalkStaysWithin
CHECK_DEADLOCK FALSE
