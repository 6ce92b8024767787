SPECIFICATION Spec
CONSTANTS
  a = a
  b = b
  c = c
  Nil = Nil
  Obj <- Pair
  Field <- MCField
  Type <- MCType
  TypeOf <- MCTypeOf
  Outgoing <- MCOutgoing
  Label <- MCLabel
  LabelOf <- MCLabelOf
  Opposite <- MCOpposite
  Depths <- ZeroToTwo
  MaxEdits = 3
  OneSided = FALSE
  MaxAttempts = 2
INVARIANT SavedIsStored
CHECK_DEADLOCK FALSE
