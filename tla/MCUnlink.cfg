SPECIFICATION Spec
CONSTANTS
  a = a
  b = b
  c = c
  Nil = Nil
  Obj <- Triple
  Field <- MCField
  Type <- MCType
  TypeOf <- MCTypeOf
  Outgoing <- MCOutgoing
  Label <- MCLabel
  LabelOf <- MCLabelOf
  Opposite <- MCOpposite
  Depths <- Deep
  MaxEdits = 4
  OneSided = FALSE
  MaxAttempts = 1
PROPERTY UnlinkSaves
CHECK_DEADLOCK FALSE
