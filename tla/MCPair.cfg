SPECIFICATION Spec
CONSTANTS
  a = a
  b = b
  c = c
  Nil = Nil
  Obj <- Pair
  Field <- MCField
  Type <- MCType
  TypeOf <- MCTypeOf
  Outgoing <- MCOutgoing
  Label <- MCLabel
  LabelOf <- MCLabelOf
  Opposite <- MCOpposite
  Depths <- ZeroToTwo
  MaxEdits = 3
  OneSided = TRUE
  MaxAttempts = 2
INVARIANTS
  TypeOK
  SaveMirrors
  IdMeansStored
  OneNodePerObject
  StoreInv
PROPERTIES
  SaveRemoves
  SaveFrame
CHECK_DEADLOCK FALSE
