SPECIFICATION Spec
CONSTANTS
  a1 = a1
  a2 = a2
  b1 = b1
  x = x
  Node <- MCNode
  LabelOf <- MCLabelOf
  Mapped <- MCMapped
  Schemas <- MCSchemas
  Foreign <- MCForeign
  MaxRels = 2
  Requests <- MCRequests
INVARIANTS
  TypeOK
  LoadMapIsHeld
  LoadedWhereSaved
  GeneratedSchemasLoad
  SchemaWithinPath
  StrategiesAgree
  MatchesReturned
CHECK_DEADLOCK FALSE
