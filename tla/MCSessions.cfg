SPECIFICATION Spec
CONSTANTS
  s1 = s1
  s2 = s2
  t1 = t1
  t2 = t2
  x1 = x1
  Nil = Nil
  Session <- TwoSessions
  V2 <- OnlyS1
  Tx <- TwoTx
  Save <- OneSave
  Write <- MCWrite
  Statements = 2
  MaxAttempts = 2
SYMMETRY Interchangeable
INVARIANTS
  TypeOK
  NoOrphan
  HandleIsCurrent
  AckedIsApplied
  AutoIsAtomic
  IInv
PROPERTY AcidSpec
CHECK_DEADLOCK FALSE
