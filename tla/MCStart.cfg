SPECIFICATION Spec
CONSTANTS
  p1 = p1
  p2 = p2
  d1 = d1
  d2 = d2
  f1 = f1
  f2 = f2
  old = old
  Proc <- TwoProcs
  Conf <- MCConf
  Db <- TwoDbs
  DefaultDb = d1
  Tagged <- MCTagged
  Before <- MCBefore
INVARIANTS
  TypeOK
  StartedIsSettled
  AssertSets
  AssertReplaces
PROPERTIES
  SendEnds
  DriverWaitEnds
  NewReturns
CHECK_DEADLOCK FALSE
