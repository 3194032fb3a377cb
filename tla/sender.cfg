SPECIFICATION FairSpec
CONSTANTS
  w1 = w1  w2 = w2
  Writer = {w1, w2}
INVARIANTS TypeOK FlagAtRest
PROPERTIES LossIsNoticed StopDisconnects OpenIsWritten KeepsLink
CHECK_DEADLOCK FALSE
