SPECIFICATION FairSpec
CONSTANTS
  w1 = w1  w2 = w2
  Writer = {w1, w2}
PROPERTY RetryConnects
CHECK_DEADLOCK FALSE
