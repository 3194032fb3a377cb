SPECIFICATION FairSpec
CONSTANTS
  c1 = c1  c2 = c2  t1 = t1  t2 = t2
  Channel = {c1}
  Thread = {t1, t2}
  QueueSize = 1
  MaxLogins = 2
  MaxFrames = 2
INVARIANTS TypeOK HandlerPresent EchoMeansServed SessionEnds
PROPERTIES LoginServes VanishedIsNoticed
CHECK_DEADLOCK FALSE
