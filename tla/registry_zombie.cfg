SPECIFICATION Spec
CONSTANTS
  n1 = n1  n2 = n2  ann = ann  bob = bob
  a1 = a1  a2 = a2  b1 = b1  w1 = w1
  NoSession = NoSession
  Node <- Nodes
  User = {ann, bob}
  Session <- Couple
  HomeOf <- CoupleHomes
  UserOf <- CoupleUsers
  Worker = {}
  WorkerOn <- NoWorker
  Linked = {}
  Crashable = {}
  Expiring = {}
  RedisFaults = FALSE
INVARIANT LogoutCleansCaches
CHECK_DEADLOCK FALSE
