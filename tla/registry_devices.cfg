SPECIFICATION Spec
CONSTANTS
  n1 = n1  n2 = n2  ann = ann  bob = bob
  a1 = a1  a2 = a2  b1 = b1  w1 = w1
  NoSession = NoSession
  Node <- Nodes
  User = {ann}
  Session <- Devices
  HomeOf <- Apart
  UserOf <- OneUser
  Worker = {w1}
  WorkerOn <- OneWorker
  Linked <- OneWay
  Crashable = {n2}
  Expiring = {}
  RedisFaults = FALSE
INVARIANTS TypeOK NoPhantom LocalNotShadowed OnlineIsListed ClosedIsForgotten BalanceAtRest
CHECK_DEADLOCK FALSE
