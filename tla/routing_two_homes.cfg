SPECIFICATION FairSpec
CONSTANTS
  n1 = n1  n2 = n2  bob = bob
  b1 = b1  b2 = b2  b3 = b3  toBob = toBob
  Node = {n1, n2}
  User = {bob}
  Session = {b1, b2}
  Message = {toBob}
  HomeOf <- Homes
  UserOf <- Owners
  From <- FromN1
  To <- ToBob
  Linked <- BothWays
  GotCap = 2
PROPERTY MessageSettles
CHECK_DEADLOCK FALSE
