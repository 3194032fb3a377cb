SPECIFICATION Spec
CONSTANTS
  p = p  q = q  t1 = t1  t2 = t2
  Self = Self
  Unset = Unset
  Peer = {p, q}
  Accepting = {p}
  Thread = {t1, t2}
INVARIANT MapFollowsZk
CHECK_DEADLOCK FALSE
