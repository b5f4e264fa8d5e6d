SPECIFICATION Spec
CONSTANTS
  Keys = {k1, k2, k3}
  Clients = {c1, c2, c3, c4}
  None = none
  Parts = 2
INVARIANTS PoolIsUsable RightServer SentOnce
