SPECIFICATION Spec
CONSTANTS
  Keys = {k1}
  Clients = {c1, c2}
  None = none
  Parts = 2
INVARIANT RetryIsComplete
