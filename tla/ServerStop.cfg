CONSTANTS
  Connections = {c1}
  Loops = {l1, l2}
  Workers = {w1, w2}
  Stoppers = {s1}
  NoConnection = NoConnection
  Null = Null
  NoThread = NoThread
  MaxRuns = 2
  MaxStops = 3
  MaxSignals = 0
SPECIFICATION Spec
INVARIANTS OneChain NoOrphan PoolOwnsSockets NoStrayNull WorkersJoined AcceptArmed
PROPERTIES StopReturns StopStopsRun
CHECK_DEADLOCK FALSE
