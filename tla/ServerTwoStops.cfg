CONSTANTS
  Connections = {c1}
  Loops = {l1}
  Workers = {w1}
  Stoppers = {s1}
  NoConnection = NoConnection
  Null = Null
  NoThread = NoThread
  MaxRuns = 1
  MaxStops = 1
  MaxSignals = 1
SPECIFICATION Spec
INVARIANT OneStopAtATime
CHECK_DEADLOCK FALSE
