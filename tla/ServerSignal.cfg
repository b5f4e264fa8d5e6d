CONSTANTS
  Connections = {c1, c2}
  Loops = {l1}
  Workers = {w1, w2}
  Stoppers = {}
  NoConnection = NoConnection
  Null = Null
  NoThread = NoThread
  MaxRuns = 2
  MaxStops = 0
  MaxSignals = 2
SPECIFICATION Spec
INVARIANTS TypeOK CloseMeansClose NothingLeft
PROPERTIES SignalStops RequestTaken
CHECK_DEADLOCK FALSE
