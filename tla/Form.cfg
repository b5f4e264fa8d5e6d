SPECIFICATION Spec
CONSTANTS
  Boundary <- MCBoundary
  Names = {"N1", "N2", "N;"}
  SplitNames = {"N;"}
  Forms <- MCForms
  Foreign <- MCForeign
  Paths = {"/form", "/Form", "/big", "/file"}
  Lower <- MCLower
  Methods = {"GET", "POST"}
  Views <- MCViews
  Routes <- MCRoutes
  Targets <- MCTargets
  KeepAlive = {FALSE}
  MaxRequests = 2
INVARIANTS FormIsFaithful GoodFormIsParsed WaitsOnlyForData LengthMatches RightView
PROPERTY ParseReturns
CHECK_DEADLOCK FALSE
