SPECIFICATION Spec
CONSTANTS
  Boundary <- MCBoundary
  Names = {"N1", "N2", "N;"}
  SplitNames = {"N;"}
  Forms <- MCForms
  Foreign <- MCForeign
  Paths = {"/form", "/Form", "/big", "/file"}
  Lower <- MCLower
  Methods = {"GET", "POST"}
  Views <- MCViews
  Routes <- MCRoutes
  Targets <- MCTargets
  KeepAlive = {TRUE}
  MaxRequests = 2
INVARIANT FormIsFaithful
CHECK_DEADLOCK FALSE
