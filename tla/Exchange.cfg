SPECIFICATION Spec
CONSTANTS
  Upper <- MCUpper
  kGzipThreshold = 2
  ChunkSize = 2
  MaxLength = 8
  Urls <- MCUrls
  Pieces <- MCPieces
  Params <- MCParams
  Bodies <- MCBodies
  TheFile <- MCFile
  Fields <- MCFields
  Logins <- MCLogins
  Codes <- MCCodes
  MaxCalls = 3
CHECK_DEADLOCK FALSE
INVARIANTS
  RequestArrives
  HeadersArrive
  ResponseArrives
  ConnectionAgreed
  TempFileOwned
