SPECIFICATION Spec
CONSTANTS
  Messages <- MCMessages
  Lengths <- MCLengths
  Sizes <- MCSizes
  Width = 5
  MaxMessages = 2
INVARIANTS ContentIsFaithful GoodIsParsed WaitsOnlyForData
CHECK_DEADLOCK FALSE
