SPECIFICATION Spec
CONSTANTS
  Messages <- MCMessages
  Lengths <- MCLengths
  Sizes <- MCSizes
  Width = 5
  MaxMessages = 1
INVARIANT NeverThrows
CHECK_DEADLOCK FALSE
