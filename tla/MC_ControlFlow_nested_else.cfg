CONSTANTS
  Codes <- IfBodies
  MaxIndex = 2
SPECIFICATION Spec
PROPERTY IfZeroFindsOwnElse
CHECK_DEADLOCK FALSE
