CONSTANTS
  Codes <- LoopBodies
  MaxIndex = 2
SPECIFICATION Spec
PROPERTY BranchRestartsLoop
CHECK_DEADLOCK FALSE
