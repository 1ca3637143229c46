CONSTANTS
  Codes <- AllBodies
  MaxIndex = 2
SPECIFICATION Spec
INVARIANTS TypeOK UndefinedOnlyBehindIf
PROPERTIES BackwardOnlyIntoEnclosingLoop ForwardNeverOvershoots LoopFreeStops
CHECK_DEADLOCK FALSE
