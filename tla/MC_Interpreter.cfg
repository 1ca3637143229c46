CONSTANTS
  Modules <- ValidModules
  Values = {0, 1}
  MaxDepth = 3
  MaxStack = 6
SPECIFICATION Spec
INVARIANTS StackInv StackAsValidated VarsAsValidated 
PROPERTIES CalleeKeepsCallerOperands RunEnds
CHECK_DEADLOCK FALSE
