CONSTANTS
  Codes <- BenignBodies
  MaxIndex = 1
SPECIFICATION Spec
PROPERTY ImplementsStructured
CHECK_DEADLOCK FALSE
