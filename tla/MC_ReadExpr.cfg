CONSTANTS
  Payload = 7
  W8 = 8
  W32 = 10
  W64 = 17
  RawBytes = {0, 2, 4, 5, 11, 14, 28, 40, 65}
  MaxRaw = 4
  Inputs <- AllInputs
SPECIFICATION Spec
INVARIANTS ReadInv DecodesImmediates ResultIsBalanced
CHECK_DEADLOCK FALSE
