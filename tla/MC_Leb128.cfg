CONSTANTS
  Payload = 2
  W8 = 3
  W32 = 5
  W64 = 7
  MaxLen = 4
  Inputs <- AllInputs
SPECIFICATION Spec
INVARIANTS DecoderInv DecodesEncodings
CHECK_DEADLOCK FALSE
