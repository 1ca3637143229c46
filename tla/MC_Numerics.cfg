CONSTANTS
  W32 = 4
  W64 = 8
  P32 = 4
  P64 = 6
  Words32 <- AllWords
  Words64 <- Limits
  Halves <- Magnitudes
  Infinite = 10000
  NaN = NaN
SPECIFICATION Spec
INVARIANTS IntegersAsSpecified ComparisonsDecide FloatsAsSpecified
PROPERTY HandlersEnd
CHECK_DEADLOCK FALSE
