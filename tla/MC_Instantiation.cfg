CONSTANTS
  Space = 16
  PageSize = 12
  Byte = 4
  Word = 2
  MaxCalls = 2
  Modules <- AllModules
  Callers <- HostModules
  Calls <- AllCalls
SPECIFICATION HostSpec
INVARIANTS ConstructorInv BuiltAsDeclared OffsetsReadNoGlobals HostInv
PROPERTIES ReportsWhatItWrote
CHECK_DEADLOCK FALSE
