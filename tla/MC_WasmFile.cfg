CONSTANTS
  Payload = 7
  W8 = 8
  W32 = 10
  W64 = 17
  Garbage = {0, 1, 5, 200}
  Inputs <- AllInputs
SPECIFICATION Spec
INVARIANTS FileInv ParsesModules CutKeepsEarlierSections HangsOnlyInSizes
CHECK_DEADLOCK FALSE
