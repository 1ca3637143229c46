CONSTANTS
  Space = 12
  PageSize = 3
  Word = 2
  Bytes = {0, 1}
  Operands <- SomeOperands
  NarrowWidths = {1}
  Addrs = {0, 1, 2, 3, 4, 10}
  Offsets = {0, 3}
  Lengths = {0, 2, 3}
  Segments <- SomeSegments
  PageCounts = {1, 2, 4}
SPECIFICATION Spec
INVARIANTS TypeOK ChecksAreSound
PROPERTIES StoredCanBeLoaded CopyMovesOrRepeats DroppedSegmentIsDead GrowKeepsBytes
CHECK_DEADLOCK FALSE
