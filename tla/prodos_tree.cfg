SPECIFICATION Spec
CONSTANTS
  NumBlocks = 7
  Root = 2
  InitialFree = {3, 4, 5, 6}
  RootSlots = 1
  SubSlots = 2
  MaxDepth = 2
  a = a
  b = b
  p1 = p1
  p2 = p2
  p3 = p3
  Names = {a, b}
  LongNames = {}
  Truncated <- NoLongNames
  Kinds = {"BIN"}
  Payloads = {p1, p2, p3}
  Size <- FileSizes
  BlockBytes = 2
  IndexSize = 2
  CountWrap = 255
  Never = Never
  Deleted = Deleted
  Missing = Missing
  Garbled = Garbled
INVARIANTS UsedMarked NoCrossLink UniqueNames
SYMMETRY Symmetric
VIEW LiveBlocks
PROPERTY LockedStays
