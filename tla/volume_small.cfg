SPECIFICATION Spec
CONSTANTS
  NumSectors = 9
  CatalogTrack = {4}
  InitialFree = {1, 2, 3, 4, 5, 6, 7, 8}
  NumSlots = 2
  a = a
  b = b
  long = long
  p1 = p1
  p2 = p2
  Names = {a, b}
  LongNames = {}
  Truncated <- MCTruncated
  Kinds = {"B", "T"}
  Payloads = {p1, p2}
  Size <- SmallSizes
  SectorBytes = 2
  MaxPairs = 3
  Unused = Unused
  Missing = Missing
  Garbled = Garbled
INVARIANTS TypeOK UsedMarked NoCrossLink NoLeak UniqueNames CountsMatch
PROPERTY ImplementsFileStore
