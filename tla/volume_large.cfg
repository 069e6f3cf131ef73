SPECIFICATION Spec
CONSTANTS
  NumSectors = 10
  CatalogTrack = {4}
  InitialFree = {1, 2, 3, 4, 5, 6, 7, 8, 9}
  NumSlots = 2
  a = a
  b = b
  long = long
  p1 = p1
  p2 = p2
  Names = {a, b}
  LongNames = {long}
  Truncated <- MCTruncated
  Kinds = {"B", "T"}
  Payloads = {p1, p2}
  Size <- LargeSizes
  SectorBytes = 2
  MaxPairs = 2
  Unused = Unused
  Missing = Missing
  Garbled = Garbled
INVARIANTS UsedMarked NoCrossLink
\* A full catalog stops the program.
CHECK_DEADLOCK FALSE
