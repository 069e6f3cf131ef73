SPECIFICATION Spec
CONSTANTS
  d1 = d1
  d2 = d2
  x = x
  Dirs = {d1, d2}
  Bases = {x}
  Typed <- AllNames
  Names = {1, 2}
  MaxVol = 2
  MaxNow = 0
  CanFill = FALSE
  Absent = Absent
  Torn = Torn
  Empty = Empty
INVARIANTS MemoryIsOnDisk
