SPECIFICATION Spec
CONSTANTS
  f = f
  g = g
  Names = {f, g}
  HomeOf <- Homes
  Disks <- AllDisks
  NoFile = NoFile
  NoHeader = NoHeader
  NotMounted = NotMounted
INVARIANTS TypeOK FilesSurvive TakenForTheSame SectorsApart
