SPECIFICATION FairSpec
CONSTANTS
  f1 = f1
  f2 = f2
  g = g
  h = h
  v1 = v1
  v2 = v2
  v3 = v3
  Fingerprints = {f1, f2, g, h}
  PathOf <- MCPathOf
  Stores <- MCStores
  Reports <- MCReports
  Loaders = {"l1", "l2"}
  Comparers = {"c1", "c2"}
  Cap = 1
  Torn = Torn
  EmptySector = EmptySector
  None = None
INVARIANTS TypeOK ReportIsWhole ReportsAgree
PROPERTY ReportEnds
\* The report ends, and the program with it.
CHECK_DEADLOCK FALSE
