SPECIFICATION Spec
CONSTANTS
  m = m
  w1 = w1
  w2 = w2
  g1 = g1
  g2 = g2
  p1 = p1
  u1 = u1
  q1 = q1
  Main = m
  Workers = {w1, w2}
  Images = {g1, g2, q1}
  Unreadable = {}
  Panicking = {}
  Partial = {q1}
  Strict = {g1}
  CanAbort = TRUE
  MaxIngests = 2
  Cap = 1
  NoImage = NoImage
  Nil = Nil
SYMMETRY TwoWorkers
INVARIANTS TypeOK EachImageOnce NoImageIsLost CountsAgree ReportAddsUp FingerprintsAreWhole
