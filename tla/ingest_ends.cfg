SPECIFICATION FairSpec
CONSTANTS
  m = m
  w1 = w1
  w2 = w2
  g1 = g1
  g2 = g2
  p1 = p1
  u1 = u1
  q1 = q1
  Main = m
  Workers = {w1, w2}
  Images = {g1, u1, p1}
  Unreadable = {u1}
  Panicking = {p1}
  Partial = {}
  Strict = {}
  CanAbort = TRUE
  MaxIngests = 1
  Cap = 1
  NoImage = NoImage
  Nil = Nil
PROPERTY IngestEnds
