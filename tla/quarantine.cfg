SPECIFICATION Spec
CONSTANTS
  a = a
  a2 = a2
  b = b
  Paths = {p1, p2, p3}
  Contents = {a, a2, b}
  ActiveOf <- Actives
  CanFill = FALSE
  MaxStore = 4
  Absent = Absent
  Torn = Torn
  Nothing = Nothing
INVARIANTS TypeOK ImagesSurvive KeptStays NoGhosts
SYMMETRY Symmetry
