SPECIFICATION Spec
CONSTANTS
  d1 = d1
  d2 = d2
  d3 = d3
  Daemons = {d1, d2, d3}
  c1 = c1
  Clients = {c1}
  MaxSent = 3
  MaxWritten = 4
SYMMETRY MCSymmetry
INVARIANTS
  ServesItsPath
  AloneStarts
  LinkInv
CHECK_DEADLOCK FALSE
