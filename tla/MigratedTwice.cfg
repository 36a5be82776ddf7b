SPECIFICATION ComposedSpec
CONSTANTS
  p1 = p1  p2 = p2  m1 = m1  k1 = k1  k2 = k2  w1 = w1
  Processes = {p1}
  Tools = {m1}
  Cabinets <- MCCabinets
  Seeded <- MCSeeded
  Calls = {k1}
  Watches = {w1}
  Latest = 2
  Nobody = Nobody
  MaxFaults = 0
INVARIANTS
  RerunIsNoOp
