SPECIFICATION Spec
CONSTANTS
  c1 = c1  c2 = c2  c3 = c3
  a = a  b = b  x = x
  k1 = k1  k2 = k2
  Nobody = Nobody
  Calls <- ThreeCalls
  Cabinets <- MCCabinets
  CabinetIds <- MCCabinetIds
  InitStock <- TwoAndOne
  Keys = {k1, k2}
  Users <- MCUsers
  Trim <- MCTrim
  Requests <- NamedOnce
  PoolSize = 3
SYMMETRY CallSymmetry
PROPERTIES
  ImplementsShop
