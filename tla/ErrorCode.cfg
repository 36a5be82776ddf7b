SPECIFICATION Spec
CONSTANTS
  c1 = c1  c2 = c2  c3 = c3
  a = a  b = b  x = x
  k1 = k1  k2 = k2
  Nobody = Nobody
  Calls <- TwoCalls
  Cabinets <- MCCabinets
  CabinetIds <- MCCabinetIds
  InitStock <- TwoAndOne
  Keys = {k1, k2}
  Users <- MCUsers
  Trim <- MCTrim
  Requests <- Repeated
  PoolSize = 3
INVARIANTS
  DomainErrorsHaveCodes
