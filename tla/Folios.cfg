CONSTANTS
  Orgs = {o1, o2}
  Creates = {c1, c2, c3}
  Assigns = {a1, a2}
  Quantities <- MCQuantities
  SeedTotal = 3
  SeedAmount = 2
  MaxPools = 2
  MaxClock = 2
  NoRow = NoRow
  NoOrg = NoOrg
  NoStart = NoStart
  NaN = NaN
SYMMETRY Perms
SPECIFICATION Spec
INVARIANTS
  TypeOK
  ConsumedWithinAssigned
  
  FolioInRange
  ExactUnlessRaced
  
  PoolBooks
 
CHECK_DEADLOCK FALSE
