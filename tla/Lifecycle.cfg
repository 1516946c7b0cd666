CONSTANTS
  Requests = {r1, r2}
  Workers = {w1}
  MaxAttempts = 2
  MaxStalled = 1
SYMMETRY Perms
SPECIFICATION Spec
INVARIANTS
  TypeOK
  CertifiedIsComplete
  AcceptedOnce
  NothingStranded
  
PROPERTIES
  CertifiedIsFinal
  ImplementsContract
