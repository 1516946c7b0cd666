CONSTANTS
  Orgs = {o1}
  Users = {u1}
  OrgOf <- MCOrgOf
  Stores = {s1, s2, s3}
  Requests = {r1, r2}
  NoCert = NoCert
  NoUser = NoUser
SYMMETRY Perms
SPECIFICATION Spec
INVARIANTS
  TypeOK
  OnlyRacersCoexist
  CertificateKept
  
PROPERTY LoneActivationWins
