CONSTANTS
  Orgs = {o1, o2}
  Users = {u1}
  Invoices = {v1, v2}
  Names = {n1}
  NoName = NoName
  Requests = {r1, r2}
  None = None
SYMMETRY Perms
SPECIFICATION Spec
INVARIANTS
  TypeOK
  NamesDistinct
  DeletionDamage
