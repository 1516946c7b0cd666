CONSTANTS
  Calls = {c1, c2}
  HomeEnv = "unset"
  None = None
SYMMETRY Perms
SPECIFICATION Spec
INVARIANTS
  TypeOK
  EnvironmentNests
  
  NothingLeftInjected
