SPECIFICATION Spec
CONSTANTS
  c1 = c1
  c2 = c2
  Clients = {c1, c2}
  Installed <- GogupAndAny
  TIME_VAL_SECONDS = 1
  CLIENT_SECONDS = 1
  MaxBeats = 1
INVARIANTS
  TypeOK
  NeverSilent
PROPERTIES
  ManagerHeard
  ReleaseHeard
