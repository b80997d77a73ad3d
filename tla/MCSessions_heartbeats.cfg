SPECIFICATION Spec
CONSTANTS
  Clients = {ann, ben}
  Beating = {ann, ben}
  NoClient = NoClient
  NoBeat = NoBeat
  USER_MAX = 3
  FIRST_FD = 6
  NFDS = 2
  Requests = {"single", "history", "chat"}
  Lines = {"word", "blank"}
  MaxInflight = 1
  MaxBeats = 1
  MaxLines = 1
SYMMETRY Interchangeable
INVARIANTS
  FdsetIsOpen
  NoOrphan
  BlockedOnlyByGhost
PROPERTIES
  IdentityStable
CHECK_DEADLOCK FALSE
