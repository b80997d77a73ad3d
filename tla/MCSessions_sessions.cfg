SPECIFICATION FairSpec
CONSTANTS
  Clients = {ann, ben, cho}
  Beating = {}
  NoClient = NoClient
  NoBeat = NoBeat
  USER_MAX = 3
  FIRST_FD = 6
  NFDS = 3
  Requests = {"single"}
  Lines = {"word"}
  MaxInflight = 1
  MaxBeats = 1
  MaxLines = 1
INVARIANTS
  TypeOK
  SlotFdLockstep
  ReadNeverBlocks
  ClientIdIsItsSlot
  Inductive
PROPERTIES
  ImplementsIdentity
  RegisterAnswered
  SlotsComeFree
CHECK_DEADLOCK FALSE
