SPECIFICATION ChatSpec
CONSTANTS
  Users = {0, 1}
  Rooms = {0, 1}
  Texts <- OnceEach
  NoOwner = NoOwner
  NoRoom = NoRoom
  Latest = 1
  MaxLog = 2
  MaxUp = 1
  MaxDown = 1
INVARIANTS
  ChatTypeOK
  OwnedByMember
  OneRoomOnScreen
  NothingMissed
  SaidAsSelfOrZero
  StrangersSeeNothing
CONSTRAINT CrossWhenQuiet
CHECK_DEADLOCK FALSE
