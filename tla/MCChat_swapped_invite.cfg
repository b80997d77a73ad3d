SPECIFICATION ChatSpec
CONSTANTS
  Users = {0, 1}
  Rooms = {0, 1}
  Texts <- OnceEach
  NoOwner = NoOwner
  NoRoom = NoRoom
  Latest = 1
  MaxLog = 1
  MaxUp = 1
  MaxDown = 1
PROPERTIES
  InvitesTheNamed
CHECK_DEADLOCK FALSE
