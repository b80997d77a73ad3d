SPECIFICATION VersionsSpec
CONSTANTS
  USER_MAX = 2
  ROOM_MAX = 2
  ROOM_USER_MAX = 2
  ROOM_HISTORY_LEN = 1
  Texts = {hi}
  NoChat = NoChat
  NoOwner = NoOwner
  Persons = {ann, ben, cho}
  Nobody = Nobody
  MaxOpen = 2
  MaxMembers = 2
  MaxLog = 2
SYMMETRY Interchangeable
INVARIANTS
  OldTypeOK
  OldHistoryKept
  OpenRoomsAgree
  ChatsAgree
  AnswersAgree
