SPECIFICATION Spec
CONSTANTS
  USER_MAX = 3
  ROOM_MAX = 2
  ROOM_USER_MAX = 2
  ROOM_HISTORY_LEN = 2
  Texts = {hi}
  NoChat = NoChat
  NoOwner = NoOwner
  MaxOpen = 2
  MaxMembers = 2
  MaxLog = 3
INVARIANTS
  TypeOK
  MembersDistinct
  OffIsBlank
  HistoryIsSuffix
  ListedAreOwn
PROPERTIES
  ImplementsChatrooms
