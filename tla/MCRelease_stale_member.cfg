SPECIFICATION Spec
CONSTANTS
  USER_MAX = 2
  ROOM_MAX = 1
  ROOM_USER_MAX = 2
  ROOM_HISTORY_LEN = 1
  Texts = {hi}
  NoChat = NoChat
  Persons = {ann, ben}
  Nobody = Nobody
  MaxOpen = 1
  MaxMembers = 2
  MaxLog = 1
INVARIANTS
  OnlyTheAdmitted
