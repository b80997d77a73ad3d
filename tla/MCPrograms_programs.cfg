SPECIFICATION Spec
CONSTANTS
  Ids = {0, 1}
  NoRoom = NoRoom
INVARIANTS
  TypeOK
  SameConversation
PROPERTIES
  ImplementTerminal
