SPECIFICATION FairSpec
CONSTANTS
  Clients = {ann, ben, cho}
  Beating = {ann}
  NoClient = NoClient
  NoBeat = NoBeat
  USER_MAX = 4
  FIRST_FD = 6
  NFDS = 3
  Requests = {}
  Lines = {}
  MaxInflight = 1
  MaxBeats = 1
  MaxLines = 0
PROPERTIES
  AnsweredAfterHeartbeats
CHECK_DEADLOCK FALSE
