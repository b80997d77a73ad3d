SPECIFICATION Spec
CONSTANTS
  Frame = 4
  Header = 2
  Entry = 1
  MaxList = 3
  MaxSent = 4
CHECK_DEADLOCK FALSE
PROPERTIES
  ReadWhole
