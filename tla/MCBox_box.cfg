SPECIFICATION Spec
CONSTANTS
  a = a
  b = b
  nl = nl
  W = 2
  H = 3
  Texts <- SomeTexts
  Newline = nl
  Space = Space
  Zero = Zero
  Junk = Junk
  MaxPos = 18
CHECK_DEADLOCK FALSE
INVARIANTS
  TypeOK
  OnTerminal
PROPERTIES
  ImplementsScroll
