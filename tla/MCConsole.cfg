SPECIFICATION Spec
CONSTANTS
  VGA_WIDTH = 2
  ROWS = 3
  SCROLLBACK_LINES = 3
  Chars = {"a", " "}
  Texts <- MCTexts
  MaxOps <- MCMaxOps
INVARIANTS
  RingIsHistory
  ViewIsWindow
  ViewKeepsScreen
  
CHECK_DEADLOCK FALSE
