SPECIFICATION FairSpec
CONSTANTS
  VGA_WIDTH = 6
  ROWS = 2
  SCROLLBACK_LINES = 1
  Chars = {"a", "d", "k", "p", ">", " ", "?", "^", "C"}
  BUF_SIZE = 2
  HISTORY_MAX = 2
  MaxLen = 3
  Bytes <- MCBytes
  Letters = {"a", "d", "k", "p"}
  Histories <- MCHistories
  Held = {{}, {"ctrl"}}
  MaxBytes = 4
INVARIANTS
  
  
  
  HistoryDiffers
  NoPhantomKey
PROPERTY EnterReturns
CHECK_DEADLOCK FALSE
