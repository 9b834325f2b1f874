SPECIFICATION Spec
CONSTANTS
  Blocks = {1, 2, 3}
  NUL = 0
  SSO_CAPACITY = 1
  Npos = 99
  Blank = 1
  MaxTokens = 2
  Objects <- MCObjects
  Temporary = tmp
  s1 = s1
  s2 = s2
  Literals <- MCLiterals
  Letters <- MCLetters
  Positions <- MCPositions
  Counts <- MCCounts
  MaxLen = 3
INVARIANTS
  MemorySafe
  Agree
  
  
SYMMETRY MCSymmetry
CHECK_DEADLOCK FALSE
