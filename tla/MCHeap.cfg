SPECIFICATION Spec
CONSTANTS
  HDR = 4
  WORD = 2
  BLOCK_ALIGN = 4
  MIN_BLOCK = 8
  SIZE_MAX = 255
  Spans <- MCSpans
  Requests = {0, 1, 5, 9, 250, 255}
INVARIANTS
  Tiles
  Roomy
  GapsAreBlocks
