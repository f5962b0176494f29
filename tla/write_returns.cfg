SPECIFICATION Spec
CONSTANTS
  BLOCK_COUNT = 29
  HALF_BLOCK_SIZE = 2
  BYTE = 3
  NIBBLE = 2
  w1 = w1
  w2 = w2
  w3 = w3
  w4 = w4
  Word = {w1, w2, w3, w4}
  Junk = junk
  Requests <- MCRequests
PROPERTIES
  WriteIsCompleted
