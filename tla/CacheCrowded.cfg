SPECIFICATION CacheSpec
CONSTANTS
  Loco <- OneLocoTooMany
  Cmd = {c1, c2}
  Stop = {}
  Block = {b1, b2, b3, b4}
  Free = Free
  NULL = NULL
  CacheSize = 3
SYMMETRY HeapSymmetry
INVARIANTS RotaBounded ProbingFinds NothingLeaks KeptIsLast
