SPECIFICATION RingSpec
CONSTANTS
  Data = {d1, d2}
  Size = 3
  NoData = NoData
INVARIANT RingTypeOK
PROPERTY ImplementsFifo
