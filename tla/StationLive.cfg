SPECIFICATION FairStationSpec
CONSTANTS
  Loco <- CollidingLocos
  Cmd = {c1}
  Stop = {stop}
  Block = {b1, b2, b3, b4}
  Free = Free
  Lost = Lost
  NULL = NULL
  Idle = Idle
  CacheSize = 2
  TxLen = 1
  BlinkTicks = 2
PROPERTIES PacketReachesTrack LocosRefreshed
