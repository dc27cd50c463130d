SPECIFICATION StationSpec
CONSTANTS
  Loco <- ThreeLocos
  Cmd = {c1, c2}
  Stop = {stop}
  Block = {b1, b2, b3, b4, b5}
  Free = Free
  Lost = Lost
  NULL = NULL
  Idle = Idle
  CacheSize = 3
  TxLen = 1
  BlinkTicks = 1
SYMMETRY StationSymmetry
INVARIANTS StationTypeOK QueueShort OwnedOnce InUseBounded StopForgets PurgeIsExact DumpIsStable
PROPERTIES StopHolds SysCommandsAlone ImplementsPolicy
