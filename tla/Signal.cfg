SPECIFICATION SignalSpec
CONSTANTS
  Half1 = 8
  Half0 = 15
  Wrap = 614
  Period = 1200
  Packet <- StationPackets
  TimeBefore = {0, 3, 50}
  TimeAfter = {1, 9, 100}
INVARIANTS SignalTypeOK EachBitInSequence ShownInTime PreambleKept NoStretch
