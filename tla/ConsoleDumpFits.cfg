SPECIFICATION ConsoleSpec
CONSTANTS
  Line <- Lines
  LaterLine <- OnlyStop
INVARIANT DumpFits
