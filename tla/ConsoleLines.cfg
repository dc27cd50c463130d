SPECIFICATION ConsoleSpec
CONSTANTS
  Line <- Lines
  LaterLine <- OnlyStop
INVARIANTS ConsoleTypeOK SentencesObeyed NothingInvented LossNeedsTwoCommands StopsAreStops ReadsBack DumpsRead
