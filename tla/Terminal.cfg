SPECIFICATION TerminalSpec
CONSTANTS
    Letter <- MCLetter
    Keyword <- MCKeyword
    Text <- MCText
    MaxTok = 2
    RingSize = 4
    FifoSize = 2
    MaxTyped = 1
INVARIANTS
    TerminalTypeOK
    RingHoldsLine
PROPERTIES
    RestIsRead
    FlagsClear
    TypedIsRead
