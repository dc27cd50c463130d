SPECIFICATION StreamSpec
CONSTANTS
    Letter <- MCLetter
    Keyword <- MCKeyword
    Source <- MCSource
    MaxTok = 2
INVARIANTS LongestToken
CHECK_DEADLOCK FALSE
