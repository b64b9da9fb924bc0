\* Two restarts that may overlap, and up to two reconnections in a row.
SPECIFICATION FairSpec
CONSTANTS
    Bots = {b1, b2, b3}
    Requests = {r1, r2}
    NoBot = NoBot
    maxReconnectAttempts = 2
CHECK_DEADLOCK FALSE
INVARIANT TypeOK
INVARIANT OneLinkPerBot
INVARIANT FlagIsHonest
PROPERTY ReconnectionEnds
