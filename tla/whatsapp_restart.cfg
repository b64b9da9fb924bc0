\* One restart, while the old bot connects or is about to connect again.
SPECIFICATION Spec
CONSTANTS
    Bots = {b1, b2}
    Requests = {r1}
    NoBot = NoBot
    maxReconnectAttempts = 1
CHECK_DEADLOCK FALSE
INVARIANT RestartReplacesBot
