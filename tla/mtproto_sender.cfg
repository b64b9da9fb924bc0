\* Two requests and the ping, batches of one and two, two faults, two connects.
SPECIFICATION FairSpec
CONSTANTS
    Requests = {r1, r2}
    Ping = ping
    Retries = 2
    MAXIMUM_LENGTH = 1
    MaxEvents = 2
    MaxConnects = 2
INVARIANTS RequestsAreTracked OneReceiverUntilBeside
PROPERTIES RequestsSettle LinkIsRestored
CHECK_DEADLOCK FALSE
