\* One request, two faults and one switch to another data centre.
SPECIFICATION Spec
CONSTANTS
    Requests = {r1}
    Ping = ping
    Retries = 2
    MAXIMUM_LENGTH = 1
    MaxEvents = 2
    MaxConnects = 2
INVARIANT OneReceiver
CHECK_DEADLOCK FALSE
