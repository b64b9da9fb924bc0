\* Every way to set PORT and TELEGRAM_PORT over three ports, with and without nc,
\* strangers on any of them at any time; five attempts stand for 30.
SPECIFICATION FairSpec
CONSTANTS
    Ports = {5000, 8000, 9000}
    NoPort = NoPort
    Unset = Unset
    PORT = {5000, 8000, 9000, Unset}
    TELEGRAM_PORT = {5000, 8000, 9000, Unset}
    WhatsAppDefault = 5000
    TelegramDefault = 8000
    max_attempts = 5
INVARIANTS TypeOK WatchedAreReady
PROPERTIES NoneLeftBehind OneDeathEndsBoth
CHECK_DEADLOCK FALSE
