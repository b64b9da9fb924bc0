\* One user, two messages handled at the same time, who may fall silent with
\* both still in flight.
SPECIFICATION FairSpec
CONSTANTS
    Users = {u1}
    Calls = {c1, c2}
    SessionTypes <- MCTypes
    SessionTimeout = 1
    CleanupInterval = 1
    MaxScore = 4
    NoSession = NoSession
    NoUser = NoUser
    NoGame = NoGame
    BotMoves <- FirstFree
INVARIANTS TypeOK SessionHasItsGame OneGamePerUser TurnsAlternate IdleSessionsAreRemoved
PROPERTIES FinishedGamesAreEnded OnlyIdleSessionsExpire ImplementsGameService QuietPlayersAreForgotten
