\* Two messages and two queries at a time, of one user whose calls overlap when a
\* refused one has cleared the guard; one tick between the timeouts, so that both
\* orders of the timers happen.
SPECIFICATION PathSpec
CONSTANTS
    Users = {u1}
    Calls = {c1, c2}
    NoUser = NoUser
    MaxSearches = 2
    HttpTimeout = 2
    SearchTimeout = 1
INVARIANTS PathTypeOK GuardHasItsCall StatsAddUp AnswerToOneChat OutlivedByTheBridge
PROPERTIES GuardLostOnlyToOverlap GuardIsReleased
