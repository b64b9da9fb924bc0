\* Two overlapping searches, answers in any order, late, or lost.
SPECIFICATION FairSpec
CONSTANTS
    Searches = {s1, s2}
    NoSearch = NoSearch
CHECK_DEADLOCK FALSE
INVARIANT TypeOK
INVARIANT PendingIsExact
PROPERTY ImplementsService
PROPERTY SearchesReturn
PROPERTY AnswersMatchOneAtATime
