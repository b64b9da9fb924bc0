\* Two batches of up to two messages side by side, from one chat.
SPECIFICATION Spec
CONSTANTS
    Users = {u1}
    Batches = {b1, b2}
    NoUser = NoUser
    MaxBatch = 2
INVARIANTS AnsweredBeforeNext PlayersAreToldFirst
PROPERTIES RefusedForAnotherBatch BatchesEnd
