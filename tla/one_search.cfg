\* A search, a refused one that clears the guard, and a third message.
SPECIFICATION Spec
CONSTANTS
    Users = {u1}
    Calls = {c1, c2}
    NoUser = NoUser
CHECK_DEADLOCK FALSE
INVARIANT OneSearchPerUser
