\* One request is enough.
SPECIFICATION Spec
CONSTANT Requests = {q1}
CHECK_DEADLOCK FALSE
INVARIANT SearchesAreServed
