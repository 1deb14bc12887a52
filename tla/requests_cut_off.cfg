SPECIFICATION Spec
CONSTANTS
    Requests = {r1}
    MaxChecks = 1
INVARIANTS RequestsServed
CHECK_DEADLOCK FALSE
