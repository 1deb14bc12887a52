SPECIFICATION Spec
CONSTANTS
    Operators = {o1}
    Configs = {g1, b1}
    Crashing = {b1}
    Replicas = {1}
    Window = 1
    None = None
    StaleReads = FALSE
    Prompt = TRUE
    SettledEdits = TRUE
    Deletions = FALSE
    MaxCreates = 1
    MaxEdits = 1
    MaxFaults = 0
    MaxRestarts = 1
INVARIANT LastKnownGoodIsHealthy
CHECK_DEADLOCK FALSE
