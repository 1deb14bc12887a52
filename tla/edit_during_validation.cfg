SPECIFICATION Spec
CONSTANTS
    Operators = {o1}
    Configs = {g1, g2, b1}
    Crashing = {b1}
    Replicas = {1}
    Window = 1
    None = None
    StaleReads = FALSE
    Prompt = TRUE
    SettledEdits = FALSE
    Deletions = FALSE
    MaxCreates = 1
    MaxEdits = 2
    MaxFaults = 0
    MaxRestarts = 0
INVARIANTS RollbackTarget
CHECK_DEADLOCK FALSE
