SPECIFICATION Spec
CONSTANTS
    Operators = {o1}
    Configs = {g1, b1}
    Crashing = {b1}
    Replicas = {1}
    Window = 1
    None = None
    StaleReads = FALSE
    Prompt = FALSE
    SettledEdits = FALSE
    Deletions = TRUE
    MaxCreates = 1
    MaxEdits = 1
    MaxFaults = 1
    MaxRestarts = 1
INVARIANTS TypeOK Verdicts ChildrenProtected
PROPERTIES FollowsProtocol SpecOnlyByUser
CHECK_DEADLOCK FALSE
