SPECIFICATION FairSpec
CONSTANTS
    Operators = {o1}
    Configs = {g1, b1}
    Crashing = {b1}
    Replicas = {1}
    Window = 2
    None = None
    StaleReads = FALSE
    Prompt = TRUE
    SettledEdits = TRUE
    Deletions = TRUE
    MaxCreates = 1
    MaxEdits = 2
    MaxFaults = 1
    MaxRestarts = 1
INVARIANTS PromotedIsHealthy FlaggedIsCrashing RollbackTarget FlaggedHoldsGood ReportsDeployed
CHECK_DEADLOCK FALSE
PROPERTIES HealthyConverges CrashingRollsBack DeletionCompletes
