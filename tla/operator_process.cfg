SPECIFICATION FairSpec
CONSTANTS
    Requests = {r1, r2}
    MaxChecks = 2
INVARIANTS TypeOK HealthIsOneCheck CleanExit
PROPERTIES SignalEnds
CHECK_DEADLOCK FALSE
