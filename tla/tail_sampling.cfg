SPECIFICATION FairSpec
CONSTANTS
    Nodes = {"node"}
    Traces = {"request", "unsampled"}
    Spans = {"fails", "begins", "ends", "other"}
    Records = {"metric"}
    NodeOf <- MCNodeOf
    TraceOf <- MCTraceOf
    Errors = {"fails"}
    StartAt <- MCStartAt
    EndAt <- MCEndAt
    HeadSampled = {"request"}
    ThresholdMs = 2
    DecisionWait = 1
    MemoryLimit = 2
    BatchSize = 2
    MaxElapsed = 1
    Crashing = {"node"}
INVARIANTS TypeOK OnlyNotableTraces OneVerdict MemoryBounded
PROPERTIES ErrorsArrive AllSettle
CHECK_DEADLOCK FALSE
