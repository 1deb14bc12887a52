SPECIFICATION FairSpec
CONSTANTS
    Events = {"error", "info"}
    Sinks = {"siem_otlp", "compliance_archive", "customer_siem"}
    Wanted <- MCWanted
    MemoryMax <- MCMemoryMax
    DiskMax <- MCDiskMax
    WhenFull <- MCWhenFull
    RetryMax <- MCRetryMax
    BatchMax = 2
    Reliable = {"compliance_archive"}
    QueueMax = 1
    MaxCopies = 2
    MaxFaults = 1
INVARIANTS TypeOK
PROPERTIES NothingVanishes KeepsItsPromise
CHECK_DEADLOCK FALSE
