\* One event of any kind; bodies with up to two words that matter.
SPECIFICATION Spec
CONSTANTS
    DropOnError = FALSE
    ProjectId = TRUE
    MaxWords = 2
INVARIANTS TypeOK OnlyCleanLogsStored SiemOnlyErrors SovereignAudit
PROPERTIES ErrorsReachSiem ArchiveGetsAll
CHECK_DEADLOCK FALSE
