\* Two mappings, one of which may be a job chain, two submits.
CONSTANTS
    Addrs = {1, 2}
    Mappings <- MCMappings
    Syncs <- MCSyncs
    JobFrom = 0
    Uses = {"serial", "threads", "reuse"}
    MaxAs = 2
    MaxWrites = 2
    MaxSubmits = 2
SPECIFICATION Spec
CHECK_DEADLOCK FALSE
INVARIANTS TypeOK FilesLoad TouchedPagesDumped WrittenAtTheRightTime NothingMissing
