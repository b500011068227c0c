\* Serial use, kills, and opens and releases that overlap.
SPECIFICATION FairSpec
CONSTANTS
    p1 = p1
    p2 = p2
    Procs <- MCProcs
    Nobody = Nobody
    MaxStarts = 2
    MaxJobs = 2
    Uses = {"serial", "killed", "overlap"}
INVARIANTS TypeOK ExclusiveOwner QuietWhenClosed OwnerHasInterrupts WaitedForJob
PROPERTY EveryReplayEnds
