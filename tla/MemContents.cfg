\* Dumps of one to three regions, and up to three replays, copies and restores.
SPECIFICATION Spec
CONSTANTS
    Dumps <- MCDumps
    Vpns <- MCVpns
    Content <- MCContent
    MaxRuns = 3
INVARIANTS TypeOK GpuSeesDump SameView
