\* A process is killed; the next one is started when the device is closed.
SPECIFICATION Spec
CONSTANTS
    p1 = p1
    p2 = p2
    Procs <- MCProcs
    Nobody = Nobody
    MaxStarts = 2
    MaxJobs = 1
    Uses = {"killed"}
SYMMETRY ProcSymmetry
INVARIANT WaitMeansOver
