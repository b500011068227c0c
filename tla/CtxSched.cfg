\* Three contexts and two address spaces.
CONSTANTS
    c1 = c1
    c2 = c2
    c3 = c3
    NoCtx = NoCtx
    Contexts <- MCContexts
    NrSpaces = 2
    MaxJobs = 2
    MaxHeld = 3
SPECIFICATION Spec
SYMMETRY Symmetry
INVARIANTS RefsBalance OwnSpace SubmitMeansScheduled Programmed FaultFindsContext NoWarnings
