\* Every address and size in a region of up to five pages of three bytes.
SPECIFICATION CopySpec
CONSTANTS
    PageSize = 3
    MaxPages = 5
INVARIANTS TransfersRight CopyComplete
