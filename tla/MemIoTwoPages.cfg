\* Is a copy that spans two pages complete?
SPECIFICATION CopySpec
CONSTANTS
    PageSize = 3
    MaxPages = 5
INVARIANT CopyAlwaysComplete
