\* Tables of three levels with two entries each.
CONSTANTS
    Width = 2
    Bottom = 2
    Ranges <- MCRanges
    MaxInserts = 2
SPECIFICATION Spec
INVARIANTS TypeOK DumpWhole TablesAreTree SameTranslation RegionsReachable
