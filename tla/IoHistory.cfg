\* Two threads, a ring of three entries, a counter of six values: the history
\* outgrows the ring and the counter overflows, before, during and after a dump.
CONSTANTS
    Threads = {t1, t2}
    Size = 3
    Wrap = 6
    MaxAccesses = 7
SPECIFICATION Spec
INVARIANTS DumpRecent DumpOrdered
