\* A DMA mapping fails, memory runs out, a process is killed.
SPECIFICATION Spec
CONSTANTS
    a = a
    b = b
    c = c
    d = d
    e = e
    Pages <- MCPages
    Requests = {1, 2, 3}
    Failures = {"dma", "oom", "kill"}
SYMMETRY PageSymmetry
INVARIANTS PagesConserved SizesAgree HeldPagesBacked TermReturns NullAfterFailure
