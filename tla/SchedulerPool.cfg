CONSTANTS
    Workers = {w1, w2}
    Caller = caller
    AnyThread = anythread
    ThreadCounts = {2}
    UseCaller = FALSE
    Pinning = TRUE
    ReadyYields = TRUE
    Disciplined = TRUE
    MaxYields = 2
    MaxStops = 1
    Fibers = {f1, f2}
    Cbs = {c1, c2}
    NoFiber = nofiber
    NoCb = nocb

SPECIFICATION Spec
SYMMETRY Symmetry
INVARIANTS FiberExclusive TasksConserved NoAbort FiberInv
