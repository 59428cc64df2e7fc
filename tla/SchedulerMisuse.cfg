CONSTANTS
    Workers = {w1, w2}
    Caller = caller
    AnyThread = anythread
    ThreadCounts = {1}
    UseCaller = FALSE
    Pinning = FALSE
    ReadyYields = TRUE
    Disciplined = FALSE
    MaxYields = 2
    MaxStops = 2
    Fibers = {f1, f2}
    Cbs = {c1, c2}
    NoFiber = nofiber
    NoCb = nocb

SPECIFICATION Spec
SYMMETRY Symmetry
INVARIANTS CountsExact StoppedMeansJoined CountInv PoolInv
