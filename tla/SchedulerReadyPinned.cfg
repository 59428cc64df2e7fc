CONSTANTS
    Workers = {w1}
    Caller = caller
    AnyThread = anythread
    ThreadCounts = {1}
    UseCaller = TRUE
    Pinning = TRUE
    ReadyYields = TRUE
    Disciplined = TRUE
    MaxYields = 1
    MaxStops = 1
    Fibers = {f1, f2}
    Cbs = {c1, c2}
    NoFiber = nofiber
    NoCb = nocb

SPECIFICATION FairSpec
PROPERTY StopReturns
