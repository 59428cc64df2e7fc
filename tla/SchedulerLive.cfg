CONSTANTS
    Workers = {w1}
    Caller = caller
    AnyThread = anythread
    ThreadCounts = {0, 1}
    UseCaller = TRUE
    Pinning = TRUE
    ReadyYields = FALSE
    Disciplined = TRUE
    MaxYields = 2
    MaxStops = 1
    Fibers = {f1, f2}
    Cbs = {c1, c2}
    NoFiber = nofiber
    NoCb = nocb

SPECIFICATION FairSpec
INVARIANTS QuietExit QuietInv
PROPERTIES ImplementsWorkPool StopDrains StopReturns TasksRun
