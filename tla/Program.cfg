CONSTANTS
    Workers = {w1, w2}
    Owner = owner
    OwnerWaits = TRUE
    Threads = {w1, w2, owner}
    LockNames <- AllLocks
    Rank <- LockRank
    Calls <- PublicCalls
    ErrorLog <- LogSystem
    MaxCalls = 1
    MaxFailures = 1

\* When all threads have ended the program is over.
CHECK_DEADLOCK FALSE
SPECIFICATION FairSpec
INVARIANTS RunUsesObject ReapedOnce LockOrder NothingHeld NoDeadlock
PROPERTIES ImplementsExclusion AllEnd
