CONSTANTS
    Callers = {t1, t2}
    WriteErrors = FALSE
    StartTime = 3
    MaxTime = 8

SPECIFICATION Spec
INVARIANT FreshStream
PROPERTY ReopenRecovers
