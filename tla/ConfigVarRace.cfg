CONSTANTS
    Vars = {v1}
    Values = {x0, x1, x2}
    Default = x0
    Listeners = {l1, l2}
    Setters = {s1, s2}
    Managers = {m1}
    Throws = FALSE
    NoThread = nothread
    NoListener = nolistener
    MaxCalls = 1
    MaxKey = 1

SPECIFICATION Spec
INVARIANT ListenersAgree
