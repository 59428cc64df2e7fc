CONSTANTS
    Vars = {v1}
    Values = {x0, x1, x2}
    Default = x0
    Listeners = {l1, l2}
    Setters = {s1}
    Managers = {m1, m2}
    Throws = TRUE
    NoThread = nothread
    NoListener = nolistener
    MaxCalls = 2
    MaxKey = 4

SPECIFICATION Spec
INVARIANTS TypeOK ListenersAgree KeyFindsListener
PROPERTIES NotifyStable CallsReturn
