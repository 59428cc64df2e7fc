CONSTANTS
    root = root
    app = app
    Names <- MCNames
    Root = root
    MaxLevel = 2
    NoLevel = nolevel
    NoName = noname
    Documents <- ChangingDocuments
    Clients = {t1}
    MaxEvents = 1
    MaxLoads = 3

SPECIFICATION Spec
INVARIANT DocumentApplies
