CONSTANTS
    root = root
    app = app
    Names <- MCNames
    Root = root
    MaxLevel = 2
    NoLevel = nolevel
    NoName = noname
    Documents <- PlainDocuments
    Clients = {t1, t2}
    MaxEvents = 1
    MaxLoads = 3

SYMMETRY ClientSymmetry
SPECIFICATION Spec
INVARIANTS TypeOK WrittenAsDesigned LoggersMatchConfig DumpReloads
