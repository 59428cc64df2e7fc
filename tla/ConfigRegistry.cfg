CONSTANTS
    Words <- MCWords
    Lower <- MCLower
    Valid <- MCValid
    Documents <- MCDocuments
    Names <- MCNames
    Types <- MCTypes
    Default <- MCDefault
    all_nodes <- AllNodes
    Lexical_cast <- fromString
    Threads = {t1, t2}
    MaxCalls = 1
    MaxLoads = 1

SYMMETRY Symmetry
SPECIFICATION Spec
INVARIANTS LoadInOrder LoadApplies LookupAgrees DumpReloads
PROPERTY RegistryStable
