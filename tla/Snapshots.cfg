SPECIFICATION FairSpec
CONSTANTS
    Nodes = {n1, n2}
    Ids = {s1}
    None = None
INVARIANTS
    IInv
    RestoreFindsFiles
    NotStranded
    OnceEach
PROPERTIES
    OutcomeFinal
    RequestsEnd
CHECK_DEADLOCK FALSE
