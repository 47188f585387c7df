SPECIFICATION Spec
CONSTANTS
    Nodes = {n1}
    Ids = {s1}
    None = None
INVARIANT TakenOnce
CHECK_DEADLOCK FALSE
