SPECIFICATION FairSpec
CONSTANTS
    Peers = {11, 12}
    MaxRuns = 2
    MaxErrors = 2
    MaxChanges = 1
    MaxAttempts = 2
    Confs <- MCConfs
INVARIANTS
    IInv
    EntriesAccounted
    NoTapLeaked
    FailureExcused
    RunningOnMesh
PROPERTIES
    DeletesComeLast
    MeshConverges
CHECK_DEADLOCK FALSE
