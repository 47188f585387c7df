SPECIFICATION FairSpec
CONSTANTS
    Runtimes = {"process", "firecracker"}
    Capacity = 1
    MaxLines = 3
    MaxRefused = 1
INVARIANTS
    IInv
    OrderKept
    OutputFirst
PROPERTIES
    ExitReported
    CompletionSignalled
CHECK_DEADLOCK FALSE
