SPECIFICATION FairSpec
CONSTANTS
    Runtimes = {"firecracker"}
    Capacity = 1
    MaxLines = 1
    MaxRefused = 0
PROPERTY VmmExitReported
CHECK_DEADLOCK FALSE
