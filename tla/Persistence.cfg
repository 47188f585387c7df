SPECIFICATION Spec
CONSTANTS
    Nodes = {1}
    Tasks = {1, 2}
    MaxOctet = 0
    LastHost = 3
    None = None
    Need <- MCNeed
    Total <- MCTotal
    Pinned <- MCPinned
    Networked = {1, 2}
    Services = {}
    Service <- MCService
    Reported = {"succeeded"}
    MaxLapses = 1
    MaxFailures = 1
    MaxKills = 1
    MaxStops = 1
    MaxOutages = 2
INVARIANTS
    IInv
    ReplayExact
    KilledServerBoots
    AckedFinal
CHECK_DEADLOCK FALSE
