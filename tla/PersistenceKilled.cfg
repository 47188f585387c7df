SPECIFICATION Spec
CONSTANTS
    Nodes = {1, 2}
    Tasks = {1, 2}
    MaxOctet = 1
    LastHost = 3
    None = None
    Need <- MCNeed
    Total <- MCTotal
    Pinned <- MCPinned
    Networked = {1, 2}
    Services = {}
    Service <- MCService
    Reported = {"succeeded"}
    MaxLapses = 1
    MaxFailures = 0
    MaxKills = 1
    MaxStops = 0
    MaxOutages = 1
INVARIANT AddressesSurvive
CHECK_DEADLOCK FALSE
