SPECIFICATION Spec
CONSTANTS
    Nodes = {1, 2}
    Tasks = {1}
    MaxOctet = 1
    LastHost = 2
    None = None
    Need <- MCNeed
    Total <- MCTotal
    Pinned <- MCPinned
    Networked = {1}
    Services <- MCServices
    Service <- MCService
    MaxLapses = 1
    MaxLost = 2
    MaxCrashes = 1
    Reporting = {1, 2}
INVARIANTS
    IInv
    RerunsNeedFaults
    OneExecutor
PROPERTY TerminalFinal
