SPECIFICATION FairSpec
CONSTANTS
    Nodes = {1}
    Tasks = {1}
    MaxOctet = 0
    LastHost = 2
    None = None
    Need <- MCNeed
    Total <- MCTotal
    Pinned <- MCPinned
    Networked = {1}
    Services <- MCServices
    Service <- MCService
    MaxLapses = 1
    MaxLost = 0
    MaxCrashes = 1
    Reporting = {1}
PROPERTY AbandonedTasksRequeue
