SPECIFICATION FairSpec
CONSTANTS
    Nodes = {1, 2}
    Tasks = {1, 2}
    MaxOctet = 1
    LastHost = 2
    None = None
    Need <- MCNeed
    Total <- MCTotal
    Pinned <- MCSecondPinned
    Networked = {1, 2}
    Services <- MCServices
    Service <- MCService
    MaxLapses = 0
    MaxLost = 1
    MaxCrashes = 1
    Reporting = {1}
PROPERTY EventuallyTerminal
