SPECIFICATION Spec
CONSTANTS
    Nodes = {1, 2}
    Tasks = {1, 2}
    MaxOctet = 1
    LastHost = 3
    None = None
    Need <- MCNeed
    Total <- MCTotal
    Pinned <- MCPinned
    Networked = {1, 2}
    Services <- MCServices
    Service <- MCService
    MaxLapses = 1
    MaxLost = 0
    MaxCrashes = 0
    Reporting = {1, 2}
INVARIANTS
    LiveAddressesDistinct
    NoOvercommit
    EndpointsHeld
PROPERTY AddressesAreLeased
