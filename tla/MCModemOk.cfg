SPECIFICATION Spec
CONSTANTS
    c1 = c1
    c2 = c2
    p1 = p1
    p2 = p2
    l1 = l1
    l2 = l2
    none = none
    Callers <- MCCallers
    Nobody = none
    Setups <- MCSetups
    Ports <- MCPorts
    ModemPorts <- MCModemPorts
    NoPort = none
    MaxPlugs = 1
    MaxScans = 1
    Owners <- MCCallers
    MaxUnits = 2
    MaxOrders = 4
    MaxLooks = 1
    Phones <- MCModemPorts
    Users <- MCCallers
    Loops = {l1, l2}
    NoLoop = none
    MaxUses = 3
    MaxObjects = 2
    Senders <- MCCallers
    MaxTriggers = 2
    Inquirers <- MCCallers
    CacheTtl = 1
    MaxAge = 1
    MaxInquiries = 2
    MaxInvalidations = 1
CHECK_DEADLOCK FALSE
INVARIANT OkIsSeen
