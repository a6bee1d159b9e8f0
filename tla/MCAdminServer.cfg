SPECIFICATION FairSpec
CONSTANTS
    a = a
    b = b
    x = x
    y = y
    Sessions <- MCSessions
    Addresses <- MCAddresses
    AddressOf <- OwnAddress
    SessionTimeout = 0
    PurgeAge = 0
    MaxConnections = 1
    MaxStarts = 2
CHECK_DEADLOCK FALSE
INVARIANTS TypeOK NoOrphanSession EndAnnouncedOnce CapacityKept CleanStop
 
