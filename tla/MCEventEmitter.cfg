SPECIFICATION FairSpec
CONSTANTS
    session = session
    tls = tls
    any = any
    s1 = s1
    s2 = s2
    Types <- MCTypes
    Wildcard = any
    Subscriptions <- MCSubscriptions
    Topic <- MCTopic
    TypeOf <- MCTypeOf
    Capacity = 2
    MaxEvents = 4
    MaxStarts = 2
    MaxTimeouts = 1
CHECK_DEADLOCK FALSE
INVARIANTS TypeOK InOrderWithoutGaps QuietAfterStop
PROPERTIES EventsDelivered
