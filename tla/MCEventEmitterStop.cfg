SPECIFICATION FairSpec
CONSTANTS
    session = session
    tls = tls
    any = any
    s1 = s1
    s2 = s2
    Types <- MCTypes
    Wildcard = any
    Subscriptions <- MCSubscriptions
    Topic <- MCTopic
    TypeOf <- MCTypeOf
    Capacity = 1
    MaxEvents = 2
    MaxStarts = 1
    MaxTimeouts = 0
CHECK_DEADLOCK FALSE
PROPERTIES StopReturns
