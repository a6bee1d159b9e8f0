SPECIFICATION FairSpec
CONSTANTS
    demo = demo
    op = op
    Demo <- MCDemo
    Operator <- MCOperator
    MaxSessions = 2
    RetryCount = 1
    SessionTimeout = 1
    MaxRuns = 2
    MaxPolls = 1
CHECK_DEADLOCK FALSE
INVARIANTS InStep
PROPERTIES SuccessMeansDone SessionEnds
