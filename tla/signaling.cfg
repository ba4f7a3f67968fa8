SPECIFICATION FairSpec
CONSTANTS
    a = a
    b = b
    offer = offer
    candidate = candidate
    answer = answer
    Nodes <- MCNodes
    Signals <- MCSignals
    Target <- MCTarget
    MaxPolls = 2
INVARIANT NoLostWakeup
PROPERTY ImplementsMailbox
PROPERTY Collected
PROPERTY StopReturns
CHECK_DEADLOCK FALSE
