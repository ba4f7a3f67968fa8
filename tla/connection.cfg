SPECIFICATION FairSpec
CONSTANTS
    alice = alice
    bob = bob
    m1 = m1
    m2 = m2
    Nodes <- MCNodes
    Remote <- MCRemote
    Messages <- MCTwo
    Sender <- MCBothWays
    Trickling = {alice}
    MaxAttempts <- MCAttempts
INVARIANT NothingStranded
INVARIANT EntryIsServed
INVARIANT SentOnceUnlessRejected
INVARIANT ResolvedIsSent
PROPERTY SettlesUnlessTornDown
CHECK_DEADLOCK FALSE
