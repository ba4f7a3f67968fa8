SPECIFICATION FairSpec
CONSTANTS
    alice = alice
    bob = bob
    m1 = m1
    m2 = m2
    Nodes <- MCNodes
    Remote <- MCRemote
    Messages <- MCTwo
    Sender <- MCOneWay
    Trickling = {}
    MaxAttempts <- MCAttempts
PROPERTY NoSendHangs
CHECK_DEADLOCK FALSE
