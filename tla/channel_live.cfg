SPECIFICATION FairSpec
CONSTANTS
    a = a
    b = b
    Nodes <- MCNodes
    Remote <- MCRemote
    Sessions = {s1}
    Inline = FALSE
    StopAllowed = FALSE
    SendMayFail = FALSE
    Tampered = {"AUTH_RESPONSE", "AUTH_CONFIRM"}
    MaxCalls = 2
INVARIANT NothingIsStuck
PROPERTY OpenSettles
PROPERTY ResponderDecides
PROPERTY CloseIsMutual
CHECK_DEADLOCK FALSE
