SPECIFICATION FairSpec
CONSTANTS
    a = a
    b = b
    Nodes <- MCNodes
    Remote <- MCRemote
    Sessions = {s1}
    Inline = FALSE
    StopAllowed = TRUE
    SendMayFail = FALSE
    Tampered = {"AUTH_RESPONSE", "AUTH_CONFIRM"}
    MaxCalls = 2
PROPERTY StopSettlesOpens
CHECK_DEADLOCK FALSE
