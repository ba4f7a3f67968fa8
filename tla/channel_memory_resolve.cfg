SPECIFICATION Spec
CONSTANTS
    a = a
    b = b
    Nodes <- MCNodes
    Remote <- MCRemote
    Sessions = {s1}
    Inline = TRUE
    StopAllowed = TRUE
    SendMayFail = FALSE
    Tampered = {"AUTH_RESPONSE", "AUTH_CONFIRM"}
    MaxCalls = 3
PROPERTY ResolvesUsable
CHECK_DEADLOCK FALSE
