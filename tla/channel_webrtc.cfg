SPECIFICATION Spec
CONSTANTS
    a = a
    b = b
    Nodes <- MCNodes
    Remote <- MCRemote
    Sessions = {s1, s2}
    Inline = FALSE
    StopAllowed = TRUE
    SendMayFail = TRUE
    Tampered = {"AUTH_RESPONSE", "AUTH_CONFIRM"}
    MaxCalls = 1
SYMMETRY MCSymmetry
INVARIANT TypeOK
INVARIANT ReadyIsBacked
INVARIANT ResponderReadyAfterInitiator
INVARIANT OpenIsServed
INVARIANT KeyErased
INVARIANT AppAfterHandshake
PROPERTY NoRevival
PROPERTY ResolvesUsable
PROPERTY ImplementsAgreement
CHECK_DEADLOCK FALSE
