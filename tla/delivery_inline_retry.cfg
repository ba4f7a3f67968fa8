SPECIFICATION Spec
CONSTANTS
    Messages = {m1, m2}
    MaxRetries = 2
    Inline = TRUE
    SendMayFail = FALSE
    Lossy = FALSE
PROPERTY NoRetryAfterAck
CHECK_DEADLOCK FALSE
