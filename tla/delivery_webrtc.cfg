SPECIFICATION FairSpec
CONSTANTS
    Messages = {m1, m2}
    MaxRetries = 2
    Inline = FALSE
    SendMayFail = TRUE
    Lossy = TRUE
INVARIANT TypeOK
INVARIANT QueueIsServed
INVARIANT ResolvedIsAccepted
INVARIANT NoSpontaneousDuplicates
PROPERTY NoRetryAfterAck
PROPERTY AckedDoesNotExpire
PROPERTY SendSettles
CHECK_DEADLOCK FALSE
