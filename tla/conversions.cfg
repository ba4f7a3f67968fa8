SPECIFICATION Spec
CONSTANTS
    W = 2
    SpkiHeader <- MCHeader
    CoordinateBytes = {0, 1, 48, 127, 128, 255}
    Json <- MCJson
    Shared <- MCShared
INVARIANT SignatureKept
INVARIANT KeyKept
INVARIANT InfoKept
CHECK_DEADLOCK FALSE
