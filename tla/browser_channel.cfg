SPECIFICATION FairSpec
CONSTANTS
    Forgeable = {"A", "B"}
    MaxCalls = 2
INVARIANT CardReadyIsBacked
INVARIANT NothingIsStuck
PROPERTY DroppedOnlyWhileVerifying
PROPERTY RevivedOnlyWhileVerifying
PROPERTY OpenSettles
CHECK_DEADLOCK FALSE
