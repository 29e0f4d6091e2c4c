SPECIFICATION Spec
CONSTANTS
    Chunks = {1, 2}
    First = 1
    MaxAttempts = 2
    Faults = {"store", "outbox", "checkpoint"}
INVARIANTS AmbiguousIsNotRepeated PaidIsAccounted
PROPERTIES AppliedAsAWhole
CHECK_DEADLOCK FALSE
