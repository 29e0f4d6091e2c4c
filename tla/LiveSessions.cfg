SPECIFICATION Spec
CONSTANTS
    MaxSessions = 2
    MaxWindows = 1
    MaxCtrl = 3
    Faults = {"start", "reaper", "unlink", "panic", "enqueue", "slow"}
INVARIANTS
    TestIsExclusive NothingDangles CollectsItsOwn
PROPERTIES
    SessionsAreEnded
CHECK_DEADLOCK FALSE
