SPECIFICATION Spec
CONSTANTS
    Pending = 2
    DescriptorCapacity = 5
    MaxLossFillSeconds = 1
    MaxEpochId = 3
    Rates = {1, 2}
    TicksPerSecond = 2
    PcmCapacity = 1
    CallbackFrames = 1
    Kinds = {"steady", "chasm"}
    Stamps <- MCStamps
    MaxCallbacks = 4
    MaxChanges = 1
    Faults = {"disk", "abort", "destroy"}
INVARIANTS WriterFollows EveryFrameIsAccounted FormatIsFresh
PROPERTY StopEnds
CHECK_DEADLOCK FALSE
