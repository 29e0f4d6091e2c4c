SPECIFICATION Spec
CONSTANTS
    Pending = 2
    DescriptorCapacity = 5
    MaxLossFillSeconds = 2
    MaxEpochId = 9
    Rates = {1}
    TicksPerSecond = 1
    PcmCapacity = 1
    CallbackFrames = 1
    Kinds = {"steady", "reset"}
    Stamps <- MCStamps
    MaxCallbacks = 4
    MaxChanges = 0
    Faults = {}
INVARIANT LossIsRemapped
CHECK_DEADLOCK FALSE
