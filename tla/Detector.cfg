SPECIFICATION FairSpec
CONSTANTS
    Devices = {d1, d2}
    Debounce = 2
    Coalesce = 3
    MinRecording = 4
    Poll = 1
    Horizon = 4
    PromptHal = TRUE
    MaxInbox = 2
    Faults = {"start", "finish", "rebind", "read"}
    Tests = TRUE
INVARIANTS MachineOwnsRecorder TestOwnsDetector
PROPERTIES NoSpin LifecycleSpec CallEndsRecording PauseNeverSticks
