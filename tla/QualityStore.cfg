SPECIFICATION Spec
CONSTANTS
    None = None
    Torn = Torn
    Attempts = {"redo", "retry"}
    CaptureFacts = {"loss"}
    MaxFrames = 1
    MaxFaults = 2
    MaxCrashes = 1
INVARIANTS CertificateIsTrue AcknowledgedIsKept RefusalLeavesNoBarrier
CHECK_DEADLOCK FALSE
