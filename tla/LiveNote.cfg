SPECIFICATION Spec
CONSTANTS
    None = None
    Nominal = 6
    Deferral = 3
    Admission = 2
    Guard = 2
    VadWindow = 2
    Stage = 1
    Preroll = 2
    Lag = 1
    Latency = 2
    Silence = 2
    MaxEpoch = 40
    Calls <- MCCalls
    MaxFrames = 46
    TextCap = 9
    Headroom = 5
    LedgerCap = 15
    ShortPoll = 1
    EchoWindow = 2
    MaxFaults = 1
INVARIANTS
    TranscribedIsWhole
    WordsHaveOneOwner
    LossIsTold
    NothingExhausted
CHECK_DEADLOCK FALSE
