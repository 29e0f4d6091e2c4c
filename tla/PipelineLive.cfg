SPECIFICATION FairSpec
CONSTANTS
    n1 = n1
    n2 = n2
    n3 = n3
    n4 = n4
    local = local
    aws = aws
    NoNote = NoNote
    Unknown = Unknown
    Notes <- MCNotes
    Backends <- MCBackends
    Facts <- MCFacts
    Local <- local
    Aws <- aws
    Retries = 1
    Faults = {"audio", "row", "ckpt", "asr", "vagus", "note", "cloud", "unlink", "sweep"}
    MaxFaults = 2
    MaxCrashes = 1
    MaxManual = 1
PROPERTIES
    Delivered
