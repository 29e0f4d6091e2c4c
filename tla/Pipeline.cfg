SPECIFICATION Spec
CONSTANTS
    n1 = n1
    n2 = n2
    n3 = n3
    n4 = n4
    local = local
    aws = aws
    NoNote = NoNote
    Unknown = Unknown
    Notes <- MCNotes
    Backends <- MCBackends
    Facts <- MCFacts
    Local <- local
    Aws <- aws
    Retries = 1
    Faults = {"audio", "row", "job", "settle", "ckpt", "asr", "vagus", "note", "cloud", "unlink"}
    MaxFaults = 3
    MaxCrashes = 2
    MaxManual = 1
INVARIANTS
    StartedWorkIsOwned
    DataStaysAuthorized
    FiledOnceUnlessCrashed
    DoneNoteIsSettled
PROPERTIES
    AsrIsBounded
    DeliverySpec
