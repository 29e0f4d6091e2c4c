SPECIFICATION Spec
CONSTANTS
    n1 = n1
    n2 = n2
    local = local
    Notes = {n1, n2}
    NoNote = NoNote
    Backends = {local}
    Unknown = Unknown
    Facts = {quality}
    Recordings = {r1}
    Chores = {cleanup}
    Sweeps = {sweep}
    Budgets = {1, 2}
    Payloads <- MCPayloads
    MaxRows = 3
    MaxAttempts = 2
INVARIANTS HandlerOwnsRow RunsAreCharged
PROPERTIES EvidenceOnlyGrows
