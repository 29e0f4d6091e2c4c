SPECIFICATION Spec
CONSTANTS
    Calls = {"l1", "q1", f1, f2}
    LaneOf <- MCLaneOf
    KeyOf <- MCKeyOf
    ProviderOf <- MCProviderOf
    SubscriptionOf <- MCSubscriptionOf
    Subscriptions = {}
    Vertex = {"google"}
    Reusable = {}
    MaxGlobal = 3
    MaxProvider = 2
    MaxFinal = 2
    MaxPinned = 1
    MaxAdHoc = 1
    MaxVisible = 0
    MaxChanges = 1
    MaxProgress = 0
CONSTRAINT MCRelevant
SYMMETRY MCSymmetry
INVARIANT QuestionStatusIsTrue
PROPERTIES EndsOnce VoidedIsNeverApplied
CHECK_DEADLOCK FALSE
