SPECIFICATION FairSpec
CONSTANTS
    Calls = {"p1", "p2"}
    LaneOf <- MCLaneOf
    KeyOf <- MCKeyOf
    ProviderOf <- MCProviderOf
    SubscriptionOf <- MCSubscriptionOf
    Subscriptions = {"s1", "s2"}
    Vertex = {"google"}
    Reusable = {"p1"}
    MaxGlobal = 2
    MaxProvider = 2
    MaxFinal = 1
    MaxPinned = 2
    MaxAdHoc = 1
    MaxVisible = 1
    MaxChanges = 1
    MaxProgress = 1
INVARIANTS EgressIsBounded ProgressIsAsked
PROPERTY WaitersProceed
CHECK_DEADLOCK FALSE
