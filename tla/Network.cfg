SPECIFICATION Spec
CONSTANTS
    Tasks = {t1, t2}
    Nobody = Nobody
    HandleLimit = 2
    RetainedLimit = 3
    TransferLimit = 2
    Sizes = {0, 2, 3}
    Buffer = 1
    MaxRequests = 3
    MaxEvents = 3
CHECK_DEADLOCK FALSE
INVARIANTS DescriptorsOwned StreamExact
PROPERTIES ReadyServed
