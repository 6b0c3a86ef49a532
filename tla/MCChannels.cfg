\* Three rows and three tasks; a row lives through two generations and is then
\* retired.  Which payload is which does not matter here: ChannelOrder's run has
\* two of them.
CONSTANTS
    Continuation = {c1, c2, c3}
    Payload = {p1}
    Rooms = {0, 2}
    ArenaLimit = 3
    MaxGeneration = 2
    NoChannel = NoChannel
    NoPayload = NoPayload
SPECIFICATION Spec
INVARIANTS TypeOK Coherent FreeListExact NoInternalError CountersExact
PROPERTY StaleForever
SYMMETRY Interchangeable
