\* Two channels, side by side or one after the other in one row, and four
\* payloads, so that buffered, parked and refilled ones coexist.
CONSTANTS
    Continuation = {c1, c2, c3}
    Payload = {p1, p2}
    Rooms = {0, 2}
    ArenaLimit = 3
    MaxGeneration = 2
    MaxOpens = 2
    MaxOffers = 4
    NoChannel = NoChannel
    NoPayload = NoPayload
SPECIFICATION OrderedSpec
INVARIANT InOrder
PROPERTY ImplementsFifo
SYMMETRY Interchangeable
