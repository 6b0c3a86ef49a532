\* Three tasks, one channel that may be unbuffered or hold one payload, up to
\* three waits on the clock and on descriptors.
SPECIFICATION DriverSpec
CONSTANTS
    Task = {t1, t2, t3}
    Continuation = {t1, t2, t3}
    Payload = {p1}
    Rooms = {0, 1}
    ArenaLimit = 3
    SchedulerLimit = 3
    MaxGeneration = 2
    NoChannel = NoChannel
    NoPayload = NoPayload
    NoTask = NoTask
    CollectPeriod = 2
    Delays = {0, 1}
    MaxClock = 1
    MaxWaits = 3
    MaxChannels = 1
SYMMETRY Interchangeable
INVARIANTS
    OnePlace
    DeadlockHonest
    WakesInRegistrationOrder
PROPERTIES
    UsesChannels
