\* Three tasks: two that keep each other runnable over a channel while the third
\* waits for a job, or a sleeper and a stuck receiver; no symmetry, for the
\* temporal properties.
SPECIFICATION FairDriverSpec
CONSTANTS
    Task = {t1, t2, t3}
    Continuation = {t1, t2, t3}
    Payload = {p1}
    Rooms = {0}
    ArenaLimit = 3
    SchedulerLimit = 3
    MaxGeneration = 2
    NoChannel = NoChannel
    NoPayload = NoPayload
    NoTask = NoTask
    CollectPeriod = 2
    Delays = {0, 1}
    MaxClock = 1
    MaxWaits = 1
    MaxChannels = 1
PROPERTIES
    FinishedJobRuns
    WaitsEnd
