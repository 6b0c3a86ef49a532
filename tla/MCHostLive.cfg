\* Two VMs share two workers and have two jobs at most together; a VM that is alone
\* has three, so that a job waits in the queue behind two running ones.  No
\* symmetry, for the temporal properties.
SPECIFICATION FairSpec
CONSTANTS
    VM = {v1, v2}
    Worker = {w1, w2}
    ArenaLimit = 3
    ByteLimit = 6
    Sizes = {2}
    Networked = {}
    NoFile = NoFile
    NoJob = NoJob
    MaxJobs = 3
    MaxShared = 2
PROPERTIES
    BudgetReturns
    QueuedJobTaken
