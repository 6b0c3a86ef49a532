\* Two VMs, of which one waits on descriptors too, share two workers and budgets
\* that two jobs of two bytes use up and a job of three bytes exceeds.
SPECIFICATION Spec
CONSTANTS
    VM = {v1, v2}
    Worker = {w1, w2}
    ArenaLimit = 2
    ByteLimit = 4
    Sizes = {2, 3}
    Networked = {v1}
    NoFile = NoFile
    NoJob = NoJob
    MaxJobs = 2
    MaxShared = 2
INVARIANTS
    AccountsExact
    OneOwner
    NoLostWake
