\* The limits of the parser as they are; those of templates and files small.
SPECIFICATION Spec
CONSTANTS
    MaxDepth = 64
    MaxSpine = 256
    MaxList = 128
    MaxTermDepth = 256
    MaxInstances = 6
    MaxActive = 4
    MaxFiles = 3
    Disks <- MCDisks
    Parse <- MCParse
    Holds <- MCHolds
INVARIANTS
    LoadsRight
    InstancesRight
