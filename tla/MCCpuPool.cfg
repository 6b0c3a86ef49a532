\* Two workers, joins of up to two children, one nested execution; no symmetry,
\* for the temporal property.
SPECIFICATION FairSpec
CONSTANTS
    Worker = {w1, w2}
    MaxNodes = 5
    MaxDepth = 2
    MaxChildren = 2
    MaxGraphs = 3
INVARIANTS
    GraphExact
    PoolCountExact
    ForeignAlone
PROPERTY
    EndsDown
