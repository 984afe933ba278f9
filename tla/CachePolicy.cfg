\* Bootstrap cache of capacity 2 over three nodes: eviction, move-to-back
\* and restarts with and without a clean shutdown.
CONSTANTS
    n1 = n1
    n2 = n2
    n3 = n3
    Nodes <- ThreeNodes
    CacheCap = 2
    MaxIns = 5
    MaxStarts = 3
SPECIFICATION Spec
INVARIANT TypeOK
CHECK_DEADLOCK FALSE
