\* Two goroutines attach, walk, open, create, clunk and remove, and are cancelled.
SPECIFICATION Spec
CONSTANTS
    a = a
    None = none
    Names = {a}
    Paths <- MCPaths
    Procs = {g1, g2}
    MaxWElem = 2
    MaxFid = 3
    MaxCalls = 4
SYMMETRY Symmetry
INVARIANTS TypeOK HandleWorks LeaksExplained
CHECK_DEADLOCK FALSE
