\* Binds, unbinds and clones by two goroutines.
SPECIFICATION Spec
CONSTANTS
    a = a
    b = b
    z = z
    f1 = f1
    f2 = f2
    NoFS = nofs
    Names <- MCNames
    Nodes <- MCNodes
    FSs <- MCFSs
    Content <- MCContent
    Hosts <- MCFSs
    Flaky = {f1}
    Requests <- UnionRequests
    Procs = {g1, g2}
    MaxNS = 2
    MaxOps = 4
    MaxLog = 2
    MaxHops = 4
    DevRange = 4
SYMMETRY Symmetry
INVARIANTS TypeOK ListingMatchesWalk ResolveMatchesWalk AliasesStayHome DevNeverReused LogFaithful HostPathNamesWalked
CHECK_DEADLOCK FALSE
