\* Two goroutines on one client, with clients and servers of several kinds.
SPECIFICATION Spec
CONSTANTS
    Procs = {g1, g2}
    NoTag = notag
    Nobody = nobody
    Scenarios <- MCScenarios
    Calls <- MCCalls
    MaxCalls = 3
SYMMETRY Symmetry
INVARIANTS TypeOK SessionAgrees NothingMisread IOFits IOExact OffsetAccounts ReadDirComplete
