\* An alias of an alias in a clone still follows the original.
SPECIFICATION Spec
CONSTANTS
    a = a
    b = b
    z = z
    f1 = f1
    f2 = f2
    NoFS = nofs
    Names <- AliasNames
    Nodes <- AliasNodes
    FSs <- MCFSs
    Content <- MCContent
    Hosts <- MCFSs
    Flaky = {}
    Requests <- AliasRequests
    Procs = {g1}
    MaxNS = 2
    MaxOps = 5
    MaxLog = 2
    MaxHops = 4
    DevRange = 4
INVARIANT AliasesStayHome
CHECK_DEADLOCK FALSE
