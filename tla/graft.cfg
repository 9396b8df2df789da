\* Three handlers on a grafted tree, through two front fids.
SPECIFICATION Spec
CONSTANTS
    Fids = {1, 2}
    Handlers = {h1, h2, h3}
    Nobody = nobody
    Names = {"d", "e", "x", "y", ".."}
    Requests <- MCRequests
    MaxRequests = 4
    MaxDepth = 2
SYMMETRY Symmetry
INVARIANTS TypeOK FrontFidWorks 
