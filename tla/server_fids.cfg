\* Walks, creates, clunks and removes racing on two fids.
SPECIFICATION Spec
CONSTANTS
    NoTag = notag
    Tags = {notag, t1, t2, t3}
    Fids = {f1, f2}
    Messages <- FidMessages
    MaxReqs = 4
    MaxConcurrentRequests = 0
    Cloner = TRUE
    Failures = FALSE
    TagReuse = FALSE
SYMMETRY Symmetry
INVARIANTS FileLive NoDoubleClose OneOwner EstablishedFidWorks ReleasedStaysReleased
CHECK_DEADLOCK FALSE
