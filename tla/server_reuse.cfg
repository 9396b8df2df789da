\* A client that reuses a tag as soon as its reply has arrived.
SPECIFICATION Spec
CONSTANTS
    NoTag = notag
    Tags = {notag, t1, t2}
    Fids = {f1}
    Messages <- QueueMessages
    MaxReqs = 4
    MaxConcurrentRequests = 1
    Cloner = TRUE
    Failures = FALSE
    TagReuse = TRUE
INVARIANT FlushReaches
CHECK_DEADLOCK FALSE
