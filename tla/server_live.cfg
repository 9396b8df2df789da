\* One slot, and a backend that may hang for ever.
SPECIFICATION FairSpec
CONSTANTS
    NoTag = notag
    Tags = {notag, t1, t2, t3}
    Fids = {f1}
    Messages <- QueueMessages
    MaxReqs = 4
    MaxConcurrentRequests = 1
    Cloner = TRUE
    Failures = FALSE
    TagReuse = FALSE
PROPERTIES FlushAnswered FlushedLeavesQueue EveryRequestEnds
CHECK_DEADLOCK FALSE
