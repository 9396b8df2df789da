\* Tflush against queued, running and finished requests, one slot, renegotiation.
SPECIFICATION Spec
CONSTANTS
    NoTag = notag
    Tags = {notag, t1, t2, t3}
    Fids = {f1}
    Messages <- FlushMessages
    MaxReqs = 5
    MaxConcurrentRequests = 1
    Cloner = TRUE
    Failures = TRUE
    TagReuse = FALSE
SYMMETRY TagSymmetry
INVARIANTS TypeOK SlotBound FlushReaches ReplyDialect
PROPERTY ContractHolds
CHECK_DEADLOCK FALSE
