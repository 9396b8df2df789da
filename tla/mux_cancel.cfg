\* Cancellation, flushes and Close, with fewer tags than the calls need.
SPECIFICATION Spec
CONSTANTS
    Calls = {c1, c2, c3}
    NoTag = 3
    Cancels = TRUE
    Failures = TRUE
    LateReplies = FALSE
SYMMETRY Symmetry
INVARIANTS TypeOK PendingFresh RightReply
PROPERTY NoFreeTagsAlmostTrue
CHECK_DEADLOCK FALSE
