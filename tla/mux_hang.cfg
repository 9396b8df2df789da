\* A tag freed by a reply and reused while its flush is under way.
SPECIFICATION FairSpec
CONSTANTS
    Calls = {c1, c2}
    NoTag = 2
    Cancels = TRUE
    Failures = FALSE
    LateReplies = FALSE
PROPERTY CloseFailsOutstanding
CHECK_DEADLOCK FALSE
