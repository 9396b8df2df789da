\* Close, read errors and cancellation while every tag is fresh.
SPECIFICATION FairSpec
CONSTANTS
    Calls = {c1, c2}
    NoTag = 4
    Cancels = TRUE
    Failures = TRUE
    LateReplies = TRUE
PROPERTIES CloseFailsOutstanding AnsweredOrCancelledReturns
CHECK_DEADLOCK FALSE
