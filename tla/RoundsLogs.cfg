CONSTANTS
    N = 4
    MaxView = 6
    Payloads = {TRUE}
    MaxLate = 1
    BadViews = {}
    MaxCrash = 0
SPECIFICATION RoundsSpec
INVARIANT LogsAgree
CHECK_DEADLOCK FALSE
