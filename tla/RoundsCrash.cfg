CONSTANTS
    N = 4
    MaxView = 9
    Payloads = {TRUE}
    MaxLate = 0
    BadViews = {}
    MaxCrash = 1
SPECIFICATION FairRoundsSpec
INVARIANT Agreement
PROPERTY CommitsUnlessMissed
CHECK_DEADLOCK FALSE
