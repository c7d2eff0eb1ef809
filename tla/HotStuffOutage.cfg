CONSTANTS
    N = 4
    MaxView = 16
    Payloads = {TRUE}
    LostProposals = {2, 3, 6, 9}
    LostVotes = {9}
    LateProposals = {1, 5}
    ReleaseView = 9
    CutOff = 1
    CutOffView = 9
SPECIFICATION OutageSpec
INVARIANT Agreement
CHECK_DEADLOCK FALSE
