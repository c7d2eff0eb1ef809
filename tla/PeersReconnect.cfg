\* Two nodes that do not crash.
CONSTANTS
    Nodes = {0, 1}
    ClientNode = 0
    MaxCrash = 0
    MaxStream = 1
SPECIFICATION FairSpec
PROPERTY Reconnects
CHECK_DEADLOCK FALSE
