\* Two nodes, one of which may crash and start again.
CONSTANTS
    Nodes = {0, 1}
    ClientNode = 0
    MaxCrash = 1
    MaxStream = 1
SPECIFICATION FairSpec
INVARIANT HandshakeFailsByCrashOnly
PROPERTIES DialsEnd ConnectionsAgree DeadSocketsAreDropped
CHECK_DEADLOCK FALSE
