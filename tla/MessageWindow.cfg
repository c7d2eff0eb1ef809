CONSTANTS
    MaxView = 3
    MaxMessages = 5
    Message <- Messages
SPECIFICATION Spec
INVARIANT IterComplete
PROPERTY ImplementsLog
