CONSTANTS
    Leaves <- Transactions
    Lists <- SomeLists
    Digest <- Pair2
    Zero <- NoHash
SPECIFICATION Spec
INVARIANTS InBounds RootIdentifiesBlock RootIsReference
PROPERTY ComputesLevels
CHECK_DEADLOCK FALSE
