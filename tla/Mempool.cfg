CONSTANTS
    Replicas = {r1, r2}
    Txs <- Replacement
    Verdicts <- Unpaid
    BLOCK_TRANSACTION_LENGTH = 2
    MaxOrphans = 1
SPECIFICATION FairSpec
INVARIANTS TypeOK CountersCover NoneStranded
PROPERTY EventuallyExecuted
CHECK_DEADLOCK FALSE
