\* Scarce funds, unknown markets and transfers.
CONSTANTS
    base_lot_size = 2
    quote_lot_size = 1
    tick = 1
    tick_scale = 10
    Accounts = {mm, user, taker}
    LimitTraders = {mm, user}
    MarketTraders = {taker}
    Prices = {10, 15}
    Sizes = {1, 2}
    QuoteSizes = {3}
    Transfers <- SomeTransfers
    MarketIds = {0, 1}
    Held <- BothAssets
    Funds = 4
    MaxOrders = 3
    MaxNonce = 2
SPECIFICATION Spec
SYMMETRY Symmetry
INVARIANTS TypeOK BookOrdered CopiesAgree
PROPERTY TotalsGrowByTransfersOnly
CHECK_DEADLOCK FALSE
