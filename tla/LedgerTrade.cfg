\* Ample funds: no order is refused or uncovered.
CONSTANTS
    base_lot_size = 1
    quote_lot_size = 1
    tick = 1
    tick_scale = 10
    Accounts = {mm, user, taker}
    LimitTraders = {mm, user}
    MarketTraders = {taker}
    Prices = {5, 15}
    Sizes = {1, 3}
    QuoteSizes = {2}
    Transfers <- NoTransfers
    MarketIds = {0}
    Held <- BothAssets
    Funds = 100
    MaxOrders = 4
    MaxNonce = 4
SPECIFICATION Spec
SYMMETRY Symmetry
INVARIANTS BookTotals Conserved
PROPERTIES PriceTimePriority PanicsOnWorthlessTradeOnly UncoveredByPartialFillOnly
CHECK_DEADLOCK FALSE
