---------------------------- MODULE LedgerTotals ----------------------------
(***************************************************************************)
(* What the sums that the ledger keeps or relies on may be relied on for:  *)
(* the counters of a level, what the accounts own together, and the locks  *)
(* of their orders.                                                        *)
(***************************************************************************)
EXTENDS Ledger, FiniteSetsExt

\* The counters of a level are those of its orders: volume, by which a level is
\* removed, is what remains of its live orders, and cancelled, by which it is pruned,
\* counts the others.
BookTotals ==
    \A side \in Sides : \A i \in DOMAIN book[side] :
        LET level == book[side][i]
        IN /\ level.volume = MapThenSumSet(get_order_remaining, {o \in Range(level.orders) : ~o.cancelled})
           /\ level.cancelled = Len(level.orders) - Len(LiveAt(level))

SumTotals(asset) ==
    MapThenSumSet(LAMBDA a : Balance(balances[a], asset).total, Accounts)

\* Trades neither create nor destroy an asset: what the accounts own of it together
\* is what they were funded with.
Conserved ==
    \A asset \in Assets : SumTotals(asset)
        = Funds * Cardinality({a \in Accounts : Positions(balances[a], asset) # {}})

Locked(a, asset) == Balance(balances[a], asset).total - Balance(balances[a], asset).available

\* locked_balance() covers the account's orders in the book: what a limit order
\* needs was taken from the available balance ("Check whether account has enough
\* balance to place the order") until the order is filled or cancelled.
OrdersCovered ==
    \A a \in Accounts, side \in Sides :
        MapThenSumSet(LAMBDA o : LockOf(side, o.price, get_order_remaining(o)),
                      {o \in Live(side) : o.account = a}) <= Locked(a, OutAsset(side))

\* Only one thing leaves orders uncovered: a limit order that trades in part gets
\* its whole lock back although the rest of it stands in the book.
UncoveredByPartialFillOnly ==
    [][\/ OrdersCovered' \/ ~OrdersCovered
       \/ \E side \in Sides : \E o \in Live(side)' : o.id = next_id /\ o.filled_base_lots > 0]_vars

\* The sum of what the accounts own changes only by a transfer, and by its amount:
\* `transfer` credits the receiver's total and leaves the sender's as it was.
TotalsGrowByTransfersOnly ==
    [][\A asset \in Assets :
         LET grown == SumTotals(asset)' - SumTotals(asset)
         IN grown # 0 => \E t \in Transfers :
                /\ t.asset_id = asset /\ t.amount = grown
                /\ Transfer(t.from, t.to, asset, grown)]_balances

=============================================================================
