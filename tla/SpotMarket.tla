----------------------------- MODULE SpotMarket -----------------------------
(***************************************************************************)
(* The order book and its matching (src/src/state/spot_market.rs), with the *)
(* orders of order.rs.                                                     *)
(*                                                                         *)
(* A book side is a sequence of levels, best price last.  The operations   *)
(* are functions on it; Ledger holds the market and settles their results. *)
(* The binary searches are modelled by the position they find in a sorted  *)
(* vector; Ledger checks that levels and orders are sorted.                *)
(***************************************************************************)
EXTENDS LotConversions, Sequences

CONSTANTS
    Accounts,       \* that place orders
    Prices          \* of limit orders

NoAccount == "none"

ASSUME BookAssumption == NoAccount \notin Accounts /\ Prices \subseteq Nat \ {0}

Sides == {"Buy", "Sell"}
Other(side) == IF side = "Buy" THEN "Sell" ELSE "Buy"

\* LimitOrder.  The book's copy of an order is Open or Cancelled.
LimitOrder(id, market_id, account, direction, price, base_lots, filled, self_filled, cancelled) ==
    [id |-> id, market_id |-> market_id, account |-> account, direction |-> direction,
     price |-> price, base_lots |-> base_lots, filled_base_lots |-> filled,
     self_filled |-> self_filled, cancelled |-> cancelled]

new_limit_order(id, market_id, account, direction, price, base_lots) ==
    LimitOrder(id, market_id, account, direction, price, base_lots, 0, 0, FALSE)

get_order_remaining(o) == o.base_lots - o.filled_base_lots - o.self_filled

\* The order with more of it filled, by others and by its own account.
Filled(o, lots, self) ==
    LimitOrder(o.id, o.market_id, o.account, o.direction, o.price, o.base_lots,
               o.filled_base_lots + lots, o.self_filled + self, o.cancelled)

Marked(o) ==
    LimitOrder(o.id, o.market_id, o.account, o.direction, o.price, o.base_lots,
               o.filled_base_lots, o.self_filled, TRUE)

Level(price, volume, orders, cancelled) ==
    [price |-> price, volume |-> volume, orders |-> orders, cancelled |-> cancelled]

\* The smaller of two numbers.
Least(a, b) == IF a < b THEN a ELSE b

-----------------------------------------------------------------------------
(* Adding and cancelling                                                   *)

\* Price p stands to the left of (is worse than) price q on a side.
Worse(side, p, q) == IF side = "Buy" THEN p < q ELSE p > q

\* How many levels stand to the left of a price that has none.
Position(levels, side, price) ==
    CHOOSE k \in 0 .. Len(levels) :
        \A i \in DOMAIN levels : Worse(side, levels[i].price, price) <=> i <= k

Inserted(levels, k, level) ==
    SubSeq(levels, 1, k) \o <<level>> \o SubSeq(levels, k + 1, Len(levels))

Removed(levels, k) == SubSeq(levels, 1, k - 1) \o SubSeq(levels, k + 1, Len(levels))

\* Mutant: one order for the levels of both sides.
worst_ask_last(levels, o) ==
    LET open == o.base_lots - o.filled_base_lots
        at   == {i \in DOMAIN levels : levels[i].price = o.price}
    IN IF at # {}
       THEN [i \in DOMAIN levels |->
               IF i \notin at THEN levels[i]
               ELSE Level(o.price, levels[i].volume + open, Append(levels[i].orders, o),
                          levels[i].cancelled)]
       ELSE Inserted(levels, Position(levels, "Buy", o.price), Level(o.price, open, <<o>>, 0))

\* Mutant: the newest order of a level is the first to be filled.
newest_first(levels, o) ==
    LET open == o.base_lots - o.filled_base_lots
        at   == {i \in DOMAIN levels : levels[i].price = o.price}
    IN IF at # {}
       THEN [i \in DOMAIN levels |->
               IF i \notin at THEN levels[i]
               ELSE Level(o.price, levels[i].volume + open, <<o>> \o levels[i].orders,
                          levels[i].cancelled)]
       ELSE Inserted(levels, Position(levels, o.direction, o.price), Level(o.price, open, <<o>>, 0))

add_order_with_cmp(levels, o) ==
    LET open == o.base_lots - o.filled_base_lots
        at   == {i \in DOMAIN levels : levels[i].price = o.price}
    IN IF at # {}
       THEN [i \in DOMAIN levels |->
               IF i \notin at THEN levels[i]
               ELSE Level(o.price, levels[i].volume + open, Append(levels[i].orders, o),
                          levels[i].cancelled)]
       ELSE Inserted(levels, Position(levels, o.direction, o.price), Level(o.price, open, <<o>>, 0))

\* The orders that are not cancelled.
retain(orders) ==
    LET kept[i \in 0 .. Len(orders)] ==
          IF i = 0 THEN << >>
          ELSE IF orders[i].cancelled THEN kept[i - 1] ELSE Append(kept[i - 1], orders[i])
    IN kept[Len(orders)]

\* Mutant: a sparse level is pruned without resetting its counter.
prune_keeps_count(level) ==
    IF level.cancelled > Len(level.orders) \div 2
    THEN Level(level.price, level.volume, retain(level.orders), level.cancelled)
    ELSE level

\* The level without its cancelled orders, once they are more than half of it.
prune_level(level) ==
    IF level.cancelled > Len(level.orders) \div 2
    THEN Level(level.price, level.volume, retain(level.orders), 0)
    ELSE level

\* Marks the order in its level.  What is unlocked is computed from the caller's
\* copy of the order: `unfilled` is 0 if the book does not have it.
cancel_order_with_cmp(levels, o) ==
    LET found == {at \in UNION {{i} \X DOMAIN levels[i].orders : i \in DOMAIN levels} :
                    /\ levels[at[1]].price = o.price
                    /\ levels[at[1]].orders[at[2]].id = o.id
                    /\ ~levels[at[1]].orders[at[2]].cancelled}
        unfilled == o.base_lots - o.filled_base_lots
    IN IF found = {} THEN [levels |-> levels, unfilled |-> 0, panics |-> FALSE]
       ELSE LET at     == CHOOSE x \in found : TRUE
                level  == levels[at[1]]
                volume == level.volume - unfilled
                marked == Level(level.price, volume,
                                [level.orders EXCEPT ![at[2]] = Marked(level.orders[at[2]])],
                                level.cancelled + 1)
            IN [levels   |-> IF volume = 0 THEN Removed(levels, at[1])
                             ELSE [levels EXCEPT ![at[1]] = prune_level(marked)],
                unfilled |-> unfilled,
                panics   |-> volume < 0]

-----------------------------------------------------------------------------
(* Matching                                                                *)

\* One turn of the loop over the orders of a level: of `rem` base lots as many as it
\* has are taken from order i.  Of an order of account `self` they are taken as self
\* fills.  An order that is used up, or was cancelled, is to be drained; of the
\* others only the one that is left when nothing remains records what was taken.
MatchOrder(m, i, price, self) ==
    LET o     == m.orders[i]
        lots  == Least(m.rem, get_order_remaining(o))
        quote == base_to_quote_lots(lots, price)
        own   == o.account = self
        full  == lots = get_order_remaining(o)
    IN IF m.stop THEN m
       ELSE IF o.cancelled
       THEN [rem |-> m.rem, stop |-> FALSE, drain |-> m.drain + 1, seen |-> m.seen + 1,
             orders |-> m.orders, base |-> m.base, quote |-> m.quote, spent |-> m.spent,
             last |-> m.last, residual |-> m.residual]
       ELSE [rem      |-> m.rem - lots,
             stop     |-> m.rem = lots,
             drain    |-> IF full THEN m.drain + 1 ELSE m.drain,
             seen     |-> m.seen,
             orders   |-> IF own THEN [m.orders EXCEPT ![i] = Filled(o, 0, lots)]
                          ELSE IF full THEN m.orders
                          ELSE [m.orders EXCEPT ![i] = Filled(o, lots, 0)],
             base     |-> IF own THEN m.base ELSE m.base + lots,
             quote    |-> IF own THEN m.quote ELSE m.quote + quote,
             spent    |-> m.spent + quote,
             last     |-> IF own THEN m.last ELSE price,
             residual |-> IF full THEN m.residual
                          ELSE {[order_id |-> o.id, account |-> o.account, price |-> price,
                                 filled_base_lots |-> IF own THEN 0 ELSE lots,
                                 self_fill |-> IF own THEN lots ELSE 0]}]

\* The loop: what it has after each order.  `base` and `quote` are the lots filled
\* against others, `last` the price of the last of these fills, 0 if there is none.
Matching(level, base_lots, self) ==
    LET after[i \in 0 .. Len(level.orders)] ==
          IF i = 0
          THEN [rem |-> base_lots, stop |-> FALSE, drain |-> 0, seen |-> 0,
                orders |-> level.orders, base |-> 0, quote |-> 0, spent |-> 0,
                last |-> 0, residual |-> {}]
          ELSE MatchOrder(after[i - 1], i, level.price, self)
    IN after

MatchOrders(level, base_lots, self) == Matching(level, base_lots, self)[Len(level.orders)]

\* A level's price is within the limit order, if there is one ({} for market orders).
Crosses(price, limit) ==
    \A o \in limit : price = o.price \/ Worse(Other(o.direction), o.price, price)

\* The size of an order in base lots at a price: that of a market buy is in quote lots.
BaseSize(rem, price, in_quote) ==
    IF in_quote THEN quote_lots_to_base_lots(rem, price) ELSE rem

\* One turn of the loop over the levels, at the best price, as long as the price crosses
\* and something remains.  A level whose orders are all used up is popped, otherwise the
\* loop ends.
ExecuteLevel(x, in_quote, self, limit) ==
    LET n     == Len(x.levels)
        level == x.levels[n]
        base  == BaseSize(x.rem, level.price, in_quote)
        m     == MatchOrders(level, base, self)
        rest  == SubSeq(m.orders, m.drain + 1, Len(m.orders))
    IN IF x.done \/ n = 0 \/ x.rem = 0 THEN x
       ELSE IF base = 0 \/ ~Crosses(level.price, limit) THEN x
       ELSE [rem      |-> IF in_quote THEN x.rem - m.spent ELSE m.rem,
             done     |-> m.drain < Len(m.orders),
             levels   |-> IF m.drain < Len(m.orders)
                          THEN [x.levels EXCEPT ![n] =
                                  Level(level.price, level.volume - (base - m.rem), rest,
                                        level.cancelled - m.seen)]
                          ELSE SubSeq(x.levels, 1, n - 1),
             filled   |-> x.filled \o SubSeq(m.orders, 1, m.drain),
             base     |-> x.base + m.base,
             quote    |-> x.quote + m.quote,
             last     |-> IF m.last = 0 THEN x.last ELSE m.last,
             residual |-> x.residual \cup m.residual]

Executing(levels, size, in_quote, self, limit) ==
    LET after[i \in 0 .. Len(levels)] ==
          IF i = 0
          THEN [rem |-> size, done |-> FALSE, levels |-> levels, filled |-> << >>,
                base |-> 0, quote |-> 0, last |-> 0, residual |-> {}]
          ELSE ExecuteLevel(after[i - 1], in_quote, self, limit)
    IN after

Execute(levels, size, in_quote, self, limit) ==
    Executing(levels, size, in_quote, self, limit)[Len(levels)]

\* A limit order takes levels up to its price, without looking for self trades
\* (the ledger rejects orders that cross the account's own).
execute_limit(levels, o) ==
    Execute(levels, o.base_lots, FALSE, NoAccount, {o})

execute_market_buy_order(levels, quote_size, account) ==
    Execute(levels, quote_size, TRUE, account, {})

execute_market_sell_order(levels, base_size, account) ==
    Execute(levels, base_size, FALSE, account, {})

get_best_price(levels) == IF levels = << >> THEN {} ELSE {levels[Len(levels)].price}

\* The orders of a side, and which of two is to be filled before the other.
OrdersOf(levels) == UNION {{levels[i].orders[k] : k \in DOMAIN levels[i].orders} : i \in DOMAIN levels}
Ahead(p, q) == \/ Worse(p.direction, q.price, p.price)
               \/ p.price = q.price /\ p.id < q.id

\* A counter of a level went below zero.
BadLevels(levels) == \E i \in DOMAIN levels : levels[i].volume < 0 \/ levels[i].cancelled < 0

\* The price of the last fill, as set_last_executed_price keeps it.
LastPrice(x, old) == IF x.last = 0 THEN old ELSE x.last

=============================================================================
