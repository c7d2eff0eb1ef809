------------------------------- MODULE Ledger -------------------------------
(***************************************************************************)
(* The ledger: LedgerState (src/src/state/state.rs) with the clearing house *)
(* (spot_clearinghouse.rs) and one market (SpotMarket).  Each action is one *)
(* transaction that `apply` executes with the nonce the account is expected *)
(* to use; with any other nonce it is rejected and nothing changes.        *)
(*                                                                         *)
(* The replica applies blocks in one task, so transactions do not overlap. *)
(* Arithmetic is that of the build the README describes (cargo run, the    *)
(* dev profile): a subtraction below zero, a division by zero or an index  *)
(* out of bounds panics, which ends the task.  A panic leaves `panicked`    *)
(* and the state as it was before the transaction.                         *)
(***************************************************************************)
EXTENDS SpotMarket

CONSTANTS
    LimitTraders, MarketTraders,    \* the accounts that send each kind of order
    Sizes, QuoteSizes,              \* of limit orders and market sells; of market buys
    Transfers,                      \* set of [from, to, asset_id, amount]
    MarketIds,                      \* the market ids that transactions name; 0 exists
    Held,                           \* the orders in which an account may have been funded
    Funds,                          \* balance of each asset of an account at the start
    MaxOrders, MaxNonce             \* bounds on orders and on transactions per account

Base == 0
Quote == 1
Assets == {Base, Quote}

ASSUME InputsAssumption ==
    /\ LimitTraders \cup MarketTraders \subseteq Accounts
    /\ Held # {} /\ Held \subseteq Seq(Assets)
    /\ \A h \in Held : \A i, j \in DOMAIN h : h[i] = h[j] => i = j
    /\ \A t \in Transfers : {t.from, t.to} \subseteq Accounts /\ t.amount \in Nat
    /\ Sizes \cup QuoteSizes \cup MarketIds \cup {Funds, MaxOrders, MaxNonce} \subseteq Nat

VARIABLES
    balances,               \* account -> Vec<AccountTokenBalance>
    accounts,               \* account -> AccountInfo
    book,                   \* side -> levels
    last_executed_price,    \* 0 before the first trade
    next_id,                \* OrderStateManager
    panicked

vars == <<balances, accounts, book, last_executed_price, next_id, panicked>>

\* AccountTokenBalance and AccountInfo.
TokenBalance(asset_id, available, total) ==
    [asset_id |-> asset_id, available |-> available, total |-> total]
AccountInfo(expected_nonce, open_orders, completed_orders) ==
    [expected_nonce |-> expected_nonce, open_orders |-> open_orders,
     completed_orders |-> completed_orders]

\* The state after the faucet has funded the accounts, one asset after the other.
Init ==
    /\ \E held \in [Accounts -> Held] :
         balances = [a \in Accounts |->
                       [i \in DOMAIN held[a] |-> TokenBalance(held[a][i], Funds, Funds)]]
    /\ accounts = [a \in Accounts |-> AccountInfo(0, {}, {})]
    /\ book = [side \in Sides |-> << >>]
    /\ last_executed_price = 0
    /\ next_id = 0
    /\ panicked = FALSE

-----------------------------------------------------------------------------
(* Balances                                                                *)

Positions(bal, asset) == {i \in DOMAIN bal : bal[i].asset_id = asset}

\* get_account_token_balance_mut, and what is then added to the entry.
Adjust(bal, asset, available, total) ==
    IF Positions(bal, asset) = {}
    THEN Append(bal, TokenBalance(asset, available, total))
    ELSE [i \in DOMAIN bal |->
            IF i \in Positions(bal, asset)
            THEN TokenBalance(asset, bal[i].available + available, bal[i].total + total)
            ELSE bal[i]]

Balance(bal, asset) ==
    IF Positions(bal, asset) = {} THEN [available |-> 0, total |-> 0]
    ELSE LET i == CHOOSE x \in Positions(bal, asset) : TRUE
         IN [available |-> bal[i].available, total |-> bal[i].total]

Overdrawn(bal) == \E i \in DOMAIN bal : bal[i].available < 0 \/ bal[i].total < 0

\* Mutant: the total of what is given is not debited.
trade_debits_available(bal, buys, base, quote, locked) ==
    LET b == base * base_lot_size
        q == quote * quote_lot_size
        kept(x) == IF locked THEN 0 ELSE -x
    IN IF buys THEN Adjust(Adjust(bal, Quote, kept(q), 0), Base, b, b)
       ELSE Adjust(Adjust(bal, Base, kept(b), 0), Quote, q, q)

\* A trade of an account: `base` and `quote` lots change hands, and what it gives
\* comes out of its available balance too unless it was locked before.
Trade(bal, buys, base, quote, locked) ==
    LET b == base * base_lot_size
        q == quote * quote_lot_size
        kept(x) == IF locked THEN 0 ELSE -x
    IN IF buys THEN Adjust(Adjust(bal, Quote, kept(q), -q), Base, b, b)
       ELSE Adjust(Adjust(bal, Base, kept(b), -b), Quote, q, q)

\* What a maker's order gave and got.
Settle(bals, account, taker_buys, lots, price) ==
    [bals EXCEPT ![account] =
       Trade(@, ~taker_buys, lots, base_to_quote_lots(lots, price), TRUE)]

\* Mutant: a maker's order that was filled in part before is settled in full again.
settle_whole_order(bals, o, taker_buys) ==
    IF o.cancelled THEN bals ELSE Settle(bals, o.account, taker_buys, o.base_lots, o.price)

\* An order that was used up.
SettleFilled(bals, o, taker_buys) ==
    IF o.cancelled THEN bals
    ELSE Settle(bals, o.account, taker_buys, o.base_lots - o.filled_base_lots, o.price)

Settling(bals, x, taker_buys) ==
    LET after[i \in 0 .. Len(x.filled)] ==
          IF i = 0 THEN bals ELSE SettleFilled(after[i - 1], x.filled[i], taker_buys)
    IN after

\* The makers' side of the settlement: the orders that were used up, and the one
\* that was used in part.
SettleMakers(bals, x, taker_buys) ==
    LET filled == Settling(bals, x, taker_buys)[Len(x.filled)]
        r      == CHOOSE r \in x.residual : TRUE
    IN IF x.residual = {} THEN filled
       ELSE Settle(filled, r.account, taker_buys, r.filled_base_lots, r.price)

-----------------------------------------------------------------------------
(* Account infos                                                           *)

\* The ids of the orders of an account that were used up.
UsedUp(x, a) == {x.filled[i].id : i \in {k \in DOMAIN x.filled : x.filled[k].account = a}}

\* The account's copy of the order that was used in part.
Grown(o, x) ==
    LET r == CHOOSE r \in x.residual : r.order_id = o.id
    IN IF \E p \in x.residual : p.order_id = o.id THEN Filled(o, r.filled_base_lots, r.self_fill)
       ELSE o

\* Mutant: the account's copy of a partly filled order is not updated.
forget_residual(infos, x) ==
    [a \in Accounts |->
       LET open == infos[a].open_orders
           used == UsedUp(x, a)
       IN AccountInfo(infos[a].expected_nonce, {o \in open : o.id \notin used},
                      infos[a].completed_orders \cup {o.id : o \in {p \in open : p.id \in used}})]

\* Mutant: the partly filled order is completed too.
complete_residual(infos, x) ==
    [a \in Accounts |->
       LET open == infos[a].open_orders
           used == UsedUp(x, a) \cup {r.order_id : r \in x.residual}
       IN AccountInfo(infos[a].expected_nonce, {o \in open : o.id \notin used},
                      infos[a].completed_orders \cup {o.id : o \in {p \in open : p.id \in used}})]

\* The orders that were used up move to the completed ones of their accounts (those
\* that had been cancelled already did); the one used in part is updated.
UpdateMakers(infos, x) ==
    [a \in Accounts |->
       LET open == infos[a].open_orders
           used == UsedUp(x, a)
       IN AccountInfo(infos[a].expected_nonce, {Grown(o, x) : o \in {p \in open : p.id \notin used}},
                      infos[a].completed_orders \cup {o.id : o \in {p \in open : p.id \in used}})]

\* The .expect() on the open order of a partly filled order.
ResidualMissing(infos, x) ==
    \E r \in x.residual : \A o \in infos[r.account].open_orders : o.id # r.order_id

Advance(infos, a) ==
    [infos EXCEPT ![a] = AccountInfo(@.expected_nonce + 1, @.open_orders, @.completed_orders)]
Opened(infos, a, o) ==
    [infos EXCEPT ![a] = AccountInfo(@.expected_nonce, @.open_orders \cup {o}, @.completed_orders)]
Completed(infos, a, id) ==
    [infos EXCEPT ![a] = AccountInfo(@.expected_nonce, @.open_orders, @.completed_orders \cup {id})]
Closed(infos, a, o) ==
    [infos EXCEPT ![a] = AccountInfo(@.expected_nonce, @.open_orders \ {o},
                                     @.completed_orders \cup {o.id})]

is_self_cross(open_orders, side, price) ==
    \E o \in open_orders :
        /\ o.direction = Other(side)
        /\ IF side = "Buy" THEN price >= o.price ELSE price <= o.price

Panic == /\ panicked' = TRUE
         /\ UNCHANGED <<balances, accounts, book, last_executed_price, next_id>>

May(a) == ~panicked /\ accounts[a].expected_nonce < MaxNonce

-----------------------------------------------------------------------------
(* Limit orders                                                            *)

OutAsset(side) == IF side = "Buy" THEN Quote ELSE Base

\* expected_balance_lock of a limit order.
LockOf(side, price, base_lots) ==
    IF side = "Buy" THEN base_to_quote_lots(base_lots, price) * quote_lot_size
    ELSE base_lots * base_lot_size

\* The order is recorded as open before it is checked against anything but the
\* account's own orders.
LimitInput(a, side, price) ==
    /\ May(a) /\ next_id < MaxOrders
    /\ ~is_self_cross(accounts[a].open_orders, side, price)

\* An order for a market that does not exist: the nonce is not used up.
LimitUnknownMarket(a, market_id, side, price, size) ==
    /\ LimitInput(a, side, price) /\ market_id # 0
    /\ accounts' = Opened(accounts, a, new_limit_order(next_id, market_id, a, side, price, size))
    /\ next_id' = next_id + 1
    /\ UNCHANGED <<balances, book, last_executed_price, panicked>>

Covered(a, asset, amount) == Balance(balances[a], asset).available >= amount

LimitNotCovered(a, side, price, size) ==
    /\ LimitInput(a, side, price)
    /\ ~Covered(a, OutAsset(side), LockOf(side, price, size))
    /\ accounts' = Advance(Opened(accounts, a, new_limit_order(next_id, 0, a, side, price, size)), a)
    /\ balances' = [balances EXCEPT ![a] = Adjust(@, OutAsset(side), 0, 0)]
    /\ next_id' = next_id + 1
    /\ UNCHANGED <<book, last_executed_price, panicked>>

Crossing(side, price) ==
    \E p \in get_best_price(book[Other(side)]) :
        Crosses(p, {[price |-> price, direction |-> side]})

\* Mutant: an order is accepted without the check of the balance.
rests_uncovered(a, side, price, size) ==
    /\ LimitInput(a, side, price)
    /\ ~Crossing(side, price)
    /\ LET o == new_limit_order(next_id, 0, a, side, price, size)
       IN /\ accounts' = Advance(Opened(accounts, a, o), a)
          /\ book' = [book EXCEPT ![side] = add_order_with_cmp(@, o)]
    /\ balances' = [balances EXCEPT ![a] =
                      Adjust(@, OutAsset(side), -LockOf(side, price, size), 0)]
    /\ next_id' = next_id + 1
    /\ UNCHANGED <<last_executed_price, panicked>>

\* Mutant: an order rests without a lock.
rests_unlocked(a, side, price, size) ==
    /\ LimitInput(a, side, price)
    /\ Covered(a, OutAsset(side), LockOf(side, price, size))
    /\ ~Crossing(side, price)
    /\ LET o == new_limit_order(next_id, 0, a, side, price, size)
       IN /\ accounts' = Advance(Opened(accounts, a, o), a)
          /\ book' = [book EXCEPT ![side] = add_order_with_cmp(@, o)]
    /\ balances' = [balances EXCEPT ![a] = Adjust(@, OutAsset(side), 0, 0)]
    /\ next_id' = next_id + 1
    /\ UNCHANGED <<last_executed_price, panicked>>

LimitRests(a, side, price, size) ==
    /\ LimitInput(a, side, price)
    /\ Covered(a, OutAsset(side), LockOf(side, price, size))
    /\ ~Crossing(side, price)
    /\ LET o == new_limit_order(next_id, 0, a, side, price, size)
       IN /\ accounts' = Advance(Opened(accounts, a, o), a)
          /\ book' = [book EXCEPT ![side] = add_order_with_cmp(@, o)]
    /\ balances' = [balances EXCEPT ![a] =
                      Adjust(@, OutAsset(side), -LockOf(side, price, size), 0)]
    /\ next_id' = next_id + 1
    /\ UNCHANGED <<last_executed_price, panicked>>

\* The order trades at its price or better.  Its whole lock is released, and what
\* the trades cost is taken from the available balance; what is left of the order
\* goes to the book.
LimitTrades(a, side, price, size) ==
    /\ LimitInput(a, side, price)
    /\ Covered(a, OutAsset(side), LockOf(side, price, size))
    /\ Crossing(side, price)
    /\ LET o     == new_limit_order(next_id, 0, a, side, price, size)
           x     == execute_limit(book[Other(side)], o)
           left  == Filled(o, size - x.rem, 0)
           taken == [balances EXCEPT ![a] = Trade(@, side = "Buy", x.base, x.quote, FALSE)]
           bals  == SettleMakers(taken, x, side = "Buy")
           infos == IF x.rem > 0 THEN Opened(accounts, a, left)
                    ELSE Completed(accounts, a, o.id)
       IN IF \/ Overdrawn(taken[a]) \/ \E b \in Accounts : Overdrawn(bals[b])
             \/ BadLevels(x.levels) \/ x.quote = 0 \/ ResidualMissing(infos, x)
          THEN Panic
          ELSE /\ balances' = bals
               /\ accounts' = Advance(UpdateMakers(infos, x), a)
               /\ book' = [book EXCEPT ![Other(side)] = x.levels,
                                       ![side] = IF x.rem > 0 THEN add_order_with_cmp(@, left)
                                                 ELSE @]
               /\ last_executed_price' = LastPrice(x, last_executed_price)
               /\ next_id' = next_id + 1
               /\ UNCHANGED panicked

-----------------------------------------------------------------------------
(* Market orders                                                           *)

MarketUnknownMarket(a, market_id) ==
    /\ May(a) /\ next_id < MaxOrders /\ market_id # 0
    /\ next_id' = next_id + 1
    /\ UNCHANGED <<balances, accounts, book, last_executed_price, panicked>>

MarketSellNotCovered(a, size) ==
    /\ May(a) /\ next_id < MaxOrders
    /\ ~Covered(a, Base, size * base_lot_size)
    /\ balances' = [balances EXCEPT ![a] = Adjust(@, Base, 0, 0)]
    /\ accounts' = Advance(accounts, a)
    /\ next_id' = next_id + 1
    /\ UNCHANGED <<book, last_executed_price, panicked>>

\* Settles market order x of account a and records it as completed.
MarketTrades(a, side, x) ==
    LET taken == [balances EXCEPT ![a] = Trade(@, side = "Buy", x.base, x.quote, FALSE)]
        bals  == SettleMakers(taken, x, side = "Buy")
        infos == Completed(accounts, a, next_id)
    IN IF \/ Overdrawn(taken[a]) \/ \E b \in Accounts : Overdrawn(bals[b])
          \/ BadLevels(x.levels) \/ ResidualMissing(infos, x)
       THEN Panic
       ELSE /\ balances' = bals
            /\ accounts' = Advance(UpdateMakers(infos, x), a)
            /\ book' = [book EXCEPT ![Other(side)] = x.levels]
            /\ last_executed_price' = LastPrice(x, last_executed_price)
            /\ next_id' = next_id + 1
            /\ UNCHANGED panicked

MarketSell(a, size) ==
    /\ May(a) /\ next_id < MaxOrders
    /\ Covered(a, Base, size * base_lot_size)
    /\ MarketTrades(a, "Sell", execute_market_sell_order(book["Buy"], size, a))

\* A buy that is not covered is reported and carried out all the same: the
\* subtraction that follows is below zero.
MarketBuy(a, quote_size) ==
    /\ May(a) /\ next_id < MaxOrders
    /\ IF ~Covered(a, Quote, quote_size * quote_lot_size) THEN Panic
       ELSE MarketTrades(a, "Buy", execute_market_buy_order(book["Sell"], quote_size, a))

-----------------------------------------------------------------------------
(* Cancels and transfers                                                   *)

\* The account's copy of the order decides what is unlocked.  An order for a market
\* that does not exist stays open.
Cancel(a) ==
    /\ May(a)
    /\ \E o \in accounts[a].open_orders :
         IF o.market_id # 0
         THEN /\ accounts' = Advance(accounts, a)
              /\ UNCHANGED <<balances, book, last_executed_price, next_id, panicked>>
         ELSE LET r == cancel_order_with_cmp(book[o.direction], o)
              IN IF r.panics THEN Panic
                 ELSE /\ book' = [book EXCEPT ![o.direction] = r.levels]
                      /\ balances' = [balances EXCEPT ![a] =
                           Adjust(@, OutAsset(o.direction),
                                  LockOf(o.direction, o.price, r.unfilled), 0)]
                      /\ accounts' = Advance(Closed(accounts, a, o), a)
                      /\ UNCHANGED <<last_executed_price, next_id, panicked>>

\* The sender is checked by asset id, but debited at that index of its vector, and
\* only in its available balance.
Transfer(a, to, asset, amount) ==
    /\ May(a)
    /\ Positions(balances[a], asset) # {}
    /\ Covered(a, asset, amount)
    /\ IF asset + 1 \notin DOMAIN balances[a]
          \/ balances[a][asset + 1].available < amount
       THEN Panic
       ELSE LET entry == balances[a][asset + 1]
                sent  == [balances EXCEPT ![a][asset + 1] =
                            TokenBalance(entry.asset_id, entry.available - amount, entry.total)]
            IN /\ balances' = [sent EXCEPT ![to] = Adjust(@, asset, amount, amount)]
               /\ accounts' = Advance(accounts, a)
               /\ UNCHANGED <<book, last_executed_price, next_id, panicked>>

Next ==
    \/ \E a \in LimitTraders, side \in Sides, price \in Prices, size \in Sizes :
         \/ \E market_id \in MarketIds : LimitUnknownMarket(a, market_id, side, price, size)
         \/ LimitNotCovered(a, side, price, size)
         \/ LimitRests(a, side, price, size)
         \/ LimitTrades(a, side, price, size)
    \/ \E a \in MarketTraders, market_id \in MarketIds : MarketUnknownMarket(a, market_id)
    \/ \E a \in MarketTraders, size \in Sizes : MarketSellNotCovered(a, size)
    \/ \E a \in MarketTraders, size \in Sizes : MarketSell(a, size)
    \/ \E a \in MarketTraders, size \in QuoteSizes : MarketBuy(a, size)
    \/ \E a \in LimitTraders : Cancel(a)
    \/ \E t \in Transfers : Transfer(t.from, t.to, t.asset_id, t.amount)

Spec == Init /\ [][Next]_vars

-----------------------------------------------------------------------------
(* Properties                                                              *)

Live(side) == {o \in OrdersOf(book[side]) : ~o.cancelled}
LiveAt(level) == retain(level.orders)

\* Amounts are those of unsigned integers, and every order was numbered by the
\* OrderStateManager.
TypeOK ==
    /\ \A a \in Accounts :
         /\ \A i \in DOMAIN balances[a] : /\ balances[a][i].asset_id \in Assets
                                          /\ balances[a][i].available \in Nat
                                          /\ balances[a][i].total \in Nat
         /\ accounts[a].expected_nonce \in 0..MaxNonce
         /\ accounts[a].completed_orders \subseteq 0..next_id - 1
         /\ \A o \in accounts[a].open_orders : o.id \in 0..next_id - 1
    /\ \A side \in Sides : \A i \in DOMAIN book[side] :
         book[side][i].volume \in Nat /\ book[side][i].cancelled \in Nat
    /\ \A side \in Sides : \A o \in OrdersOf(book[side]) :
         o.id \in 0..next_id - 1 /\ get_order_remaining(o) \in Nat
    /\ next_id \in 0..MaxOrders /\ last_executed_price \in Prices \cup {0}
    /\ panicked \in BOOLEAN

\* What the binary searches of add_order_with_cmp, cancel_order_with_cmp and
\* mark_order_as_cancelled rely on, and what get_best_prices reads off the last
\* level: on each side the prices get strictly better and the ids of a level grow,
\* and the best bid stays below the best ask.
BookOrdered ==
    /\ \A side \in Sides : \A i, j \in DOMAIN book[side] :
         i < j => Worse(side, book[side][i].price, book[side][j].price)
    /\ \A side \in Sides : \A i \in DOMAIN book[side] :
         LET orders == book[side][i].orders
         IN \A j, k \in DOMAIN orders : j < k => orders[j].id < orders[k].id
    /\ \A bid \in get_best_price(book["Buy"]), ask \in get_best_price(book["Sell"]) : bid < ask

\* The two copies of an order agree.  A live order of the book is an open order of
\* its account with the same fills, so that a cancel unlocks what is left of it; an
\* open order the book does not have was never filled; no order is both open and
\* completed, or completed and live.
CopiesAgree ==
    /\ \A side \in Sides : \A o \in Live(side) :
         o.direction = side /\ o \in accounts[o.account].open_orders
    /\ \A a \in Accounts : \A o \in accounts[a].open_orders :
         /\ o \notin Live(o.direction) => o.filled_base_lots = 0
         /\ \A b \in Accounts : o.id \notin accounts[b].completed_orders

\* Price-time priority: an incoming order fills an order of the book only when it has
\* used up all orders at a better price, and all earlier ones at the same price.
PriceTimePriority ==
    [][next_id' # next_id =>
         \A side \in Sides : \A p, q \in Live(side) :
             Ahead(p, q) /\ q \notin Live(side)' => \A r \in Live(side)' : r.id # p.id]_vars

\* What the first trade of an incoming limit order is worth in quote lots, as a set:
\* that with the order of the book that is ahead of all others, if the price reaches it.
FirstTrade(side, price, size) ==
    {base_to_quote_lots(Least(size, get_order_remaining(o)), o.price) :
        o \in {p \in Live(Other(side)) :
                 /\ Crosses(p.price, {[price |-> price, direction |-> side]})
                 /\ \A q \in Live(Other(side)) : q = p \/ Ahead(p, q)}}

\* No subtraction of the settlement goes below zero and no update misses its order: if
\* every account can pay for its orders, no market order and no cancel panics, and a
\* limit order does only when its first trade is worth nothing (its average price is
\* then a division by zero): the best level has no live order that it reaches, or the
\* lots it takes round to no quote lot.
PanicsOnWorthlessTradeOnly ==
    [][panicked' # panicked =>
         /\ \A a \in LimitTraders, side \in Sides, price \in Prices, size \in Sizes :
              LimitTrades(a, side, price, size) => FirstTrade(side, price, size) \subseteq {0}
         /\ \A a \in MarketTraders, size \in Sizes : ~MarketSell(a, size)
         /\ \A a \in MarketTraders, size \in QuoteSizes : ~MarketBuy(a, size)
         /\ \A a \in LimitTraders : ~Cancel(a)]_vars

=============================================================================
