---------------------------- MODULE LedgerProofs ----------------------------
(***************************************************************************)
(* The ledger, for every market precision and any accounts, prices and     *)
(* sizes: it keeps its type, the levels of the book and their orders stay  *)
(* in the order that the binary searches rely on, bids and asks do not     *)
(* cross, orders are filled by price and then by age, and a live order is  *)
(* an open order of its account.                                           *)
(***************************************************************************)
EXTENDS Ledger, LedgerBookProofs

-----------------------------------------------------------------------------
(* The inductive invariant                                                 *)

Infos == [expected_nonce : 0 .. MaxNonce, open_orders : SUBSET OrderSet, completed_orders : SUBSET Nat]
Entries == [asset_id : Assets, available : Int, total : Int]

\* The entries of an account: one per asset.
Vector(bal) ==
    /\ bal \in Seq(Entries)
    /\ \A i, j \in DOMAIN bal : bal[i].asset_id = bal[j].asset_id => i = j

BalancesOK(bals) ==
    /\ DOMAIN bals = Accounts
    /\ \A a \in Accounts : Vector(bals[a])

\* Both sides are in order, their orders differ, and no bid reaches an ask.
BookOK(b, n) ==
    /\ DOMAIN b = Sides
    /\ \A side \in Sides : SideOK(side, b[side], n)
    /\ \A p \in PricesOf(b["Buy"]), q \in PricesOf(b["Sell"]) : p < q
    /\ \A o \in OrdersOf(b["Buy"]), p \in OrdersOf(b["Sell"]) : o.id # p.id

\* An id has one open order, and an order that is open is not completed.
OpenOnce(infos) ==
    \A a, b \in Accounts : \A o \in infos[a].open_orders, p \in infos[b].open_orders : o.id = p.id => o = p

OpenOrDone(infos) ==
    \A a, b \in Accounts : \A o \in infos[a].open_orders : o.id \notin infos[b].completed_orders

\* The accounts know their orders by ids that were given out.
InfosOK(infos, n) ==
    /\ infos \in [Accounts -> Infos]
    /\ \A a \in Accounts : \A id \in infos[a].completed_orders : id < n
    /\ \A a \in Accounts : \A o \in infos[a].open_orders : o.id < n /\ o.account = a
    /\ OpenOnce(infos) /\ OpenOrDone(infos)

\* A live order of the levels is open.
LiveOpen(levels, infos) ==
    \A o \in OrdersOf(levels) : ~o.cancelled => o \in infos[o.account].open_orders

\* No balance is overdrawn, both sides are in order, no counter of a level has wrapped,
\* and every live order of the book is an open order of its account.
IInv ==
    /\ next_id \in 0 .. MaxOrders /\ last_executed_price \in Prices \cup {0} /\ panicked \in BOOLEAN
    /\ BalancesOK(balances) /\ \A a \in Accounts : ~Overdrawn(balances[a])
    /\ BookOK(book, next_id) /\ \A side \in Sides : ~BadLevels(book[side])
    /\ InfosOK(accounts, next_id) /\ \A side \in Sides : LiveOpen(book[side], accounts)

-----------------------------------------------------------------------------
(* The book                                                                *)

\* The two sides.
LEMMA OtherSide ==
    ASSUME NEW side \in Sides
    PROVE  Other(side) \in Sides /\ Other(side) # side /\ Other(Other(side)) = side
BY Zenon DEF Sides, Other

\* The book seen from one of its sides.
TwoSides(b, side, n) ==
    /\ DOMAIN b = Sides
    /\ SideOK(side, b[side], n) /\ SideOK(Other(side), b[Other(side)], n)
    /\ \A p \in PricesOf(b[side]), q \in PricesOf(b[Other(side)]) : Worse(side, p, q)
    /\ \A o \in OrdersOf(b[side]), p \in OrdersOf(b[Other(side)]) : o.id # p.id

\* It is the same book.
LEMMA BookSides ==
    \A b : \A side \in Sides : \A n :
        BookOK(b, n) <=> TwoSides(b, side, n)
\* The prices of a side are numbers.
<1>PricesAreNat. ASSUME NEW side, NEW levels, NEW n, SideOK(side, levels, n)
                 PROVE  \A p \in PricesOf(levels) : p \in Nat
  <2> USE <1>PricesAreNat
  <2> SUFFICES ASSUME NEW i \in DOMAIN levels PROVE levels[i].price \in Nat
    BY Zenon DEF PricesOf
  <2>1. levels \in Seq(Levels)
    BY Zenon DEF SideOK
  <2>2. levels[i] \in Levels
    BY <2>1
  <2>3. levels[i].price \in Nat \ {0}
    BY <2>2, LevelFields, Zenon
  <2>. QED BY <2>3, Zenon
<1> SUFFICES ASSUME NEW b, NEW side \in Sides, NEW n
             PROVE  BookOK(b, n) <=> TwoSides(b, side, n)
  BY Zenon
<1>1. CASE side = "Buy"
  <2>1. Other(side) = "Sell" /\ Sides = {"Buy", "Sell"}
    BY <1>1, Zenon DEF Other, Sides
  <2>2. \A p, q : Worse(side, p, q) <=> p < q
    BY <1>1, Zenon DEF Worse
  <2>. QED BY <1>1, <2>1, <2>2, Zenon DEF BookOK, TwoSides
<1>2. CASE side = "Sell"
  <2>1. Other(side) = "Buy" /\ Sides = {"Buy", "Sell"} /\ side # "Buy"
    BY <1>2, Zenon DEF Other, Sides
  <2>2. \A p, q : Worse(side, p, q) <=> p > q
    BY <2>1, Zenon DEF Worse
  <2>3. \A p, q \in Nat : p > q <=> q < p
    BY Zenon
  <2>4. ASSUME BookOK(b, n) PROVE TwoSides(b, side, n)
    <3>1. SideOK("Buy", b["Buy"], n) /\ SideOK("Sell", b["Sell"], n)
      BY <2>1, <2>4, Zenon DEF BookOK
    <3>2. \A p \in PricesOf(b["Buy"]) : p \in Nat
      BY <3>1, <1>PricesAreNat, Zenon
    <3>3. \A p \in PricesOf(b["Sell"]) : p \in Nat
      BY <3>1, <1>PricesAreNat, Zenon
    <3>. QED BY <1>2, <2>1, <2>2, <2>3, <2>4, <3>1, <3>2, <3>3, Zenon DEF BookOK, TwoSides
  <2>5. ASSUME TwoSides(b, side, n) PROVE BookOK(b, n)
    <3>1. SideOK("Buy", b["Buy"], n) /\ SideOK("Sell", b["Sell"], n)
      BY <1>2, <2>1, <2>5, Zenon DEF TwoSides
    <3>2. \A p \in PricesOf(b["Buy"]) : p \in Nat
      BY <3>1, <1>PricesAreNat, Zenon
    <3>3. \A p \in PricesOf(b["Sell"]) : p \in Nat
      BY <3>1, <1>PricesAreNat, Zenon
    <3>. QED BY <1>2, <2>1, <2>2, <2>3, <2>5, <3>1, <3>2, <3>3, Zenon DEF BookOK, TwoSides
  <2>. QED BY <2>4, <2>5, Zenon
<1>. QED BY <1>1, <1>2, Zenon DEF Sides

\* The ids that were given out stay below the next one.
LEMMA SideLater ==
    ASSUME NEW side, NEW levels, NEW n \in Nat, SideOK(side, levels, n)
    PROVE  SideOK(side, levels, n + 1)
<1>1. levels \in Seq(Levels)
  BY Zenon DEF SideOK
<1>2. ASSUME NEW i \in DOMAIN levels PROVE LevelOK(side, levels[i], n + 1)
  <2>1. levels[i] \in Levels
    BY <1>1
  <2>. QED BY <2>1, LevelLater, Zenon DEF SideOK
<1>. QED BY <1>2, Zenon DEF SideOK

\* So do those of the book.
LEMMA BookLater ==
    ASSUME NEW b, NEW n \in Nat, BookOK(b, n)
    PROVE  BookOK(b, n + 1)
BY SideLater, Zenon DEF BookOK

\* An order that does not reach the other side is added.
LEMMA BookAdds ==
    ASSUME NEW b, NEW n \in Nat, BookOK(b, n), NEW side \in Sides, NEW o \in Orders, o.id = n,
           o.direction = side, \A p \in PricesOf(b[Other(side)]) : Worse(side, o.price, p)
    PROVE  BookOK([b EXCEPT ![side] = add_order_with_cmp(b[side], o)], n + 1)
<1> DEFINE new == add_order_with_cmp(b[side], o)
           c == [b EXCEPT ![side] = new]
<1>1. TwoSides(b, side, n)
  BY BookSides, Zenon
<1>2. DOMAIN b = Sides /\ SideOK(side, b[side], n) /\ SideOK(Other(side), b[Other(side)], n)
  BY <1>1, Zenon DEF TwoSides
<1>3. /\ SideOK(side, new, n + 1) /\ OrdersOf(new) = OrdersOf(b[side]) \cup {o}
      /\ PricesOf(new) \subseteq PricesOf(b[side]) \cup {o.price}
  <2>1. IsAdded(side, b[side], o, n, new)
    BY <1>2, AddSide, Zenon
  <2> HIDE DEF new
  <2>. QED BY <2>1, Zenon DEF IsAdded
<1>4. DOMAIN c = Sides /\ c[side] = new /\ c[Other(side)] = b[Other(side)]
  BY <1>2, OtherSide, Zenon
<1> HIDE DEF new, c
<1>5. SideOK(Other(side), c[Other(side)], n + 1)
  BY <1>2, <1>4, SideLater, Zenon
<1>6. \A p \in OrdersOf(b[Other(side)]) : p.id # o.id
  <2> SUFFICES ASSUME NEW p \in OrdersOf(b[Other(side)]) PROVE p.id # o.id
    BY Zenon
  <2>1. p \in Orders /\ p.id < n
    BY <1>2, SideOrders, Zenon
  <2>2. p.id \in Nat
    BY <2>1, OrderFields, Zenon
  <2>. QED BY <2>1, <2>2
<1>7. \A p \in PricesOf(c[side]), q \in PricesOf(c[Other(side)]) : Worse(side, p, q)
  BY <1>1, <1>3, <1>4, Zenon DEF TwoSides
<1>8. \A p \in OrdersOf(c[side]), q \in OrdersOf(c[Other(side)]) : p.id # q.id
  <2> SUFFICES ASSUME NEW p \in OrdersOf(b[side]) \cup {o}, NEW q \in OrdersOf(b[Other(side)]) PROVE p.id # q.id
    BY <1>3, <1>4, Zenon
  <2>. QED BY <1>1, <1>6, Zenon DEF TwoSides
<1>9. TwoSides(c, side, n + 1)
  BY <1>3, <1>4, <1>5, <1>7, <1>8, Zenon DEF TwoSides
<1>. QED BY <1>9, BookSides, Zenon DEF c, new

\* A side gets smaller.
Smaller(side, levels, new, n) ==
    /\ SideOK(side, new, n) /\ PricesOf(new) \subseteq PricesOf(levels)
    /\ \A p \in OrdersOf(new) : \E q \in OrdersOf(levels) : p.id = q.id

\* The book with a smaller side is in order.
LEMMA BookShrinks ==
    ASSUME NEW b, NEW n, BookOK(b, n), NEW side \in Sides, NEW new, Smaller(side, b[side], new, n)
    PROVE  BookOK([b EXCEPT ![side] = new], n)
<1> DEFINE c == [b EXCEPT ![side] = new]
<1>1. TwoSides(b, side, n)
  BY BookSides, Zenon
<1>2. DOMAIN b = Sides /\ SideOK(Other(side), b[Other(side)], n)
  BY <1>1, Zenon DEF TwoSides
<1>3. DOMAIN c = Sides /\ c[side] = new /\ c[Other(side)] = b[Other(side)]
  BY <1>2, OtherSide, Zenon
<1> HIDE DEF c
<1>4. \A p \in PricesOf(new), q \in PricesOf(b[Other(side)]) : Worse(side, p, q)
  BY <1>1, Zenon DEF TwoSides, Smaller
<1>5. \A p \in OrdersOf(new), q \in OrdersOf(b[Other(side)]) : p.id # q.id
  BY <1>1, Zenon DEF TwoSides, Smaller
<1>6. TwoSides(c, side, n)
  BY <1>2, <1>3, <1>4, <1>5, Zenon DEF TwoSides, Smaller
<1>. QED BY <1>6, BookSides, Zenon DEF c

\* What an execution leaves is smaller.
LEMMA TakenSmaller ==
    ASSUME NEW side, NEW levels, NEW n, SideOK(side, levels, n), NEW x, Left(levels, x)
    PROVE  Smaller(side, levels, x.levels, n)
<1>1. SideOK(side, x.levels, n)
  BY LeftSide, Zenon
<1>2. Taken(levels, x)
  BY TakenOf, Zenon
<1>. QED BY <1>1, <1>2, Zenon DEF Taken, Smaller, Same

-----------------------------------------------------------------------------
(* The accounts' orders                                                    *)

\* An account's info is one.
LEMMA InfoMade ==
    ASSUME NEW nonce \in 0 .. MaxNonce, NEW open \in SUBSET OrderSet, NEW done \in SUBSET Nat
    PROVE  AccountInfo(nonce, open, done) \in Infos
BY Zenon DEF AccountInfo, Infos

\* The infos are, one by one.
LEMMA InfoOf ==
    ASSUME NEW infos \in [Accounts -> Infos], NEW a \in Accounts
    PROVE  /\ infos[a].expected_nonce \in 0 .. MaxNonce
           /\ infos[a].open_orders \in SUBSET OrderSet
           /\ infos[a].completed_orders \in SUBSET Nat
<1>1. infos[a] \in Infos
  BY Zenon
<1>. QED BY <1>1, Zenon DEF Infos

\* The infos when one account's is replaced.
LEMMA InfoReplaced ==
    ASSUME NEW infos \in [Accounts -> Infos], NEW a \in Accounts, NEW i \in Infos
    PROVE  /\ [infos EXCEPT ![a] = i] \in [Accounts -> Infos] /\ [infos EXCEPT ![a] = i][a] = i
           /\ \A b \in Accounts : b # a => [infos EXCEPT ![a] = i][b] = infos[b]
BY Zenon

\* Ids that were given out stay below the next one.
LEMMA InfosLater ==
    ASSUME NEW infos, NEW n \in Nat, InfosOK(infos, n)
    PROVE  InfosOK(infos, n + 1)
<1>1. infos \in [Accounts -> Infos]
  BY Zenon DEF InfosOK
<1>2. \A i \in Nat : i < n => i < n + 1
  OBVIOUS
<1>3. \A a \in Accounts : /\ infos[a].completed_orders \subseteq Nat
                          /\ \A o \in infos[a].open_orders : o.id \in Nat
  <2> SUFFICES ASSUME NEW a \in Accounts
               PROVE  /\ infos[a].completed_orders \subseteq Nat
                      /\ \A o \in infos[a].open_orders : o.id \in Nat
    BY Zenon
  <2>1. infos[a].open_orders \in SUBSET OrderSet /\ infos[a].completed_orders \in SUBSET Nat
    BY <1>1, InfoOf, Zenon
  <2>2. \A o \in OrderSet : o.id \in Nat
    BY Zenon DEF OrderSet
  <2>. QED BY <2>1, <2>2, Zenon
<1>. QED BY <1>2, <1>3, Zenon DEF InfosOK

\* What becomes of the infos when the account's open orders become these.
IsChanged(infos, a, open, n, new) ==
    /\ InfosOK(new, n)
    /\ new[a].open_orders = open
    /\ \A b \in Accounts : b # a => new[b].open_orders = infos[b].open_orders
    /\ new[a].expected_nonce = infos[a].expected_nonce

\* What becomes of them when it has sent a transaction.
IsAdvanced(infos, n, new) ==
    /\ InfosOK(new, n)
    /\ \A b \in Accounts : new[b].open_orders = infos[b].open_orders

\* The next transaction of the account.
LEMMA Advances ==
    ASSUME NEW infos, NEW n, InfosOK(infos, n), NEW a \in Accounts, infos[a].expected_nonce < MaxNonce
    PROVE  IsAdvanced(infos, n, Advance(infos, a))
<1> DEFINE i == AccountInfo(infos[a].expected_nonce + 1, infos[a].open_orders, infos[a].completed_orders)
           new == [infos EXCEPT ![a] = i]
<1>1. infos \in [Accounts -> Infos]
  BY Zenon DEF InfosOK
<1>2. Advance(infos, a) = new
  BY Zenon DEF Advance
<1>3. infos[a].expected_nonce + 1 \in 0 .. MaxNonce
  <2>1. infos[a].expected_nonce \in 0 .. MaxNonce
    BY <1>1, InfoOf, Zenon
  <2>2. MaxNonce \in Nat
    BY InputsAssumption, Zenon
  <2>. QED BY <2>1, <2>2
<1>4. i \in Infos
  BY <1>1, <1>3, InfoOf, InfoMade, Zenon
<1>5. i.open_orders = infos[a].open_orders /\ i.completed_orders = infos[a].completed_orders
  BY Zenon DEF AccountInfo
<1> HIDE DEF i
<1>6. new \in [Accounts -> Infos] /\ new[a] = i /\ \A b \in Accounts : b # a => new[b] = infos[b]
  BY <1>1, <1>4, InfoReplaced, Zenon
<1> HIDE DEF new
<1>7. \A b \in Accounts : /\ new[b].open_orders = infos[b].open_orders
                          /\ new[b].completed_orders = infos[b].completed_orders
  <2> SUFFICES ASSUME NEW b \in Accounts
               PROVE  /\ new[b].open_orders = infos[b].open_orders
                      /\ new[b].completed_orders = infos[b].completed_orders
    BY Zenon
  <2>1. CASE b = a
    BY <1>5, <1>6, <2>1, Zenon
  <2>2. CASE b # a
    BY <1>6, <2>2, Zenon
  <2>. QED BY <2>1, <2>2, Zenon
<1>8. OpenOnce(new) /\ OpenOrDone(new)
  <2>1. OpenOnce(infos) /\ OpenOrDone(infos)
    BY Zenon DEF InfosOK
  <2>2. \A b \in Accounts : /\ \A p \in new[b].open_orders : p \in infos[b].open_orders
                            /\ \A id \in new[b].completed_orders : id \in infos[b].completed_orders
    BY <1>7, Zenon
  <2>3. OpenOnce(new)
    BY <2>1, <2>2, ZenonT(60) DEF OpenOnce
  <2>4. OpenOrDone(new)
    BY <2>1, <2>2, Zenon DEF OpenOrDone
  <2>. QED BY <2>3, <2>4, Zenon
<1>9. InfosOK(new, n)
  BY <1>6, <1>7, <1>8, Zenon DEF InfosOK
<1>. QED BY <1>2, <1>7, <1>9, Zenon DEF IsAdvanced

\* The number of a new order is not known yet.
LEMMA NewId ==
    ASSUME NEW infos, NEW n \in Nat, InfosOK(infos, n)
    PROVE  \A a \in Accounts : /\ n \notin infos[a].completed_orders
                               /\ \A o \in infos[a].open_orders : o.id # n
<1>1. ~(n < n)
  OBVIOUS
<1>. QED BY <1>1, Zenon DEF InfosOK

\* A new order of the account is open.
LEMMA Opens ==
    ASSUME NEW infos, NEW n \in Nat, InfosOK(infos, n), NEW a \in Accounts,
           NEW o \in OrderSet, o.id = n, o.account = a
    PROVE  IsChanged(infos, a, infos[a].open_orders \cup {o}, n + 1, Opened(infos, a, o))
<1> DEFINE i == AccountInfo(infos[a].expected_nonce, infos[a].open_orders \cup {o}, infos[a].completed_orders)
           new == [infos EXCEPT ![a] = i]
<1>1. infos \in [Accounts -> Infos]
  BY Zenon DEF InfosOK
<1>2. Opened(infos, a, o) = new
  BY Zenon DEF Opened
<1>3. infos[a].open_orders \cup {o} \in SUBSET OrderSet
  <2>1. infos[a].open_orders \in SUBSET OrderSet
    BY <1>1, InfoOf, Zenon
  <2>. QED BY <2>1, Zenon
<1>4. i \in Infos
  BY <1>1, <1>3, InfoOf, InfoMade, Zenon
<1>5. /\ i.open_orders = infos[a].open_orders \cup {o} /\ i.completed_orders = infos[a].completed_orders
      /\ i.expected_nonce = infos[a].expected_nonce
  BY Zenon DEF AccountInfo
<1> HIDE DEF i
<1>6. new \in [Accounts -> Infos] /\ new[a] = i /\ \A b \in Accounts : b # a => new[b] = infos[b]
  BY <1>1, <1>4, InfoReplaced, Zenon
<1> HIDE DEF new
<1>7. InfosOK(infos, n + 1)
  BY InfosLater, Zenon
<1>8. \A b \in Accounts : new[b].completed_orders = infos[b].completed_orders
  BY <1>5, <1>6, Zenon
<1>9. \A b \in Accounts : \A p \in new[b].open_orders : p \in infos[b].open_orders \/ (b = a /\ p = o)
  BY <1>5, <1>6, Zenon
<1>10. n < n + 1
  OBVIOUS
<1>11. \A b \in Accounts : \A p \in new[b].open_orders : p.id < n + 1 /\ p.account = b
  BY <1>7, <1>9, <1>10, Zenon DEF InfosOK
<1>12. OpenOnce(new)
  <2> SUFFICES ASSUME NEW b \in Accounts, NEW c \in Accounts, NEW p \in new[b].open_orders,
                      NEW q \in new[c].open_orders, p.id = q.id
               PROVE  p = q
    BY Zenon DEF OpenOnce
  <2>1. p \in infos[b].open_orders \/ p = o
    BY <1>9, Zenon
  <2>2. q \in infos[c].open_orders \/ q = o
    BY <1>9, Zenon
  <2>3. OpenOnce(infos)
    BY Zenon DEF InfosOK
  <2>4. \A d \in Accounts : \A r \in infos[d].open_orders : r.id # o.id
    BY NewId, Zenon
  <2>. QED BY <2>1, <2>2, <2>3, <2>4, Zenon DEF OpenOnce
<1>14. OpenOrDone(new)
  <2> SUFFICES ASSUME NEW b \in Accounts, NEW c \in Accounts, NEW p \in new[b].open_orders
               PROVE  p.id \notin infos[c].completed_orders
    BY <1>8, Zenon DEF OpenOrDone
  <2>1. p \in infos[b].open_orders \/ p = o
    BY <1>9, Zenon
  <2>2. OpenOrDone(infos)
    BY Zenon DEF InfosOK
  <2>3. o.id \notin infos[c].completed_orders
    BY NewId, Zenon
  <2>. QED BY <2>1, <2>2, <2>3, Zenon DEF OpenOrDone
<1>13. InfosOK(new, n + 1)
  BY <1>6, <1>7, <1>8, <1>11, <1>12, <1>14, Zenon DEF InfosOK
<1>. QED BY <1>2, <1>5, <1>6, <1>13, Zenon DEF IsChanged

\* A new order of the account is completed.
LEMMA Completes ==
    ASSUME NEW infos, NEW n \in Nat, InfosOK(infos, n), NEW a \in Accounts
    PROVE  IsChanged(infos, a, infos[a].open_orders, n + 1, Completed(infos, a, n))
<1> DEFINE i == AccountInfo(infos[a].expected_nonce, infos[a].open_orders, infos[a].completed_orders \cup {n})
           new == [infos EXCEPT ![a] = i]
<1>1. infos \in [Accounts -> Infos]
  BY Zenon DEF InfosOK
<1>2. Completed(infos, a, n) = new
  BY Zenon DEF Completed
<1>3. infos[a].completed_orders \cup {n} \in SUBSET Nat
  <2>1. infos[a].completed_orders \in SUBSET Nat
    BY <1>1, InfoOf, Zenon
  <2>. QED BY <2>1, Zenon
<1>4. i \in Infos
  BY <1>1, <1>3, InfoOf, InfoMade, Zenon
<1>5. /\ i.open_orders = infos[a].open_orders /\ i.completed_orders = infos[a].completed_orders \cup {n}
      /\ i.expected_nonce = infos[a].expected_nonce
  BY Zenon DEF AccountInfo
<1> HIDE DEF i
<1>6. new \in [Accounts -> Infos] /\ new[a] = i /\ \A b \in Accounts : b # a => new[b] = infos[b]
  BY <1>1, <1>4, InfoReplaced, Zenon
<1> HIDE DEF new
<1>7. InfosOK(infos, n + 1)
  BY InfosLater, Zenon
<1>8. \A b \in Accounts : new[b].open_orders = infos[b].open_orders
  BY <1>5, <1>6, Zenon
<1>9. \A b \in Accounts : \A id \in new[b].completed_orders : id \in infos[b].completed_orders \/ id = n
  BY <1>5, <1>6, Zenon
<1>10. n < n + 1
  OBVIOUS
<1>11. \A b \in Accounts : \A id \in new[b].completed_orders : id < n + 1
  BY <1>7, <1>9, <1>10, Zenon DEF InfosOK
<1>12. OpenOnce(new)
  <2>1. OpenOnce(infos)
    BY Zenon DEF InfosOK
  <2>2. \A b \in Accounts : \A p \in new[b].open_orders : p \in infos[b].open_orders
    BY <1>8, Zenon
  <2>. QED BY <2>1, <2>2, ZenonT(40) DEF OpenOnce
<1>14. OpenOrDone(new)
  <2> SUFFICES ASSUME NEW b \in Accounts, NEW c \in Accounts, NEW p \in infos[b].open_orders,
                      p.id \in new[c].completed_orders
               PROVE  FALSE
    BY <1>8, Zenon DEF OpenOrDone
  <2>1. p.id \in infos[c].completed_orders \/ p.id = n
    BY <1>9, Zenon
  <2>2. OpenOrDone(infos)
    BY Zenon DEF InfosOK
  <2>3. p.id # n
    BY NewId, Zenon
  <2>. QED BY <2>1, <2>2, <2>3, Zenon DEF OpenOrDone
<1>13. InfosOK(new, n + 1)
  BY <1>6, <1>7, <1>8, <1>11, <1>12, <1>14, Zenon DEF InfosOK
<1>. QED BY <1>2, <1>5, <1>6, <1>8, <1>13, Zenon DEF IsChanged

\* The numbers of a residual.
Numbers(x) == \A r \in x.residual : r.filled_base_lots \in Nat /\ r.self_fill \in Nat

\* The makers' orders after an execution.
IsUpdated(infos, x, n, new) ==
    /\ InfosOK(new, n)
    /\ \A a \in Accounts : \A o \in infos[a].open_orders :
         o.id \notin UsedUp(x, a) => Grown(o, x) \in new[a].open_orders
    /\ \A a \in Accounts : new[a].expected_nonce = infos[a].expected_nonce

\* Open orders stay open.
LEMMA StillOpen ==
    ASSUME NEW levels, NEW infos, LiveOpen(levels, infos), \A o \in OrdersOf(levels) : o \in Orders,
           NEW new, \A a \in Accounts : infos[a].open_orders \subseteq new[a].open_orders
    PROVE  LiveOpen(levels, new)
<1>1. \A o \in OrdersOf(levels) : o.account \in Accounts
  BY OrderFields, Zenon
<1>. QED BY <1>1, Zenon DEF LiveOpen

-----------------------------------------------------------------------------
(* The balances                                                            *)

\* The fields of an entry of an account.
LEMMA EntryOf ==
    ASSUME NEW bal, Vector(bal), NEW i \in DOMAIN bal
    PROVE  bal[i] \in Entries /\ bal[i].asset_id \in Assets /\ bal[i].available \in Int /\ bal[i].total \in Int
<1>1. bal \in Seq(Entries)
  BY Zenon DEF Vector
<1>2. bal[i] \in Entries
  BY <1>1
<1>. QED BY <1>2, Zenon DEF Entries

\* What is added to the entry of an asset, one that is there or a new one.
IsAdjusted(bal, asset, available, total, new) ==
    /\ Vector(new)
    /\ \A i \in DOMAIN new :
         \/ i \in DOMAIN bal /\ new[i] = bal[i]
         \/ /\ i \in DOMAIN bal /\ bal[i].asset_id = asset /\ new[i].available = bal[i].available + available
            /\ new[i].total = bal[i].total + total
         \/ Positions(bal, asset) = {} /\ new[i].available = available /\ new[i].total = total

\* get_account_token_balance_mut leaves one entry per asset.
LEMMA Adjusts ==
    ASSUME NEW bal, Vector(bal), NEW asset \in Assets, NEW available \in Int, NEW total \in Int
    PROVE  IsAdjusted(bal, asset, available, total, Adjust(bal, asset, available, total))
<1> DEFINE at == Positions(bal, asset)
           new == Adjust(bal, asset, available, total)
<1>1. bal \in Seq(Entries) /\ Len(bal) \in Nat /\ DOMAIN bal = 1 .. Len(bal)
  <2>1. bal \in Seq(Entries)
    BY Zenon DEF Vector
  <2>. QED BY <2>1
<1>2. \A i \in DOMAIN bal : i \in at <=> bal[i].asset_id = asset
  BY Zenon DEF Positions
<1>3. CASE at = {}
  <2> DEFINE e == TokenBalance(asset, available, total)
  <2>1. new = Append(bal, e)
    BY <1>3, Zenon DEF Adjust
  <2>2. e \in Entries /\ e.asset_id = asset /\ e.available = available /\ e.total = total
    BY Zenon DEF TokenBalance, Entries
  <2> HIDE DEF e, new
  <2>3. /\ new \in Seq(Entries) /\ DOMAIN new = 1 .. Len(bal) + 1 /\ new[Len(bal) + 1] = e
        /\ \A i \in DOMAIN bal : new[i] = bal[i]
    BY <1>1, <2>1, <2>2
  <2>4. \A i \in DOMAIN new : (i = Len(bal) + 1 /\ new[i] = e) \/ (i \in DOMAIN bal /\ new[i] = bal[i])
    BY <1>1, <2>3
  <2>5. \A i \in DOMAIN bal : bal[i].asset_id # asset
    BY <1>2, <1>3, Zenon
  <2>6. ASSUME NEW i \in DOMAIN new, NEW j \in DOMAIN new, new[i].asset_id = new[j].asset_id
        PROVE  i = j
    <3>1. CASE i \in DOMAIN bal /\ new[i] = bal[i]
      <4>1. bal[i].asset_id # asset
        BY <2>5, <3>1, Zenon
      <4>. QED BY <2>2, <2>4, <2>6, <3>1, <4>1, Zenon DEF Vector
    <3>2. CASE i = Len(bal) + 1 /\ new[i] = e
      <4>1. new[j].asset_id = asset
        BY <2>2, <2>6, <3>2, Zenon
      <4>. QED BY <2>4, <2>5, <3>2, <4>1, Zenon
    <3>. QED BY <2>4, <3>1, <3>2, Zenon
  <2>7. Vector(new)
    BY <2>3, <2>6, Zenon DEF Vector
  <2>. QED BY <1>3, <2>2, <2>4, <2>7, Zenon DEF IsAdjusted, new
<1>4. CASE at # {}
  <2>1. new = [i \in DOMAIN bal |->
                 IF i \in at
                 THEN TokenBalance(asset, bal[i].available + available, bal[i].total + total)
                 ELSE bal[i]]
    BY <1>4, Zenon DEF Adjust
  <2> HIDE DEF new, at
  <2>2. ASSUME NEW i \in DOMAIN bal
        PROVE  /\ new[i] \in Entries /\ new[i].asset_id = bal[i].asset_id
               /\ i \notin at => new[i] = bal[i]
               /\ i \in at => /\ new[i].available = bal[i].available + available
                              /\ new[i].total = bal[i].total + total
    <3>1. bal[i] \in Entries /\ bal[i].available \in Int /\ bal[i].total \in Int
      BY EntryOf, Zenon
    <3>2. CASE i \in at
      <4>1. new[i] = TokenBalance(asset, bal[i].available + available, bal[i].total + total)
        BY <2>1, <3>2, Zenon
      <4>2. bal[i].available + available \in Int /\ bal[i].total + total \in Int
        BY <3>1
      <4>3. /\ new[i] \in Entries /\ new[i].asset_id = asset /\ new[i].available = bal[i].available + available
            /\ new[i].total = bal[i].total + total
        BY <4>1, <4>2 DEF TokenBalance, Entries
      <4>. QED BY <1>2, <3>2, <4>3, Zenon
    <3>3. CASE i \notin at
      <4>1. new[i] = bal[i]
        BY <2>1, <3>3, Zenon
      <4>. QED BY <3>1, <3>3, <4>1, Zenon
    <3>. QED BY <3>2, <3>3, Zenon
  <2>3. new \in Seq(Entries) /\ DOMAIN new = DOMAIN bal
    <3>1. DOMAIN new = DOMAIN bal
      BY <2>1, Zenon
    <3>2. new = [i \in 1 .. Len(bal) |-> new[i]]
      BY <1>1, <2>1, Zenon
    <3>3. \A i \in 1 .. Len(bal) : new[i] \in Entries
      BY <1>1, <2>2, Zenon
    <3>4. new \in Seq(Entries)
      BY <1>1, <3>2, <3>3
    <3>. QED BY <3>1, <3>4, Zenon
  <2>4. \A i, j \in DOMAIN new : new[i].asset_id = new[j].asset_id => i = j
    BY <2>2, <2>3, Zenon DEF Vector
  <2>5. Vector(new)
    BY <2>3, <2>4, Zenon DEF Vector
  <2>. QED BY <1>2, <2>2, <2>3, <2>5, Zenon DEF IsAdjusted, new
<1>. QED BY <1>3, <1>4, Zenon

\* No entry goes below 0 when something is added.
LEMMA AddsNotOverdrawn ==
    ASSUME NEW bal, Vector(bal), ~Overdrawn(bal), NEW asset, NEW available \in Nat, NEW total \in Nat, NEW new,
           IsAdjusted(bal, asset, available, total, new)
    PROVE  ~Overdrawn(new)
<1> SUFFICES ASSUME NEW i \in DOMAIN new PROVE ~(new[i].available < 0) /\ ~(new[i].total < 0)
  BY Zenon DEF Overdrawn
<1>1. ASSUME i \in DOMAIN bal PROVE /\ bal[i].available \in Int /\ bal[i].total \in Int
                                    /\ ~(bal[i].available < 0) /\ ~(bal[i].total < 0)
  BY <1>1, EntryOf, Zenon DEF Overdrawn
<1>2. \/ i \in DOMAIN bal /\ new[i] = bal[i]
      \/ /\ i \in DOMAIN bal /\ new[i].available = bal[i].available + available
         /\ new[i].total = bal[i].total + total
      \/ new[i].available = available /\ new[i].total = total
  BY Zenon DEF IsAdjusted
<1>3. CASE i \in DOMAIN bal /\ new[i] = bal[i]
  BY <1>1, <1>3, Zenon
<1>4. CASE /\ i \in DOMAIN bal /\ new[i].available = bal[i].available + available
           /\ new[i].total = bal[i].total + total
  BY <1>1, <1>4
<1>5. CASE new[i].available = available /\ new[i].total = total
  BY <1>5
<1>. QED BY <1>2, <1>3, <1>4, <1>5, Zenon

\* A trade leaves one entry per asset.
LEMMA Trades ==
    ASSUME NEW bal, Vector(bal), NEW buys, NEW base \in Int, NEW quote \in Int, NEW locked
    PROVE  Vector(Trade(bal, buys, base, quote, locked))
<1> DEFINE b == base * base_lot_size
           q == quote * quote_lot_size
           kept(z) == IF locked THEN 0 ELSE -z
<1>1. b \in Int /\ q \in Int
  <2>1. base_lot_size \in Int /\ quote_lot_size \in Int
    BY PrecisionAssumption
  <2>2. \A u, v \in Int : u * v \in Int
    OBVIOUS
  <2>. QED BY <2>1, <2>2, Zenon
<1> HIDE DEF b, q
<1>2. kept(b) \in Int /\ kept(q) \in Int /\ -b \in Int /\ -q \in Int
  BY <1>1
<1> HIDE DEF kept
<1>3. Base \in Assets /\ Quote \in Assets
  BY Zenon DEF Assets
<1>4. Vector(Adjust(Adjust(bal, Quote, kept(q), -q), Base, b, b))
  <2>1. Vector(Adjust(bal, Quote, kept(q), -q))
    BY <1>2, <1>3, Adjusts, Zenon DEF IsAdjusted
  <2>. QED BY <1>1, <1>3, <2>1, Adjusts, Zenon DEF IsAdjusted
<1>5. Vector(Adjust(Adjust(bal, Base, kept(b), -b), Quote, q, q))
  <2>1. Vector(Adjust(bal, Base, kept(b), -b))
    BY <1>2, <1>3, Adjusts, Zenon DEF IsAdjusted
  <2>. QED BY <1>1, <1>3, <2>1, Adjusts, Zenon DEF IsAdjusted
<1>. QED BY <1>4, <1>5, Zenon DEF Trade, b, q, kept

\* The balances when those of one account are replaced.
LEMMA BalancesReplaced ==
    ASSUME NEW bals, BalancesOK(bals), NEW a \in Accounts, NEW bal, Vector(bal)
    PROVE  /\ BalancesOK([bals EXCEPT ![a] = bal]) /\ [bals EXCEPT ![a] = bal][a] = bal
           /\ \A b \in Accounts : b # a => [bals EXCEPT ![a] = bal][b] = bals[b]
<1>1. DOMAIN bals = Accounts
  BY Zenon DEF BalancesOK
<1>2. /\ DOMAIN [bals EXCEPT ![a] = bal] = Accounts /\ [bals EXCEPT ![a] = bal][a] = bal
      /\ \A b \in Accounts : b # a => [bals EXCEPT ![a] = bal][b] = bals[b]
  BY <1>1, Zenon
<1>3. \A b \in Accounts : Vector([bals EXCEPT ![a] = bal][b])
  BY <1>2, Zenon DEF BalancesOK
<1>. QED BY <1>2, <1>3, Zenon DEF BalancesOK

\* A lock is an amount.
LEMMA LockNat ==
    ASSUME NEW side, NEW price \in Nat, NEW lots \in Nat
    PROVE  LockOf(side, price, lots) \in Nat
<1>1. base_lot_size \in Nat /\ quote_lot_size \in Nat
  BY PrecisionAssumption, Zenon
<1>2. base_to_quote_lots(lots, price) \in Nat
  BY QuoteLotsNat, Zenon
<1>3. \A u, v \in Nat : u * v \in Nat
  OBVIOUS
<1>. QED BY <1>1, <1>2, <1>3, Zenon DEF LockOf

-----------------------------------------------------------------------------
(* The steps                                                               *)

\* What the invariant says, part by part.
LEMMA Parts ==
    ASSUME IInv
    PROVE  /\ next_id \in Nat /\ next_id \in 0 .. MaxOrders
           /\ BalancesOK(balances) /\ BookOK(book, next_id) /\ InfosOK(accounts, next_id)
           /\ accounts \in [Accounts -> Infos] /\ DOMAIN balances = Accounts /\ DOMAIN book = Sides
<1>1. next_id \in 0 .. MaxOrders /\ BalancesOK(balances) /\ BookOK(book, next_id) /\ InfosOK(accounts, next_id)
  BY Zenon DEF IInv
<1>2. MaxOrders \in Nat
  BY InputsAssumption, Zenon
<1>3. next_id \in Nat
  BY <1>1, <1>2
<1>. QED BY <1>1, <1>3, Zenon DEF BalancesOK, BookOK, InfosOK

\* The sides of the book.
LEMMA SidesOf ==
    ASSUME NEW b, NEW n, BookOK(b, n), NEW side \in Sides
    PROVE  /\ SideOK(side, b[side], n) /\ SideOK(Other(side), b[Other(side)], n)
           /\ \A o \in OrdersOf(b[side]) : o \in Orders /\ o.id < n /\ o.direction = side
           /\ \A o \in OrdersOf(b[Other(side)]) : o \in Orders /\ o.id < n /\ o.direction = Other(side)
           /\ \A o \in OrdersOf(b[side]), p \in OrdersOf(b[Other(side)]) : o.id # p.id
<1>1. TwoSides(b, side, n)
  BY BookSides, Zenon
<1>2. SideOK(side, b[side], n) /\ SideOK(Other(side), b[Other(side)], n)
  BY <1>1, Zenon DEF TwoSides
<1>3. \A o \in OrdersOf(b[side]) : o \in Orders /\ o.id < n /\ o.direction = side
  BY <1>2, SideOrders, Zenon
<1>4. \A o \in OrdersOf(b[Other(side)]) : o \in Orders /\ o.id < n /\ o.direction = Other(side)
  BY <1>2, SideOrders, Zenon
<1>. QED BY <1>1, <1>2, <1>3, <1>4, Zenon DEF TwoSides

\* An order with nothing filled.
IsNew(o, n, a, side, price, size) ==
    /\ o \in Orders /\ o \in OrderSet /\ o.id = n /\ o.account = a /\ o.direction = side
    /\ o.price = price /\ o.base_lots = size /\ ~o.cancelled
    /\ get_order_remaining(o) = size

\* A new order is one.
LEMMA NewOrder ==
    ASSUME NEW n \in Nat, NEW market_id \in Nat, NEW a \in Accounts, NEW side \in Sides,
           NEW price \in Prices, NEW size \in Nat
    PROVE  IsNew(new_limit_order(n, market_id, a, side, price, size), n, a, side, price, size)
<1> DEFINE o == new_limit_order(n, market_id, a, side, price, size)
<1>1. /\ o \in OrderSet /\ o.id = n /\ o.account = a /\ o.direction = side
      /\ o.price = price /\ o.base_lots = size /\ o.cancelled = FALSE
      /\ o.filled_base_lots = 0 /\ o.self_filled = 0
  BY Zenon DEF new_limit_order, LimitOrder, OrderSet
<1>2. get_order_remaining(o) = size
  BY <1>1 DEF get_order_remaining
<1> HIDE DEF o
<1>3. IsNew(o, n, a, side, price, size)
  BY <1>1, <1>2, Zenon DEF Orders, IsNew
<1>. QED BY <1>3, Zenon DEF o

\* The levels of a side only get more orders.
LEMMA MoreInTurn ==
    ASSUME NEW levels, NEW y, OrdersOf(levels) \subseteq OrdersOf(y)
    PROVE  InTurn(levels, y)
BY Zenon DEF InTurn

\* What was open is, and the new order too.
IsRecorded(infos, a, o, n, new) ==
    /\ InfosOK(new, n + 1)
    /\ \A b \in Accounts : infos[b].open_orders \subseteq new[b].open_orders
    /\ o \in new[a].open_orders

\* The account's orders after a transaction that records one.
LEMMA OpensAndAdvances ==
    ASSUME NEW infos, NEW n \in Nat, InfosOK(infos, n), NEW a \in Accounts, infos[a].expected_nonce < MaxNonce,
           NEW o \in OrderSet, o.id = n, o.account = a
    PROVE  IsRecorded(infos, a, o, n, Advance(Opened(infos, a, o), a))
<1> DEFINE new == Advance(Opened(infos, a, o), a)
           i == Opened(infos, a, o)
<1>1. IsChanged(infos, a, infos[a].open_orders \cup {o}, n + 1, i)
  BY Opens, Zenon
<1> HIDE DEF i
<1>2. /\ InfosOK(i, n + 1) /\ i[a].open_orders = infos[a].open_orders \cup {o}
      /\ \A b \in Accounts : b # a => i[b].open_orders = infos[b].open_orders
      /\ i[a].expected_nonce = infos[a].expected_nonce
  BY <1>1, Zenon DEF IsChanged
<1>3. IsAdvanced(i, n + 1, Advance(i, a))
  BY <1>2, Advances, Zenon
<1>4. InfosOK(new, n + 1) /\ \A b \in Accounts : new[b].open_orders = i[b].open_orders
  BY <1>3, Zenon DEF IsAdvanced, i
<1>5. ASSUME NEW b \in Accounts PROVE infos[b].open_orders \subseteq new[b].open_orders
  <2>1. CASE b = a
    BY <1>2, <1>4, <2>1, Zenon
  <2>2. CASE b # a
    BY <1>2, <1>4, <2>2, Zenon
  <2>. QED BY <2>1, <2>2, Zenon
<1>6. o \in new[a].open_orders
  BY <1>2, <1>4, Zenon
<1>. QED BY <1>4, <1>5, <1>6, Zenon DEF IsRecorded

\* The infos have the orders of both sides.
MakersOK(n, levels, others, infos) == InfosOK(infos, n) /\ LiveOpen(levels, infos) /\ LiveOpen(others, infos)

\* The account's orders and the makers' after a trade.
LEMMA MakersUpdated ==
    \A infos, n, levels, x, others : \A a \in Accounts :
        (/\ InfosOK(infos, n)
         /\ Taken(levels, x)
         /\ LiveOpen(levels, infos)
         /\ (\A o \in OrdersOf(levels) : o \in Orders)
         /\ LiveOpen(others, infos)
         /\ (\A o \in OrdersOf(others) : o \in Orders)
         /\ (\A o \in OrdersOf(others), p \in OrdersOf(levels) : o.id # p.id)
         /\ (\A o \in OrdersOf(x.levels) : o \in Orders)
         /\ infos[a].expected_nonce < MaxNonce) => MakersOK(n, x.levels, others, Advance(UpdateMakers(infos, x), a))
\* An open order that was filled in part is the same order.
<1>GrownFields. ASSUME NEW x, Numbers(x), NEW o \in OrderSet
                PROVE  /\ Grown(o, x) \in OrderSet /\ Grown(o, x).id = o.id /\ Grown(o, x).account = o.account
                       /\ (\A r \in x.residual : r.order_id # o.id) => Grown(o, x) = o
                       /\ \A r \in x.residual : x.residual = {r} /\ r.order_id = o.id =>
                            Grown(o, x) = Filled(o, r.filled_base_lots, r.self_fill)
  <2> USE <1>GrownFields
  <2> DEFINE r == CHOOSE q \in x.residual : q.order_id = o.id
  <2>1. CASE \A p \in x.residual : p.order_id # o.id
    <3>1. Grown(o, x) = o
      BY <2>1, Zenon DEF Grown
    <3>. QED BY <2>1, <3>1, Zenon
  <2>2. CASE \E p \in x.residual : p.order_id = o.id
    <3>1. Grown(o, x) = Filled(o, r.filled_base_lots, r.self_fill)
      BY <2>2, Zenon DEF Grown
    <3>2. r \in x.residual /\ r.order_id = o.id
      BY <2>2, Zenon
    <3> HIDE DEF r
    <3>3. r.filled_base_lots \in Nat /\ r.self_fill \in Nat
      BY <3>2, Zenon DEF Numbers
    <3>4. Filled(o, r.filled_base_lots, r.self_fill) \in OrderSet
      BY <3>3 DEF Filled, LimitOrder, OrderSet
    <3>5. Same(Filled(o, r.filled_base_lots, r.self_fill), o)
      BY FilledFields, Zenon
    <3>6. \A q \in x.residual : x.residual = {q} => r = q
      BY <3>2, Zenon
    <3>. QED BY <2>2, <3>1, <3>4, <3>5, <3>6, Zenon DEF Same
  <2>. QED BY <2>1, <2>2, Zenon
\* UpdateMakers keeps the accounts' orders apart.
<1>Updates. ASSUME NEW infos, NEW n, InfosOK(infos, n), NEW x, Numbers(x)
            PROVE  IsUpdated(infos, x, n, UpdateMakers(infos, x))
  <2> USE <1>Updates
  <2> DEFINE new == UpdateMakers(infos, x)
             Open(a) == {Grown(o, x) : o \in {p \in infos[a].open_orders : p.id \notin UsedUp(x, a)}}
             Done(a) == infos[a].completed_orders \cup {o.id : o \in {p \in infos[a].open_orders : p.id \in UsedUp(x, a)}}
  <2>1. infos \in [Accounts -> Infos]
    BY Zenon DEF InfosOK
  <2>2. new = [a \in Accounts |-> AccountInfo(infos[a].expected_nonce, Open(a), Done(a))]
    BY Zenon DEF UpdateMakers
  <2> HIDE DEF new
  <2>3. \A a \in Accounts : \A p \in Open(a) : \E o \in infos[a].open_orders : p = Grown(o, x) /\ o.id \notin UsedUp(x, a)
    BY Zenon
  <2>4. \A a \in Accounts : \A id \in Done(a) : \/ id \in infos[a].completed_orders
                                                \/ \E o \in infos[a].open_orders : id = o.id /\ o.id \in UsedUp(x, a)
    BY Zenon
  <2>5. \A a \in Accounts : \A o \in infos[a].open_orders : o.id \notin UsedUp(x, a) => Grown(o, x) \in Open(a)
    BY Zenon
  <2> HIDE DEF Open, Done
  <2>6. \A a \in Accounts : \A o \in infos[a].open_orders : o \in OrderSet /\ o.id \in Nat
    <3> SUFFICES ASSUME NEW a \in Accounts, NEW o \in infos[a].open_orders PROVE o \in OrderSet /\ o.id \in Nat
      BY Zenon
    <3>1. o \in OrderSet
      BY <2>1, InfoOf, Zenon
    <3>. QED BY <3>1, Zenon DEF OrderSet
  <2>7. ASSUME NEW a \in Accounts
        PROVE  /\ new[a] \in Infos /\ new[a].open_orders = Open(a) /\ new[a].completed_orders = Done(a)
               /\ new[a].expected_nonce = infos[a].expected_nonce
    <3>1. Open(a) \in SUBSET OrderSet
      <4> SUFFICES ASSUME NEW p \in Open(a) PROVE p \in OrderSet
        BY Zenon
      <4>1. PICK o \in infos[a].open_orders : p = Grown(o, x)
        BY <2>3, Zenon
      <4>2. o \in OrderSet
        BY <2>6, Zenon
      <4>3. Grown(o, x) \in OrderSet
        BY <4>2, <1>GrownFields, Zenon
      <4>. QED BY <4>1, <4>3, Zenon
    <3>2. Done(a) \in SUBSET Nat
      <4>1. infos[a].completed_orders \in SUBSET Nat
        BY <2>1, InfoOf, Zenon
      <4>2. ASSUME NEW id \in Done(a) PROVE id \in Nat
        <5>1. \/ id \in infos[a].completed_orders
              \/ \E o \in infos[a].open_orders : id = o.id
          BY <2>4, Zenon
        <5>2. CASE id \in infos[a].completed_orders
          BY <4>1, <5>2, Zenon
        <5>3. CASE \E o \in infos[a].open_orders : id = o.id
          BY <2>6, <5>3, Zenon
        <5>. QED BY <5>1, <5>2, <5>3, Zenon
      <4>. QED BY <4>2, Zenon
    <3>3. new[a] = AccountInfo(infos[a].expected_nonce, Open(a), Done(a))
      BY <2>2, Zenon
    <3>4. new[a] \in Infos
      BY <2>1, <3>1, <3>2, <3>3, InfoOf, InfoMade, Zenon
    <3>5. new[a].open_orders = Open(a) /\ new[a].completed_orders = Done(a)
          /\ new[a].expected_nonce = infos[a].expected_nonce
      BY <3>3 DEF AccountInfo
    <3>. QED BY <3>4, <3>5, Zenon
  <2>8. new \in [Accounts -> Infos]
    BY <2>2, <2>7, Zenon
  <2>9. ASSUME NEW a \in Accounts, NEW p \in new[a].open_orders
        PROVE  \E o \in infos[a].open_orders : p = Grown(o, x) /\ o.id \notin UsedUp(x, a) /\ p.id = o.id /\ p.account = o.account
    <3>1. PICK o \in infos[a].open_orders : p = Grown(o, x) /\ o.id \notin UsedUp(x, a)
      BY <2>3, <2>7, Zenon
    <3>2. Grown(o, x).id = o.id /\ Grown(o, x).account = o.account
      BY <2>6, <1>GrownFields, Zenon
    <3>. QED BY <3>1, <3>2, Zenon
  <2>10. ASSUME NEW a \in Accounts, NEW p \in new[a].open_orders PROVE p.id < n /\ p.account = a
    <3>1. PICK o \in infos[a].open_orders : p.id = o.id /\ p.account = o.account
      BY <2>9, Zenon
    <3>2. o.id < n /\ o.account = a
      BY Zenon DEF InfosOK
    <3>. QED BY <3>1, <3>2, Zenon
  <2>11. ASSUME NEW a \in Accounts, NEW id \in new[a].completed_orders PROVE id < n
    <3>1. \/ id \in infos[a].completed_orders
          \/ \E o \in infos[a].open_orders : id = o.id
      BY <2>4, <2>7, ZenonT(60)
    <3>2. \A o \in infos[a].open_orders : o.id < n
      BY Zenon DEF InfosOK
    <3>3. \A i \in infos[a].completed_orders : i < n
      BY Zenon DEF InfosOK
    <3>. QED BY <3>1, <3>2, <3>3, Zenon
  <2>12. OpenOnce(infos) /\ OpenOrDone(infos)
    BY Zenon DEF InfosOK
  <2>13. OpenOnce(new)
    <3> SUFFICES ASSUME NEW a \in Accounts, NEW b \in Accounts, NEW p \in new[a].open_orders,
                        NEW q \in new[b].open_orders, p.id = q.id
                 PROVE  p = q
      BY Zenon DEF OpenOnce
    <3>1. PICK o \in infos[a].open_orders : p = Grown(o, x) /\ p.id = o.id
      BY <2>9, Zenon
    <3>2. PICK u \in infos[b].open_orders : q = Grown(u, x) /\ q.id = u.id
      BY <2>9, Zenon
    <3>3. o = u
      BY <2>12, <3>1, <3>2, Zenon DEF OpenOnce
    <3>. QED BY <3>1, <3>2, <3>3, Zenon
  <2>14. OpenOrDone(new)
    <3> SUFFICES ASSUME NEW a \in Accounts, NEW b \in Accounts, NEW p \in new[a].open_orders,
                        p.id \in new[b].completed_orders
                 PROVE  FALSE
      BY Zenon DEF OpenOrDone
    <3>1. PICK o \in infos[a].open_orders : o.id \notin UsedUp(x, a) /\ p.id = o.id
      BY <2>9, Zenon
    <3>2. \/ o.id \in infos[b].completed_orders
          \/ \E u \in infos[b].open_orders : o.id = u.id /\ u.id \in UsedUp(x, b)
      BY <2>4, <2>7, <3>1, Zenon
    <3>3. o.id \notin infos[b].completed_orders
      BY <2>12, Zenon DEF OpenOrDone
    <3>4. PICK u \in infos[b].open_orders : o.id = u.id /\ u.id \in UsedUp(x, b)
      BY <3>2, <3>3, Zenon
    <3>5. o = u
      BY <2>12, <3>4, Zenon DEF OpenOnce
    <3>6. o.account = a /\ u.account = b
      BY Zenon DEF InfosOK
    <3>. QED BY <3>1, <3>4, <3>5, <3>6, Zenon
  <2>15. InfosOK(new, n)
    BY <2>8, <2>10, <2>11, <2>13, <2>14, Zenon DEF InfosOK
  <2>16. \A a \in Accounts : \A o \in infos[a].open_orders : o.id \notin UsedUp(x, a) => Grown(o, x) \in new[a].open_orders
    BY <2>5, <2>7, Zenon
  <2>. QED BY <2>7, <2>15, <2>16, Zenon DEF IsUpdated, new
\* The live orders that are left of a side are open, as they are now.
<1>LeftOpen. ASSUME NEW levels, NEW x, Taken(levels, x), NEW infos, LiveOpen(levels, infos), NEW n, NEW new,
                    IsUpdated(infos, x, n, new), \A o \in OrdersOf(levels) : o \in Orders, InfosOK(infos, n)
             PROVE  LiveOpen(x.levels, new)
  <2> USE <1>LeftOpen
  <2> SUFFICES ASSUME NEW p \in OrdersOf(x.levels), ~p.cancelled
               PROVE  p \in new[p.account].open_orders
    BY Zenon DEF LiveOpen
  <2>1. PICK o \in OrdersOf(levels) :
          /\ Same(p, o) /\ \A f \in DOMAIN x.filled : x.filled[f].id # o.id
          /\ \/ p = o /\ \A r \in x.residual : r.order_id # o.id
             \/ \E r \in x.residual : /\ x.residual = {r} /\ r.order_id = o.id
                                      /\ p = Filled(o, r.filled_base_lots, r.self_fill)
    BY Zenon DEF Taken
  <2>2. ~o.cancelled /\ o.account = p.account
    BY <2>1, Zenon DEF Same
  <2>3. o \in infos[o.account].open_orders
    BY <2>2, Zenon DEF LiveOpen
  <2>4. o.account \in Accounts /\ o \in OrderSet
    BY OrderFields, Zenon DEF Orders
  <2>5. o.id \notin UsedUp(x, o.account)
    BY <2>1, Zenon DEF UsedUp
  <2>6. Grown(o, x) \in new[o.account].open_orders
    BY <2>3, <2>4, <2>5, Zenon DEF IsUpdated
  <2>7. Numbers(x)
    BY Zenon DEF Taken, Numbers
  <2>8. Grown(o, x) = p
    <3>1. CASE p = o /\ \A r \in x.residual : r.order_id # o.id
      BY <2>4, <2>7, <3>1, <1>GrownFields, Zenon
    <3>2. CASE \E r \in x.residual : /\ x.residual = {r} /\ r.order_id = o.id
                                     /\ p = Filled(o, r.filled_base_lots, r.self_fill)
      <4>1. PICK r \in x.residual : /\ x.residual = {r} /\ r.order_id = o.id
                                    /\ p = Filled(o, r.filled_base_lots, r.self_fill)
        BY <3>2, Zenon
      <4>2. Grown(o, x) = Filled(o, r.filled_base_lots, r.self_fill)
        BY <2>4, <2>7, <4>1, <1>GrownFields, Zenon
      <4>. QED BY <4>1, <4>2, Zenon
    <3>. QED BY <2>1, <3>1, <3>2, Zenon
  <2>. QED BY <2>2, <2>6, <2>8, Zenon
\* The orders of the other side are not touched.
<1>OthersOpen. ASSUME NEW levels, NEW x, Taken(levels, x), NEW infos, NEW others, LiveOpen(others, infos),
                      \A o \in OrdersOf(others) : o \in Orders,
                      \A o \in OrdersOf(others), p \in OrdersOf(levels) : o.id # p.id,
                      NEW n, NEW new, IsUpdated(infos, x, n, new)
               PROVE  LiveOpen(others, new)
  <2> USE <1>OthersOpen
  <2> SUFFICES ASSUME NEW o \in OrdersOf(others), ~o.cancelled
               PROVE  o \in new[o.account].open_orders
    BY Zenon DEF LiveOpen
  <2>1. o \in infos[o.account].open_orders
    BY Zenon DEF LiveOpen
  <2>2. o.account \in Accounts /\ o \in OrderSet
    BY OrderFields, Zenon DEF Orders
  <2>3. ASSUME NEW f \in DOMAIN x.filled PROVE x.filled[f].id # o.id
    <3>1. PICK p \in OrdersOf(levels) : x.filled[f].id = p.id
      BY Zenon DEF Taken
    <3>2. o.id # p.id
      BY Zenon
    <3>. QED BY <3>1, <3>2, Zenon
  <2>4. o.id \notin UsedUp(x, o.account)
    BY <2>3, Zenon DEF UsedUp
  <2>5. ASSUME NEW r \in x.residual PROVE r.order_id # o.id
    <3>1. PICK p \in OrdersOf(levels) : r.order_id = p.id
      BY Zenon DEF Taken
    <3>2. o.id # p.id
      BY Zenon
    <3>. QED BY <3>1, <3>2, Zenon
  <2>6. Numbers(x)
    BY Zenon DEF Taken, Numbers
  <2>7. Grown(o, x) = o
    BY <2>2, <2>5, <2>6, <1>GrownFields, Zenon
  <2>8. Grown(o, x) \in new[o.account].open_orders
    BY <2>1, <2>2, <2>4, Zenon DEF IsUpdated
  <2>. QED BY <2>7, <2>8, Zenon
<1> TAKE infos, n, levels, x, others
<1> TAKE a \in Accounts
<1> HAVE /\ InfosOK(infos, n)
         /\ Taken(levels, x)
         /\ LiveOpen(levels, infos)
         /\ (\A o \in OrdersOf(levels) : o \in Orders)
         /\ LiveOpen(others, infos)
         /\ (\A o \in OrdersOf(others) : o \in Orders)
         /\ (\A o \in OrdersOf(others), p \in OrdersOf(levels) : o.id # p.id)
         /\ (\A o \in OrdersOf(x.levels) : o \in Orders)
         /\ infos[a].expected_nonce < MaxNonce
<1> DEFINE new == Advance(UpdateMakers(infos, x), a)
           i == UpdateMakers(infos, x)
<1>1. Numbers(x)
  BY Zenon DEF Taken, Numbers
<1>2. IsUpdated(infos, x, n, i)
  BY <1>1, <1>Updates, Zenon
<1>3. new = Advance(i, a)
  BY Zenon
<1> HIDE DEF i, new
<1>4. LiveOpen(x.levels, i)
  BY <1>2, <1>LeftOpen, Zenon
<1>5. LiveOpen(others, i)
  BY <1>2, <1>OthersOpen, Zenon
<1>6. InfosOK(i, n) /\ i[a].expected_nonce = infos[a].expected_nonce
  BY <1>2, Zenon DEF IsUpdated
<1>7. IsAdvanced(i, n, new)
  BY <1>3, <1>6, Advances, Zenon
<1>8. InfosOK(new, n) /\ \A b \in Accounts : new[b].open_orders = i[b].open_orders
  BY <1>7, Zenon DEF IsAdvanced
<1>9. \A b \in Accounts : i[b].open_orders \subseteq new[b].open_orders
  BY <1>8, Zenon
<1>10. LiveOpen(x.levels, new)
  BY <1>4, <1>9, StillOpen, Zenon
<1>11. LiveOpen(others, new)
  BY <1>5, <1>9, StillOpen, Zenon
<1>. QED BY <1>8, <1>10, <1>11, Zenon DEF MakersOK, new

\* The balances after a trade of account a.
Settled(bals, a, x, buys) ==
    SettleMakers([bals EXCEPT ![a] = Trade(bals[a], buys, x.base, x.quote, FALSE)], x, buys)

\* They have their shape.
LEMMA BalancesAfter ==
    \A bals : \A a \in Accounts : \A levels, x, buys :
        (/\ BalancesOK(bals)
         /\ Taken(levels, x)
         /\ x.base \in Nat
         /\ x.quote \in Nat) => BalancesOK(Settled(bals, a, x, buys))
\* So is the loop over the orders that were used up.
<1>SettlingLoop. ASSUME NEW bals, NEW x, NEW taker_buys, Len(x.filled) \in Nat
                 PROVE  Settling(bals, x, taker_buys) =
                          [i \in 0 .. Len(x.filled) |-> IF i = 0 THEN bals
                             ELSE SettleFilled(Settling(bals, x, taker_buys)[i - 1], x.filled[i], taker_buys)]
  <2> USE <1>SettlingLoop
  <2> DEFINE start == bals
             Loop(f, n) == f = [i \in 0 .. n |-> IF i = 0 THEN start ELSE SettleFilled(f[i - 1], x.filled[i], taker_buys)]
             S == {n \in Nat : \E f : Loop(f, n)}
  <2> HIDE DEF start
  <2>1. 0 \in S
    <3>1. Loop([i \in 0 .. 0 |-> start], 0)
      OBVIOUS
    <3>. QED BY <3>1, Zenon
  <2>2. ASSUME NEW n \in 0 .. Len(x.filled) - 1, n \in S PROVE n + 1 \in S
    <3>1. n \in Nat /\ n + 1 \in Nat
      OBVIOUS
    <3>2. PICK g : Loop(g, n)
      BY <2>2, Zenon
    <3> DEFINE h == [i \in 0 .. n + 1 |-> IF i = 0 THEN start ELSE SettleFilled(g[i - 1], x.filled[i], taker_buys)]
    <3>3. \A i \in 0 .. n : h[i] = g[i]
      BY <3>1, <3>2, SMTT(40)
    <3>4. \A i \in 0 .. n + 1 : i # 0 => i - 1 \in 0 .. n
      BY <3>1
    <3>5. Loop(h, n + 1)
      BY <3>3, <3>4, Zenon
    <3> HIDE DEF h, Loop
    <3>. QED BY <3>1, <3>5, Zenon
  <2> HIDE DEF S
  <2>3. Len(x.filled) \in S
    <3>1. Len(x.filled) \in 0 .. Len(x.filled)
      OBVIOUS
    <3>. QED BY <2>1, <2>2, <3>1, Induction, Zenon
  <2>4. \E f : Loop(f, Len(x.filled))
    BY <2>3, Zenon DEF S
  <2>. QED BY <2>4, Zenon DEF Settling, start
\* The makers' balances.
<1>Settles. ASSUME NEW bals, BalancesOK(bals), NEW account \in Accounts, NEW taker_buys, NEW lots \in Nat,
                   NEW price \in Nat
            PROVE  BalancesOK(Settle(bals, account, taker_buys, lots, price))
  <2> USE <1>Settles
  <2> DEFINE bal == Trade(bals[account], ~taker_buys, lots, base_to_quote_lots(lots, price), TRUE)
  <2>1. Settle(bals, account, taker_buys, lots, price) = [bals EXCEPT ![account] = bal]
    BY Zenon DEF Settle
  <2>2. lots \in Int /\ base_to_quote_lots(lots, price) \in Int
    <3>1. base_to_quote_lots(lots, price) \in Nat
      BY QuoteLotsNat, Zenon
    <3>. QED BY <3>1
  <2>3. Vector(bal)
    BY <2>2, Trades, Zenon DEF BalancesOK
  <2> HIDE DEF bal
  <2>4. BalancesOK([bals EXCEPT ![account] = bal])
    BY <2>3, BalancesReplaced, Zenon
  <2>. QED BY <2>1, <2>4, Zenon
\* All of them.
<1>SettlesMakers. ASSUME NEW bals, BalancesOK(bals), NEW levels, NEW x, Taken(levels, x), NEW taker_buys
                  PROVE  BalancesOK(SettleMakers(bals, x, taker_buys))
  <2> USE <1>SettlesMakers
  <2> DEFINE after == Settling(bals, x, taker_buys)
             m == Len(x.filled)
             S == {i \in 0 .. m : BalancesOK(after[i])}
             Turn(b, i) == SettleFilled(b, x.filled[i], taker_buys)
  <2>1. x.filled \in Seq(Orders) /\ m \in Nat /\ DOMAIN x.filled = 1 .. m
    <3>1. x.filled \in Seq(Orders)
      BY Zenon DEF Taken
    <3>. QED BY <3>1
  <2>2. after = [i \in 0 .. m |-> IF i = 0 THEN bals ELSE Turn(after[i - 1], i)]
    BY <2>1, <1>SettlingLoop
  <2> HIDE DEF after, m, Turn
  <2>3. Prices \subseteq Nat
    BY BookAssumption, Zenon
  <2>4. 0 \in S
    <3>1. 0 \in 0 .. m
      BY <2>1
    <3>2. after[0] = bals
      BY <2>2, <3>1, Zenon
    <3>. QED BY <3>1, <3>2, Zenon
  <2>5. ASSUME NEW i \in 0 .. m - 1, i \in S PROVE i + 1 \in S
    <3>1. i + 1 \in 0 .. m /\ i + 1 # 0 /\ i + 1 - 1 = i /\ i + 1 \in DOMAIN x.filled
      BY <2>1
    <3>2. after[i + 1] = Turn(after[i], i + 1)
      <4> DEFINE k == i + 1
      <4>1. k \in 0 .. m /\ k # 0 /\ k - 1 = i
        BY <3>1
      <4> HIDE DEF k
      <4>2. after[k] = (IF k = 0 THEN bals ELSE Turn(after[k - 1], k))
        BY <2>2, <4>1, Zenon
      <4>. QED BY <4>1, <4>2, Zenon DEF k
    <3> DEFINE o == x.filled[i + 1]
    <3>3. o \in Orders
      BY <2>1, <3>1
    <3> HIDE DEF o
    <3>4. o.account \in Accounts /\ o.price \in Nat /\ o.base_lots - o.filled_base_lots \in Nat
      <4>1. /\ o.account \in Accounts /\ o.price \in Prices /\ o.base_lots \in Nat /\ o.filled_base_lots \in Nat
            /\ o.self_filled \in Nat /\ get_order_remaining(o) \in Nat
        BY <3>3, OrderFields, Zenon
      <4>2. o.price \in Nat
        BY <2>3, <4>1, Zenon
      <4>. QED BY <4>1, <4>2 DEF get_order_remaining
    <3>5. BalancesOK(after[i])
      BY <2>5, Zenon
    <3>6. BalancesOK(Settle(after[i], o.account, taker_buys, o.base_lots - o.filled_base_lots, o.price))
      BY <3>4, <3>5, <1>Settles, Zenon
    <3>7. BalancesOK(SettleFilled(after[i], o, taker_buys))
      BY <3>5, <3>6, Zenon DEF SettleFilled
    <3>. QED BY <3>1, <3>2, <3>7, Zenon DEF o, Turn
  <2>6. m \in S
    <3> HIDE DEF S
    <3>1. m \in 0 .. m
      BY <2>1
    <3>. QED BY <2>1, <2>4, <2>5, <3>1, Induction, Zenon
  <2>7. BalancesOK(after[m])
    BY <2>6, Zenon
  <2>8. CASE x.residual = {}
    BY <2>7, <2>8, Zenon DEF SettleMakers, after, m
  <2>9. CASE x.residual # {}
    <3> DEFINE r == CHOOSE r \in x.residual : TRUE
    <3>1. r \in x.residual
      BY <2>9, Zenon
    <3>2. SettleMakers(bals, x, taker_buys) = Settle(after[m], r.account, taker_buys, r.filled_base_lots, r.price)
      BY <2>9, Zenon DEF SettleMakers, after, m
    <3> HIDE DEF r
    <3>3. r.account \in Accounts /\ r.filled_base_lots \in Nat /\ r.price \in Prices
      BY <3>1, Zenon DEF Taken
    <3>4. r.price \in Nat
      BY <2>3, <3>3, Zenon
    <3>5. BalancesOK(Settle(after[m], r.account, taker_buys, r.filled_base_lots, r.price))
      BY <2>7, <3>3, <3>4, <1>Settles, Zenon
    <3>. QED BY <3>2, <3>5, Zenon
  <2>. QED BY <2>8, <2>9, Zenon
<1> SUFFICES ASSUME NEW bals, BalancesOK(bals), NEW a \in Accounts, NEW levels, NEW x, Taken(levels, x),
               x.base \in Nat, x.quote \in Nat, NEW buys
             PROVE  BalancesOK(Settled(bals, a, x, buys))
  BY Zenon
<1> DEFINE bal == Trade(bals[a], buys, x.base, x.quote, FALSE)
<1>1. x.base \in Int /\ x.quote \in Int
  OBVIOUS
<1>2. Vector(bals[a])
  BY Zenon DEF BalancesOK
<1>3. Vector(bal)
  BY <1>1, <1>2, Trades, Zenon
<1>4. Settled(bals, a, x, buys) = SettleMakers([bals EXCEPT ![a] = bal], x, buys)
  BY Zenon DEF Settled
<1> HIDE DEF bal
<1>5. BalancesOK([bals EXCEPT ![a] = bal])
  BY <1>3, BalancesReplaced, Zenon
<1>6. BalancesOK(SettleMakers([bals EXCEPT ![a] = bal], x, buys))
  BY <1>5, <1>SettlesMakers, Zenon
<1>. QED BY <1>4, <1>6, Zenon

\* The price of the last trade.
LEMMA LastIsPrice ==
    ASSUME NEW x, x.last \in Prices \cup {0}, NEW old \in Prices \cup {0}
    PROVE  LastPrice(x, old) \in Prices \cup {0}
BY Zenon DEF LastPrice

\* What a step has to keep, and, when it numbers an order, to respect.
StepOK ==
    /\ IInv'
    /\ next_id' # next_id => \A side \in Sides : InTurn(book[side], book'[side])

\* A panic leaves the state as it is.
LEMMA PanicStep ==
    ASSUME IInv, Panic
    PROVE  StepOK
<1>1. /\ panicked' = TRUE /\ balances' = balances /\ accounts' = accounts /\ book' = book
      /\ last_executed_price' = last_executed_price /\ next_id' = next_id
  BY Zenon DEF Panic
<1>. QED BY <1>1, Zenon DEF StepOK, IInv

\* The number of an order.
LEMMA NextId ==
    ASSUME IInv, next_id < MaxOrders
    PROVE  next_id + 1 \in 0 .. MaxOrders
<1>1. next_id \in 0 .. MaxOrders /\ MaxOrders \in Nat
  BY InputsAssumption, Zenon DEF IInv
<1>. QED BY <1>1

\* The inputs are numbers and accounts.
LEMMA Inputs ==
    /\ LimitTraders \subseteq Accounts /\ MarketTraders \subseteq Accounts /\ Prices \subseteq Nat
    /\ Sizes \subseteq Nat /\ QuoteSizes \subseteq Nat /\ MarketIds \subseteq Nat /\ 0 \in Nat
BY InputsAssumption, BookAssumption, Zenon

\* Balances that are in order, and of which none is below zero.
Funded(bals) == BalancesOK(bals) /\ \A b \in Accounts : ~Overdrawn(bals[b])

\* They stay so when one account's entries change.
LEMMA FundedChange ==
    ASSUME NEW bals, Funded(bals), NEW a \in Accounts, NEW bal, Vector(bal), ~Overdrawn(bal)
    PROVE  Funded([bals EXCEPT ![a] = bal])
<1> DEFINE new == [bals EXCEPT ![a] = bal]
<1>1. BalancesOK(bals) /\ \A b \in Accounts : ~Overdrawn(bals[b])
  BY Zenon DEF Funded
<1>2. BalancesOK(new)
  BY <1>1, BalancesReplaced, Zenon
<1>3. DOMAIN bals = Accounts
  BY <1>1, Zenon DEF BalancesOK
<1>4. new[a] = bal /\ \A b \in Accounts : b # a => new[b] = bals[b]
  BY <1>3, Zenon
<1> HIDE DEF new
<1>5. Funded(new)
  BY <1>1, <1>2, <1>4, Zenon DEF Funded
<1>. QED BY <1>5, Zenon DEF new

\* So do those of the ledger.
LEMMA BalancesChange ==
    ASSUME IInv, NEW a \in Accounts, NEW bal, Vector(bal), ~Overdrawn(bal),
           NEW new, new = [balances EXCEPT ![a] = bal]
    PROVE  BalancesOK(new) /\ \A b \in Accounts : ~Overdrawn(new[b])
<1>1. Funded(balances)
  BY Zenon DEF IInv, Funded
<1>2. Funded([balances EXCEPT ![a] = bal])
  BY <1>1, FundedChange, Zenon
<1>. QED BY <1>2, Zenon DEF Funded

\* What is not filled stays open, whatever else is opened.
LEMMA BookStillOpen ==
    ASSUME IInv, NEW new, \A a \in Accounts : accounts[a].open_orders \subseteq new[a].open_orders
    PROVE  \A side \in Sides : LiveOpen(book[side], new)
<1> SUFFICES ASSUME NEW side \in Sides PROVE LiveOpen(book[side], new)
  BY Zenon
<1>1. \A o \in OrdersOf(book[side]) : o \in Orders
  BY Parts, SidesOf, Zenon
<1>2. LiveOpen(book[side], accounts)
  BY Zenon DEF IInv
<1>. QED BY <1>1, <1>2, StillOpen, Zenon

\* An order for a market that does not exist.
LEMMA LimitUnknownMarketStep ==
    ASSUME IInv, NEW a \in LimitTraders, NEW market_id \in MarketIds, NEW side \in Sides, NEW price \in Prices,
           NEW size \in Sizes, LimitUnknownMarket(a, market_id, side, price, size)
    PROVE  StepOK
<1> DEFINE o == new_limit_order(next_id, market_id, a, side, price, size)
           n == next_id
<1>1. /\ n < MaxOrders /\ accounts' = Opened(accounts, a, o) /\ next_id' = n + 1 /\ balances' = balances
      /\ book' = book /\ last_executed_price' = last_executed_price /\ panicked' = panicked
  BY Zenon DEF LimitUnknownMarket, LimitInput
<1>2. a \in Accounts /\ size \in Nat /\ market_id \in Nat
  BY Inputs, Zenon
<1>3. n \in Nat /\ InfosOK(accounts, n) /\ BookOK(book, n)
  BY Parts, Zenon
<1>4. o \in OrderSet /\ o.id = n /\ o.account = a
  <2>1. IsNew(o, n, a, side, price, size)
    BY <1>2, <1>3, NewOrder, Zenon
  <2>. QED BY <2>1, Zenon DEF IsNew
<1> HIDE DEF o
<1>5. IsChanged(accounts, a, accounts[a].open_orders \cup {o}, n + 1, Opened(accounts, a, o))
  BY <1>2, <1>3, <1>4, Opens, Zenon
<1>6. /\ InfosOK(accounts', n + 1) /\ accounts'[a].open_orders = accounts[a].open_orders \cup {o}
      /\ \A b \in Accounts : b # a => accounts'[b].open_orders = accounts[b].open_orders
  BY <1>1, <1>5, Zenon DEF IsChanged
<1>7. \A b \in Accounts : accounts[b].open_orders \subseteq accounts'[b].open_orders
  BY <1>6, Zenon
<1>8. \A s \in Sides : LiveOpen(book[s], accounts')
  BY <1>7, BookStillOpen, Zenon
<1>9. BookOK(book, n + 1)
  BY <1>3, BookLater, Zenon
<1>10. n + 1 \in 0 .. MaxOrders
  BY <1>1, NextId, Zenon
<1>11. IInv'
  BY <1>1, <1>6, <1>8, <1>9, <1>10, Zenon DEF IInv
<1>12. \A s \in Sides : InTurn(book[s], book'[s])
  BY <1>1, MoreInTurn, Zenon
<1>. QED BY <1>11, <1>12, Zenon DEF StepOK

\* An order that the account cannot pay for.
LEMMA LimitNotCoveredStep ==
    ASSUME IInv, NEW a \in LimitTraders, NEW side \in Sides, NEW price \in Prices, NEW size \in Sizes,
           LimitNotCovered(a, side, price, size)
    PROVE  StepOK
<1> DEFINE o == new_limit_order(next_id, 0, a, side, price, size)
           n == next_id
           bal == Adjust(balances[a], OutAsset(side), 0, 0)
<1>1. /\ n < MaxOrders /\ accounts' = Advance(Opened(accounts, a, o), a) /\ next_id' = n + 1
      /\ balances' = [balances EXCEPT ![a] = bal] /\ accounts[a].expected_nonce < MaxNonce
      /\ book' = book /\ last_executed_price' = last_executed_price /\ panicked' = panicked
  BY Zenon DEF LimitNotCovered, LimitInput, May
<1>2. a \in Accounts /\ size \in Nat /\ 0 \in Nat
  BY Inputs, Zenon
<1>3. n \in Nat /\ InfosOK(accounts, n) /\ BookOK(book, n)
  BY Parts, Zenon
<1>4. o \in OrderSet /\ o.id = n /\ o.account = a
  <2>1. IsNew(o, n, a, side, price, size)
    BY <1>2, <1>3, NewOrder, Zenon
  <2>. QED BY <2>1, Zenon DEF IsNew
<1> HIDE DEF o
<1>5. InfosOK(accounts', n + 1) /\ \A b \in Accounts : accounts[b].open_orders \subseteq accounts'[b].open_orders
  <2>1. IsRecorded(accounts, a, o, n, Advance(Opened(accounts, a, o), a))
    BY <1>1, <1>2, <1>3, <1>4, OpensAndAdvances, Zenon
  <2>. QED BY <1>1, <2>1, Zenon DEF IsRecorded
<1>6. \A s \in Sides : LiveOpen(book[s], accounts')
  BY <1>5, BookStillOpen, Zenon
<1>7. Vector(bal) /\ ~Overdrawn(bal)
  <2>1. Vector(balances[a]) /\ ~Overdrawn(balances[a])
    BY <1>2, Zenon DEF IInv, BalancesOK
  <2>2. OutAsset(side) \in Assets /\ 0 \in Int
    BY DEF OutAsset, Assets
  <2>3. IsAdjusted(balances[a], OutAsset(side), 0, 0, bal)
    BY <2>1, <2>2, Adjusts, Zenon
  <2> HIDE DEF bal
  <2>4. ~Overdrawn(bal)
    BY <1>2, <2>1, <2>3, AddsNotOverdrawn, Zenon
  <2>. QED BY <2>3, <2>4, Zenon DEF IsAdjusted
<1> HIDE DEF bal
<1>8. BalancesOK(balances') /\ \A b \in Accounts : ~Overdrawn(balances'[b])
  BY <1>1, <1>2, <1>7, BalancesChange, Zenon
<1>9. BookOK(book, n + 1)
  BY <1>3, BookLater, Zenon
<1>10. n + 1 \in 0 .. MaxOrders
  BY <1>1, NextId, Zenon
<1>11. IInv'
  BY <1>1, <1>5, <1>6, <1>8, <1>9, <1>10, Zenon DEF IInv
<1>12. \A s \in Sides : InTurn(book[s], book'[s])
  BY <1>1, MoreInTurn, Zenon
<1>. QED BY <1>11, <1>12, Zenon DEF StepOK

\* An order that is added to its side, whose live orders are open.
LEMMA AddedOpen ==
    ASSUME NEW side, NEW levels, NEW o, NEW n, NEW new, IsAdded(side, levels, o, n, new), NEW infos,
           LiveOpen(levels, infos), o \in infos[o.account].open_orders
    PROVE  LiveOpen(new, infos)
<1>1. \A p \in OrdersOf(new) : p \in OrdersOf(levels) \/ p = o
  BY Zenon DEF IsAdded
<1>. QED BY <1>1, Zenon DEF LiveOpen

\* An order that rests.
LEMMA LimitRestsStep ==
    \A a \in LimitTraders, side \in Sides, price \in Prices, size \in Sizes :
        (/\ IInv
         /\ LimitRests(a, side, price, size)) => StepOK
\* Nor when an amount is taken from the available balance that covers it.
<1>TakesNotOverdrawn. ASSUME NEW bal, Vector(bal), ~Overdrawn(bal), NEW asset, NEW amount \in Nat,
                             Balance(bal, asset).available >= amount, NEW new, IsAdjusted(bal, asset, -amount, 0, new)
                      PROVE  ~Overdrawn(new)
  <2> USE <1>TakesNotOverdrawn
  <2> SUFFICES ASSUME NEW i \in DOMAIN new PROVE ~(new[i].available < 0) /\ ~(new[i].total < 0)
    BY Zenon DEF Overdrawn
  <2>1. ASSUME i \in DOMAIN bal PROVE /\ bal[i].available \in Int /\ bal[i].total \in Int
                                      /\ ~(bal[i].available < 0) /\ ~(bal[i].total < 0)
    BY <2>1, EntryOf, Zenon DEF Overdrawn
  <2>2. \/ i \in DOMAIN bal /\ new[i] = bal[i]
        \/ /\ i \in DOMAIN bal /\ bal[i].asset_id = asset /\ new[i].available = bal[i].available + (-amount)
           /\ new[i].total = bal[i].total + 0
        \/ Positions(bal, asset) = {} /\ new[i].available = -amount /\ new[i].total = 0
    BY Zenon DEF IsAdjusted
  <2>3. CASE i \in DOMAIN bal /\ new[i] = bal[i]
    BY <2>1, <2>3, Zenon
  <2>4. CASE /\ i \in DOMAIN bal /\ bal[i].asset_id = asset /\ new[i].available = bal[i].available + (-amount)
             /\ new[i].total = bal[i].total + 0
    <3> DEFINE j == CHOOSE c \in Positions(bal, asset) : TRUE
    <3>1. i \in Positions(bal, asset)
      BY <2>4, Zenon DEF Positions
    <3>2. j \in Positions(bal, asset)
      BY <3>1, Zenon
    <3>3. Balance(bal, asset) = [available |-> bal[j].available, total |-> bal[j].total]
      BY <3>1, Zenon DEF Balance
    <3> HIDE DEF j
    <3>4. j \in DOMAIN bal /\ bal[j].asset_id = asset
      BY <3>2, Zenon DEF Positions
    <3>5. j = i
      BY <2>4, <3>4, Zenon DEF Vector
    <3>6. bal[i].available >= amount
      BY <3>3, <3>5
    <3>. QED BY <2>1, <2>4, <3>6
  <2>5. CASE Positions(bal, asset) = {} /\ new[i].available = -amount /\ new[i].total = 0
    <3>1. Balance(bal, asset) = [available |-> 0, total |-> 0]
      BY <2>5, Zenon DEF Balance
    <3>2. 0 >= amount
      BY <3>1
    <3>. QED BY <2>5, <3>2
  <2>. QED BY <2>2, <2>3, <2>4, <2>5, Zenon
\* An order that does not cross is behind the best price.
<1>NotCrossing. ASSUME NEW side \in Sides, NEW o, o.direction = side, ~Crossing(side, o.price)
                PROVE  book[Other(side)] = << >> \/ ~Crosses(book[Other(side)][Len(book[Other(side)])].price, {o})
  <2> USE <1>NotCrossing
  <2> DEFINE levels == book[Other(side)]
             best == levels[Len(levels)].price
             r == [price |-> o.price, direction |-> side]
  <2>1. Crosses(best, {r}) <=> Crosses(best, {o})
    <3>1. r.price = o.price /\ r.direction = o.direction
      BY Zenon
    <3> HIDE DEF r, best
    <3>. QED BY <3>1, Zenon DEF Crosses
  <2>2. levels # << >> => get_best_price(levels) = {best}
    BY Zenon DEF get_best_price
  <2>3. \A p \in get_best_price(levels) : ~Crosses(p, {r})
    BY Zenon DEF Crossing
  <2>. QED BY <2>1, <2>2, <2>3, Zenon
<1> SUFFICES ASSUME IInv, NEW a \in LimitTraders, NEW side \in Sides, NEW price \in Prices, NEW size \in Sizes,
               LimitRests(a, side, price, size)
             PROVE  StepOK
  BY Zenon
<1> DEFINE o == new_limit_order(next_id, 0, a, side, price, size)
           n == next_id
           lock == LockOf(side, price, size)
           bal == Adjust(balances[a], OutAsset(side), -lock, 0)
           new == add_order_with_cmp(book[side], o)
<1>1. /\ n < MaxOrders /\ accounts' = Advance(Opened(accounts, a, o), a) /\ next_id' = n + 1
      /\ balances' = [balances EXCEPT ![a] = bal] /\ accounts[a].expected_nonce < MaxNonce
      /\ book' = [book EXCEPT ![side] = new]
      /\ last_executed_price' = last_executed_price /\ panicked' = panicked
      /\ Covered(a, OutAsset(side), lock) /\ ~Crossing(side, price)
  BY Zenon DEF LimitRests, LimitInput, May
<1>2. a \in Accounts /\ size \in Nat /\ 0 \in Nat /\ price \in Nat
  BY Inputs, Zenon
<1>3. n \in Nat /\ InfosOK(accounts, n) /\ BookOK(book, n) /\ DOMAIN book = Sides
  BY Parts, Zenon
<1>4. o \in OrderSet /\ o \in Orders /\ o.id = n /\ o.account = a /\ o.direction = side /\ o.price = price
  <2>1. IsNew(o, n, a, side, price, size)
    BY <1>2, <1>3, NewOrder, Zenon
  <2>. QED BY <2>1, Zenon DEF IsNew
<1> HIDE DEF o
<1>5. /\ InfosOK(accounts', n + 1) /\ \A b \in Accounts : accounts[b].open_orders \subseteq accounts'[b].open_orders
      /\ o \in accounts'[a].open_orders
  <2>1. IsRecorded(accounts, a, o, n, Advance(Opened(accounts, a, o), a))
    BY <1>1, <1>2, <1>3, <1>4, OpensAndAdvances, Zenon
  <2>. QED BY <1>1, <2>1, Zenon DEF IsRecorded
<1>6. \A s \in Sides : LiveOpen(book[s], accounts')
  BY <1>5, BookStillOpen, Zenon
<1>7. Vector(bal) /\ ~Overdrawn(bal)
  <2>1. Vector(balances[a]) /\ ~Overdrawn(balances[a])
    BY <1>2, Zenon DEF IInv, BalancesOK
  <2>2. OutAsset(side) \in Assets /\ 0 \in Int
    BY DEF OutAsset, Assets
  <2>3. lock \in Nat
    BY <1>2, LockNat, Zenon
  <2>4. Balance(balances[a], OutAsset(side)).available >= lock
    BY <1>1, Zenon DEF Covered
  <2> HIDE DEF lock
  <2>5. -lock \in Int
    BY <2>3
  <2>6. IsAdjusted(balances[a], OutAsset(side), -lock, 0, bal)
    BY <2>1, <2>2, <2>5, Adjusts, Zenon
  <2> HIDE DEF bal
  <2>7. ~Overdrawn(bal)
    BY <2>1, <2>3, <2>4, <2>6, <1>TakesNotOverdrawn, Zenon
  <2>. QED BY <2>6, <2>7, Zenon DEF IsAdjusted
<1> HIDE DEF bal
<1>8. BalancesOK(balances') /\ \A b \in Accounts : ~Overdrawn(balances'[b])
  BY <1>1, <1>2, <1>7, BalancesChange, Zenon
<1>9. SideOK(side, book[side], n) /\ SideOK(Other(side), book[Other(side)], n)
  BY <1>3, SidesOf, Zenon
<1>10. IsAdded(side, book[side], o, n, new)
  BY <1>3, <1>4, <1>9, AddSide, Zenon
<1>11. BookOK([book EXCEPT ![side] = new], n + 1)
  <2>1. book[Other(side)] = << >> \/ ~Crosses(book[Other(side)][Len(book[Other(side)])].price, {o})
    BY <1>1, <1>4, <1>NotCrossing, Zenon
  <2>2. \A p \in PricesOf(book[Other(side)]) : Worse(side, o.price, p)
    BY <1>2, <1>4, <1>9, <2>1, BehindBest, Zenon
  <2>. QED BY <1>3, <1>4, <2>2, BookAdds, Zenon
<1> HIDE DEF new
<1>12. book'[side] = new /\ \A s \in Sides : s # side => book'[s] = book[s]
  BY <1>1, <1>3, Zenon
<1>13. \A s \in Sides : ~BadLevels(book'[s]) /\ LiveOpen(book'[s], accounts') /\ InTurn(book[s], book'[s])
  <2> SUFFICES ASSUME NEW s \in Sides
               PROVE  ~BadLevels(book'[s]) /\ LiveOpen(book'[s], accounts') /\ InTurn(book[s], book'[s])
    BY Zenon
  <2>1. ~BadLevels(book[s])
    BY Zenon DEF IInv
  <2>2. CASE s # side
    <3>1. InTurn(book[s], book[s])
      BY MoreInTurn, Zenon
    <3>. QED BY <1>6, <1>12, <2>1, <2>2, <3>1, Zenon
  <2>3. CASE s = side
    <3>1. LiveOpen(new, accounts')
      <4>1. LiveOpen(book[side], accounts') /\ o \in accounts'[o.account].open_orders
        BY <1>4, <1>5, <1>6, Zenon
      <4>. QED BY <1>10, <4>1, AddedOpen, Zenon
    <3>2. ~BadLevels(new)
      BY <1>10, <2>1, <2>3, Zenon DEF IsAdded
    <3>3. InTurn(book[side], new)
      <4>1. OrdersOf(book[side]) \subseteq OrdersOf(new)
        BY <1>10, Zenon DEF IsAdded
      <4>. QED BY <4>1, MoreInTurn, Zenon
    <3>. QED BY <1>12, <2>3, <3>1, <3>2, <3>3, Zenon
  <2>. QED BY <2>2, <2>3, Zenon
<1>14. n + 1 \in 0 .. MaxOrders
  BY <1>1, NextId, Zenon
<1>15. IInv'
  BY <1>1, <1>5, <1>8, <1>11, <1>13, <1>14, Zenon DEF IInv
<1>. QED BY <1>13, <1>15, Zenon DEF StepOK

\* The book after a trade with the other side.
IsTraded(side, x) ==
    /\ Taken(book[Other(side)], x) /\ InTurn(book[Other(side)], x.levels)
    /\ SideOK(Other(side), x.levels, next_id) /\ \A o \in OrdersOf(x.levels) : o \in Orders
    /\ BookOK([book EXCEPT ![Other(side)] = x.levels], next_id)

\* What an execution leaves is such a book.
LEMMA SideTraded ==
    ASSUME IInv, NEW side \in Sides, NEW x, Left(book[Other(side)], x)
    PROVE  IsTraded(side, x)
<1> DEFINE s == Other(side)
           levels == book[s]
           n == next_id
<1>1. s \in Sides /\ BookOK(book, n)
  BY OtherSide, Parts, Zenon
<1>2. SideOK(s, levels, n)
  BY <1>1, SidesOf, Zenon
<1> HIDE DEF s
<1>3. Left(levels, x)
  BY Zenon DEF s
<1>4. Taken(levels, x) /\ InTurn(levels, x.levels)
  <2>1. Taken(levels, x)
    BY <1>2, <1>3, TakenOf, Zenon
  <2>2. InTurn(levels, x.levels)
    BY <1>2, <1>3, InTurnOf, Zenon
  <2>. QED BY <2>1, <2>2, Zenon
<1>5. SideOK(s, x.levels, n)
  BY <1>2, <1>3, LeftSide, Zenon
<1>6. \A o \in OrdersOf(x.levels) : o \in Orders
  BY <1>5, SideOrders, Zenon
<1>7. BookOK([book EXCEPT ![s] = x.levels], n)
  <2>1. Smaller(s, levels, x.levels, n)
    BY <1>2, <1>3, TakenSmaller, Zenon
  <2>. QED BY <1>1, <2>1, BookShrinks, Zenon
<1>. QED BY <1>4, <1>5, <1>6, <1>7, Zenon DEF IsTraded, s

\* The order's own side and the infos once what is left of it is in the book.
IsPlaced(a, side, x, own, infos) ==
    /\ BookOK([book EXCEPT ![Other(side)] = x.levels, ![side] = own], next_id + 1)
    /\ ~BadLevels(own) /\ LiveOpen(own, infos) /\ OrdersOf(book[side]) \subseteq OrdersOf(own)
    /\ \A o \in OrdersOf(own) : o \in Orders
    /\ \A o \in OrdersOf(own), p \in OrdersOf(book[Other(side)]) : o.id # p.id
    /\ InfosOK(infos, next_id + 1) /\ infos[a].expected_nonce = accounts[a].expected_nonce
    /\ \A b \in Accounts : accounts[b].open_orders \subseteq infos[b].open_orders

\* What is left of an order is an order with the same terms.
IsRest(o, n, a, side, price) ==
    /\ o \in Orders /\ o \in OrderSet /\ o.id = n /\ o.account = a /\ o.direction = side /\ o.price = price

\* A limit order that trades.
LEMMA LimitTradesStep ==
    \A a \in LimitTraders, side \in Sides, price \in Prices, size \in Sizes :
        (/\ IInv
         /\ LimitTrades(a, side, price, size)) => StepOK
\* Nothing is left.
<1>NothingLeft. ASSUME IInv, NEW a \in Accounts, NEW side \in Sides, NEW x, IsTraded(side, x)
                PROVE  IsPlaced(a, side, x, book[side], Completed(accounts, a, next_id))
  <2> USE <1>NothingLeft
  <2> DEFINE infos == Completed(accounts, a, next_id)
             n == next_id
             s == Other(side)
             b1 == [book EXCEPT ![s] = x.levels]
  <2>1. n \in Nat /\ InfosOK(accounts, n) /\ BookOK(book, n) /\ DOMAIN book = Sides
    BY Parts, Zenon
  <2>2. IsChanged(accounts, a, accounts[a].open_orders, n + 1, infos)
    BY <2>1, Completes, Zenon
  <2> HIDE DEF infos
  <2>3. /\ InfosOK(infos, n + 1) /\ infos[a].expected_nonce = accounts[a].expected_nonce
        /\ \A b \in Accounts : accounts[b].open_orders \subseteq infos[b].open_orders
    BY <2>2, Zenon DEF IsChanged
  <2>4. LiveOpen(book[side], infos)
    BY <2>3, BookStillOpen, Zenon
  <2>5. /\ \A o \in OrdersOf(book[side]) : o \in Orders
        /\ \A o \in OrdersOf(book[side]), p \in OrdersOf(book[s]) : o.id # p.id
    BY <2>1, SidesOf, Zenon
  <2>6. ~BadLevels(book[side])
    BY Zenon DEF IInv
  <2>7. BookOK(b1, n)
    BY Zenon DEF IsTraded
  <2>8. [book EXCEPT ![s] = x.levels, ![side] = book[side]] = b1
    <3>1. s # side /\ s \in Sides
      BY OtherSide, Zenon
    <3> HIDE DEF s
    <3>. QED BY <2>1, <3>1, Zenon
  <2>9. BookOK([book EXCEPT ![s] = x.levels, ![side] = book[side]], n + 1)
    <3> HIDE DEF b1
    <3>1. BookOK(b1, n + 1)
      BY <2>1, <2>7, BookLater, Zenon
    <3>. QED BY <2>8, <3>1, Zenon
  <2>. QED BY <2>3, <2>4, <2>5, <2>6, <2>9, Zenon DEF IsPlaced, infos
\* What is left of the order stands behind what is left of the other side.
<1>LeftAdded. ASSUME IInv, NEW a \in Accounts, NEW side \in Sides, NEW x, IsTraded(side, x), NEW left \in Orders,
                     left.id = next_id, left.account = a, left.direction = side, left \in OrderSet,
                     \A p \in PricesOf(x.levels) : Worse(side, left.price, p)
              PROVE  IsPlaced(a, side, x, add_order_with_cmp(book[side], left), Opened(accounts, a, left))
  <2> USE <1>LeftAdded
  <2> DEFINE infos == Opened(accounts, a, left)
             own == add_order_with_cmp(book[side], left)
             n == next_id
             s == Other(side)
             b1 == [book EXCEPT ![s] = x.levels]
  <2>1. n \in Nat /\ InfosOK(accounts, n) /\ BookOK(book, n) /\ DOMAIN book = Sides
    BY Parts, Zenon
  <2>2. IsChanged(accounts, a, accounts[a].open_orders \cup {left}, n + 1, infos)
    BY <2>1, Opens, Zenon
  <2> HIDE DEF infos
  <2>3. /\ InfosOK(infos, n + 1) /\ infos[a].expected_nonce = accounts[a].expected_nonce
        /\ \A b \in Accounts : accounts[b].open_orders \subseteq infos[b].open_orders
        /\ left \in infos[a].open_orders
    <3>1. /\ InfosOK(infos, n + 1) /\ infos[a].expected_nonce = accounts[a].expected_nonce
          /\ infos[a].open_orders = accounts[a].open_orders \cup {left}
          /\ \A b \in Accounts : b # a => infos[b].open_orders = accounts[b].open_orders
      BY <2>2, Zenon DEF IsChanged
    <3>2. ASSUME NEW b \in Accounts PROVE accounts[b].open_orders \subseteq infos[b].open_orders
      BY <3>1, Zenon
    <3>. QED BY <3>1, <3>2, Zenon
  <2>4. LiveOpen(book[side], infos)
    BY <2>3, BookStillOpen, Zenon
  <2>5. /\ \A o \in OrdersOf(book[side]) : o \in Orders
        /\ \A o \in OrdersOf(book[s]) : o \in Orders /\ o.id < n
        /\ \A o \in OrdersOf(book[side]), p \in OrdersOf(book[s]) : o.id # p.id
        /\ SideOK(side, book[side], n)
    <3>1. SideOK(side, book[side], n)
      BY <2>1, SidesOf, Zenon
    <3>2. \A o \in OrdersOf(book[side]) : o \in Orders
      BY <2>1, SidesOf, Zenon
    <3>3. \A o \in OrdersOf(book[s]) : o \in Orders /\ o.id < n
      BY <2>1, SidesOf, Zenon
    <3>4. \A o \in OrdersOf(book[side]), p \in OrdersOf(book[s]) : o.id # p.id
      <4>1. TwoSides(book, side, n)
        BY <2>1, BookSides, Zenon
      <4>. QED BY <4>1, Zenon DEF TwoSides
    <3>. QED BY <3>1, <3>2, <3>3, <3>4, Zenon
  <2>6. ~BadLevels(book[side])
    BY Zenon DEF IInv
  <2>7. BookOK(b1, n)
    BY Zenon DEF IsTraded
  <2>8. IsAdded(side, book[side], left, n, own)
    BY <2>1, <2>5, AddSide, Zenon
  <2>9. /\ ~BadLevels(own) /\ OrdersOf(book[side]) \subseteq OrdersOf(own)
        /\ \A o \in OrdersOf(own) : o \in OrdersOf(book[side]) \/ o = left
    BY <2>6, <2>8, Zenon DEF IsAdded
  <2>10. LiveOpen(own, infos)
    BY <2>3, <2>4, <2>8, AddedOpen, Zenon
  <2>11. \A o \in OrdersOf(own) : o \in Orders
    BY <2>5, <2>9, Zenon
  <2>12. \A o \in OrdersOf(own), p \in OrdersOf(book[s]) : o.id # p.id
    <3>1. ~(n < n)
      BY <2>1
    <3>. QED BY <2>5, <2>9, <3>1, Zenon
  <2>13. b1[side] = book[side] /\ b1[s] = x.levels
         /\ [book EXCEPT ![s] = x.levels, ![side] = own] = [b1 EXCEPT ![side] = own]
    <3>1. s # side /\ s \in Sides
      BY OtherSide, Zenon
    <3> HIDE DEF s, own
    <3>. QED BY <2>1, <3>1, Zenon
  <2>14. BookOK([book EXCEPT ![s] = x.levels, ![side] = own], n + 1)
    <3> HIDE DEF b1
    <3>1. \A p \in PricesOf(b1[s]) : Worse(side, left.price, p)
      BY <2>13, Zenon
    <3>2. BookOK([b1 EXCEPT ![side] = add_order_with_cmp(b1[side], left)], n + 1)
      BY <2>1, <2>7, <3>1, BookAdds, Zenon
    <3>3. add_order_with_cmp(b1[side], left) = own
      BY <2>13, Zenon
    <3> HIDE DEF own
    <3>. QED BY <2>13, <3>2, <3>3, Zenon
  <2>. QED BY <2>3, <2>9, <2>10, <2>11, <2>12, <2>14, Zenon DEF IsPlaced, infos, own
\* The rest of an order that has traded.
<1>LeftOrder. ASSUME NEW n, NEW a, NEW side, NEW price, NEW size \in Nat, NEW o, IsNew(o, n, a, side, price, size),
                     NEW rem \in 0 .. size
              PROVE  IsRest(Filled(o, size - rem, 0), n, a, side, price)
  <2> USE <1>LeftOrder
  <2>1. o \in Orders /\ get_order_remaining(o) = size
    BY Zenon DEF IsNew
  <2>2. size - rem \in Nat /\ 0 \in Nat /\ size - rem + 0 <= get_order_remaining(o)
    BY <2>1
  <2>3. Filled(o, size - rem, 0) \in Orders
    BY <2>1, <2>2, FilledOrder, Zenon
  <2>4. Same(Filled(o, size - rem, 0), o)
    BY FilledFields, Zenon
  <2>. QED BY <2>3, <2>4, Zenon DEF Orders, Same, IsNew, IsRest
<1> SUFFICES ASSUME IInv, NEW a \in LimitTraders, NEW side \in Sides, NEW price \in Prices, NEW size \in Sizes,
               LimitTrades(a, side, price, size)
             PROVE  StepOK
  BY Zenon
<1> DEFINE o == new_limit_order(next_id, 0, a, side, price, size)
           s == Other(side)
           n == next_id
           x == execute_limit(book[s], o)
           left == Filled(o, size - x.rem, 0)
           buys == side = "Buy"
           taken == [balances EXCEPT ![a] = Trade(balances[a], buys, x.base, x.quote, FALSE)]
           bals == SettleMakers(taken, x, buys)
           infos == IF x.rem > 0 THEN Opened(accounts, a, left) ELSE Completed(accounts, a, o.id)
           own == IF x.rem > 0 THEN add_order_with_cmp(book[side], left) ELSE book[side]
<1>1. s \in Sides /\ s # side /\ (\A t \in Sides : t = s \/ t = side) /\ DOMAIN book = Sides
  BY Parts, Zenon DEF Sides, Other
<1>2. n < MaxOrders /\ accounts[a].expected_nonce < MaxNonce
  BY Zenon DEF LimitTrades, LimitInput, May
<1>3. \/ Panic
      \/ /\ ~\E b \in Accounts : Overdrawn(bals[b])
         /\ ~BadLevels(x.levels)
         /\ balances' = bals
         /\ accounts' = Advance(UpdateMakers(infos, x), a)
         /\ book' = [book EXCEPT ![s] = x.levels, ![side] = own]
         /\ last_executed_price' = LastPrice(x, last_executed_price)
         /\ next_id' = n + 1
         /\ panicked' = panicked
  <2>1. \/ Panic
        \/ /\ ~\E b \in Accounts : Overdrawn(bals[b])
           /\ ~BadLevels(x.levels)
           /\ balances' = bals
           /\ accounts' = Advance(UpdateMakers(infos, x), a)
           /\ book' = [book EXCEPT ![s] = x.levels, ![side] = IF x.rem > 0 THEN add_order_with_cmp(@, left) ELSE @]
           /\ last_executed_price' = LastPrice(x, last_executed_price)
           /\ next_id' = n + 1
           /\ panicked' = panicked
    BY Zenon DEF LimitTrades
  <2> HIDE DEF x, left, bals, infos, s, o
  <2>2. [book EXCEPT ![s] = x.levels, ![side] = IF x.rem > 0 THEN add_order_with_cmp(@, left) ELSE @]
        = [book EXCEPT ![s] = x.levels, ![side] = own]
    BY <1>1, Zenon
  <2> HIDE DEF own
  <2>. QED BY <2>1, <2>2, Zenon
<1>4. CASE Panic
  BY <1>4, PanicStep, Zenon
<1>5. CASE /\ ~\E b \in Accounts : Overdrawn(bals[b])
           /\ ~BadLevels(x.levels)
           /\ balances' = bals
           /\ accounts' = Advance(UpdateMakers(infos, x), a)
           /\ book' = [book EXCEPT ![s] = x.levels, ![side] = own]
           /\ last_executed_price' = LastPrice(x, last_executed_price)
           /\ next_id' = n + 1
           /\ panicked' = panicked
  <2>1. a \in Accounts /\ size \in Nat /\ 0 \in Nat /\ price \in Nat
    BY Inputs, Zenon
  <2>2. n \in Nat /\ InfosOK(accounts, n) /\ BookOK(book, n) /\ BalancesOK(balances)
    BY Parts, Zenon
  <2>3. IsNew(o, n, a, side, price, size)
    BY <2>1, <2>2, NewOrder, Zenon
  <2> HIDE DEF o
  <2>4. o.base_lots = size /\ o.id = n /\ o.direction = side /\ o.price = price
    BY <2>3, Zenon DEF IsNew
  <2>5. SideOK(s, book[s], n) /\ book[s] \in Seq(Levels)
    BY <2>2, SidesOf, Zenon DEF SideOK
  <2>6. ExecOK(book[s], size, FALSE, {o}, Len(book[s]), x)
    <3>1. x = Execute(book[s], size, FALSE, NoAccount, {o})
      BY <2>4, Zenon DEF execute_limit
    <3> HIDE DEF x
    <3>2. FALSE \in BOOLEAN
      BY Zenon
    <3>3. ExecOK(book[s], size, FALSE, {o}, Len(book[s]), Execute(book[s], size, FALSE, NoAccount, {o}))
      BY <2>1, <2>5, <3>2, ExecAll, Zenon
    <3>. QED BY <3>1, <3>3, Zenon
  <2> HIDE DEF x
  <2>7. /\ Left(book[s], x) /\ x.rem \in 0 .. size /\ x.base \in Nat /\ x.quote \in Nat
        /\ x.last \in Prices \cup {0} /\ x.done \in BOOLEAN /\ (x.done => x.rem = 0)
        /\ ~x.done /\ x.rem # 0 => \/ Len(x.levels) = Len(book[s]) - Len(book[s])
                                   \/ Len(x.levels) > 0 /\ ~Crossed(x.levels, {o})
    BY <2>6, Zenon DEF ExecOK
  <2>8. IsTraded(side, x)
    BY <2>7, SideTraded, Zenon
  <2>9. /\ Taken(book[s], x) /\ InTurn(book[s], x.levels) /\ SideOK(s, x.levels, n)
        /\ \A p \in OrdersOf(x.levels) : p \in Orders
    BY <2>8, Zenon DEF IsTraded
  <2>10. IsPlaced(a, side, x, own, infos)
    <3>1. CASE x.rem > 0
      <4>1. own = add_order_with_cmp(book[side], left) /\ infos = Opened(accounts, a, left)
        BY <3>1, Zenon
      <4>2. /\ left \in Orders /\ left \in OrderSet /\ left.id = n /\ left.account = a
            /\ left.direction = side /\ left.price = price
        <5>1. IsRest(left, n, a, side, price)
          BY <2>1, <2>3, <2>7, <1>LeftOrder, Zenon
        <5>. QED BY <5>1, Zenon DEF IsRest
      <4> HIDE DEF left, own, infos
      <4>3. x.rem # 0 /\ Len(book[s]) - Len(book[s]) = 0
        BY <2>5, <2>7, <3>1, SMTT(40)
      <4>4. x.levels \in Seq(Levels)
        BY <2>9, Zenon DEF SideOK
      <4>5. x.levels = << >> \/ ~Crosses(x.levels[Len(x.levels)].price, {o})
        <5>1. Len(x.levels) = 0 \/ ~Crossed(x.levels, {o})
          BY <2>7, <4>3, Zenon
        <5>2. Len(x.levels) = 0 => x.levels = << >>
          BY <4>4
        <5>. QED BY <5>1, <5>2, Zenon DEF Crossed
      <4>6. \A p \in PricesOf(x.levels) : Worse(side, o.price, p)
        <5>1. o.price \in Nat
          BY <2>1, <2>4, Zenon
        <5>. QED BY <2>4, <2>9, <4>5, <5>1, BehindBest, Zenon
      <4>7. \A p \in PricesOf(x.levels) : Worse(side, left.price, p)
        BY <2>4, <4>2, <4>6, Zenon
      <4>8. IsPlaced(a, side, x, add_order_with_cmp(book[side], left), Opened(accounts, a, left))
        BY <2>1, <2>8, <4>2, <4>7, <1>LeftAdded, Zenon
      <4>. QED BY <4>1, <4>8, Zenon
    <3>2. CASE ~(x.rem > 0)
      <4>1. own = book[side] /\ infos = Completed(accounts, a, n)
        BY <2>4, <3>2, Zenon
      <4>2. IsPlaced(a, side, x, book[side], Completed(accounts, a, n))
        BY <2>1, <2>8, <1>NothingLeft, Zenon
      <4> HIDE DEF own, infos
      <4>. QED BY <4>1, <4>2, Zenon
    <3>. QED BY <3>1, <3>2, Zenon
  <2>11. BalancesOK(bals)
    <3>1. bals = Settled(balances, a, x, buys)
      BY Zenon DEF Settled
    <3>2. BalancesOK(balances) /\ Taken(book[s], x) /\ x.base \in Nat /\ x.quote \in Nat
      BY <2>2, <2>7, <2>9, Zenon
    <3>3. BalancesOK(Settled(balances, a, x, buys))
      BY <2>1, <3>2, BalancesAfter, Zenon
    <3>. QED BY <3>1, <3>3, Zenon
  <2> HIDE DEF own, infos, bals
  <2>12. /\ BookOK([book EXCEPT ![s] = x.levels, ![side] = own], n + 1)
         /\ ~BadLevels(own) /\ LiveOpen(own, infos) /\ OrdersOf(book[side]) \subseteq OrdersOf(own)
         /\ \A p \in OrdersOf(own) : p \in Orders
         /\ \A p \in OrdersOf(own), q \in OrdersOf(book[s]) : p.id # q.id
         /\ InfosOK(infos, n + 1) /\ infos[a].expected_nonce = accounts[a].expected_nonce
         /\ \A b \in Accounts : accounts[b].open_orders \subseteq infos[b].open_orders
    BY <2>10, Zenon DEF IsPlaced
  <2>13. LiveOpen(book[s], infos)
    BY <1>1, <2>12, BookStillOpen, Zenon
  <2>14. \A p \in OrdersOf(book[s]) : p \in Orders
    BY <2>2, SidesOf, Zenon
  <2>15. MakersOK(n + 1, x.levels, own, Advance(UpdateMakers(infos, x), a))
    BY <1>2, <2>1, <2>9, <2>12, <2>13, <2>14, MakersUpdated, Zenon
  <2>16. InfosOK(accounts', n + 1) /\ LiveOpen(x.levels, accounts') /\ LiveOpen(own, accounts')
    BY <1>5, <2>15, Zenon DEF MakersOK
  <2> HIDE DEF s
  <2>17. book'[s] = x.levels /\ book'[side] = own
    BY <1>1, <1>5, Zenon
  <2>18. \A t \in Sides : ~BadLevels(book'[t]) /\ LiveOpen(book'[t], accounts') /\ InTurn(book[t], book'[t])
    <3>1. InTurn(book[side], own)
      BY <2>12, MoreInTurn, Zenon
    <3>. QED BY <1>1, <1>5, <2>9, <2>12, <2>16, <2>17, <3>1, Zenon
  <2>19. n + 1 \in 0 .. MaxOrders
    BY <1>2, NextId, Zenon
  <2>20. last_executed_price' \in Prices \cup {0}
    <3>1. last_executed_price \in Prices \cup {0}
      BY Zenon DEF IInv
    <3>. QED BY <1>5, <2>7, <3>1, LastIsPrice, Zenon
  <2>21. panicked' \in BOOLEAN
    BY <1>5, Zenon DEF IInv
  <2>22. IInv'
    BY <1>5, <2>11, <2>12, <2>16, <2>18, <2>19, <2>20, <2>21, Zenon DEF IInv
  <2>. QED BY <2>18, <2>22, Zenon DEF StepOK
<1>. QED BY <1>3, <1>4, <1>5, Zenon

\* A market order for a market that does not exist.
LEMMA MarketUnknownMarketStep ==
    ASSUME IInv, NEW a, NEW market_id, MarketUnknownMarket(a, market_id)
    PROVE  StepOK
<1> DEFINE n == next_id
<1>1. /\ n < MaxOrders /\ next_id' = n + 1 /\ balances' = balances /\ accounts' = accounts
      /\ book' = book /\ last_executed_price' = last_executed_price /\ panicked' = panicked
  BY Zenon DEF MarketUnknownMarket
<1>2. n \in Nat /\ InfosOK(accounts, n) /\ BookOK(book, n)
  BY Parts, Zenon
<1>3. InfosOK(accounts, n + 1)
  BY <1>2, InfosLater, Zenon
<1>4. BookOK(book, n + 1)
  BY <1>2, BookLater, Zenon
<1>5. n + 1 \in 0 .. MaxOrders
  BY <1>1, NextId, Zenon
<1>6. IInv'
  BY <1>1, <1>3, <1>4, <1>5, Zenon DEF IInv
<1>7. \A s \in Sides : InTurn(book[s], book'[s])
  BY <1>1, MoreInTurn, Zenon
<1>. QED BY <1>6, <1>7, Zenon DEF StepOK

\* A transaction that uses up the nonce and records no order.
LEMMA AdvancesOnly ==
    ASSUME IInv, NEW a \in Accounts, accounts[a].expected_nonce < MaxNonce, accounts' = Advance(accounts, a)
    PROVE  InfosOK(accounts', next_id) /\ \A side \in Sides : LiveOpen(book[side], accounts')
<1>1. InfosOK(accounts, next_id)
  BY Parts, Zenon
<1>2. IsAdvanced(accounts, next_id, accounts')
  BY <1>1, Advances, Zenon
<1>3. \A b \in Accounts : accounts[b].open_orders \subseteq accounts'[b].open_orders
  BY <1>2, Zenon DEF IsAdvanced
<1>4. \A side \in Sides : LiveOpen(book[side], accounts')
  BY <1>3, BookStillOpen, Zenon
<1>. QED BY <1>2, <1>4, Zenon DEF IsAdvanced

\* A market sell that the account cannot pay for.
LEMMA MarketSellNotCoveredStep ==
    ASSUME IInv, NEW a \in MarketTraders, NEW size, MarketSellNotCovered(a, size)
    PROVE  StepOK
<1> DEFINE n == next_id
           bal == Adjust(balances[a], Base, 0, 0)
<1>1. /\ n < MaxOrders /\ accounts' = Advance(accounts, a) /\ next_id' = n + 1
      /\ balances' = [balances EXCEPT ![a] = bal] /\ accounts[a].expected_nonce < MaxNonce
      /\ book' = book /\ last_executed_price' = last_executed_price /\ panicked' = panicked
  BY Zenon DEF MarketSellNotCovered, May
<1>2. a \in Accounts /\ 0 \in Nat
  BY Inputs, Zenon
<1>3. n \in Nat /\ BookOK(book, n)
  BY Parts, Zenon
<1>4. InfosOK(accounts', n) /\ \A s \in Sides : LiveOpen(book[s], accounts')
  BY <1>1, <1>2, AdvancesOnly, Zenon
<1>5. Vector(bal) /\ ~Overdrawn(bal)
  <2>1. Vector(balances[a]) /\ ~Overdrawn(balances[a])
    BY <1>2, Zenon DEF IInv, BalancesOK
  <2>2. Base \in Assets /\ 0 \in Int
    BY DEF Assets
  <2>3. IsAdjusted(balances[a], Base, 0, 0, bal)
    BY <2>1, <2>2, Adjusts, Zenon
  <2> HIDE DEF bal
  <2>4. ~Overdrawn(bal)
    BY <1>2, <2>1, <2>3, AddsNotOverdrawn, Zenon
  <2>. QED BY <2>3, <2>4, Zenon DEF IsAdjusted
<1> HIDE DEF bal
<1>6. BalancesOK(balances') /\ \A b \in Accounts : ~Overdrawn(balances'[b])
  BY <1>1, <1>2, <1>5, BalancesChange, Zenon
<1>7. BookOK(book, n + 1) /\ InfosOK(accounts', n + 1)
  <2>1. BookOK(book, n + 1)
    BY <1>3, BookLater, Zenon
  <2>2. InfosOK(accounts', n + 1)
    BY <1>3, <1>4, InfosLater, Zenon
  <2>. QED BY <2>1, <2>2, Zenon
<1>8. n + 1 \in 0 .. MaxOrders
  BY <1>1, NextId, Zenon
<1>9. IInv'
  BY <1>1, <1>4, <1>6, <1>7, <1>8, Zenon DEF IInv
<1>10. \A s \in Sides : InTurn(book[s], book'[s])
  BY <1>1, MoreInTurn, Zenon
<1>. QED BY <1>9, <1>10, Zenon DEF StepOK

\* A market order that is carried out.
LEMMA MarketOrderStep ==
    \A a \in Accounts, side \in Sides, size \in Nat, in_quote \in BOOLEAN : \A x :
        (/\ IInv
         /\ x = Execute(book[Other(side)], size, in_quote, a, {})
         /\ May(a)
         /\ next_id < MaxOrders
         /\ MarketTrades(a, side, x)) => StepOK
\* A market order that trades.
<1>MarketTradesStep. ASSUME IInv, NEW a \in Accounts, NEW side \in Sides, NEW x, Left(book[Other(side)], x),
                            x.base \in Nat, x.quote \in Nat, x.last \in Prices \cup {0},
                            accounts[a].expected_nonce < MaxNonce, next_id < MaxOrders, MarketTrades(a, side, x)
                     PROVE  StepOK
  <2> USE <1>MarketTradesStep
  <2> DEFINE s == Other(side)
             n == next_id
             buys == side = "Buy"
             taken == [balances EXCEPT ![a] = Trade(balances[a], buys, x.base, x.quote, FALSE)]
             bals == SettleMakers(taken, x, buys)
             infos == Completed(accounts, a, n)
  <2>1. \/ Panic
        \/ /\ ~\E b \in Accounts : Overdrawn(bals[b])
           /\ ~BadLevels(x.levels)
           /\ balances' = bals
           /\ accounts' = Advance(UpdateMakers(infos, x), a)
           /\ book' = [book EXCEPT ![s] = x.levels]
           /\ last_executed_price' = LastPrice(x, last_executed_price)
           /\ next_id' = n + 1
           /\ panicked' = panicked
    BY Zenon DEF MarketTrades
  <2>2. CASE Panic
    BY <2>2, PanicStep, Zenon
  <2>3. CASE /\ ~\E b \in Accounts : Overdrawn(bals[b])
             /\ ~BadLevels(x.levels)
             /\ balances' = bals
             /\ accounts' = Advance(UpdateMakers(infos, x), a)
             /\ book' = [book EXCEPT ![s] = x.levels]
             /\ last_executed_price' = LastPrice(x, last_executed_price)
             /\ next_id' = n + 1
             /\ panicked' = panicked
    <3>1. IsTraded(side, x)
      BY SideTraded, Zenon
    <3>2. /\ Taken(book[s], x) /\ InTurn(book[s], x.levels) /\ \A o \in OrdersOf(x.levels) : o \in Orders
          /\ BookOK([book EXCEPT ![s] = x.levels], n)
      BY <3>1, Zenon DEF IsTraded
    <3>3. n \in Nat /\ InfosOK(accounts, n) /\ BookOK(book, n) /\ DOMAIN book = Sides /\ BalancesOK(balances)
      BY Parts, Zenon
    <3>4. BalancesOK(bals)
      <4>1. bals = Settled(balances, a, x, buys)
        BY Zenon DEF Settled
      <4>2. BalancesOK(Settled(balances, a, x, buys))
        BY <3>2, <3>3, BalancesAfter, Zenon
      <4>. QED BY <4>1, <4>2, Zenon
    <3>5. s \in Sides /\ s # side /\ \A t \in Sides : t = s \/ t = side
      BY Zenon DEF Sides, Other
    <3>6. IsChanged(accounts, a, accounts[a].open_orders, n + 1, infos)
      BY <3>3, Completes, Zenon
    <3> HIDE DEF infos, bals
    <3>7. /\ InfosOK(infos, n + 1) /\ infos[a].expected_nonce = accounts[a].expected_nonce
          /\ \A b \in Accounts : infos[b].open_orders = accounts[b].open_orders
      BY <3>6, Zenon DEF IsChanged
    <3>8. LiveOpen(book[s], infos) /\ LiveOpen(book[side], infos)
      <4>1. \A b \in Accounts : accounts[b].open_orders \subseteq infos[b].open_orders
        BY <3>7, Zenon
      <4>. QED BY <3>5, <4>1, BookStillOpen, Zenon
    <3>9. /\ \A o \in OrdersOf(book[side]) : o \in Orders
          /\ \A o \in OrdersOf(book[s]) : o \in Orders
          /\ \A o \in OrdersOf(book[side]), p \in OrdersOf(book[s]) : o.id # p.id
      BY <3>3, SidesOf, Zenon
    <3>10. MakersOK(n + 1, x.levels, book[side], Advance(UpdateMakers(infos, x), a))
      BY <3>2, <3>7, <3>8, <3>9, MakersUpdated, Zenon
    <3>11. InfosOK(accounts', n + 1) /\ LiveOpen(x.levels, accounts') /\ LiveOpen(book[side], accounts')
      BY <2>3, <3>10, Zenon DEF MakersOK
    <3> HIDE DEF s
    <3>12. BookOK(book', n + 1)
      BY <2>3, <3>2, <3>3, BookLater, Zenon
    <3>13. book'[s] = x.levels /\ book'[side] = book[side]
      BY <2>3, <3>3, <3>5, Zenon
    <3>14. \A t \in Sides : ~BadLevels(book'[t]) /\ LiveOpen(book'[t], accounts') /\ InTurn(book[t], book'[t])
      <4>1. ~BadLevels(book[side]) /\ InTurn(book[side], book[side])
        BY MoreInTurn, Zenon DEF IInv
      <4>. QED BY <2>3, <3>2, <3>5, <3>11, <3>13, <4>1, Zenon
    <3>15. n + 1 \in 0 .. MaxOrders
      BY NextId, Zenon
    <3>16. last_executed_price' \in Prices \cup {0}
      <4>1. last_executed_price \in Prices \cup {0}
        BY Zenon DEF IInv
      <4>. QED BY <2>3, <4>1, LastIsPrice, Zenon
    <3>17. panicked' \in BOOLEAN
      BY <2>3, Zenon DEF IInv
    <3>18. IInv'
      BY <2>3, <3>4, <3>11, <3>12, <3>14, <3>15, <3>16, <3>17, Zenon DEF IInv
    <3>. QED BY <3>14, <3>18, Zenon DEF StepOK
  <2>. QED BY <2>1, <2>2, <2>3, Zenon
<1> SUFFICES ASSUME IInv, NEW a \in Accounts, NEW side \in Sides, NEW size \in Nat, NEW in_quote \in BOOLEAN, NEW x,
               x = Execute(book[Other(side)], size, in_quote, a, {}),
               May(a), next_id < MaxOrders, MarketTrades(a, side, x)
             PROVE  StepOK
  BY Zenon
<1> DEFINE levels == book[Other(side)]
<1>1. levels \in Seq(Levels)
  <2>1. SideOK(Other(side), levels, next_id)
    BY Parts, SidesOf, Zenon
  <2>. QED BY <2>1, Zenon DEF SideOK
<1>2. ExecOK(levels, size, in_quote, {}, Len(levels), x)
  <2> HIDE DEF levels
  <2>1. ExecOK(levels, size, in_quote, {}, Len(levels), Execute(levels, size, in_quote, a, {}))
    BY <1>1, ExecAll, Zenon
  <2>. QED BY <2>1, Zenon DEF levels
<1>3. Left(levels, x) /\ x.base \in Nat /\ x.quote \in Nat /\ x.last \in Prices \cup {0}
  BY <1>2, Zenon DEF ExecOK
<1>4. accounts[a].expected_nonce < MaxNonce
  BY Zenon DEF May
<1>. QED BY <1>3, <1>4, <1>MarketTradesStep, Zenon

\* A market sell.
LEMMA MarketSellStep ==
    ASSUME IInv, NEW a \in MarketTraders, NEW size \in Sizes, MarketSell(a, size)
    PROVE  StepOK
<1> DEFINE x == execute_market_sell_order(book["Buy"], size, a)
<1>1. May(a) /\ next_id < MaxOrders /\ MarketTrades(a, "Sell", x)
  BY Zenon DEF MarketSell
<1>2. a \in Accounts /\ size \in Nat /\ "Sell" \in Sides /\ Other("Sell") = "Buy" /\ FALSE \in BOOLEAN
  BY Inputs, Zenon DEF Sides, Other
<1>3. x = Execute(book[Other("Sell")], size, FALSE, a, {})
  BY <1>2, Zenon DEF execute_market_sell_order
<1> HIDE DEF x
<1>. QED BY <1>1, <1>2, <1>3, MarketOrderStep, Zenon

\* A market buy.
LEMMA MarketBuyStep ==
    ASSUME IInv, NEW a \in MarketTraders, NEW size \in QuoteSizes, MarketBuy(a, size)
    PROVE  StepOK
<1> DEFINE x == execute_market_buy_order(book["Sell"], size, a)
<1>1. May(a) /\ next_id < MaxOrders /\ (Panic \/ MarketTrades(a, "Buy", x))
  BY Zenon DEF MarketBuy
<1>2. a \in Accounts /\ size \in Nat /\ "Buy" \in Sides /\ Other("Buy") = "Sell" /\ TRUE \in BOOLEAN
  BY Inputs, Zenon DEF Sides, Other
<1>3. x = Execute(book[Other("Buy")], size, TRUE, a, {})
  BY <1>2, Zenon DEF execute_market_buy_order
<1> HIDE DEF x
<1>4. CASE Panic
  BY <1>4, PanicStep, Zenon
<1>5. CASE MarketTrades(a, "Buy", x)
  BY <1>1, <1>2, <1>3, <1>5, MarketOrderStep, Zenon
<1>. QED BY <1>1, <1>4, <1>5, Zenon

\* A cancel.
LEMMA CancelStep ==
    \A a \in LimitTraders :
        (/\ IInv
         /\ Cancel(a)) => StepOK
\* So is what a cancel leaves.
<1>CancelSmaller. ASSUME NEW side, NEW levels, NEW o, NEW n, NEW r, IsCancelled(side, levels, o, n, r)
                  PROVE  Smaller(side, levels, r.levels, n)
  BY <1>CancelSmaller, Zenon DEF IsCancelled, Smaller
\* An open order of the account is cancelled.
<1>Closes. ASSUME NEW infos, NEW n, InfosOK(infos, n), NEW a \in Accounts, NEW o \in infos[a].open_orders
           PROVE  IsChanged(infos, a, infos[a].open_orders \ {o}, n, Closed(infos, a, o))
  <2> USE <1>Closes
  <2> DEFINE i == AccountInfo(infos[a].expected_nonce, infos[a].open_orders \ {o}, infos[a].completed_orders \cup {o.id})
             new == [infos EXCEPT ![a] = i]
  <2>1. infos \in [Accounts -> Infos]
    BY Zenon DEF InfosOK
  <2>2. Closed(infos, a, o) = new
    BY Zenon DEF Closed
  <2>3. /\ infos[a].completed_orders \cup {o.id} \in SUBSET Nat
        /\ infos[a].open_orders \ {o} \in SUBSET OrderSet
    <3>1. infos[a].completed_orders \in SUBSET Nat /\ infos[a].open_orders \in SUBSET OrderSet
      BY <2>1, InfoOf, Zenon
    <3>2. o.id \in Nat
      BY <3>1, Zenon DEF OrderSet
    <3>. QED BY <3>1, <3>2, Zenon
  <2>4. i \in Infos
    BY <2>1, <2>3, InfoOf, InfoMade, Zenon
  <2>5. /\ i.open_orders = infos[a].open_orders \ {o} /\ i.completed_orders = infos[a].completed_orders \cup {o.id}
        /\ i.expected_nonce = infos[a].expected_nonce
    BY Zenon DEF AccountInfo
  <2> HIDE DEF i
  <2>6. new \in [Accounts -> Infos] /\ new[a] = i /\ \A b \in Accounts : b # a => new[b] = infos[b]
    BY <2>1, <2>4, InfoReplaced, Zenon
  <2> HIDE DEF new
  <2>7. \A b \in Accounts : \A p \in new[b].open_orders : p \in infos[b].open_orders /\ p # o
    <3> SUFFICES ASSUME NEW b \in Accounts, NEW p \in new[b].open_orders
                 PROVE  p \in infos[b].open_orders /\ p # o
      BY Zenon
    <3>1. CASE b = a
      BY <2>5, <2>6, <3>1, Zenon
    <3>2. CASE b # a
      <4>1. p \in infos[b].open_orders
        BY <2>6, <3>2, Zenon
      <4>2. p.account = b /\ o.account = a
        BY <4>1, Zenon DEF InfosOK
      <4>. QED BY <3>2, <4>1, <4>2, Zenon
    <3>. QED BY <3>1, <3>2, Zenon
  <2>8. \A b \in Accounts : \A id \in new[b].completed_orders : id \in infos[b].completed_orders \/ id = o.id
    BY <2>5, <2>6, Zenon
  <2>9. ASSUME NEW b \in Accounts, NEW id \in new[b].completed_orders PROVE id < n
    <3>1. id \in infos[b].completed_orders \/ id = o.id
      BY <2>8, Zenon
    <3>2. o.id < n
      BY Zenon DEF InfosOK
    <3>. QED BY <3>1, <3>2, Zenon DEF InfosOK
  <2>10. OpenOnce(new)
    <3>1. OpenOnce(infos)
      BY Zenon DEF InfosOK
    <3>. QED BY <2>7, <3>1, Zenon DEF OpenOnce
  <2>12. OpenOrDone(new)
    <3> SUFFICES ASSUME NEW b \in Accounts, NEW c \in Accounts, NEW p \in new[b].open_orders,
                        p.id \in new[c].completed_orders
                 PROVE  FALSE
      BY Zenon DEF OpenOrDone
    <3>1. p.id \in infos[c].completed_orders \/ p.id = o.id
      BY <2>8, Zenon
    <3>2. p \in infos[b].open_orders /\ p # o
      BY <2>7, Zenon
    <3>3. OpenOrDone(infos) /\ OpenOnce(infos)
      BY Zenon DEF InfosOK
    <3>4. p.id # o.id
      BY <3>2, <3>3, Zenon DEF OpenOnce
    <3>. QED BY <3>1, <3>2, <3>3, <3>4, Zenon DEF OpenOrDone
  <2>11. InfosOK(new, n)
    BY <2>6, <2>7, <2>9, <2>10, <2>12, Zenon DEF InfosOK
  <2>. QED BY <2>2, <2>5, <2>6, <2>11, Zenon DEF IsChanged
\* A cancel of an order of the market.
<1>CancelsStep. ASSUME IInv, NEW a \in Accounts, accounts[a].expected_nonce < MaxNonce, NEW o \in accounts[a].open_orders,
                       NEW r, r = cancel_order_with_cmp(book[o.direction], o), ~r.panics,
                       book' = [book EXCEPT ![o.direction] = r.levels],
                       balances' = [balances EXCEPT ![a] =
                           Adjust(balances[a], OutAsset(o.direction), LockOf(o.direction, o.price, r.unfilled), 0)],
                       accounts' = Advance(Closed(accounts, a, o), a),
                       last_executed_price' = last_executed_price, next_id' = next_id, panicked' = panicked
                PROVE  StepOK
  <2> USE <1>CancelsStep
  <2> DEFINE n == next_id
             d == o.direction
             lock == LockOf(d, o.price, r.unfilled)
             bal == Adjust(balances[a], OutAsset(d), lock, 0)
             infos == Closed(accounts, a, o)
  <2>1. InfosOK(accounts, n) /\ BookOK(book, n) /\ DOMAIN book = Sides /\ accounts \in [Accounts -> Infos]
    BY Parts, Zenon
  <2>2. d \in Sides /\ o.price \in Nat
    <3>1. o \in OrderSet
      BY <2>1, InfoOf, Zenon
    <3>2. o.direction \in Sides /\ o.price \in Prices
      BY <3>1, Zenon DEF OrderSet
    <3>. QED BY <3>2, Inputs, Zenon
  <2>3. OpenOnce(accounts)
    BY <2>1, Zenon DEF InfosOK
  <2>4. /\ SideOK(d, book[d], n) /\ \A p \in OrdersOf(book[d]) : p \in Orders
    BY <2>1, <2>2, SidesOf, Zenon
  <2>5. ~BadLevels(book[d]) /\ \A s \in Sides : LiveOpen(book[s], accounts)
    BY <2>2, Zenon DEF IInv
  <2>6. \A b \in OrdersOf(book[d]) : ~b.cancelled /\ b.id = o.id => b = o
    <3> SUFFICES ASSUME NEW b \in OrdersOf(book[d]), ~b.cancelled, b.id = o.id PROVE b = o
      BY Zenon
    <3>1. b \in accounts[b.account].open_orders
      BY <2>2, <2>5, Zenon DEF LiveOpen
    <3>2. b.account \in Accounts
      BY <2>4, OrderFields, Zenon
    <3>. QED BY <2>3, <3>1, <3>2, Zenon DEF OpenOnce
  <2>7. IsCancelled(d, book[d], o, n, r)
    BY <2>4, <2>5, <2>6, CancelSide, Zenon
  <2>8. /\ ~BadLevels(r.levels) /\ r.unfilled \in Nat
        /\ \A p \in OrdersOf(r.levels) : ~p.cancelled => p \in OrdersOf(book[d]) /\ p.id # o.id
    <3>1. ASSUME NEW p \in OrdersOf(r.levels), ~p.cancelled PROVE p \in OrdersOf(book[d])
      <4>1. PICK q \in OrdersOf(book[d]) : p.id = q.id /\ (p.cancelled \/ p = q)
        BY <2>7, Zenon DEF IsCancelled
      <4>. QED BY <3>1, <4>1, Zenon
    <3>. QED BY <2>7, <3>1, Zenon DEF IsCancelled
  <2>9. BookOK(book', n)
    <3>1. Smaller(d, book[d], r.levels, n)
      BY <2>7, <1>CancelSmaller, Zenon
    <3>2. BookOK([book EXCEPT ![d] = r.levels], n)
      BY <2>1, <2>2, <3>1, BookShrinks, Zenon
    <3>. QED BY <3>2, Zenon
  <2>10. IsChanged(accounts, a, accounts[a].open_orders \ {o}, n, infos)
    BY <2>1, <1>Closes, Zenon
  <2>11. accounts' = Advance(infos, a)
    BY Zenon
  <2> HIDE DEF infos
  <2>12. /\ InfosOK(infos, n) /\ infos[a].open_orders = accounts[a].open_orders \ {o}
         /\ \A b \in Accounts : b # a => infos[b].open_orders = accounts[b].open_orders
         /\ infos[a].expected_nonce = accounts[a].expected_nonce
    BY <2>10, Zenon DEF IsChanged
  <2>13. IsAdvanced(infos, n, accounts')
    <3>1. infos[a].expected_nonce < MaxNonce
      BY <2>12, Zenon
    <3>2. IsAdvanced(infos, n, Advance(infos, a))
      BY <2>12, <3>1, Advances, Zenon
    <3>. QED BY <2>11, <3>2, Zenon
  <2>14. InfosOK(accounts', n) /\ \A b \in Accounts : \A p \in accounts[b].open_orders : p # o => p \in accounts'[b].open_orders
    <3>1. InfosOK(accounts', n) /\ \A b \in Accounts : accounts'[b].open_orders = infos[b].open_orders
      BY <2>13, Zenon DEF IsAdvanced
    <3>2. ASSUME NEW b \in Accounts, NEW p \in accounts[b].open_orders, p # o PROVE p \in infos[b].open_orders
      BY <2>12, <3>2, Zenon
    <3>. QED BY <3>1, <3>2, Zenon
  <2>15. LiveOpen(r.levels, accounts')
    <3> SUFFICES ASSUME NEW p \in OrdersOf(r.levels), ~p.cancelled PROVE p \in accounts'[p.account].open_orders
      BY Zenon DEF LiveOpen
    <3>1. p \in OrdersOf(book[d]) /\ p # o
      BY <2>8, Zenon
    <3>2. p.account \in Accounts
      BY <2>4, <3>1, OrderFields, Zenon
    <3>3. p \in accounts[p.account].open_orders
      BY <2>2, <2>5, <3>1, Zenon DEF LiveOpen
    <3>. QED BY <2>14, <3>1, <3>2, <3>3, Zenon
  <2>16. ASSUME NEW s \in Sides, s # d PROVE LiveOpen(book[s], accounts')
    <3> SUFFICES ASSUME NEW p \in OrdersOf(book[s]), ~p.cancelled PROVE p \in accounts'[p.account].open_orders
      BY Zenon DEF LiveOpen
    <3>1. p \in Orders /\ p.direction = s
      <4>1. SideOK(s, book[s], n)
        BY <2>1, Zenon DEF BookOK
      <4>. QED BY <4>1, SideOrders, Zenon
    <3>2. p.account \in Accounts /\ p # o
      BY <2>16, <3>1, OrderFields, Zenon
    <3>3. p \in accounts[p.account].open_orders
      BY <2>5, Zenon DEF LiveOpen
    <3>. QED BY <2>14, <3>2, <3>3, Zenon
  <2>17. Vector(bal) /\ ~Overdrawn(bal)
    <3>1. Vector(balances[a]) /\ ~Overdrawn(balances[a])
      BY Zenon DEF IInv, BalancesOK
    <3>2. OutAsset(d) \in Assets /\ 0 \in Int /\ 0 \in Nat
      BY DEF OutAsset, Assets
    <3>3. lock \in Nat
      BY <2>2, <2>8, LockNat, ZenonT(30)
    <3> HIDE DEF lock
    <3>4. lock \in Int
      BY <3>3
    <3>5. IsAdjusted(balances[a], OutAsset(d), lock, 0, bal)
      BY <3>1, <3>2, <3>4, Adjusts, Zenon
    <3> HIDE DEF bal
    <3>6. ~Overdrawn(bal)
      BY <3>1, <3>2, <3>3, <3>5, AddsNotOverdrawn, Zenon
    <3>. QED BY <3>5, <3>6, Zenon DEF IsAdjusted
  <2>18. balances' = [balances EXCEPT ![a] = bal]
    BY Zenon
  <2> HIDE DEF bal
  <2>19. BalancesOK(balances') /\ \A b \in Accounts : ~Overdrawn(balances'[b])
    BY <2>17, <2>18, BalancesChange, Zenon
  <2>20. book'[d] = r.levels /\ \A s \in Sides : s # d => book'[s] = book[s]
    BY <2>1, <2>2, Zenon
  <2>21. \A s \in Sides : ~BadLevels(book'[s]) /\ LiveOpen(book'[s], accounts')
    <3> SUFFICES ASSUME NEW s \in Sides PROVE ~BadLevels(book'[s]) /\ LiveOpen(book'[s], accounts')
      BY Zenon
    <3>1. CASE s = d
      BY <2>8, <2>15, <2>20, <3>1, Zenon
    <3>2. CASE s # d
      <4>1. ~BadLevels(book[s])
        BY Zenon DEF IInv
      <4>. QED BY <2>16, <2>20, <3>2, <4>1, Zenon
    <3>. QED BY <3>1, <3>2, Zenon
  <2>22. IInv'
    BY <2>9, <2>14, <2>19, <2>21, Zenon DEF IInv
  <2>. QED BY <2>22, Zenon DEF StepOK
<1> SUFFICES ASSUME IInv, NEW a \in LimitTraders, Cancel(a)
             PROVE  StepOK
  BY Zenon
<1>1. a \in Accounts
  BY Inputs, Zenon
<1>2. accounts[a].expected_nonce < MaxNonce
  BY Zenon DEF Cancel, May
<1>3. PICK o \in accounts[a].open_orders :
         IF o.market_id # 0
         THEN /\ accounts' = Advance(accounts, a)
              /\ UNCHANGED <<balances, book, last_executed_price, next_id, panicked>>
         ELSE LET r == cancel_order_with_cmp(book[o.direction], o)
              IN IF r.panics THEN Panic
                 ELSE /\ book' = [book EXCEPT ![o.direction] = r.levels]
                      /\ balances' = [balances EXCEPT ![a] =
                           Adjust(balances[a], OutAsset(o.direction),
                                  LockOf(o.direction, o.price, r.unfilled), 0)]
                      /\ accounts' = Advance(Closed(accounts, a, o), a)
                      /\ UNCHANGED <<last_executed_price, next_id, panicked>>
  BY Zenon DEF Cancel
<1> DEFINE r == cancel_order_with_cmp(book[o.direction], o)
<1>4. CASE o.market_id # 0
  <2>1. /\ accounts' = Advance(accounts, a) /\ balances' = balances /\ book' = book
        /\ last_executed_price' = last_executed_price /\ next_id' = next_id /\ panicked' = panicked
    BY <1>3, <1>4, Zenon
  <2>2. InfosOK(accounts', next_id) /\ \A side \in Sides : LiveOpen(book[side], accounts')
    BY <1>1, <1>2, <2>1, AdvancesOnly, Zenon
  <2>. QED BY <2>1, <2>2, Zenon DEF StepOK, IInv
<1>5. CASE o.market_id = 0 /\ r.panics
  <2>1. Panic
    BY <1>3, <1>5, Zenon
  <2>. QED BY <2>1, PanicStep, Zenon
<1>6. CASE o.market_id = 0 /\ ~r.panics
  <2>1. /\ book' = [book EXCEPT ![o.direction] = r.levels]
        /\ balances' = [balances EXCEPT ![a] =
             Adjust(balances[a], OutAsset(o.direction), LockOf(o.direction, o.price, r.unfilled), 0)]
        /\ accounts' = Advance(Closed(accounts, a, o), a)
        /\ last_executed_price' = last_executed_price /\ next_id' = next_id /\ panicked' = panicked
    BY <1>3, <1>6, Zenon
  <2>. QED BY <1>1, <1>2, <1>6, <2>1, <1>CancelsStep, Zenon
<1>. QED BY <1>4, <1>5, <1>6, Zenon

\* A transfer.
LEMMA TransferStep ==
    \A t \in Transfers :
        (/\ IInv
         /\ Transfer(t.from, t.to, t.asset_id, t.amount)) => StepOK
\* What `transfer` takes from the sender is there.
<1>Debits. ASSUME NEW bal, Vector(bal), ~Overdrawn(bal), NEW k \in DOMAIN bal, NEW amount \in Nat,
                  ~(bal[k].available < amount), NEW e,
                  e = TokenBalance(bal[k].asset_id, bal[k].available - amount, bal[k].total)
           PROVE  Vector([bal EXCEPT ![k] = e]) /\ ~Overdrawn([bal EXCEPT ![k] = e])
  <2> USE <1>Debits
  <2> DEFINE new == [bal EXCEPT ![k] = e]
  <2>1. bal \in Seq(Entries)
    BY Zenon DEF Vector
  <2>2. bal[k].asset_id \in Assets /\ bal[k].available \in Int /\ bal[k].total \in Int
    BY EntryOf, Zenon
  <2>3. ~(bal[k].total < 0)
    BY Zenon DEF Overdrawn
  <2>4. e \in Entries /\ e.asset_id = bal[k].asset_id /\ ~(e.available < 0) /\ ~(e.total < 0)
    BY <2>2, <2>3, SMTT(40) DEF TokenBalance, Entries
  <2>5. new \in Seq(Entries) /\ DOMAIN new = DOMAIN bal /\ new[k] = e /\ \A i \in DOMAIN bal : i # k => new[i] = bal[i]
    BY <2>1, <2>4
  <2> HIDE DEF new
  <2>6. \A i \in DOMAIN bal : new[i].asset_id = bal[i].asset_id
    BY <2>4, <2>5, Zenon
  <2>7. Vector(new)
    BY <2>5, <2>6, Zenon DEF Vector
  <2>8. ~Overdrawn(new)
    BY <2>4, <2>5, Zenon DEF Overdrawn
  <2>. QED BY <2>7, <2>8, Zenon DEF new
<1> SUFFICES ASSUME IInv, NEW t \in Transfers, Transfer(t.from, t.to, t.asset_id, t.amount)
             PROVE  StepOK
  BY Zenon
<1> DEFINE a == t.from
           to == t.to
           asset == t.asset_id
           amount == t.amount
           k == asset + 1
           bal == balances[a]
           e == TokenBalance(bal[k].asset_id, bal[k].available - amount, bal[k].total)
           sent == [balances EXCEPT ![a] = [bal EXCEPT ![k] = e]]
           new == Adjust(sent[to], asset, amount, amount)
<1>1. a \in Accounts /\ to \in Accounts /\ amount \in Nat
  BY InputsAssumption, Zenon
<1>2. Vector(bal) /\ ~Overdrawn(bal) /\ BalancesOK(balances) /\ Funded(balances)
  BY <1>1, Zenon DEF IInv, BalancesOK, Funded
<1>3. asset \in Assets
  <2>1. PICK i \in DOMAIN bal : bal[i].asset_id = asset
    BY Zenon DEF Transfer, Positions
  <2>. QED BY <1>2, <2>1, EntryOf, Zenon
<1>4. accounts[a].expected_nonce < MaxNonce
  BY Zenon DEF Transfer, May
<1>5. \/ Panic
      \/ /\ k \in DOMAIN bal /\ ~(bal[k].available < amount)
         /\ balances' = [[balances EXCEPT ![a][k] = e] EXCEPT ![to] = Adjust(@, asset, amount, amount)]
         /\ accounts' = Advance(accounts, a)
         /\ book' = book /\ last_executed_price' = last_executed_price /\ next_id' = next_id
         /\ panicked' = panicked
  BY Zenon DEF Transfer
<1>6. CASE Panic
  BY <1>6, PanicStep, Zenon
<1>7. CASE /\ k \in DOMAIN bal /\ ~(bal[k].available < amount)
           /\ balances' = [[balances EXCEPT ![a][k] = e] EXCEPT ![to] = Adjust(@, asset, amount, amount)]
           /\ accounts' = Advance(accounts, a)
           /\ book' = book /\ last_executed_price' = last_executed_price /\ next_id' = next_id
           /\ panicked' = panicked
  <2>1. DOMAIN balances = Accounts
    BY <1>2, Zenon DEF BalancesOK
  <2> HIDE DEF a, to, asset, amount, k
  <2>2. [balances EXCEPT ![a][k] = e] = sent
    <3> HIDE DEF e
    <3>. QED BY <1>1, <2>1, Zenon
  <2>3. balances' = [sent EXCEPT ![to] = new]
    <3>1. DOMAIN sent = Accounts
      BY <2>1, Zenon
    <3>2. [sent EXCEPT ![to] = Adjust(@, asset, amount, amount)] = [sent EXCEPT ![to] = new]
      <4> HIDE DEF sent
      <4>. QED BY <1>1, <3>1, Zenon
    <3>. QED BY <1>7, <2>2, <3>2, Zenon
  <2>4. Vector([bal EXCEPT ![k] = e]) /\ ~Overdrawn([bal EXCEPT ![k] = e])
    <3> HIDE DEF bal
    <3>. QED BY <1>1, <1>2, <1>7, <1>Debits, Zenon
  <2>5. Funded(sent)
    <3> DEFINE b == [bal EXCEPT ![k] = e]
    <3>1. Vector(b) /\ ~Overdrawn(b)
      BY <2>4, Zenon
    <3>2. sent = [balances EXCEPT ![a] = b]
      BY Zenon
    <3> HIDE DEF b, sent
    <3>3. Funded([balances EXCEPT ![a] = b])
      BY <1>1, <1>2, <3>1, FundedChange, Zenon
    <3>. QED BY <3>2, <3>3, Zenon
  <2> HIDE DEF sent
  <2>6. Vector(sent[to]) /\ ~Overdrawn(sent[to])
    BY <1>1, <2>5, Zenon DEF Funded, BalancesOK
  <2>7. amount \in Int
    BY <1>1
  <2>8. IsAdjusted(sent[to], asset, amount, amount, new)
    BY <1>3, <2>6, <2>7, Adjusts, Zenon
  <2> HIDE DEF new
  <2>9. Vector(new) /\ ~Overdrawn(new)
    <3>1. ~Overdrawn(new)
      BY <1>1, <2>6, <2>8, AddsNotOverdrawn, Zenon
    <3>. QED BY <2>8, <3>1, Zenon DEF IsAdjusted
  <2>10. Funded([sent EXCEPT ![to] = new])
    BY <1>1, <2>5, <2>9, FundedChange, Zenon
  <2>11. BalancesOK(balances') /\ \A b \in Accounts : ~Overdrawn(balances'[b])
    BY <2>3, <2>10, Zenon DEF Funded
  <2>12. InfosOK(accounts', next_id) /\ \A side \in Sides : LiveOpen(book[side], accounts')
    BY <1>1, <1>4, <1>7, AdvancesOnly, Zenon
  <2>. QED BY <1>7, <2>11, <2>12, Zenon DEF StepOK, IInv
<1>. QED BY <1>5, <1>6, <1>7, Zenon

-----------------------------------------------------------------------------
(* The theorems                                                            *)

\* The state after the faucet has funded the accounts.
LEMMA InitOK ==
    ASSUME Init
    PROVE  IInv
<1>1. PICK held \in [Accounts -> Held] :
         balances = [a \in Accounts |-> [i \in DOMAIN held[a] |-> TokenBalance(held[a][i], Funds, Funds)]]
  BY Zenon DEF Init
<1>2. ASSUME NEW a \in Accounts PROVE Vector(balances[a]) /\ ~Overdrawn(balances[a])
  <2> DEFINE h == held[a]
             bal == balances[a]
  <2>1. h \in Held /\ h \in Seq(Assets) /\ Funds \in Nat
    BY InputsAssumption, Zenon
  <2>2. \A i, j \in DOMAIN h : h[i] = h[j] => i = j
    BY <2>1, InputsAssumption, Zenon
  <2>3. bal = [i \in DOMAIN h |-> TokenBalance(h[i], Funds, Funds)]
    BY <1>1, Zenon
  <2> HIDE DEF h, bal
  <2>4. /\ DOMAIN bal = DOMAIN h
        /\ \A i \in DOMAIN h : /\ bal[i] \in Entries /\ bal[i].asset_id = h[i]
                               /\ bal[i].available = Funds /\ bal[i].total = Funds
    BY <2>1, <2>3 DEF TokenBalance, Entries
  <2>5. bal \in Seq(Entries)
    <3>1. DOMAIN h = 1 .. Len(h) /\ Len(h) \in Nat
      BY <2>1
    <3>2. bal \in [1 .. Len(h) -> Entries]
      BY <2>3, <2>4, <3>1, Zenon
    <3>. QED BY <3>1, <3>2
  <2>6. Vector(bal)
    BY <2>2, <2>4, <2>5, ZenonT(40) DEF Vector
  <2>7. ~(Funds < 0)
    BY <2>1
  <2>8. ~Overdrawn(bal)
    BY <2>4, <2>7, Zenon DEF Overdrawn
  <2>. QED BY <2>6, <2>8, Zenon DEF bal
<1>3. DOMAIN balances = Accounts
  BY <1>1, Zenon
<1>4. BalancesOK(balances) /\ \A a \in Accounts : ~Overdrawn(balances[a])
  BY <1>2, <1>3, Zenon DEF BalancesOK
<1>5. \A side \in Sides : book[side] = << >>
  BY Zenon DEF Init
<1>6. OrdersOf(<< >>) = {} /\ PricesOf(<< >>) = {} /\ ~BadLevels(<< >>)
  BY DEF OrdersOf, PricesOf, BadLevels
<1>7. "Buy" \in Sides /\ "Sell" \in Sides
  BY Zenon DEF Sides
<1>8. \A side \in Sides : SideOK(side, << >>, 0)
  BY DEF SideOK
<1>9. BookOK(book, 0)
  <2>1. DOMAIN book = Sides
    BY Zenon DEF Init
  <2>2. \A side \in Sides : SideOK(side, book[side], 0)
    BY <1>5, <1>8, Zenon
  <2>3. \A side \in Sides : OrdersOf(book[side]) = {} /\ PricesOf(book[side]) = {}
    BY <1>5, <1>6, Zenon
  <2>. QED BY <1>7, <2>1, <2>2, <2>3, Zenon DEF BookOK
<1>10. \A side \in Sides : ~BadLevels(book[side]) /\ LiveOpen(book[side], accounts)
  BY <1>5, <1>6, Zenon DEF LiveOpen
<1>11. InfosOK(accounts, 0)
  <2>1. \A a \in Accounts : accounts[a] = AccountInfo(0, {}, {})
    BY Zenon DEF Init
  <2>2. AccountInfo(0, {}, {}) \in Infos
    <3>1. 0 \in 0 .. MaxNonce
      BY InputsAssumption
    <3>. QED BY <3>1, InfoMade, Zenon
  <2>3. accounts \in [Accounts -> Infos]
    BY <2>2, Zenon DEF Init
  <2>4. AccountInfo(0, {}, {}).open_orders = {} /\ AccountInfo(0, {}, {}).completed_orders = {}
    BY Zenon DEF AccountInfo
  <2>5. \A a \in Accounts : accounts[a].open_orders = {} /\ accounts[a].completed_orders = {}
    BY <2>1, <2>4, ZenonT(30)
  <2>. QED BY <2>3, <2>5, Zenon DEF InfosOK, OpenOnce, OpenOrDone
<1>12. next_id = 0 /\ last_executed_price = 0 /\ panicked = FALSE /\ 0 \in 0 .. MaxOrders
  BY InputsAssumption DEF Init
<1>. QED BY <1>4, <1>9, <1>10, <1>11, <1>12, Zenon DEF IInv

\* Every transaction keeps the invariant, and executes orders in turn.
LEMMA StepsOK ==
    ASSUME IInv, [Next]_vars
    PROVE  StepOK
<1>1. CASE Next
  <2>1. CASE \E a \in LimitTraders, side \in Sides, price \in Prices, size \in Sizes :
               \/ \E market_id \in MarketIds : LimitUnknownMarket(a, market_id, side, price, size)
               \/ LimitNotCovered(a, side, price, size)
               \/ LimitRests(a, side, price, size)
               \/ LimitTrades(a, side, price, size)
    BY <2>1, LimitUnknownMarketStep, LimitNotCoveredStep, LimitRestsStep, LimitTradesStep, Zenon
  <2>2. CASE \E a \in MarketTraders, market_id \in MarketIds : MarketUnknownMarket(a, market_id)
    BY <2>2, MarketUnknownMarketStep, Zenon
  <2>3. CASE \E a \in MarketTraders, size \in Sizes : MarketSellNotCovered(a, size)
    BY <2>3, MarketSellNotCoveredStep, Zenon
  <2>4. CASE \E a \in MarketTraders, size \in Sizes : MarketSell(a, size)
    BY <2>4, MarketSellStep, Zenon
  <2>5. CASE \E a \in MarketTraders, size \in QuoteSizes : MarketBuy(a, size)
    BY <2>5, MarketBuyStep, Zenon
  <2>6. CASE \E a \in LimitTraders : Cancel(a)
    BY <2>6, CancelStep, Zenon
  <2>7. CASE \E t \in Transfers : Transfer(t.from, t.to, t.asset_id, t.amount)
    BY <2>7, TransferStep, Zenon
  <2>. QED BY <1>1, <2>1, <2>2, <2>3, <2>4, <2>5, <2>6, <2>7, Zenon DEF Next
<1>2. CASE UNCHANGED vars
  <2>1. /\ balances' = balances /\ accounts' = accounts /\ book' = book
        /\ last_executed_price' = last_executed_price /\ next_id' = next_id /\ panicked' = panicked
    BY <1>2, Zenon DEF vars
  <2>. QED BY <2>1, Zenon DEF StepOK, IInv
<1>. QED BY <1>1, <1>2, Zenon

\* The invariant holds of every state of the ledger, for all accounts, prices, sizes,
\* lot sizes and transfers.
THEOREM Invariance == Spec => []IInv
<1>1. IInv /\ [Next]_vars => IInv'
  BY StepsOK, Zenon DEF StepOK
<1>. QED BY <1>1, InitOK, PTL DEF Spec

\* The amounts of balances and levels stay those of unsigned integers: every
\* subtraction that could go below zero is guarded or panics before the state is
\* written (state.rs, spot_clearinghouse.rs).
THEOREM TypeCorrect == Spec => []TypeOK
<1>1. ASSUME IInv PROVE TypeOK
  <2>1. /\ next_id \in Nat /\ next_id \in 0 .. MaxOrders /\ BalancesOK(balances) /\ BookOK(book, next_id)
        /\ InfosOK(accounts, next_id) /\ accounts \in [Accounts -> Infos]
    BY <1>1, Parts, Zenon
  <2>2. \A i \in Nat : i < next_id => i \in 0 .. next_id - 1
    BY <2>1
  <2>3. \A z \in Int : ~(z < 0) => z \in Nat
    OBVIOUS
  <2>4. ASSUME NEW a \in Accounts, NEW i \in DOMAIN balances[a]
        PROVE  /\ balances[a][i].asset_id \in Assets /\ balances[a][i].available \in Nat
               /\ balances[a][i].total \in Nat
    <3>1. Vector(balances[a]) /\ ~Overdrawn(balances[a])
      BY <1>1, Zenon DEF IInv, BalancesOK
    <3>2. /\ balances[a][i].asset_id \in Assets /\ balances[a][i].available \in Int
          /\ balances[a][i].total \in Int
      BY <3>1, EntryOf, Zenon
    <3>. QED BY <2>3, <3>1, <3>2, Zenon DEF Overdrawn
  <2>5. ASSUME NEW a \in Accounts
        PROVE  /\ accounts[a].expected_nonce \in 0 .. MaxNonce
               /\ accounts[a].completed_orders \subseteq 0 .. next_id - 1
               /\ \A o \in accounts[a].open_orders : o.id \in 0 .. next_id - 1
    <3>1. /\ accounts[a].expected_nonce \in 0 .. MaxNonce /\ accounts[a].open_orders \in SUBSET OrderSet
          /\ accounts[a].completed_orders \in SUBSET Nat
      BY <2>1, InfoOf, Zenon
    <3>2. \A o \in accounts[a].open_orders : o.id \in Nat
      BY <3>1, Zenon DEF OrderSet
    <3>3. /\ \A id \in accounts[a].completed_orders : id < next_id
          /\ \A o \in accounts[a].open_orders : o.id < next_id
      BY <2>1, Zenon DEF InfosOK
    <3>. QED BY <2>2, <3>1, <3>2, <3>3, Zenon
  <2>6. ASSUME NEW side \in Sides, NEW i \in DOMAIN book[side]
        PROVE  book[side][i].volume \in Nat /\ book[side][i].cancelled \in Nat
    <3>1. book[side] \in Seq(Levels) /\ ~BadLevels(book[side])
      BY <1>1, <2>1, Zenon DEF BookOK, SideOK, IInv
    <3>2. book[side][i] \in Levels
      BY <3>1
    <3>3. book[side][i].volume \in Int /\ book[side][i].cancelled \in Int
      BY <3>2, LevelFields, Zenon
    <3>. QED BY <2>3, <3>1, <3>3, Zenon DEF BadLevels
  <2>7. ASSUME NEW side \in Sides, NEW o \in OrdersOf(book[side])
        PROVE  o.id \in 0 .. next_id - 1 /\ get_order_remaining(o) \in Nat
    <3>1. SideOK(side, book[side], next_id)
      BY <2>1, Zenon DEF BookOK
    <3>2. o \in Orders /\ o.id < next_id
      BY <3>1, SideOrders, Zenon
    <3>3. o.id \in Nat /\ get_order_remaining(o) \in Nat
      BY <3>2, OrderFields, Zenon
    <3>. QED BY <2>2, <3>2, <3>3, Zenon
  <2>8. last_executed_price \in Prices \cup {0} /\ panicked \in BOOLEAN
    BY <1>1, Zenon DEF IInv
  <2>. QED BY <2>1, <2>4, <2>5, <2>6, <2>7, <2>8, Zenon DEF TypeOK
<1>. QED BY <1>1, Invariance, PTL

\* On each side prices get strictly better and the ids of a level grow, as the binary
\* searches of spot_market.rs need, and the best bid stays below the best ask.
THEOREM Ordered == Spec => []BookOrdered
<1>1. ASSUME IInv PROVE BookOrdered
  <2>1. BookOK(book, next_id)
    BY <1>1, Parts, Zenon
  <2>2. \A side \in Sides : SideOK(side, book[side], next_id)
    BY <2>1, Zenon DEF BookOK
  <2>3. \A side \in Sides : \A i, j \in DOMAIN book[side] :
          i < j => Worse(side, book[side][i].price, book[side][j].price)
    BY <2>2, Zenon DEF SideOK
  <2>4. \A side \in Sides : \A i \in DOMAIN book[side] : IdsGrow(book[side][i].orders)
    BY <2>2, Zenon DEF SideOK, LevelOK
  <2>5. \A side \in Sides : get_best_price(book[side]) \subseteq PricesOf(book[side])
    <3> SUFFICES ASSUME NEW side \in Sides, book[side] # << >>
                 PROVE  book[side][Len(book[side])].price \in PricesOf(book[side])
      BY Zenon DEF get_best_price
    <3>1. book[side] \in Seq(Levels)
      BY <2>2, Zenon DEF SideOK
    <3>2. Len(book[side]) \in DOMAIN book[side]
      BY <3>1
    <3>. QED BY <3>2, Zenon DEF PricesOf
  <2>6. "Buy" \in Sides /\ "Sell" \in Sides
    BY Zenon DEF Sides
  <2>7. \A bid \in get_best_price(book["Buy"]), ask \in get_best_price(book["Sell"]) : bid < ask
    BY <2>1, <2>5, <2>6, Zenon DEF BookOK
  <2>. QED BY <2>3, <2>4, <2>7, Zenon DEF BookOrdered, IdsGrow
<1>. QED BY <1>1, Invariance, PTL

\* Price-time priority: an order of the book is not touched while a better one, or an
\* earlier one at the same price, has not been used up (execute_*_order).
THEOREM Priority == Spec => PriceTimePriority
<1> DEFINE Prio == next_id' # next_id =>
         \A side \in Sides : \A p, q \in Live(side) :
             Ahead(p, q) /\ q \notin Live(side)' => \A r \in Live(side)' : r.id # p.id
<1>1. IInv /\ [Next]_vars => [Prio]_vars
  <2> SUFFICES ASSUME IInv, [Next]_vars, next_id' # next_id, NEW side \in Sides, NEW p \in Live(side),
                      NEW q \in Live(side), Ahead(p, q), q \notin Live(side)', NEW r \in Live(side)'
               PROVE  r.id # p.id
    BY Zenon
  <2>1. InTurn(book[side], book'[side])
    BY StepsOK, Zenon DEF StepOK
  <2>2. p \in OrdersOf(book[side]) /\ q \in OrdersOf(book[side]) /\ ~q.cancelled
    BY Zenon DEF Live
  <2>3. r \in OrdersOf(book'[side]) /\ q \notin OrdersOf(book'[side])
    BY <2>2, Zenon DEF Live
  <2>. QED BY <2>1, <2>2, <2>3, Zenon DEF InTurn
<1>. QED BY <1>1, Invariance, PTL DEF Spec, PriceTimePriority

\* A live order of the book stands on its side and is an open order of its account
\* with the same fills, so a cancel finds both copies; an order that is open is
\* completed for no account (state.rs, cancel and the settlement).
THEOREM LiveIsOpen ==
    Spec => []( /\ \A side \in Sides : \A o \in Live(side) :
                      o.direction = side /\ o \in accounts[o.account].open_orders
                /\ \A a, b \in Accounts : \A o \in accounts[a].open_orders :
                      o.id \notin accounts[b].completed_orders )
<1> DEFINE P == /\ \A side \in Sides : \A o \in Live(side) :
                      o.direction = side /\ o \in accounts[o.account].open_orders
                /\ \A a, b \in Accounts : \A o \in accounts[a].open_orders :
                      o.id \notin accounts[b].completed_orders
<1>1. ASSUME IInv PROVE P
  <2>1. BookOK(book, next_id) /\ InfosOK(accounts, next_id)
    BY <1>1, Parts, Zenon
  <2>2. ASSUME NEW side \in Sides, NEW o \in Live(side)
        PROVE  o.direction = side /\ o \in accounts[o.account].open_orders
    <3>1. o \in OrdersOf(book[side]) /\ ~o.cancelled
      BY Zenon DEF Live
    <3>2. SideOK(side, book[side], next_id) /\ LiveOpen(book[side], accounts)
      BY <1>1, <2>1, Zenon DEF BookOK, IInv
    <3>3. o.direction = side
      BY <3>1, <3>2, SideOrders, Zenon
    <3>. QED BY <3>1, <3>2, <3>3, Zenon DEF LiveOpen
  <2>3. OpenOrDone(accounts)
    BY <2>1, Zenon DEF InfosOK
  <2>. QED BY <2>2, <2>3, Zenon DEF OpenOrDone
<1>. QED BY <1>1, Invariance, PTL
=============================================================================
