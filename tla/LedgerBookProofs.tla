-------------------------- MODULE LedgerBookProofs --------------------------
(***************************************************************************)
(* One side of the order book, for every market precision and any         *)
(* accounts, prices and sizes: what an execution leaves of it and takes    *)
(* from it, and what a new order and a cancel make of it.                  *)
(*                                                                         *)
(* The loops of the matching are followed turn by turn.  What an execution *)
(* leaves of a side is a prefix of its levels, the last of which may have  *)
(* lost its first orders; and if something of a limit order is left, no    *)
(* level is left that it crosses.                                          *)
(***************************************************************************)
EXTENDS SpotMarket, WellFoundedInduction, TLAPS

-----------------------------------------------------------------------------
(* Induction, and the loops                                                *)

\* A set of numbers that is not empty has a least element.
LEMMA LeastNumber ==
    ASSUME NEW T, T \subseteq Nat, T # {}
    PROVE  \E n \in T : \A m \in T : n <= m
<1> DEFINE R == {ss \in Nat \X Nat : ss[1] < ss[2]}
<1>1. IsWellFoundedOn(R, Nat)
  BY NatLessThanWellFounded, Zenon DEF OpToRel
<1>2. \A x, y \in Nat : ~(<<y, x>> \in R) => x <= y
  OBVIOUS
<1> HIDE DEF R
<1>3. \E x \in T : \A y \in T : ~(<<y, x>> \in R)
  BY <1>1, WFMin, Zenon
<1>. QED BY <1>2, <1>3, Zenon

\* Induction up to a bound, for the set of the numbers that have the property.
LEMMA Induction ==
    ASSUME NEW b \in Nat, NEW S, 0 \in S, \A n \in 0 .. b - 1 : n \in S => n + 1 \in S
    PROVE  \A n \in 0 .. b : n \in S
<1> SUFFICES ASSUME (0 .. b) \ S # {} PROVE FALSE
  BY Zenon
<1>1. PICK n \in (0 .. b) \ S : \A m \in (0 .. b) \ S : n <= m
  <2>1. (0 .. b) \ S \subseteq Nat
    OBVIOUS
  <2>. QED BY <2>1, LeastNumber, Zenon
<1>2. n # 0 /\ n - 1 \in 0 .. b - 1 /\ n - 1 \in 0 .. b /\ ~(n <= n - 1) /\ n - 1 + 1 = n
  BY <1>1
<1>3. n - 1 \in S
  BY <1>1, <1>2, Zenon
<1>. QED BY <1>1, <1>2, <1>3, Zenon

-----------------------------------------------------------------------------
(* Orders, levels and sides of the book                                    *)

OrderSet == [id : Nat, market_id : Nat, account : Accounts, direction : Sides, price : Prices,
             base_lots : Nat, filled_base_lots : Nat, self_filled : Nat, cancelled : BOOLEAN]
Orders == {o \in OrderSet : get_order_remaining(o) \in Nat}
Levels == [price : Prices, volume : Int, orders : Seq(Orders), cancelled : Int]

\* The same order, whatever of it was filled.
Same(o, p) ==
    /\ o.id = p.id /\ o.account = p.account /\ o.direction = p.direction
    /\ o.price = p.price /\ o.cancelled = p.cancelled

IdsGrow(orders) == \A j, k \in DOMAIN orders : j < k => orders[j].id < orders[k].id

\* A level of a side, when n is the next id.
LevelOK(side, level, n) ==
    /\ IdsGrow(level.orders)
    /\ \A k \in DOMAIN level.orders :
         /\ level.orders[k].id < n /\ level.orders[k].direction = side
         /\ level.orders[k].price = level.price

Apart(s, t) == \A k \in DOMAIN s, l \in DOMAIN t : s[k].id # t[l].id

SideOK(side, levels, n) ==
    /\ levels \in Seq(Levels)
    /\ \A i \in DOMAIN levels : LevelOK(side, levels[i], n)
    /\ \A i, j \in DOMAIN levels : i < j =>
         /\ Worse(side, levels[i].price, levels[j].price)
         /\ Apart(levels[i].orders, levels[j].orders)

\* An order of the market, as it is made and as it is filled.
LEMMA OrderFields ==
    ASSUME NEW o \in Orders
    PROVE  /\ o.id \in Nat /\ o.account \in Accounts /\ o.direction \in Sides /\ o.price \in Prices
           /\ o.market_id \in Nat /\ o.base_lots \in Nat /\ o.filled_base_lots \in Nat
           /\ o.self_filled \in Nat /\ o.cancelled \in BOOLEAN /\ get_order_remaining(o) \in Nat
BY Zenon DEF Orders, OrderSet

\* Filling an order leaves it what it is.
LEMMA FilledFields ==
    ASSUME NEW o, NEW lots, NEW self
    PROVE  /\ Same(Filled(o, lots, self), o)
           /\ Filled(o, lots, self).market_id = o.market_id
           /\ Filled(o, lots, self).base_lots = o.base_lots
           /\ Filled(o, lots, self).filled_base_lots = o.filled_base_lots + lots
           /\ Filled(o, lots, self).self_filled = o.self_filled + self
BY Zenon DEF Filled, LimitOrder, Same

\* It is filled with at most what remains of it.
LEMMA FilledOrder ==
    ASSUME NEW o \in Orders, NEW lots \in Nat, NEW self \in Nat,
           lots + self <= get_order_remaining(o)
    PROVE  Filled(o, lots, self) \in Orders
<1>1. Filled(o, lots, self) \in OrderSet
  BY OrderFields DEF Filled, LimitOrder, OrderSet
<1>2. get_order_remaining(Filled(o, lots, self)) \in Nat
  BY OrderFields, FilledFields DEF get_order_remaining
<1>. QED BY <1>1, <1>2, Zenon DEF Orders

\* The conversions are of numbers to numbers, and round down to nothing less than 0.
LEMMA QuoteLotsNat ==
    ASSUME NEW lots \in Nat, NEW price \in Nat
    PROVE  base_to_quote_lots(lots, price) \in Nat
<1>1. /\ base_lot_size \in Nat \ {0} /\ quote_lot_size \in Nat \ {0} /\ tick \in Nat \ {0}
      /\ tick_scale \in Nat \ {0}
  BY PrecisionAssumption, Zenon
<1>2. \A x, y \in Nat : x * y \in Nat
  OBVIOUS
<1>3. \A x, y \in Nat \ {0} : x * y \in Nat \ {0}
  OBVIOUS
<1>4. \A x \in Nat, y \in Nat \ {0} : x \div y \in Nat
  OBVIOUS
<1>5. lots * base_lot_size * price * tick \in Nat
  <2>1. base_lot_size \in Nat /\ tick \in Nat
    BY <1>1, Zenon
  <2>. QED BY <1>2, <2>1, Zenon
<1>. QED BY <1>1, <1>3, <1>4, <1>5, Zenon DEF base_to_quote_lots

\* What a base lot at a price, and a quote lot, amount to.
BaseLot(price) == base_lot_size * price * tick
QuoteLot == quote_lot_size * tick_scale

\* The prices of the levels of a side.
PricesOf(levels) == {levels[i].price : i \in DOMAIN levels}

-----------------------------------------------------------------------------
(* Matching the orders of a level                                          *)

\* What a residual says of its order.
ResidualOf(r, o) ==
    /\ r.order_id = o.id /\ r.account = o.account /\ ~o.cancelled /\ r.price \in Prices
    /\ r.filled_base_lots \in Nat /\ r.self_fill \in Nat
    /\ r.filled_base_lots + r.self_fill <= get_order_remaining(o)

\* What the loop has after i orders of a level.
MatchOK(level, lots, i, m) ==
    /\ m.rem \in 0 .. lots /\ m.spent * QuoteLot <= (lots - m.rem) * BaseLot(level.price)
    /\ m.stop \in BOOLEAN /\ (m.stop => m.rem = 0)
    /\ m.drain \in 0 .. i /\ (~m.stop => m.drain = i) /\ m.seen \in Nat
    /\ m.orders \in Seq(Orders) /\ Len(m.orders) = Len(level.orders)
    /\ \A k \in DOMAIN level.orders :
         /\ Same(m.orders[k], level.orders[k])
         /\ k > m.drain /\ (k > m.drain + 1 \/ m.residual = {}) => m.orders[k] = level.orders[k]
    /\ m.base \in Nat /\ m.quote \in Nat /\ m.spent \in Nat /\ m.last \in {0, level.price}
    /\ \A r \in m.residual :
         /\ m.residual = {r} /\ m.stop /\ m.drain < i
         /\ ResidualOf(r, level.orders[m.drain + 1])
         /\ m.orders[m.drain + 1] =
              Filled(level.orders[m.drain + 1], r.filled_base_lots, r.self_fill)

-----------------------------------------------------------------------------
(* Sequences                                                               *)

\* A part of a sequence, and one sequence after another.
IsPart(S, c, s, a, b) ==
    /\ c \in Seq(S) /\ Len(c) = b - a + 1 /\ DOMAIN c = 1 .. b - a + 1
    /\ \A k \in 1 .. b - a + 1 : c[k] = s[a + k - 1] /\ a + k - 1 \in DOMAIN s

IsConcat(S, c, s, t) ==
    /\ c \in Seq(S) /\ Len(c) = Len(s) + Len(t) /\ Len(s) \in Nat /\ Len(t) \in Nat
    /\ DOMAIN c = 1 .. Len(s) + Len(t)
    /\ \A k \in DOMAIN s : c[k] = s[k] /\ k \in DOMAIN c
    /\ \A k \in DOMAIN t : c[Len(s) + k] = t[k] /\ Len(s) + k \in DOMAIN c
    /\ \A k \in DOMAIN c :
         \/ k \in DOMAIN s
         \/ k - Len(s) \in DOMAIN t /\ k = Len(s) + (k - Len(s))

\* A sequence with another element in one place.
IsPut(S, c, s, n, v) ==
    /\ c \in Seq(S) /\ Len(c) = Len(s) /\ DOMAIN c = DOMAIN s /\ c[n] = v
    /\ \A j \in DOMAIN s : j # n => c[j] = s[j]

\* EXCEPT puts it there.
LEMMA PutOf ==
    ASSUME NEW S, NEW s \in Seq(S), NEW n \in DOMAIN s, NEW v \in S
    PROVE  IsPut(S, [s EXCEPT ![n] = v], s, n, v)
BY DEF IsPut

\* SubSeq is such a part.
LEMMA SubSeqOf ==
    ASSUME NEW S, NEW s \in Seq(S), NEW a \in Nat, NEW b \in Nat, a >= 1, a <= b + 1, b <= Len(s)
    PROVE  IsPart(S, SubSeq(s, a, b), s, a, b)
BY DEF IsPart

\* The concatenation is one after the other.
LEMMA ConcatOf ==
    ASSUME NEW S, NEW s \in Seq(S), NEW t \in Seq(S)
    PROVE  IsConcat(S, s \o t, s, t)
BY DEF IsConcat

-----------------------------------------------------------------------------
(* Executing an order over the levels                                      *)

\* The order at i, k is not in what is left of a side.
Gone(levels, y, i, k) ==
    \/ i > Len(y)
    \/ i = Len(y) /\ k <= Len(levels[i].orders) - Len(y[i].orders)

\* What is left of the last level: it may have lost its first orders, and of those it
\* has the first one has been filled as the residual says.
PartOf(level, part, residual) ==
    LET d == Len(level.orders) - Len(part.orders)
    IN /\ part.price = level.price /\ d \in Nat
       /\ \A k \in DOMAIN part.orders : k > 1 \/ residual = {} => part.orders[k] = level.orders[d + k]
       /\ \A r \in residual :
            /\ residual = {r} /\ 1 \in DOMAIN part.orders
            /\ ResidualOf(r, level.orders[d + 1])
            /\ part.orders[1] = Filled(level.orders[d + 1], r.filled_base_lots, r.self_fill)

Crossed(levels, limit) == Crosses(levels[Len(levels)].price, limit)

\* What is left of a side of the book, and what was taken from it.
Left(levels, x) ==
    /\ x.levels \in Seq(Levels) /\ Len(x.levels) <= Len(levels)
    /\ \A j \in DOMAIN x.levels : j < Len(x.levels) => x.levels[j] = levels[j]
    /\ Len(x.levels) > 0 => PartOf(levels[Len(x.levels)], x.levels[Len(x.levels)], x.residual)
    /\ x.residual # {} => Len(x.levels) > 0
    /\ x.filled \in Seq(Orders)
    /\ \A f \in DOMAIN x.filled : \E i \in DOMAIN levels : \E k \in DOMAIN levels[i].orders :
         Gone(levels, x.levels, i, k) /\ Same(x.filled[f], levels[i].orders[k])
    /\ \A i \in DOMAIN levels : \A k \in DOMAIN levels[i].orders :
         Gone(levels, x.levels, i, k) => \E f \in DOMAIN x.filled : Same(x.filled[f], levels[i].orders[k])

\* What the loop has after i levels.
ExecOK(levels, size, in_quote, limit, i, x) ==
    /\ Left(levels, x) /\ x.rem \in 0 .. size /\ x.done \in BOOLEAN
    /\ x.base \in Nat /\ x.quote \in Nat /\ x.last \in Prices \cup {0}
    /\ ~x.done => x.residual = {}
    /\ ~x.done => \A j \in DOMAIN x.levels : x.levels[j] = levels[j]
    /\ x.done => in_quote \/ x.rem = 0
    /\ ~x.done /\ ~in_quote /\ x.rem # 0 =>
         \/ Len(x.levels) = Len(levels) - i
         \/ Len(x.levels) > 0 /\ ~Crossed(x.levels, limit)

\* What an execution leaves of a side.
LEMMA ExecAll ==
    \A levels \in Seq(Levels), size \in Nat, in_quote \in BOOLEAN : \A self, limit :
        ExecOK(levels, size, in_quote, limit, Len(levels), Execute(levels, size, in_quote, self, limit))
\* The loop over the orders of a level is what its definition says: such a function exists.
<1>MatchingLoop. ASSUME NEW level, NEW lots, NEW self, Len(level.orders) \in Nat
                 PROVE  Matching(level, lots, self) =
                          [i \in 0 .. Len(level.orders) |-> IF i = 0 THEN [rem |-> lots, stop |-> FALSE, drain |-> 0, seen |-> 0,
                             orders |-> level.orders, base |-> 0, quote |-> 0, spent |-> 0,
                             last |-> 0, residual |-> {}]
                             ELSE MatchOrder(Matching(level, lots, self)[i - 1], i, level.price, self)]
  <2> USE <1>MatchingLoop
  <2> DEFINE start == [rem |-> lots, stop |-> FALSE, drain |-> 0, seen |-> 0,
                  orders |-> level.orders, base |-> 0, quote |-> 0, spent |-> 0,
                  last |-> 0, residual |-> {}]
             Loop(f, n) == f = [i \in 0 .. n |-> IF i = 0 THEN start ELSE MatchOrder(f[i - 1], i, level.price, self)]
             S == {n \in Nat : \E f : Loop(f, n)}
  <2> HIDE DEF start
  <2>1. 0 \in S
    <3>1. Loop([i \in 0 .. 0 |-> start], 0)
      OBVIOUS
    <3>. QED BY <3>1, Zenon
  <2>2. ASSUME NEW n \in 0 .. Len(level.orders) - 1, n \in S PROVE n + 1 \in S
    <3>1. n \in Nat /\ n + 1 \in Nat
      OBVIOUS
    <3>2. PICK g : Loop(g, n)
      BY <2>2, Zenon
    <3> DEFINE h == [i \in 0 .. n + 1 |-> IF i = 0 THEN start ELSE MatchOrder(g[i - 1], i, level.price, self)]
    <3>3. \A i \in 0 .. n : h[i] = g[i]
      BY <3>1, <3>2
    <3>4. \A i \in 0 .. n + 1 : i # 0 => i - 1 \in 0 .. n
      BY <3>1
    <3>5. Loop(h, n + 1)
      BY <3>3, <3>4, Zenon
    <3> HIDE DEF h, Loop
    <3>. QED BY <3>1, <3>5, Zenon
  <2> HIDE DEF S
  <2>3. Len(level.orders) \in S
    <3>1. Len(level.orders) \in 0 .. Len(level.orders)
      OBVIOUS
    <3>. QED BY <2>1, <2>2, <3>1, Induction, Zenon
  <2>4. \E f : Loop(f, Len(level.orders))
    BY <2>3, Zenon DEF S
  <2>. QED BY <2>4, Zenon DEF Matching, start
\* So is the loop over the levels.
<1>ExecutingLoop. ASSUME NEW levels, NEW size, NEW in_quote, NEW self, NEW limit, Len(levels) \in Nat
                  PROVE  Executing(levels, size, in_quote, self, limit) =
                           [i \in 0 .. Len(levels) |-> IF i = 0 THEN [rem |-> size, done |-> FALSE, levels |-> levels, filled |-> << >>,
                              base |-> 0, quote |-> 0, last |-> 0, residual |-> {}]
                              ELSE ExecuteLevel(Executing(levels, size, in_quote, self, limit)[i - 1], in_quote, self, limit)]
  <2> USE <1>ExecutingLoop
  <2> DEFINE start == [rem |-> size, done |-> FALSE, levels |-> levels, filled |-> << >>,
                  base |-> 0, quote |-> 0, last |-> 0, residual |-> {}]
             Loop(f, n) == f = [i \in 0 .. n |-> IF i = 0 THEN start ELSE ExecuteLevel(f[i - 1], in_quote, self, limit)]
             S == {n \in Nat : \E f : Loop(f, n)}
  <2> HIDE DEF start
  <2>1. 0 \in S
    <3>1. Loop([i \in 0 .. 0 |-> start], 0)
      OBVIOUS
    <3>. QED BY <3>1, Zenon
  <2>2. ASSUME NEW n \in 0 .. Len(levels) - 1, n \in S PROVE n + 1 \in S
    <3>1. n \in Nat /\ n + 1 \in Nat
      OBVIOUS
    <3>2. PICK g : Loop(g, n)
      BY <2>2, Zenon
    <3> DEFINE h == [i \in 0 .. n + 1 |-> IF i = 0 THEN start ELSE ExecuteLevel(g[i - 1], in_quote, self, limit)]
    <3>3. \A i \in 0 .. n : h[i] = g[i]
      BY <3>1, <3>2
    <3>4. \A i \in 0 .. n + 1 : i # 0 => i - 1 \in 0 .. n
      BY <3>1
    <3>5. Loop(h, n + 1)
      BY <3>3, <3>4, Zenon
    <3> HIDE DEF h, Loop
    <3>. QED BY <3>1, <3>5, Zenon
  <2> HIDE DEF S
  <2>3. Len(levels) \in S
    <3>1. Len(levels) \in 0 .. Len(levels)
      OBVIOUS
    <3>. QED BY <2>1, <2>2, <3>1, Induction, Zenon
  <2>4. \E f : Loop(f, Len(levels))
    BY <2>3, Zenon DEF S
  <2>. QED BY <2>4, Zenon DEF Executing, start
\* So is the conversion back.
<1>BaseLotsNat. ASSUME NEW lots \in Nat, NEW price \in Nat \ {0}
                PROVE  quote_lots_to_base_lots(lots, price) \in Nat
  <2> USE <1>BaseLotsNat
  <2>1. /\ base_lot_size \in Nat \ {0} /\ quote_lot_size \in Nat \ {0} /\ tick \in Nat \ {0}
        /\ tick_scale \in Nat \ {0}
    BY PrecisionAssumption, Zenon
  <2>2. \A x, y \in Nat : x * y \in Nat
    OBVIOUS
  <2>3. \A x, y \in Nat \ {0} : x * y \in Nat \ {0}
    OBVIOUS
  <2>4. \A x \in Nat, y \in Nat \ {0} : x \div y \in Nat
    OBVIOUS
  <2>5. lots * quote_lot_size * tick_scale \in Nat
    <3>1. quote_lot_size \in Nat /\ tick_scale \in Nat
      BY <2>1, Zenon
    <3>. QED BY <2>2, <3>1, Zenon
  <2>. QED BY <2>1, <2>3, <2>4, <2>5, Zenon DEF quote_lots_to_base_lots
\* Neither conversion rounds up.
<1>RoundsDown. ASSUME NEW lots \in Nat, NEW price \in Nat \ {0}
               PROVE  /\ BaseLot(price) \in Nat \ {0} /\ QuoteLot \in Nat \ {0}
                      /\ base_to_quote_lots(lots, price) * QuoteLot <= lots * BaseLot(price)
                      /\ quote_lots_to_base_lots(lots, price) * BaseLot(price) <= lots * QuoteLot
  <2> USE <1>RoundsDown
  <2>1. /\ base_lot_size \in Nat \ {0} /\ quote_lot_size \in Nat \ {0} /\ tick \in Nat \ {0}
        /\ tick_scale \in Nat \ {0}
    BY PrecisionAssumption, Zenon
  <2>2. \A x, y \in Nat \ {0} : x * y \in Nat \ {0}
    OBVIOUS
  <2>3. BaseLot(price) \in Nat \ {0} /\ QuoteLot \in Nat \ {0}
    BY <2>1, <2>2, Zenon DEF BaseLot, QuoteLot
  <2>4. \A x \in Nat, y \in Nat \ {0} : (x \div y) * y <= x
    OBVIOUS
  <2>5. \A x, y \in Nat : x * y \in Nat
    OBVIOUS
  <2>6. /\ lots * base_lot_size * price * tick = lots * BaseLot(price)
        /\ lots * quote_lot_size * tick_scale = lots * QuoteLot
        /\ price * tick * base_lot_size = BaseLot(price)
    BY <2>1 DEF BaseLot, QuoteLot
  <2>7. /\ base_to_quote_lots(lots, price) = (lots * BaseLot(price)) \div QuoteLot
        /\ quote_lots_to_base_lots(lots, price) = (lots * QuoteLot) \div BaseLot(price)
    BY <2>6, Zenon DEF base_to_quote_lots, quote_lots_to_base_lots, QuoteLot
  <2>8. lots * BaseLot(price) \in Nat /\ lots * QuoteLot \in Nat
    BY <2>3, <2>5, Zenon
  <2>. QED BY <2>3, <2>4, <2>7, <2>8, Zenon
\* Every turn of the loop keeps this.
<1>MatchStep. ASSUME NEW level \in Levels, NEW size \in Nat, NEW self, NEW i \in 1 .. Len(level.orders), NEW m,
                     MatchOK(level, size, i - 1, m)
              PROVE  MatchOK(level, size, i, MatchOrder(m, i, level.price, self))
  <2> USE <1>MatchStep
  <2> DEFINE o     == m.orders[i]
             rem   == get_order_remaining(o)
             lots  == Least(m.rem, rem)
             quote == base_to_quote_lots(lots, level.price)
             own   == o.account = self
             full  == lots = rem
             y     == MatchOrder(m, i, level.price, self)
  <2>1. /\ level.price \in Prices /\ level.price \in Nat /\ level.orders \in Seq(Orders)
        /\ i \in DOMAIN level.orders /\ DOMAIN m.orders = DOMAIN level.orders
        /\ m.orders \in Seq(Orders) /\ Len(m.orders) = Len(level.orders) /\ i \in Nat \ {0}
        /\ DOMAIN m.orders = 1 .. Len(level.orders) /\ Len(level.orders) \in Nat
    <3>1. level.price \in Prices /\ level.orders \in Seq(Orders)
      BY Zenon DEF Levels
    <3>2. m.orders \in Seq(Orders) /\ Len(m.orders) = Len(level.orders)
      BY Zenon DEF MatchOK
    <3>3. level.price \in Nat
      BY <3>1, BookAssumption, Zenon
    <3>. QED BY <3>1, <3>2, <3>3
  <2>2. /\ o \in Orders /\ level.orders[i] \in Orders /\ m.rem \in Nat /\ m.rem \in 0 .. size
    <3>1. m.rem \in 0 .. size
      BY Zenon DEF MatchOK
    <3>. QED BY <2>1, <3>1
  <2>3. rem \in Nat /\ lots \in Nat /\ lots <= m.rem /\ lots <= rem /\ (lots = m.rem \/ full)
        /\ m.rem - lots \in Nat /\ quote \in Nat
    <3>1. rem \in Nat
      BY <2>2, OrderFields, Zenon
    <3> HIDE DEF rem
    <3>2. lots \in Nat /\ lots <= m.rem /\ lots <= rem /\ (lots = m.rem \/ full) /\ m.rem - lots \in Nat
      BY <2>2, <3>1 DEF Least
    <3>. QED BY <2>1, <3>1, <3>2, QuoteLotsNat, Zenon
  <2>4. CASE m.stop
    <3>1. y = m
      BY <2>4, Zenon DEF MatchOrder
    <3>2. m.drain \in 0 .. i /\ (\A r \in m.residual : m.drain < i)
      BY <2>1, <2>4 DEF MatchOK
    <3>. QED BY <2>4, <3>1, <3>2, Zenon DEF MatchOK
  <2>5. ASSUME ~m.stop
        PROVE  /\ m.drain = i - 1 /\ m.residual = {}
               /\ \A k \in DOMAIN level.orders : k > i - 1 => m.orders[k] = level.orders[k]
               /\ o = level.orders[i]
    <3>1. m.drain = i - 1 /\ m.residual = {}
      BY <2>5, Zenon DEF MatchOK
    <3>2. \A k \in DOMAIN level.orders : k > i - 1 => m.orders[k] = level.orders[k]
      BY <3>1, Zenon DEF MatchOK
    <3>. QED BY <2>1, <3>1, <3>2
  <2>6. CASE ~m.stop /\ o.cancelled
    <3>1. /\ y.rem = m.rem /\ y.stop = FALSE /\ y.drain = m.drain + 1 /\ y.seen = m.seen + 1
          /\ y.orders = m.orders /\ y.base = m.base /\ y.quote = m.quote /\ y.spent = m.spent
          /\ y.last = m.last /\ y.residual = m.residual
      BY <2>6, Zenon DEF MatchOrder
    <3> HIDE DEF y
    <3>2. y.drain = i /\ y.drain \in 0 .. i /\ y.seen \in Nat
      <4>1. m.seen \in Nat
        BY Zenon DEF MatchOK
      <4>2. y.drain = i - 1 + 1 /\ y.seen = m.seen + 1
        BY <2>5, <2>6, <3>1, Zenon
      <4>3. i - 1 + 1 = i /\ i \in 0 .. i /\ \A k \in Nat : k + 1 \in Nat
        BY <2>1
      <4>. QED BY <4>1, <4>2, <4>3, Zenon
    <3>3. \A k \in DOMAIN level.orders : k > y.drain => y.orders[k] = level.orders[k]
      BY <2>1, <2>5, <2>6, <3>1, <3>2
    <3>. QED BY <2>1, <2>5, <2>6, <3>1, <3>2, <3>3, Zenon DEF MatchOK, y
  <2>7. CASE ~m.stop /\ ~o.cancelled
    <3> DEFINE r == [order_id |-> o.id, account |-> o.account, price |-> level.price,
                     filled_base_lots |-> IF own THEN 0 ELSE lots,
                     self_fill |-> IF own THEN lots ELSE 0]
    <3>1. /\ y.rem = m.rem - lots /\ (y.stop <=> m.rem = lots) /\ y.stop \in BOOLEAN
          /\ y.drain = (IF full THEN m.drain + 1 ELSE m.drain) /\ y.seen = m.seen
          /\ y.orders = (IF own THEN [m.orders EXCEPT ![i] = Filled(o, 0, lots)]
                         ELSE IF full THEN m.orders
                         ELSE [m.orders EXCEPT ![i] = Filled(o, lots, 0)])
          /\ y.base = (IF own THEN m.base ELSE m.base + lots)
          /\ y.quote = (IF own THEN m.quote ELSE m.quote + quote)
          /\ y.spent = m.spent + quote /\ y.last = (IF own THEN m.last ELSE level.price)
          /\ y.residual = (IF full THEN m.residual ELSE {r})
      BY <2>7, Zenon DEF MatchOrder
    <3>2. /\ r.order_id = o.id /\ r.account = o.account /\ r.price = level.price
          /\ own => r.filled_base_lots = 0 /\ r.self_fill = lots
          /\ ~own => r.filled_base_lots = lots /\ r.self_fill = 0
      BY Zenon
    <3> HIDE DEF y, r, lots, quote, rem, own, o
    <3>3. /\ y.rem \in 0 .. size /\ y.stop \in BOOLEAN /\ (y.stop => y.rem = 0) /\ (full \/ y.stop)
      <4>1. y.stop => y.rem = 0
        <5>1. m.rem = lots => m.rem - lots = 0
          BY <2>2, <2>3
        <5>. QED BY <3>1, <5>1, Zenon
      <4>2. full \/ y.stop
        BY <2>3, <3>1, Zenon
      <4>3. y.rem \in 0 .. size
        BY <2>2, <2>3, <3>1
      <4>. QED BY <3>1, <4>1, <4>2, <4>3, Zenon
    <3>4. /\ y.drain \in 0 .. i /\ (~y.stop => y.drain = i) /\ y.seen \in Nat
          /\ (full => y.drain = i) /\ (~full => y.drain = i - 1)
      BY <2>1, <2>5, <2>7, <3>1, <3>3, SMTT(40) DEF MatchOK
    <3>10. y.spent * QuoteLot <= (size - y.rem) * BaseLot(level.price)
      <4> DEFINE B == BaseLot(level.price)
      <4>1. B \in Nat \ {0} /\ QuoteLot \in Nat \ {0} /\ quote * QuoteLot <= lots * B
        <5>1. level.price \in Nat \ {0}
          BY <2>1, BookAssumption, Zenon
        <5>. QED BY <2>3, <5>1, <1>RoundsDown, Zenon DEF quote
      <4>2. m.spent * QuoteLot <= (size - m.rem) * B /\ m.spent \in Nat
        BY Zenon DEF MatchOK
      <4> HIDE DEF B
      <4>3. \A s, q, u, e, l, b, f \in Int :
              s * u <= e * b /\ q * u <= l * b => (s + q) * u <= (e + l) * b
        OBVIOUS
      <4>4. size - m.rem \in Int /\ (size - m.rem) + lots = size - y.rem
        <5>1. size - m.rem \in Int /\ (size - m.rem) + lots = size - (m.rem - lots)
          BY <2>2, <2>3, SMTT(40)
        <5>. QED BY <3>1, <5>1, Zenon
      <4>5. QuoteLot \in Int /\ B \in Int /\ m.spent \in Int /\ quote \in Int /\ lots \in Int
        BY <2>3, <4>1, <4>2
      <4>6. (m.spent + quote) * QuoteLot <= ((size - m.rem) + lots) * B
        BY <4>1, <4>2, <4>3, <4>4, <4>5, Zenon
      <4>. QED BY <3>1, <4>4, <4>6, Zenon DEF B
    <3>5. /\ y.base \in Nat /\ y.quote \in Nat /\ y.spent \in Nat /\ y.last \in {0, level.price}
      <4>1. m.base \in Nat /\ m.quote \in Nat /\ m.spent \in Nat /\ m.last \in {0, level.price}
        BY Zenon DEF MatchOK
      <4>2. m.base + lots \in Nat /\ m.quote + quote \in Nat /\ m.spent + quote \in Nat
        <5>1. \A b, c \in Nat : b + c \in Nat
          OBVIOUS
        <5>. QED BY <2>3, <4>1, <5>1, Zenon
      <4>. QED BY <3>1, <4>1, <4>2, Zenon
    <3>6. Filled(o, 0, lots) \in Orders /\ Filled(o, lots, 0) \in Orders
      <4>1. 0 + lots <= get_order_remaining(o) /\ lots + 0 <= get_order_remaining(o) /\ 0 \in Nat
        BY <2>3 DEF rem
      <4>. QED BY <2>2, <2>3, <4>1, FilledOrder, Zenon
    <3>7. /\ y.orders \in Seq(Orders) /\ Len(y.orders) = Len(level.orders)
          /\ \A k \in DOMAIN level.orders : k # i => y.orders[k] = m.orders[k]
          /\ y.orders[i] \in {o, Filled(o, 0, lots), Filled(o, lots, 0)}
          /\ ~full => y.orders[i] = Filled(o, r.filled_base_lots, r.self_fill)
      <4>1. ASSUME NEW f \in Orders, y.orders = [m.orders EXCEPT ![i] = f]
            PROVE  /\ y.orders \in Seq(Orders) /\ Len(y.orders) = Len(level.orders)
                   /\ y.orders[i] = f
                   /\ \A k \in DOMAIN level.orders : k # i => y.orders[k] = m.orders[k]
        BY <2>1, <4>1
      <4>2. CASE own
        <5>1. y.orders = [m.orders EXCEPT ![i] = Filled(o, 0, lots)]
          BY <3>1, <4>2, Zenon
        <5>2. Filled(o, r.filled_base_lots, r.self_fill) = Filled(o, 0, lots)
          BY <3>2, <4>2, Zenon
        <5>3. y.orders[i] = Filled(o, 0, lots)
          BY <3>6, <4>1, <5>1, Zenon
        <5>4. /\ y.orders \in Seq(Orders) /\ Len(y.orders) = Len(level.orders)
              /\ \A k \in DOMAIN level.orders : k # i => y.orders[k] = m.orders[k]
          BY <3>6, <4>1, <5>1, Zenon
        <5>. QED BY <5>2, <5>3, <5>4, Zenon
      <4>3. CASE ~own /\ full
        <5>1. y.orders = m.orders /\ m.orders[i] = o
          BY <3>1, <4>3, Zenon DEF o
        <5>. QED BY <2>1, <4>3, <5>1, Zenon
      <4>4. CASE ~own /\ ~full
        <5>1. y.orders = [m.orders EXCEPT ![i] = Filled(o, lots, 0)]
          BY <3>1, <4>4, Zenon
        <5>2. Filled(o, r.filled_base_lots, r.self_fill) = Filled(o, lots, 0)
          BY <3>2, <4>4, Zenon
        <5>3. y.orders[i] = Filled(o, lots, 0)
          BY <3>6, <4>1, <5>1, Zenon
        <5>4. /\ y.orders \in Seq(Orders) /\ Len(y.orders) = Len(level.orders)
              /\ \A k \in DOMAIN level.orders : k # i => y.orders[k] = m.orders[k]
          BY <3>6, <4>1, <5>1, Zenon
        <5>. QED BY <5>2, <5>3, <5>4, Zenon
      <4>. QED BY <4>2, <4>3, <4>4, Zenon
    <3>8. ASSUME NEW k \in DOMAIN level.orders
          PROVE  /\ Same(y.orders[k], level.orders[k])
                 /\ k > y.drain /\ (k > y.drain + 1 \/ y.residual = {}) => y.orders[k] = level.orders[k]
      <4>1. CASE k = i
        <5>1. Same(y.orders[i], level.orders[i])
          <6>1. Same(o, o) /\ Same(Filled(o, 0, lots), o) /\ Same(Filled(o, lots, 0), o)
            <7>1. Same(Filled(o, 0, lots), o)
              BY FilledFields, Zenon
            <7>2. Same(Filled(o, lots, 0), o)
              BY FilledFields, Zenon
            <7>3. Same(o, o)
              BY Zenon DEF Same
            <7>. QED BY <7>1, <7>2, <7>3, Zenon
          <6>. QED BY <2>5, <2>7, <3>7, <6>1, Zenon
        <5>2. ~(i > y.drain /\ (i > y.drain + 1 \/ y.residual = {}))
          <6>1. ~(i > i) /\ ~(i > (i - 1) + 1)
            BY <2>1
          <6>2. ~full => y.residual # {}
            BY <3>1, Zenon
          <6>. QED BY <3>4, <6>1, <6>2, Zenon
        <5>. QED BY <4>1, <5>1, <5>2, Zenon
      <4>2. CASE k # i
        <5>1. Same(y.orders[k], level.orders[k])
          BY <3>7, <4>2, Zenon DEF MatchOK
        <5>2. k > y.drain => k > i - 1
          BY <2>1, <3>4
        <5>. QED BY <2>5, <2>7, <3>7, <4>2, <5>1, <5>2, Zenon
      <4>. QED BY <4>1, <4>2, Zenon
    <3>9. ASSUME NEW s \in y.residual
          PROVE  /\ y.residual = {s} /\ y.stop /\ y.drain < i
                 /\ ResidualOf(s, level.orders[y.drain + 1])
                 /\ y.orders[y.drain + 1] =
                      Filled(level.orders[y.drain + 1], s.filled_base_lots, s.self_fill)
      <4>1. ~full /\ s = r /\ y.residual = {r}
        BY <2>5, <2>7, <3>1, <3>9, Zenon
      <4>2. y.stop /\ y.drain < i /\ y.drain + 1 = i
        BY <2>1, <3>3, <3>4, <4>1
      <4>3. ResidualOf(r, o)
        BY <2>1, <2>3, <2>7, <3>2 DEF ResidualOf, rem
      <4>. QED BY <2>5, <2>7, <3>7, <4>1, <4>2, <4>3, Zenon
    <3>. QED BY <3>3, <3>4, <3>5, <3>7, <3>8, <3>9, <3>10, Zenon DEF MatchOK, y
  <2>. QED BY <2>4, <2>6, <2>7, Zenon
\* What the loop leaves of a level.
<1>MatchAll. ASSUME NEW level \in Levels, NEW size \in Nat, NEW self
             PROVE  MatchOK(level, size, Len(level.orders), MatchOrders(level, size, self))
  <2> USE <1>MatchAll
  <2> DEFINE after == Matching(level, size, self)
             S == {i \in 0 .. Len(level.orders) : MatchOK(level, size, i, after[i])}
  <2>1. level.orders \in Seq(Orders) /\ Len(level.orders) \in Nat /\ level.price \in Prices
        /\ DOMAIN level.orders = 1 .. Len(level.orders)
    BY DEF Levels
  <2>2. after = [i \in 0 .. Len(level.orders) |-> IF i = 0 THEN [rem |-> size, stop |-> FALSE, drain |-> 0, seen |-> 0,
                  orders |-> level.orders, base |-> 0, quote |-> 0, spent |-> 0,
                  last |-> 0, residual |-> {}]
                  ELSE MatchOrder(after[i - 1], i, level.price, self)]
    BY <2>1, <1>MatchingLoop
  <2> HIDE DEF after
  <2>3. 0 \in S
    <3>1. after[0] = [rem |-> size, stop |-> FALSE, drain |-> 0, seen |-> 0,
                  orders |-> level.orders, base |-> 0, quote |-> 0, spent |-> 0,
                  last |-> 0, residual |-> {}]
      BY <2>1, <2>2
    <3> DEFINE m == after[0]
    <3>2. /\ m.rem = size /\ m.stop = FALSE /\ m.drain = 0 /\ m.seen = 0 /\ m.orders = level.orders
          /\ m.base = 0 /\ m.quote = 0 /\ m.spent = 0 /\ m.last = 0 /\ m.residual = {}
      BY <3>1
    <3> HIDE DEF m
    <3>3. m.spent * QuoteLot <= (size - m.rem) * BaseLot(level.price)
      <4>1. level.price \in Nat \ {0}
        BY <2>1, BookAssumption, Zenon
      <4>2. BaseLot(level.price) \in Nat \ {0} /\ QuoteLot \in Nat \ {0}
        BY <4>1, <1>RoundsDown, Zenon
      <4>. QED BY <3>2, <4>2
    <3>4. m.rem \in 0 .. size /\ 0 \in 0 .. 0 /\ 0 \in Nat
      BY <3>2
    <3>5. \A k \in DOMAIN level.orders : Same(level.orders[k], level.orders[k])
      BY Zenon DEF Same
    <3>6. MatchOK(level, size, 0, m)
      BY <2>1, <3>2, <3>3, <3>4, <3>5, Zenon DEF MatchOK
    <3>7. 0 \in 0 .. Len(level.orders)
      BY <2>1
    <3>. QED BY <3>6, <3>7, Zenon DEF m
  <2>4. ASSUME NEW i \in 0 .. Len(level.orders) - 1, i \in S PROVE i + 1 \in S
    <3>1. i + 1 \in 1 .. Len(level.orders) /\ (i + 1) - 1 = i /\ i + 1 \in 0 .. Len(level.orders) /\ i + 1 # 0
      BY <2>1
    <3>2. MatchOK(level, size, (i + 1) - 1, after[i])
      BY <2>4, <3>1, Zenon
    <3>3. MatchOK(level, size, i + 1, MatchOrder(after[i], i + 1, level.price, self))
      BY <3>1, <3>2, <1>MatchStep, Zenon
    <3>4. after[i + 1] = MatchOrder(after[(i + 1) - 1], i + 1, level.price, self)
      BY <2>2, <3>1, Zenon
    <3>. QED BY <3>1, <3>3, <3>4, Zenon
  <2> HIDE DEF S
  <2>5. Len(level.orders) \in S
    <3>1. Len(level.orders) \in 0 .. Len(level.orders)
      BY <2>1
    <3>. QED BY <2>1, <2>3, <2>4, <3>1, Induction, Zenon
  <2>. QED BY <2>5, Zenon DEF S, MatchOrders, after
\* Every turn of the loop keeps this.
<1>ExecStep. ASSUME NEW levels \in Seq(Levels), NEW size \in Nat, NEW in_quote \in BOOLEAN, NEW self,
                    NEW limit, NEW i \in 1 .. Len(levels), NEW x, ExecOK(levels, size, in_quote, limit, i - 1, x)
             PROVE  ExecOK(levels, size, in_quote, limit, i, ExecuteLevel(x, in_quote, self, limit))
  <2> USE <1>ExecStep
  <2> DEFINE n     == Len(x.levels)
             level == x.levels[n]
             base  == BaseSize(x.rem, level.price, in_quote)
             m     == MatchOrders(level, base, self)
             rest  == SubSeq(m.orders, m.drain + 1, Len(m.orders))
             y     == ExecuteLevel(x, in_quote, self, limit)
  <2>1. /\ x.levels \in Seq(Levels) /\ n \in Nat /\ n <= Len(levels) /\ Len(levels) \in Nat
        /\ DOMAIN x.levels = 1 .. n /\ DOMAIN levels = 1 .. Len(levels) /\ x.filled \in Seq(Orders)
    <3>1. x.levels \in Seq(Levels) /\ Len(x.levels) <= Len(levels) /\ x.filled \in Seq(Orders)
      BY Zenon DEF ExecOK, Left
    <3>. QED BY <3>1
  <2>2. x.rem \in 0 .. size /\ x.rem \in Nat
    <3>1. x.rem \in 0 .. size
      BY Zenon DEF ExecOK
    <3>. QED BY <3>1
  <2>3. CASE x.done \/ n = 0 \/ x.rem = 0 \/ base = 0 \/ ~Crosses(level.price, limit)
    <3>1. y = x
      BY <2>3, Zenon DEF ExecuteLevel
    <3>2. ASSUME ~x.done, ~in_quote, x.rem # 0
          PROVE  n > 0 /\ ~Crossed(x.levels, limit)
      <4>1. base # 0
        BY <3>2, Zenon DEF BaseSize
      <4>2. n > 0
        <5>1. \/ n = Len(levels) - (i - 1)
              \/ n > 0
          BY <3>2, Zenon DEF ExecOK
        <5>. QED BY <2>1, <5>1
      <4>3. n # 0
        BY <2>1, <4>2
      <4>. QED BY <2>3, <3>2, <4>1, <4>2, <4>3, Zenon DEF Crossed
    <3>. QED BY <3>1, <3>2, Zenon DEF ExecOK
  <2>4. CASE ~(x.done \/ n = 0 \/ x.rem = 0 \/ base = 0 \/ ~Crosses(level.price, limit))
    <3>1. /\ y.rem = (IF in_quote THEN x.rem - m.spent ELSE m.rem)
          /\ (y.done <=> m.drain < Len(m.orders)) /\ y.done \in BOOLEAN
          /\ y.levels = (IF m.drain < Len(m.orders)
                         THEN [x.levels EXCEPT ![n] =
                                 Level(level.price, level.volume - (base - m.rem), rest,
                                       level.cancelled - m.seen)]
                         ELSE SubSeq(x.levels, 1, n - 1))
          /\ y.filled = x.filled \o SubSeq(m.orders, 1, m.drain)
          /\ y.base = x.base + m.base /\ y.quote = x.quote + m.quote
          /\ y.last = (IF m.last = 0 THEN x.last ELSE m.last)
          /\ y.residual = x.residual \cup m.residual
      <4>1. y = [rem      |-> IF in_quote THEN x.rem - m.spent ELSE m.rem,
                 done     |-> m.drain < Len(m.orders),
                 levels   |-> IF m.drain < Len(m.orders)
                              THEN [x.levels EXCEPT ![n] =
                                      Level(level.price, level.volume - (base - m.rem), rest,
                                            level.cancelled - m.seen)]
                              ELSE SubSeq(x.levels, 1, n - 1),
                 filled   |-> x.filled \o SubSeq(m.orders, 1, m.drain),
                 base     |-> x.base + m.base,
                 quote    |-> x.quote + m.quote,
                 last     |-> IF m.last = 0 THEN x.last ELSE m.last,
                 residual |-> x.residual \cup m.residual]
        BY <2>4, Zenon DEF ExecuteLevel
      <4>2. (m.drain < Len(m.orders)) \in BOOLEAN
        OBVIOUS
      <4> HIDE DEF y, m, rest, base, level, n
      <4>. QED BY <4>1, <4>2, Zenon
    <3>2. /\ ~x.done /\ n \in 1 .. Len(levels) /\ n \in DOMAIN x.levels /\ n \in DOMAIN levels
          /\ n - 1 \in Nat
      BY <2>1, <2>4
    <3>3. /\ level = levels[n] /\ level \in Levels /\ x.residual = {}
          /\ \A j \in DOMAIN x.levels : x.levels[j] = levels[j]
      <4>1. x.residual = {} /\ \A j \in DOMAIN x.levels : x.levels[j] = levels[j]
        BY <3>2, Zenon DEF ExecOK
      <4>2. levels[n] \in Levels
        BY <2>1, <3>2
      <4>. QED BY <3>2, <4>1, <4>2, Zenon
    <3> DEFINE L == Len(level.orders)
    <3>4. /\ level.price \in Prices /\ level.price \in Nat \ {0} /\ level.volume \in Int
          /\ level.cancelled \in Int /\ level.orders \in Seq(Orders) /\ L \in Nat
          /\ DOMAIN level.orders = 1 .. L
      <4>1. /\ level.price \in Prices /\ level.volume \in Int /\ level.cancelled \in Int
            /\ level.orders \in Seq(Orders)
        <5> HIDE DEF level
        <5>. QED BY <3>3, Zenon DEF Levels
      <4> HIDE DEF level
      <4>2. level.price \in Nat \ {0}
        BY <4>1, BookAssumption, Zenon
      <4>. QED BY <4>1, <4>2
    <3>5. base \in Nat
      BY <2>2, <3>4, <1>BaseLotsNat, Zenon DEF BaseSize
    <3> HIDE DEF base, level, n
    <3>6. MatchOK(level, base, L, m)
      BY <3>3, <3>5, <1>MatchAll, Zenon
    <3> HIDE DEF m
    <3>7. /\ m.orders \in Seq(Orders) /\ Len(m.orders) = L /\ DOMAIN m.orders = 1 .. L
          /\ m.drain \in 0 .. L /\ m.rem \in 0 .. base /\ m.seen \in Nat
          /\ (m.drain < L => m.rem = 0) /\ m.spent \in Nat
      <4>1. /\ m.orders \in Seq(Orders) /\ Len(m.orders) = L /\ m.drain \in 0 .. L
            /\ m.rem \in 0 .. base /\ m.seen \in Nat /\ m.spent \in Nat
            /\ (m.stop => m.rem = 0) /\ (~m.stop => m.drain = L)
        BY <3>6, Zenon DEF MatchOK
      <4>2. ~(L < L)
        BY <3>4
      <4>. QED BY <4>1, <4>2
    <3> DEFINE d == m.drain
    <3>8. y.rem \in 0 .. size
      <4>1. CASE in_quote
        <5>1. /\ BaseLot(level.price) \in Nat \ {0} /\ QuoteLot \in Nat \ {0}
              /\ base * BaseLot(level.price) <= x.rem * QuoteLot
          <6>1. base = quote_lots_to_base_lots(x.rem, level.price)
            BY <4>1, Zenon DEF BaseSize, base
          <6>. QED BY <2>2, <3>4, <6>1, <1>RoundsDown, Zenon
        <5>2. m.spent * QuoteLot <= (base - m.rem) * BaseLot(level.price)
          BY <3>6, Zenon DEF MatchOK
        <5>3. \A s, u, b, r, B, q \in Nat :
                s * u <= (b - r) * B /\ b * B <= q * u /\ u # 0 => s <= q
          <6> SUFFICES ASSUME NEW s \in Nat, NEW u \in Nat, NEW b \in Nat, NEW r \in Nat, NEW B \in Nat,
                              NEW q \in Nat, s * u <= (b - r) * B, b * B <= q * u, u # 0
                       PROVE  s <= q
            BY Zenon
          <6>1. (b - r) * B = b * B - r * B /\ r * B \in Nat /\ b * B \in Nat /\ s * u \in Nat /\ q * u \in Nat
            OBVIOUS
          <6>2. s * u <= q * u
            BY <6>1
          <6>3. \A v \in Nat : v > 0 => v * u > 0
            OBVIOUS
          <6>4. (s - q) * u = s * u - q * u
            OBVIOUS
          <6>. QED BY <6>1, <6>2, <6>3, <6>4
        <5>4. m.spent <= x.rem
          <6>1. base \in Nat /\ m.rem \in Nat /\ QuoteLot # 0 /\ QuoteLot \in Nat /\ BaseLot(level.price) \in Nat
            BY <3>5, <3>7, <5>1
          <6>. QED BY <2>2, <3>7, <5>1, <5>2, <5>3, <6>1, Zenon
        <5>5. x.rem - m.spent \in 0 .. size
          BY <2>2, <3>7, <5>4, SMTT(40)
        <5>. QED BY <3>1, <4>1, <5>5, Zenon
      <4>2. CASE ~in_quote
        <5>1. base = x.rem
          BY <4>2, Zenon DEF BaseSize, base
        <5>2. m.rem \in 0 .. size
          BY <2>2, <3>7, <5>1
        <5>. QED BY <3>1, <4>2, <5>2, Zenon
      <4>. QED BY <4>1, <4>2, Zenon
    <3>9. y.done => in_quote \/ y.rem = 0
      BY <3>1, <3>7, Zenon
    <3>10. y.base \in Nat /\ y.quote \in Nat /\ y.last \in Prices \cup {0}
      <4>1. x.base \in Nat /\ x.quote \in Nat /\ x.last \in Prices \cup {0}
        BY Zenon DEF ExecOK
      <4>2. m.base \in Nat /\ m.quote \in Nat /\ m.last \in {0, level.price}
        BY <3>6, Zenon DEF MatchOK
      <4>3. \A b, c \in Nat : b + c \in Nat
        OBVIOUS
      <4>4. y.last \in Prices \cup {0}
        <5>1. y.last = x.last \/ y.last = m.last
          BY <3>1, Zenon
        <5>2. m.last \in Prices \cup {0}
          BY <3>4, <4>2, Zenon
        <5>. QED BY <4>1, <5>1, <5>2, Zenon
      <4>5. y.base \in Nat /\ y.quote \in Nat
        BY <3>1, <4>1, <4>2, <4>3, ZenonT(40)
      <4>. QED BY <4>4, <4>5, Zenon
    <3>11. /\ y.filled \in Seq(Orders) /\ Len(y.filled) = Len(x.filled) + d /\ Len(x.filled) \in Nat
           /\ \A f \in DOMAIN x.filled : f \in DOMAIN y.filled /\ y.filled[f] = x.filled[f]
           /\ \A k \in 1 .. d : Len(x.filled) + k \in DOMAIN y.filled
                                /\ y.filled[Len(x.filled) + k] = m.orders[k]
           /\ \A f \in DOMAIN y.filled : f \in DOMAIN x.filled \/ \E k \in 1 .. d : f = Len(x.filled) + k
      <4> DEFINE s == SubSeq(m.orders, 1, d)
      <4>1. s \in Seq(Orders) /\ Len(s) = d /\ DOMAIN s = 1 .. d /\ \A k \in 1 .. d : s[k] = m.orders[k]
        BY <3>7, SMTT(40)
      <4>2. y.filled = x.filled \o s
        BY <3>1, Zenon
      <4> HIDE DEF s, d
      <4>3. /\ y.filled \in Seq(Orders) /\ Len(y.filled) = Len(x.filled) + Len(s) /\ Len(x.filled) \in Nat
            /\ \A k \in DOMAIN x.filled : y.filled[k] = x.filled[k] /\ k \in DOMAIN y.filled
            /\ \A k \in DOMAIN s : y.filled[Len(x.filled) + k] = s[k] /\ Len(x.filled) + k \in DOMAIN y.filled
            /\ \A k \in DOMAIN y.filled :
                 \/ k \in DOMAIN x.filled
                 \/ k - Len(x.filled) \in DOMAIN s /\ k = Len(x.filled) + (k - Len(x.filled))
        <5>1. IsConcat(Orders, x.filled \o s, x.filled, s)
          BY <2>1, <4>1, ConcatOf, Zenon
        <5>2. IsConcat(Orders, y.filled, x.filled, s)
          BY <4>2, <5>1, Zenon
        <5>. QED BY <5>2, Zenon DEF IsConcat
      <4>4. \A f \in DOMAIN x.filled : f \in DOMAIN y.filled /\ y.filled[f] = x.filled[f]
        BY <4>3, Zenon
      <4>5. \A k \in 1 .. d : Len(x.filled) + k \in DOMAIN y.filled
                              /\ y.filled[Len(x.filled) + k] = m.orders[k]
        BY <4>1, <4>3, Zenon
      <4>6. \A f \in DOMAIN y.filled : f \in DOMAIN x.filled \/ \E k \in 1 .. d : f = Len(x.filled) + k
        BY <4>1, <4>3, Zenon
      <4>7. Len(y.filled) = Len(x.filled) + d
        BY <4>1, <4>3, Zenon
      <4>. QED BY <4>3, <4>4, <4>5, <4>6, <4>7, Zenon
    <3>12. ASSUME NEW j \in DOMAIN levels, NEW k \in DOMAIN levels[j].orders
           PROVE  Gone(levels, x.levels, j, k) <=> j > n
      <4>1. levels[j] \in Levels
        BY <3>12
      <4>2. levels[j].orders \in Seq(Orders)
        BY <4>1, Zenon DEF Levels
      <4>3. k \in Nat /\ k > 0 /\ Len(levels[j].orders) \in Nat
        BY <4>2
      <4>4. j = n => x.levels[j] = levels[j]
        BY <3>2, <3>3, Zenon
      <4>5. j = n => ~(k <= Len(levels[j].orders) - Len(x.levels[j].orders))
        BY <4>3, <4>4, SMTT(40)
      <4>. QED BY <4>5, Zenon DEF Gone, n
    <3>13. /\ \A k \in 1 .. L : Same(m.orders[k], level.orders[k])
           /\ \A k \in 1 .. L : k > d /\ (k > d + 1 \/ m.residual = {}) => m.orders[k] = level.orders[k]
           /\ \A r \in m.residual :
                /\ m.residual = {r} /\ d < L
                /\ ResidualOf(r, level.orders[d + 1])
                /\ m.orders[d + 1] = Filled(level.orders[d + 1], r.filled_base_lots, r.self_fill)
      BY <3>4, <3>6, Zenon DEF MatchOK
    <3>14. y.residual = m.residual
      BY <3>1, <3>3, Zenon
    \* What is gone is what was gone, and the first d orders of the level.
    <3>15. ASSUME \A j \in DOMAIN levels : \A k \in DOMAIN levels[j].orders :
                    Gone(levels, y.levels, j, k) <=> j > n \/ (j = n /\ k <= d)
           PROVE  /\ \A f \in DOMAIN y.filled : \E j \in DOMAIN levels : \E k \in DOMAIN levels[j].orders :
                       Gone(levels, y.levels, j, k) /\ Same(y.filled[f], levels[j].orders[k])
                  /\ \A j \in DOMAIN levels : \A k \in DOMAIN levels[j].orders :
                       Gone(levels, y.levels, j, k) =>
                         \E f \in DOMAIN y.filled : Same(y.filled[f], levels[j].orders[k])
      <4>1. ASSUME NEW f \in DOMAIN y.filled
            PROVE  \E j \in DOMAIN levels : \E k \in DOMAIN levels[j].orders :
                     Gone(levels, y.levels, j, k) /\ Same(y.filled[f], levels[j].orders[k])
        <5>1. CASE f \in DOMAIN x.filled
          <6>1. PICK j \in DOMAIN levels : \E k \in DOMAIN levels[j].orders :
                       Gone(levels, x.levels, j, k) /\ Same(x.filled[f], levels[j].orders[k])
            BY <5>1, Zenon DEF ExecOK, Left
          <6>2. PICK k \in DOMAIN levels[j].orders :
                       Gone(levels, x.levels, j, k) /\ Same(x.filled[f], levels[j].orders[k])
            BY <6>1, Zenon
          <6>. QED BY <3>11, <3>12, <3>15, <5>1, <6>2, Zenon
        <5>2. CASE \E k \in 1 .. d : f = Len(x.filled) + k
          <6>1. PICK k \in 1 .. d : f = Len(x.filled) + k
            BY <5>2, Zenon
          <6>2. k \in 1 .. L /\ k <= d /\ k \in DOMAIN levels[n].orders
            BY <3>3, <3>4, <3>7, SMTT(40)
          <6>3. Same(y.filled[f], levels[n].orders[k])
            BY <3>3, <3>11, <3>13, <6>1, <6>2, Zenon
          <6>. QED BY <3>2, <3>15, <6>2, <6>3, Zenon
        <5>. QED BY <3>11, <5>1, <5>2, Zenon
      <4>2. ASSUME NEW j \in DOMAIN levels, NEW k \in DOMAIN levels[j].orders, Gone(levels, y.levels, j, k)
            PROVE  \E f \in DOMAIN y.filled : Same(y.filled[f], levels[j].orders[k])
        <5>1. CASE j > n
          <6>1. \E f \in DOMAIN x.filled : Same(x.filled[f], levels[j].orders[k])
            BY <3>12, <5>1, Zenon DEF ExecOK, Left
          <6>. QED BY <3>11, <6>1, Zenon
        <5>2. CASE j = n /\ k <= d
          <6>1. k \in 1 .. L /\ k \in 1 .. d
            BY <3>3, <3>4, <3>7, <5>2, SMTT(40)
          <6>2. Same(y.filled[Len(x.filled) + k], levels[n].orders[k])
            BY <3>3, <3>11, <3>13, <6>1, Zenon
          <6>. QED BY <3>11, <5>2, <6>1, <6>2, Zenon
        <5>. QED BY <3>15, <4>2, <5>1, <5>2, Zenon
      <4>. QED BY <4>1, <4>2, Zenon
    <3>16. CASE d < L
      <4> DEFINE part == Level(level.price, level.volume - (base - m.rem), rest, level.cancelled - m.seen)
      <4>1. y.levels = [x.levels EXCEPT ![n] = part] /\ y.done
        BY <3>1, <3>7, <3>16, Zenon
      <4>2. rest \in Seq(Orders) /\ Len(rest) = L - d /\ \A k \in 1 .. L - d : rest[k] = m.orders[d + k]
        <5>1. d + 1 \in Nat /\ L \in Nat /\ d + 1 >= 1 /\ d + 1 <= L + 1 /\ L <= Len(m.orders)
              /\ L - (d + 1) + 1 = L - d
          <6>1. L \in Nat /\ d \in 0 .. L /\ Len(m.orders) = L
            BY <3>4, <3>7, Zenon
          <6> HIDE DEF L, d
          <6>. QED BY <6>1
        <5>2. rest = SubSeq(m.orders, d + 1, L)
          BY <3>7, Zenon
        <5>3. \A k \in 1 .. L - d : (d + 1) + k - 1 = d + k
          BY <3>4, <3>7
        <5> HIDE DEF rest, d, L
        <5>4. /\ rest \in Seq(Orders) /\ Len(rest) = L - (d + 1) + 1
              /\ \A k \in 1 .. L - (d + 1) + 1 : rest[k] = m.orders[(d + 1) + k - 1]
          <6>1. IsPart(Orders, SubSeq(m.orders, d + 1, L), m.orders, d + 1, L)
            BY <3>7, <5>1, SubSeqOf, Zenon
          <6>2. IsPart(Orders, rest, m.orders, d + 1, L)
            BY <5>2, <6>1, Zenon
          <6>. QED BY <6>2, Zenon DEF IsPart
        <5>. QED BY <5>1, <5>3, <5>4, Zenon
      <4>3. part.price = level.price /\ part.orders = rest
        BY Zenon DEF Level
      <4>4. part \in Levels
        <5>1. level.volume - (base - m.rem) \in Int /\ level.cancelled - m.seen \in Int
          <6>1. \A v, b, r \in Int : v - (b - r) \in Int /\ v - r \in Int
            OBVIOUS
          <6>2. base \in Int /\ m.rem \in Int /\ m.seen \in Int
            BY <3>5, <3>7
          <6>. QED BY <3>4, <6>1, <6>2, Zenon
        <5>. QED BY <3>4, <4>2, <5>1, Zenon DEF Level, Levels
      <4> HIDE DEF part, rest
      <4>5. /\ y.levels \in Seq(Levels) /\ Len(y.levels) = n /\ y.levels[n] = part
            /\ DOMAIN y.levels = DOMAIN x.levels
            /\ \A j \in DOMAIN x.levels : j # n => y.levels[j] = x.levels[j]
        <5>1. IsPut(Levels, [x.levels EXCEPT ![n] = part], x.levels, n, part)
          BY <2>1, <3>2, <4>4, PutOf, Zenon
        <5>. QED BY <4>1, <5>1, Zenon DEF IsPut, n
      <4>6. DOMAIN rest = 1 .. L - d /\ 1 \in DOMAIN rest /\ d \in Nat /\ L - (L - d) = d
        <5>1. L \in Nat /\ d \in 0 .. L /\ d < L
          BY <3>4, <3>7, <3>16, Zenon
        <5>2. DOMAIN rest = 1 .. Len(rest)
          BY <4>2
        <5> HIDE DEF L, d
        <5>3. 1 \in 1 .. L - d /\ d \in Nat /\ L - (L - d) = d
          BY <5>1
        <5>. QED BY <4>2, <5>2, <5>3, Zenon
      <4>7. PartOf(levels[n], part, m.residual)
        <5>1. ASSUME NEW k \in DOMAIN rest, k > 1 \/ m.residual = {}
              PROVE  rest[k] = level.orders[d + k]
          <6>1. d + k \in 1 .. L /\ d + k > d /\ (k > 1 => d + k > d + 1)
            <7>1. L \in Nat /\ d \in Nat /\ k \in 1 .. L - d
              BY <3>4, <4>6, <5>1, Zenon
            <7> HIDE DEF L, d
            <7>. QED BY <7>1
          <6>2. rest[k] = m.orders[d + k]
            BY <4>2, <4>6, Zenon
          <6>. QED BY <3>13, <5>1, <6>1, <6>2, Zenon
        <5>2. rest[1] = m.orders[d + 1]
          BY <4>2, <4>6, Zenon
        <5>3. Len(level.orders) - Len(part.orders) = d
          BY <4>2, <4>3, <4>6, Zenon
        <5>. QED BY <3>3, <3>13, <4>3, <4>6, <5>1, <5>2, <5>3, ZenonT(40) DEF PartOf
      <4>8. ASSUME NEW j \in DOMAIN levels, NEW k \in DOMAIN levels[j].orders
            PROVE  Gone(levels, y.levels, j, k) <=> j > n \/ (j = n /\ k <= d)
        <5>1. j = n => Len(levels[j].orders) - Len(y.levels[j].orders) = d
          BY <3>3, <4>2, <4>3, <4>5, <4>6, Zenon
        <5>. QED BY <4>5, <5>1, Zenon DEF Gone
      <4>9. \A j \in DOMAIN y.levels : j < n => y.levels[j] = levels[j]
        <5>1. \A j \in Nat : j < n => j # n
          BY <2>1
        <5>2. \A j \in DOMAIN y.levels : j \in Nat
          BY <2>1, <4>5
        <5>. QED BY <3>3, <4>5, <5>1, <5>2, Zenon
      <4>10. n <= Len(levels) /\ n > 0
        BY <3>2
      <4>11. Left(levels, y)
        BY <3>11, <3>14, <3>15, <4>5, <4>7, <4>8, <4>9, <4>10, Zenon DEF Left
      <4>. QED BY <3>1, <3>8, <3>9, <3>10, <4>1, <4>11, Zenon DEF ExecOK
    <3>17. CASE d = L
      <4>1. y.levels = SubSeq(x.levels, 1, n - 1) /\ ~y.done /\ m.residual = {}
        <5>1. ~(d < L)
          BY <3>4, <3>17
        <5>. QED BY <3>1, <3>7, <3>13, <5>1, Zenon
      <4>2. /\ y.levels \in Seq(Levels) /\ Len(y.levels) = n - 1 /\ DOMAIN y.levels = 1 .. n - 1
            /\ \A j \in DOMAIN y.levels : y.levels[j] = x.levels[j] /\ j \in DOMAIN x.levels
        <5>1. /\ y.levels \in Seq(Levels) /\ Len(y.levels) = n - 1
          BY <2>1, <3>2, <4>1 DEF n
        <5>2. DOMAIN y.levels = 1 .. n - 1
          BY <5>1
        <5>3. \A j \in 1 .. n - 1 : y.levels[j] = x.levels[j] /\ j \in 1 .. n
          BY <2>1, <3>2, <4>1 DEF n
        <5>. QED BY <2>1, <5>1, <5>2, <5>3, Zenon DEF n
      <4>3. \A j \in DOMAIN y.levels : y.levels[j] = levels[j]
        BY <3>3, <4>2, Zenon
      <4>4. ASSUME n - 1 > 0
            PROVE  PartOf(levels[n - 1], y.levels[n - 1], y.residual)
        <5>1. n - 1 \in DOMAIN y.levels /\ n - 1 \in DOMAIN levels
          BY <2>1, <3>2, <4>2, <4>4
        <5>2. y.levels[n - 1] = levels[n - 1] /\ levels[n - 1] \in Levels
          BY <4>3, <5>1
        <5> DEFINE l == levels[n - 1]
        <5>3. Len(l.orders) - Len(l.orders) = 0 /\ \A k \in DOMAIN l.orders : 0 + k = k
          <6>1. l.orders \in Seq(Orders)
            BY <5>2, Zenon DEF Levels
          <6> HIDE DEF l
          <6>2. Len(l.orders) \in Nat /\ \A k \in DOMAIN l.orders : k \in Nat
            BY <6>1
          <6>3. \A k \in Nat : 0 + k = k /\ k - k = 0
            OBVIOUS
          <6>. QED BY <6>2, <6>3, Zenon
        <5>4. y.residual = {} /\ 0 \in Nat
          BY <3>14, <4>1, Zenon
        <5>5. PartOf(l, l, y.residual)
          <6> HIDE DEF l
          <6>. QED BY <5>3, <5>4, Zenon DEF PartOf
        <5>. QED BY <5>2, <5>5, Zenon
      <4>5. ASSUME NEW j \in DOMAIN levels, NEW k \in DOMAIN levels[j].orders
            PROVE  Gone(levels, y.levels, j, k) <=> j > n \/ (j = n /\ k <= d)
        <5>1. j > n - 1 <=> j > n \/ j = n
          BY <2>1, <3>2
        <5>2. j = n => k <= d
          BY <3>3, <3>4, <3>17
        <5>3. j = n - 1 => ~(k <= Len(levels[j].orders) - Len(y.levels[j].orders))
          <6>1. ASSUME j = n - 1 PROVE j \in DOMAIN y.levels
            BY <2>1, <3>2, <4>2, <6>1
          <6>2. levels[j] \in Levels
            BY <4>5
          <6>3. levels[j].orders \in Seq(Orders)
            BY <6>2, Zenon DEF Levels
          <6>4. k > 0 /\ k \in Nat /\ Len(levels[j].orders) \in Nat
            BY <6>3
          <6>5. ~(k <= Len(levels[j].orders) - Len(levels[j].orders))
            BY <6>4
          <6>. QED BY <4>3, <6>1, <6>5, Zenon
        <5>. QED BY <4>2, <5>1, <5>2, <5>3, Zenon DEF Gone
      <4>6. n - 1 <= Len(levels)
        BY <2>1, <3>2
      <4>7. Left(levels, y)
        BY <3>11, <3>14, <3>15, <4>1, <4>2, <4>3, <4>4, <4>5, <4>6, Zenon DEF Left
      <4>8. ASSUME ~in_quote
            PROVE  n - 1 = Len(levels) - i
        <5>1. \/ n = Len(levels) - (i - 1)
              \/ n > 0 /\ ~Crossed(x.levels, limit)
          BY <2>4, <4>8, Zenon DEF ExecOK, n
        <5>2. Crossed(x.levels, limit)
          BY <2>4, Zenon DEF Crossed, level, n
        <5>. QED BY <2>1, <5>1, <5>2
      <4>. QED BY <3>1, <3>8, <3>9, <3>10, <3>14, <4>1, <4>2, <4>3, <4>7, <4>8, Zenon DEF ExecOK
    <3>18. d < L \/ d = L
      BY <3>4, <3>7
    <3>. QED BY <3>16, <3>17, <3>18, Zenon
  <2>. QED BY <2>3, <2>4, Zenon
<1> SUFFICES ASSUME NEW levels \in Seq(Levels), NEW size \in Nat, NEW in_quote \in BOOLEAN, NEW self, NEW limit
             PROVE  ExecOK(levels, size, in_quote, limit, Len(levels), Execute(levels, size, in_quote, self, limit))
  BY Zenon
<1> DEFINE after == Executing(levels, size, in_quote, self, limit)
           S == {i \in 0 .. Len(levels) : ExecOK(levels, size, in_quote, limit, i, after[i])}
<1>1. Len(levels) \in Nat /\ DOMAIN levels = 1 .. Len(levels)
  OBVIOUS
<1>2. after = [i \in 0 .. Len(levels) |-> IF i = 0 THEN [rem |-> size, done |-> FALSE, levels |-> levels, filled |-> << >>,
                base |-> 0, quote |-> 0, last |-> 0, residual |-> {}]
                ELSE ExecuteLevel(after[i - 1], in_quote, self, limit)]
  BY <1>1, <1>ExecutingLoop
<1> HIDE DEF after
<1>3. 0 \in S
  <2>1. after[0] = [rem |-> size, done |-> FALSE, levels |-> levels, filled |-> << >>,
                base |-> 0, quote |-> 0, last |-> 0, residual |-> {}]
    BY <1>1, <1>2
  <2> DEFINE x == after[0]
  <2>2. /\ x.rem = size /\ x.done = FALSE /\ x.levels = levels /\ x.filled = << >>
        /\ x.base = 0 /\ x.quote = 0 /\ x.last = 0 /\ x.residual = {}
    BY <2>1
  <2> HIDE DEF x
  <2>3. \A i \in DOMAIN levels :
          /\ levels[i].orders \in Seq(Orders)
          /\ Len(levels[i].orders) - Len(levels[i].orders) = 0
          /\ \A k \in DOMAIN levels[i].orders : 0 + k = k /\ ~(k <= 0)
    <3> SUFFICES ASSUME NEW i \in DOMAIN levels
                 PROVE  /\ levels[i].orders \in Seq(Orders)
                        /\ Len(levels[i].orders) - Len(levels[i].orders) = 0
                        /\ \A k \in DOMAIN levels[i].orders : 0 + k = k /\ ~(k <= 0)
      BY Zenon
    <3>1. levels[i] \in Levels
      OBVIOUS
    <3>2. levels[i].orders \in Seq(Orders)
      BY <3>1, Zenon DEF Levels
    <3>3. Len(levels[i].orders) \in Nat /\ \A k \in DOMAIN levels[i].orders : k \in Nat \ {0}
      BY <3>2
    <3>4. \A k \in Nat : k - k = 0 /\ 0 + k = k /\ (k # 0 => ~(k <= 0))
      OBVIOUS
    <3>5. \A k \in Nat \ {0} : 0 + k = k /\ ~(k <= 0)
      OBVIOUS
    <3>. QED BY <3>2, <3>3, <3>4, <3>5, Zenon
  <2>4. Len(levels) > 0 => PartOf(levels[Len(levels)], levels[Len(levels)], {})
    <3>1. Len(levels) > 0 => Len(levels) \in DOMAIN levels
      BY <1>1
    <3>2. 0 \in Nat
      BY Zenon
    <3>. QED BY <2>3, <3>1, <3>2, Zenon DEF PartOf
  <2>5. \A i \in DOMAIN levels : \A k \in DOMAIN levels[i].orders : ~Gone(levels, levels, i, k)
    <3>1. \A i \in DOMAIN levels : ~(i > Len(levels))
      BY <1>1
    <3>. QED BY <2>3, <3>1, Zenon DEF Gone
  <2>6. Left(levels, x)
    <3>1. Len(levels) <= Len(levels) /\ << >> \in Seq(Orders) /\ \A f \in DOMAIN << >> : FALSE
      BY <1>1
    <3>. QED BY <2>2, <2>4, <2>5, <3>1, Zenon DEF Left
  <2>7. x.rem \in 0 .. size /\ 0 \in Nat /\ Len(x.levels) = Len(levels) - 0 /\ FALSE \in BOOLEAN
    BY <1>1, <2>2
  <2>8. ExecOK(levels, size, in_quote, limit, 0, x)
    BY <2>2, <2>6, <2>7, Zenon DEF ExecOK
  <2>9. 0 \in 0 .. Len(levels)
    BY <1>1
  <2>. QED BY <2>8, <2>9, Zenon DEF x
<1>4. ASSUME NEW i \in 0 .. Len(levels) - 1, i \in S PROVE i + 1 \in S
  <2>1. i + 1 \in 1 .. Len(levels) /\ (i + 1) - 1 = i /\ i + 1 \in 0 .. Len(levels) /\ i + 1 # 0
    BY <1>1
  <2>2. ExecOK(levels, size, in_quote, limit, (i + 1) - 1, after[i])
    BY <1>4, <2>1, Zenon
  <2>3. ExecOK(levels, size, in_quote, limit, i + 1, ExecuteLevel(after[i], in_quote, self, limit))
    BY <2>1, <2>2, <1>ExecStep, Zenon
  <2>4. after[i + 1] = ExecuteLevel(after[(i + 1) - 1], in_quote, self, limit)
    BY <1>2, <2>1, Zenon
  <2>. QED BY <2>1, <2>3, <2>4, Zenon
<1> HIDE DEF S
<1>5. Len(levels) \in S
  <2>1. Len(levels) \in 0 .. Len(levels)
    BY <1>1
  <2>. QED BY <1>1, <1>3, <1>4, <2>1, Induction, Zenon
<1>. QED BY <1>5, Zenon DEF S, Execute, after

-----------------------------------------------------------------------------
(* What is left of a side is in order                                      *)

\* How many orders a level has lost.
Off(levels, y, i) == Len(levels[i].orders) - Len(y[i].orders)

\* Where an order that is left was before, and what became of it.
Stays(levels, x, i, k) ==
    /\ Off(levels, x.levels, i) + k \in DOMAIN levels[i].orders
    /\ Same(x.levels[i].orders[k], levels[i].orders[Off(levels, x.levels, i) + k])
    /\ ~Gone(levels, x.levels, i, Off(levels, x.levels, i) + k)
    /\ LET o == levels[i].orders[Off(levels, x.levels, i) + k]
       IN \/ x.levels[i].orders[k] = o /\ \A r \in x.residual : i = Len(x.levels) => k # 1
          \/ /\ i = Len(x.levels) /\ k = 1
             /\ \E r \in x.residual : /\ x.residual = {r} /\ ResidualOf(r, o)
                                      /\ x.levels[i].orders[k] = Filled(o, r.filled_base_lots, r.self_fill)

\* Every level that is left stands where it stood, at its price, and so do its orders.
LEMMA LeftLevels ==
    ASSUME NEW levels \in Seq(Levels), NEW x, Left(levels, x)
    PROVE  \A i \in DOMAIN x.levels :
             /\ i \in DOMAIN levels /\ x.levels[i].price = levels[i].price
             /\ Off(levels, x.levels, i) \in Nat /\ x.levels[i].orders \in Seq(Orders)
             /\ levels[i].orders \in Seq(Orders)
             /\ \A k \in DOMAIN x.levels[i].orders : Stays(levels, x, i, k)
             /\ i < Len(x.levels) => x.levels[i] = levels[i]
<1> DEFINE y == x.levels
           n == Len(y)
<1>1. y \in Seq(Levels) /\ n <= Len(levels) /\ DOMAIN y = 1 .. n /\ n \in Nat
      /\ Len(levels) \in Nat /\ DOMAIN levels = 1 .. Len(levels)
  <2>1. x.levels \in Seq(Levels) /\ Len(x.levels) <= Len(levels)
    BY Zenon DEF Left
  <2>. QED BY <2>1
<1> SUFFICES ASSUME NEW i \in DOMAIN y
             PROVE  /\ i \in DOMAIN levels /\ y[i].price = levels[i].price
                    /\ Off(levels, y, i) \in Nat /\ y[i].orders \in Seq(Orders)
                    /\ levels[i].orders \in Seq(Orders)
                    /\ \A k \in DOMAIN y[i].orders : Stays(levels, x, i, k)
                    /\ i < n => y[i] = levels[i]
  BY Zenon
<1> HIDE DEF y, n
<1>2. i \in DOMAIN levels /\ i \in Nat /\ (i < n \/ i = n) /\ y[i] \in Levels /\ levels[i] \in Levels
      /\ ~(i > n) /\ (i = n => n > 0)
  BY <1>1
<1>3. y[i].orders \in Seq(Orders) /\ levels[i].orders \in Seq(Orders)
  BY <1>2, Zenon DEF Levels
<1>4. /\ Len(y[i].orders) \in Nat /\ Len(levels[i].orders) \in Nat
      /\ DOMAIN y[i].orders = 1 .. Len(y[i].orders)
      /\ DOMAIN levels[i].orders = 1 .. Len(levels[i].orders)
  BY <1>3
<1> DEFINE d == Off(levels, y, i)
<1>5. CASE i < n
  <2>1. y[i] = levels[i] /\ i # n
    <3>1. i # n
      BY <1>1, <1>2, <1>5, Zenon
    <3>. QED BY <1>5, <3>1, Zenon DEF Left, y, n
  <2>2. d = 0 /\ d \in Nat
    BY <1>4, <2>1 DEF Off
  <2>3. ASSUME NEW k \in DOMAIN y[i].orders
        PROVE  Stays(levels, x, i, k)
    <3>1. d + k = k /\ d + k \in DOMAIN levels[i].orders
      BY <1>4, <2>1, <2>2
    <3>2. ~Gone(levels, y, i, d + k)
      BY <1>2, <2>1, Zenon DEF Gone, n
    <3>3. Same(y[i].orders[k], levels[i].orders[d + k])
      BY <2>1, <3>1, Zenon DEF Same
    <3>. QED BY <2>1, <3>1, <3>2, <3>3, Zenon DEF Stays, y, n
  <2>. QED BY <1>2, <1>3, <2>1, <2>2, <2>3, Zenon
<1>6. CASE i = n
  <2>1. PartOf(levels[i], y[i], x.residual)
    BY <1>2, <1>6, Zenon DEF Left, y, n
  <2>2. /\ y[i].price = levels[i].price /\ d \in Nat
        /\ \A k \in DOMAIN y[i].orders : k > 1 \/ x.residual = {} => y[i].orders[k] = levels[i].orders[d + k]
        /\ \A r \in x.residual :
             /\ x.residual = {r} /\ 1 \in DOMAIN y[i].orders
             /\ ResidualOf(r, levels[i].orders[d + 1])
             /\ y[i].orders[1] = Filled(levels[i].orders[d + 1], r.filled_base_lots, r.self_fill)
    BY <2>1, Zenon DEF PartOf, Off
  <2>3. ASSUME NEW k \in DOMAIN y[i].orders
        PROVE  Stays(levels, x, i, k)
    <3>1. d + k \in DOMAIN levels[i].orders /\ ~(d + k <= d) /\ (k > 1 \/ k = 1) /\ (k > 1 => k # 1)
      <4>1. d = Len(levels[i].orders) - Len(y[i].orders)
        BY Zenon DEF Off
      <4>2. d \in Nat
        BY <2>2, Zenon
      <4> HIDE DEF d
      <4>3. \A e, u, v \in Nat : e = u - v =>
              \A l \in 1 .. v : e + l \in 1 .. u /\ ~(e + l <= e) /\ (l > 1 \/ l = 1) /\ (l > 1 => l # 1)
        OBVIOUS
      <4>4. k \in 1 .. Len(y[i].orders) /\ Len(y[i].orders) \in Nat /\ Len(levels[i].orders) \in Nat
        BY <1>4, Zenon
      <4>5. /\ d + k \in 1 .. Len(levels[i].orders)
            /\ ~(d + k <= d) /\ (k > 1 \/ k = 1) /\ (k > 1 => k # 1)
        BY <4>1, <4>2, <4>3, <4>4, ZenonT(40)
      <4>. QED BY <1>4, <4>5, Zenon
    <3>2. ~Gone(levels, y, i, d + k)
      BY <1>2, <3>1, Zenon DEF Gone, n, Off
    <3>3. CASE k > 1 \/ x.residual = {}
      <4>1. y[i].orders[k] = levels[i].orders[d + k]
        BY <2>2, <3>3, Zenon
      <4>2. Same(y[i].orders[k], levels[i].orders[d + k])
        BY <4>1, Zenon DEF Same
      <4>. QED BY <3>1, <3>2, <3>3, <4>1, <4>2, Zenon DEF Stays, y
    <3>4. CASE ~(k > 1 \/ x.residual = {})
      <4>1. PICK r \in x.residual : TRUE
        BY <3>4, Zenon
      <4>2. k = 1
        BY <3>1, <3>4, Zenon
      <4>3. /\ x.residual = {r} /\ ResidualOf(r, levels[i].orders[d + k])
            /\ y[i].orders[k] = Filled(levels[i].orders[d + k], r.filled_base_lots, r.self_fill)
        BY <2>2, <4>2, Zenon
      <4>4. Same(y[i].orders[k], levels[i].orders[d + k])
        <5>1. Same(Filled(levels[i].orders[d + k], r.filled_base_lots, r.self_fill), levels[i].orders[d + k])
          BY FilledFields, Zenon
        <5>. QED BY <4>3, <5>1, Zenon
      <4>. QED BY <1>6, <3>1, <3>2, <4>2, <4>3, <4>4, Zenon DEF Stays, y, n
    <3>. QED BY <3>3, <3>4, Zenon
  <2>4. ~(i < n)
    BY <1>1, <1>6
  <2>. QED BY <1>2, <1>3, <2>2, <2>3, <2>4, Zenon
<1>. QED BY <1>2, <1>5, <1>6, Zenon

\* So it is in order as before.
LEMMA LeftSide ==
    ASSUME NEW side, NEW levels, NEW n, SideOK(side, levels, n), NEW x, Left(levels, x)
    PROVE  SideOK(side, x.levels, n)
<1> DEFINE y == x.levels
           d(i) == Off(levels, y, i)
<1>1. levels \in Seq(Levels) /\ y \in Seq(Levels)
  BY Zenon DEF SideOK, Left
<1>2. \A i \in DOMAIN y :
        /\ i \in DOMAIN levels /\ y[i].price = levels[i].price
        /\ d(i) \in Nat /\ y[i].orders \in Seq(Orders)
        /\ \A k \in DOMAIN y[i].orders :
             d(i) + k \in DOMAIN levels[i].orders /\ Same(y[i].orders[k], levels[i].orders[d(i) + k])
  <2>1. \A i \in DOMAIN y :
          /\ i \in DOMAIN levels /\ y[i].price = levels[i].price
          /\ d(i) \in Nat /\ y[i].orders \in Seq(Orders)
          /\ \A k \in DOMAIN y[i].orders : Stays(levels, x, i, k)
    BY <1>1, LeftLevels, ZenonT(60)
  <2>. QED BY <2>1, Zenon DEF Stays
<1> HIDE DEF y, d
<1>3. ASSUME NEW i \in DOMAIN y
      PROVE  LevelOK(side, y[i], n)
  <2>1. LevelOK(side, levels[i], n)
    BY <1>2, Zenon DEF SideOK
  <2>2. ASSUME NEW k \in DOMAIN y[i].orders
        PROVE  /\ y[i].orders[k].id < n /\ y[i].orders[k].direction = side
               /\ y[i].orders[k].price = y[i].price
    BY <1>2, <2>1, ZenonT(60) DEF LevelOK, Same
  <2>3. ASSUME NEW j \in DOMAIN y[i].orders, NEW k \in DOMAIN y[i].orders, j < k
        PROVE  y[i].orders[j].id < y[i].orders[k].id
    <3>1. d(i) + j < d(i) + k
      <4>1. j \in Nat /\ k \in Nat /\ d(i) \in Nat
        BY <1>2
      <4>. QED BY <2>3, <4>1
    <3>. QED BY <1>2, <2>1, <3>1, Zenon DEF LevelOK, IdsGrow, Same
  <2>. QED BY <2>2, <2>3, Zenon DEF LevelOK, IdsGrow
<1>4. ASSUME NEW i \in DOMAIN y, NEW j \in DOMAIN y, i < j
      PROVE  /\ Worse(side, y[i].price, y[j].price)
             /\ Apart(y[i].orders, y[j].orders)
  <2>1. Worse(side, levels[i].price, levels[j].price) /\ Apart(levels[i].orders, levels[j].orders)
    BY <1>2, <1>4, Zenon DEF SideOK
  <2>2. Worse(side, y[i].price, y[j].price)
    BY <1>2, <2>1, Zenon
  <2>3. Apart(y[i].orders, y[j].orders)
    <3> SUFFICES ASSUME NEW k \in DOMAIN y[i].orders, NEW l \in DOMAIN y[j].orders
                 PROVE  y[i].orders[k].id # y[j].orders[l].id
      BY Zenon DEF Apart
    <3>1. y[i].orders[k].id = levels[i].orders[d(i) + k].id /\ d(i) + k \in DOMAIN levels[i].orders
      BY <1>2, Zenon DEF Same
    <3>2. y[j].orders[l].id = levels[j].orders[d(j) + l].id /\ d(j) + l \in DOMAIN levels[j].orders
      BY <1>2, Zenon DEF Same
    <3>. QED BY <2>1, <3>1, <3>2, Zenon DEF Apart
  <2>. QED BY <2>2, <2>3, Zenon
<1>. QED BY <1>1, <1>3, <1>4, Zenon DEF SideOK, y

\* An order of some levels.
LEMMA InOrdersOf ==
    ASSUME NEW levels
    PROVE  /\ \A i \in DOMAIN levels : \A k \in DOMAIN levels[i].orders : levels[i].orders[k] \in OrdersOf(levels)
           /\ \A o \in OrdersOf(levels) : \E i \in DOMAIN levels : \E k \in DOMAIN levels[i].orders :
                o = levels[i].orders[k]
<1>1. ASSUME NEW i \in DOMAIN levels, NEW k \in DOMAIN levels[i].orders
      PROVE  levels[i].orders[k] \in OrdersOf(levels)
  BY DEF OrdersOf
<1>2. ASSUME NEW o \in OrdersOf(levels)
      PROVE  \E i \in DOMAIN levels : \E k \in DOMAIN levels[i].orders : o = levels[i].orders[k]
  BY Zenon DEF OrdersOf
<1>. QED BY <1>1, <1>2, Zenon

\* An order of a side.
LEMMA SideOrders ==
    ASSUME NEW side, NEW levels, NEW n, SideOK(side, levels, n)
    PROVE  /\ \A o \in OrdersOf(levels) : o \in Orders /\ o.id < n /\ o.direction = side
           /\ \A o, p \in OrdersOf(levels) : o.id = p.id => o = p
<1>1. levels \in Seq(Levels) /\ DOMAIN levels \subseteq Nat
  <2>1. levels \in Seq(Levels)
    BY Zenon DEF SideOK
  <2>. QED BY <2>1
<1>2. ASSUME NEW i \in DOMAIN levels
      PROVE  /\ levels[i].orders \in Seq(Orders) /\ DOMAIN levels[i].orders \subseteq Nat
             /\ \A k \in DOMAIN levels[i].orders : levels[i].orders[k] \in Orders
  <2>1. levels[i] \in Levels
    BY <1>1
  <2>2. levels[i].orders \in Seq(Orders)
    BY <2>1, Zenon DEF Levels
  <2>. QED BY <2>2
<1>3. ASSUME NEW o \in OrdersOf(levels)
      PROVE  o \in Orders /\ o.id < n /\ o.direction = side
  <2>1. PICK i \in DOMAIN levels : \E k \in DOMAIN levels[i].orders : o = levels[i].orders[k]
    BY InOrdersOf, Zenon
  <2>2. LevelOK(side, levels[i], n)
    BY Zenon DEF SideOK
  <2>. QED BY <1>2, <2>1, <2>2, Zenon DEF LevelOK
<1>4. ASSUME NEW o \in OrdersOf(levels), NEW p \in OrdersOf(levels), o.id = p.id
      PROVE  o = p
  <2>1. PICK i \in DOMAIN levels : \E k \in DOMAIN levels[i].orders : o = levels[i].orders[k]
    BY InOrdersOf, Zenon
  <2>2. PICK k \in DOMAIN levels[i].orders : o = levels[i].orders[k]
    BY <2>1, Zenon
  <2>3. PICK j \in DOMAIN levels : \E l \in DOMAIN levels[j].orders : p = levels[j].orders[l]
    BY InOrdersOf, Zenon
  <2>4. PICK l \in DOMAIN levels[j].orders : p = levels[j].orders[l]
    BY <2>3, Zenon
  <2>5. i = j
    <3>1. ~(i < j) /\ ~(j < i)
      BY <1>4, <2>2, <2>4, Zenon DEF SideOK, Apart
    <3>. QED BY <1>1, <3>1
  <2>6. LevelOK(side, levels[i], n)
    BY Zenon DEF SideOK
  <2>7. ~(k < l) /\ ~(l < k)
    <3>1. o.id \in Nat /\ ~(o.id < o.id)
      <4>1. o \in Orders
        BY <1>2, <2>2, Zenon
      <4>2. o.id \in Nat
        BY <4>1, OrderFields, Zenon
      <4>. QED BY <4>2
    <3>2. k < l => o.id < p.id
      BY <2>2, <2>4, <2>5, <2>6, Zenon DEF LevelOK, IdsGrow
    <3>3. l < k => p.id < o.id
      BY <2>2, <2>4, <2>5, <2>6, Zenon DEF LevelOK, IdsGrow
    <3>. QED BY <1>4, <3>1, <3>2, <3>3, Zenon
  <2>8. k = l
    BY <1>2, <2>5, <2>7
  <2>. QED BY <2>2, <2>4, <2>5, <2>8, Zenon
<1>. QED BY <1>3, <1>4, Zenon

\* Of two different prices one is worse than the other, and not the other way around.
LEMMA WorsePrices ==
    ASSUME NEW side, NEW p \in Nat, NEW q \in Nat
    PROVE  /\ p # q => (Worse(side, p, q) <=> ~Worse(side, q, p))
           /\ ~Worse(side, p, p)
           /\ \A r \in Nat : Worse(side, p, q) /\ Worse(side, q, r) => Worse(side, p, r)
           /\ Worse(side, p, q) \in BOOLEAN
<1>1. CASE side = "Buy"
  BY <1>1 DEF Worse
<1>2. CASE side # "Buy"
  BY <1>2 DEF Worse
<1>. QED BY <1>1, <1>2, Zenon

-----------------------------------------------------------------------------
(* A new order                                                             *)

\* A level put between others.
IsInserted(S, c, s, k, e) ==
    /\ c \in Seq(S) /\ Len(c) = Len(s) + 1
    /\ \A i \in DOMAIN c :
         \/ i = k + 1 /\ c[i] = e
         \/ i <= k /\ i \in DOMAIN s /\ c[i] = s[i]
         \/ i > k + 1 /\ i - 1 \in DOMAIN s /\ c[i] = s[i - 1]
    /\ \A i \in DOMAIN s :
         \/ i <= k /\ i \in DOMAIN c /\ c[i] = s[i]
         \/ i > k /\ i + 1 \in DOMAIN c /\ c[i + 1] = s[i]
    /\ k + 1 \in DOMAIN c /\ c[k + 1] = e

\* The fields of a level.
LEMMA LevelFields ==
    ASSUME NEW l \in Levels
    PROVE  /\ l.price \in Prices /\ l.price \in Nat \ {0} /\ l.volume \in Int
           /\ l.orders \in Seq(Orders) /\ l.cancelled \in Int
<1>1. /\ l.price \in Prices /\ l.volume \in Int
      /\ l.orders \in Seq(Orders) /\ l.cancelled \in Int
  BY Zenon DEF Levels
<1>2. Prices \subseteq Nat \ {0}
  BY BookAssumption, Zenon
<1>. QED BY <1>1, <1>2, Zenon

\* The ids that were given out stay below the next one.
LEMMA LevelLater ==
    ASSUME NEW side, NEW level \in Levels, NEW n \in Nat, LevelOK(side, level, n)
    PROVE  LevelOK(side, level, n + 1)
<1>1. level.orders \in Seq(Orders)
  BY LevelFields, Zenon
<1>2. \A k \in DOMAIN level.orders : level.orders[k].id < n + 1
  <2> SUFFICES ASSUME NEW k \in DOMAIN level.orders PROVE level.orders[k].id < n + 1
    BY Zenon
  <2>1. level.orders[k] \in Orders
    BY <1>1
  <2>2. level.orders[k].id \in Nat
    BY <2>1, OrderFields, Zenon
  <2>3. level.orders[k].id < n
    BY Zenon DEF LevelOK
  <2>. QED BY <2>2, <2>3
<1>. QED BY <1>2, Zenon DEF LevelOK

\* An appended order with a later id.
IsAppended(side, new, level, o, n) ==
    /\ LevelOK(side, new, n + 1)
    /\ \A k \in DOMAIN new.orders :
         new.orders[k] = o \/ \E l \in DOMAIN level.orders : new.orders[k] = level.orders[l]
    /\ \A l \in DOMAIN level.orders : l \in DOMAIN new.orders /\ new.orders[l] = level.orders[l]
    /\ \E k \in DOMAIN new.orders : new.orders[k] = o

\* A side with a new order in it is in order, and has that order more.
IsAdded(side, levels, o, n, new) ==
    /\ SideOK(side, new, n + 1)
    /\ OrdersOf(new) = OrdersOf(levels) \cup {o}
    /\ PricesOf(new) \subseteq PricesOf(levels) \cup {o.price}
    /\ ~BadLevels(levels) => ~BadLevels(new)

\* add_order_with_cmp adds an order.
LEMMA AddSide ==
    \A side \in Sides : \A levels : \A n \in Nat, o \in Orders :
        (/\ SideOK(side, levels, n)
         /\ o.id = n
         /\ o.direction = side) => IsAdded(side, levels, o, n, add_order_with_cmp(levels, o))
\* Vec::insert puts it there and moves the others.
<1>InsertedAt. ASSUME NEW S, NEW s \in Seq(S), NEW k \in 0 .. Len(s), NEW e \in S
               PROVE  IsInserted(S, Inserted(s, k, e), s, k, e)
  <2> USE <1>InsertedAt
  <2> DEFINE a == SubSeq(s, 1, k)
             b == SubSeq(s, k + 1, Len(s))
             u == a \o <<e>>
             c == u \o b
  <2>1. Inserted(s, k, e) = c
    BY Zenon DEF Inserted
  <2>2. a \in Seq(S) /\ Len(a) = k /\ \A i \in 1 .. k : a[i] = s[i]
    OBVIOUS
  <2>3. b \in Seq(S) /\ Len(b) = Len(s) - k /\ \A i \in 1 .. Len(s) - k : b[i] = s[k + i]
    OBVIOUS
  <2>4. <<e>> \in Seq(S) /\ Len(<<e>>) = 1 /\ <<e>>[1] = e
    OBVIOUS
  <2> HIDE DEF a, b
  <2>5. u \in Seq(S) /\ Len(u) = k + 1 /\ (\A i \in 1 .. k : u[i] = s[i]) /\ u[k + 1] = e
    BY <2>2, <2>4
  <2> HIDE DEF u
  <2>6. /\ c \in Seq(S) /\ Len(c) = Len(s) + 1 /\ (\A i \in 1 .. k : c[i] = s[i]) /\ c[k + 1] = e
        /\ \A i \in k + 2 .. Len(s) + 1 : c[i] = s[i - 1]
    <3>1. IsConcat(S, c, u, b)
      BY <2>3, <2>5, ConcatOf, Zenon
    <3> HIDE DEF c
    <3>2. /\ c \in Seq(S) /\ Len(c) = Len(u) + Len(b)
          /\ \A i \in DOMAIN u : c[i] = u[i]
          /\ \A i \in DOMAIN b : c[Len(u) + i] = b[i]
      BY <3>1, Zenon DEF IsConcat
    <3>3. /\ DOMAIN u = 1 .. k + 1 /\ DOMAIN b = 1 .. Len(s) - k /\ Len(u) = k + 1 /\ Len(s) \in Nat
          /\ Len(b) = Len(s) - k
      BY <2>3, <2>5
    <3>4. (\A i \in 1 .. k : c[i] = s[i]) /\ c[k + 1] = e
      <4>1. k + 1 \in 1 .. k + 1 /\ \A i \in 1 .. k : i \in 1 .. k + 1
        OBVIOUS
      <4>. QED BY <2>5, <3>2, <3>3, <4>1, Zenon
    <3>5. ASSUME NEW i \in k + 2 .. Len(s) + 1
          PROVE  c[i] = s[i - 1]
      <4>1. i - (k + 1) \in 1 .. Len(s) - k /\ (k + 1) + (i - (k + 1)) = i /\ k + (i - (k + 1)) = i - 1
        BY <3>3
      <4>2. c[(k + 1) + (i - (k + 1))] = b[i - (k + 1)]
        BY <3>2, <3>3, <4>1, Zenon
      <4>3. b[i - (k + 1)] = s[k + (i - (k + 1))]
        BY <2>3, <4>1, Zenon
      <4>. QED BY <4>1, <4>2, <4>3, Zenon
    <3>6. Len(c) = Len(s) + 1
      BY <3>2, <3>3
    <3>. QED BY <3>2, <3>4, <3>5, <3>6, Zenon
  <2> HIDE DEF c
  <2>7. DOMAIN c = 1 .. Len(s) + 1 /\ DOMAIN s = 1 .. Len(s) /\ k \in Nat /\ Len(s) \in Nat /\ k <= Len(s)
    BY <2>6
  <2>8. ASSUME NEW i \in DOMAIN c
        PROVE  \/ i = k + 1 /\ c[i] = e
               \/ i <= k /\ i \in DOMAIN s /\ c[i] = s[i]
               \/ i > k + 1 /\ i - 1 \in DOMAIN s /\ c[i] = s[i - 1]
    BY <2>6, <2>7
  <2>9. ASSUME NEW i \in DOMAIN s
        PROVE  \/ i <= k /\ i \in DOMAIN c /\ c[i] = s[i]
               \/ i > k /\ i + 1 \in DOMAIN c /\ c[i + 1] = s[i]
    BY <2>6, <2>7
  <2>10. k + 1 \in DOMAIN c
    BY <2>7
  <2>. QED BY <2>1, <2>6, <2>8, <2>9, <2>10, Zenon DEF IsInserted
\* The position of a price that has no level.
<1>PositionOf. ASSUME NEW side, NEW levels, NEW n, SideOK(side, levels, n), NEW price \in Prices
               PROVE  /\ Position(levels, side, price) \in 0 .. Len(levels)
                      /\ \A i \in DOMAIN levels : Worse(side, levels[i].price, price) <=> i <= Position(levels, side, price)
  <2> USE <1>PositionOf
  <2>1. levels \in Seq(Levels) /\ Len(levels) \in Nat /\ DOMAIN levels = 1 .. Len(levels)
    <3>1. levels \in Seq(Levels)
      BY Zenon DEF SideOK
    <3>. QED BY <3>1
  <2>2. price \in Nat /\ \A i \in DOMAIN levels : levels[i].price \in Nat
    <3>1. ASSUME NEW i \in DOMAIN levels PROVE levels[i].price \in Prices
      <4>1. levels[i] \in Levels
        BY <2>1
      <4>. QED BY <4>1, Zenon DEF Levels
    <3>2. Prices \subseteq Nat
      BY BookAssumption, Zenon
    <3>. QED BY <3>1, <3>2, Zenon
  <2>3. \E k \in 0 .. Len(levels) : \A i \in DOMAIN levels : Worse(side, levels[i].price, price) <=> i <= k
    <3> DEFINE T == {i \in DOMAIN levels : ~Worse(side, levels[i].price, price)}
    <3>1. CASE T = {}
      <4>1. \A i \in DOMAIN levels : Worse(side, levels[i].price, price)
        BY <3>1, Zenon
      <4>2. Len(levels) \in 0 .. Len(levels) /\ \A i \in DOMAIN levels : i <= Len(levels)
        BY <2>1
      <4>. QED BY <4>1, <4>2, Zenon
    <3>2. CASE T # {}
      <4>1. T \subseteq Nat
        BY <2>1
      <4>2. PICK m \in T : \A i \in T : m <= i
        BY <3>2, <4>1, LeastNumber, Zenon
      <4>3. m - 1 \in 0 .. Len(levels) /\ m \in DOMAIN levels /\ m \in Nat
        BY <2>1, <4>2
      <4>4. ASSUME NEW i \in DOMAIN levels
            PROVE  Worse(side, levels[i].price, price) <=> i <= m - 1
        <5>1. CASE i < m
          <6>1. i <= m - 1 /\ ~(m <= i)
            BY <2>1, <4>3, <5>1
          <6>. QED BY <4>2, <6>1, Zenon
        <5>2. CASE i = m
          <6>1. ~(i <= m - 1)
            BY <4>3, <5>2
          <6>. QED BY <4>2, <5>2, <6>1, Zenon
        <5>3. CASE m < i
          <6>1. ~(i <= m - 1)
            BY <2>1, <4>3, <5>3
          <6>2. Worse(side, levels[m].price, levels[i].price)
            BY <4>3, <5>3, Zenon DEF SideOK
          <6>3. ~Worse(side, levels[m].price, price)
            BY <4>2, Zenon
          <6>4. ~Worse(side, levels[i].price, price)
            <7>1. levels[m].price \in Nat /\ levels[i].price \in Nat
              BY <2>2, <4>3, Zenon
            <7>. QED BY <2>2, <6>2, <6>3, <7>1, WorsePrices, Zenon
          <6>. QED BY <6>1, <6>4, Zenon
        <5>4. i < m \/ i = m \/ m < i
          BY <2>1, <4>3
        <5>. QED BY <5>1, <5>2, <5>3, <5>4, Zenon
      <4>. QED BY <4>3, <4>4, Zenon
    <3>. QED BY <3>1, <3>2, Zenon
  <2>. QED BY <2>3, Zenon DEF Position
\* Appending an order with a later id.
<1>AppendedLevel. ASSUME NEW side, NEW level \in Levels, NEW n \in Nat, LevelOK(side, level, n),
                         NEW o \in Orders, o.id = n, o.direction = side, o.price = level.price,
                         NEW new \in Levels, new.price = level.price, new.orders = Append(level.orders, o)
                  PROVE  IsAppended(side, new, level, o, n)
  <2> USE <1>AppendedLevel
  <2> DEFINE s == level.orders
             t == new.orders
             m == Len(s)
  <2>1. s \in Seq(Orders)
    BY LevelFields, Zenon
  <2> HIDE DEF s
  <2>2. /\ t \in Seq(Orders) /\ m \in Nat /\ DOMAIN t = 1 .. m + 1 /\ DOMAIN s = 1 .. m
        /\ t[m + 1] = o /\ \A k \in 1 .. m : t[k] = s[k]
    <3>1. t = Append(s, o)
      BY Zenon DEF s
    <3> HIDE DEF t
    <3>. QED BY <2>1, <3>1
  <2> HIDE DEF t, m
  <2>3. \A k \in DOMAIN t : (k = m + 1 /\ t[k] = o) \/ (k \in DOMAIN s /\ t[k] = s[k])
    BY <2>2
  <2>4. \A l \in DOMAIN s : l \in DOMAIN t /\ t[l] = s[l]
    BY <2>2
  <2>5. m + 1 \in DOMAIN t
    BY <2>2
  <2>6. \A l \in DOMAIN s : s[l] \in Orders /\ s[l].id \in Nat /\ s[l].id < n /\ s[l].direction = side /\ s[l].price = level.price
    <3> SUFFICES ASSUME NEW l \in DOMAIN s
                 PROVE  s[l] \in Orders /\ s[l].id \in Nat /\ s[l].id < n /\ s[l].direction = side /\ s[l].price = level.price
      BY Zenon
    <3>1. s[l] \in Orders
      BY <2>1
    <3>2. s[l].id \in Nat
      BY <3>1, OrderFields, Zenon
    <3>. QED BY <3>1, <3>2, Zenon DEF LevelOK, s
  <2>7. ASSUME NEW j \in DOMAIN t, NEW k \in DOMAIN t, j < k
        PROVE  t[j].id < t[k].id
    <3>1. j \in DOMAIN s /\ t[j] = s[j]
      BY <2>2, <2>7
    <3>2. CASE k = m + 1
      BY <2>2, <2>6, <3>1, <3>2, Zenon
    <3>3. CASE k \in DOMAIN s /\ t[k] = s[k]
      BY <2>7, <3>1, <3>3, Zenon DEF LevelOK, IdsGrow, s
    <3>. QED BY <2>3, <3>2, <3>3, Zenon
  <2>8. ASSUME NEW k \in DOMAIN t
        PROVE  t[k].id < n + 1 /\ t[k].direction = side /\ t[k].price = new.price
    <3>1. n < n + 1 /\ \A i \in Nat : i < n => i < n + 1
      OBVIOUS
    <3>2. CASE t[k] = o
      BY <3>1, <3>2, Zenon
    <3>3. CASE k \in DOMAIN s /\ t[k] = s[k]
      BY <2>6, <3>1, <3>3, Zenon
    <3>. QED BY <2>3, <3>2, <3>3, Zenon
  <2>9. LevelOK(side, new, n + 1)
    BY <2>7, <2>8, Zenon DEF LevelOK, IdsGrow, t
  <2>. QED BY <2>2, <2>3, <2>4, <2>5, <2>9, Zenon DEF IsAppended, t, s
<1> SUFFICES ASSUME NEW side \in Sides, NEW levels, NEW n \in Nat, SideOK(side, levels, n),
               NEW o \in Orders, o.id = n, o.direction = side
             PROVE  IsAdded(side, levels, o, n, add_order_with_cmp(levels, o))
  BY Zenon
<1> DEFINE open == o.base_lots - o.filled_base_lots
           at   == {i \in DOMAIN levels : levels[i].price = o.price}
           new  == add_order_with_cmp(levels, o)
<1>1. levels \in Seq(Levels) /\ Len(levels) \in Nat /\ DOMAIN levels = 1 .. Len(levels)
  <2>1. levels \in Seq(Levels)
    BY Zenon DEF SideOK
  <2>. QED BY <2>1
<1>2. \A i \in DOMAIN levels :
        /\ levels[i] \in Levels /\ levels[i].price \in Nat /\ LevelOK(side, levels[i], n)
        /\ LevelOK(side, levels[i], n + 1) /\ levels[i].orders \in Seq(Orders)
        /\ levels[i].volume \in Int /\ levels[i].cancelled \in Int
        /\ \A k \in DOMAIN levels[i].orders : levels[i].orders[k].id \in Nat /\ levels[i].orders[k].id # o.id
  <2> SUFFICES ASSUME NEW i \in DOMAIN levels
               PROVE  /\ levels[i] \in Levels /\ levels[i].price \in Nat /\ LevelOK(side, levels[i], n)
                      /\ LevelOK(side, levels[i], n + 1) /\ levels[i].orders \in Seq(Orders)
                      /\ levels[i].volume \in Int /\ levels[i].cancelled \in Int
                      /\ \A k \in DOMAIN levels[i].orders :
                           levels[i].orders[k].id \in Nat /\ levels[i].orders[k].id # o.id
    BY Zenon
  <2>1. levels[i] \in Levels
    BY <1>1
  <2>2. LevelOK(side, levels[i], n)
    BY Zenon DEF SideOK
  <2>3. /\ levels[i].price \in Nat \ {0} /\ levels[i].orders \in Seq(Orders)
        /\ levels[i].volume \in Int /\ levels[i].cancelled \in Int
    BY <2>1, LevelFields, Zenon
  <2>4. ASSUME NEW k \in DOMAIN levels[i].orders
        PROVE  levels[i].orders[k].id \in Nat /\ levels[i].orders[k].id # o.id
    <3>1. levels[i].orders[k] \in Orders
      BY <2>3
    <3>2. levels[i].orders[k].id \in Nat
      BY <3>1, OrderFields, Zenon
    <3>3. levels[i].orders[k].id < n
      BY <2>2, Zenon DEF LevelOK
    <3>. QED BY <3>2, <3>3
  <2>5. levels[i].price \in Nat
    BY <2>3, Zenon
  <2>. QED BY <2>1, <2>2, <2>3, <2>4, <2>5, LevelLater, Zenon
<1>3. open \in Nat /\ o.price \in Prices /\ o.price \in Nat
  <2>1. /\ o.base_lots \in Nat /\ o.filled_base_lots \in Nat /\ o.self_filled \in Nat
        /\ get_order_remaining(o) \in Nat /\ o.price \in Prices
    BY OrderFields, Zenon
  <2>2. o.price \in Nat
    BY <2>1, BookAssumption, Zenon
  <2>. QED BY <2>1, <2>2 DEF get_order_remaining
<1> HIDE DEF open
<1>4. CASE at # {}
  <2>1. new = [i \in DOMAIN levels |->
                 IF i \notin at THEN levels[i]
                 ELSE Level(o.price, levels[i].volume + open, Append(levels[i].orders, o), levels[i].cancelled)]
    BY <1>4, Zenon DEF add_order_with_cmp, open
  <2> HIDE DEF new
  <2>2. ASSUME NEW i \in DOMAIN levels
        PROVE  /\ new[i] \in Levels /\ new[i].price = levels[i].price
               /\ i \notin at => new[i] = levels[i]
               /\ i \in at => /\ new[i].orders = Append(levels[i].orders, o)
                              /\ new[i].volume = levels[i].volume + open
                              /\ new[i].cancelled = levels[i].cancelled
    <3>1. CASE i \notin at
      <4>1. new[i] = levels[i]
        BY <2>1, <3>1, Zenon
      <4>. QED BY <1>2, <3>1, <4>1, Zenon
    <3>2. CASE i \in at
      <4>1. new[i] = Level(o.price, levels[i].volume + open, Append(levels[i].orders, o), levels[i].cancelled)
        BY <2>1, <3>2, Zenon
      <4>2. Append(levels[i].orders, o) \in Seq(Orders)
        BY <1>2
      <4>3. levels[i].volume + open \in Int
        BY <1>2, <1>3
      <4>4. new[i] \in Levels
        BY <1>2, <1>3, <4>1, <4>2, <4>3, SMTT(40) DEF Level, Levels
      <4>5. /\ new[i].price = o.price /\ new[i].orders = Append(levels[i].orders, o)
            /\ new[i].volume = levels[i].volume + open /\ new[i].cancelled = levels[i].cancelled
        BY <1>2, <1>3, <4>1, <4>2, <4>3, SMTT(40) DEF Level, Levels
      <4>. QED BY <3>2, <4>4, <4>5, Zenon
    <3>. QED BY <3>1, <3>2, Zenon
  <2>3. new \in Seq(Levels) /\ DOMAIN new = DOMAIN levels
    <3>1. DOMAIN new = DOMAIN levels
      BY <2>1, Zenon
    <3>2. new = [i \in 1 .. Len(levels) |-> new[i]]
      BY <1>1, <2>1, Zenon
    <3>3. \A i \in 1 .. Len(levels) : new[i] \in Levels
      BY <1>1, <2>2, Zenon
    <3>4. new \in Seq(Levels)
      BY <1>1, <3>2, <3>3
    <3>. QED BY <3>1, <3>4, Zenon
  <2>4. ASSUME NEW i \in DOMAIN levels
        PROVE  /\ LevelOK(side, new[i], n + 1)
               /\ \A k \in DOMAIN new[i].orders :
                    (i \in at /\ new[i].orders[k] = o) \/ \E l \in DOMAIN levels[i].orders : new[i].orders[k] = levels[i].orders[l]
               /\ \A l \in DOMAIN levels[i].orders : l \in DOMAIN new[i].orders /\ new[i].orders[l] = levels[i].orders[l]
               /\ i \in at => \E k \in DOMAIN new[i].orders : new[i].orders[k] = o
    <3>1. CASE i \notin at
      BY <1>2, <2>2, <3>1, Zenon
    <3>2. CASE i \in at
      <4>1. new[i] \in Levels /\ new[i].price = levels[i].price /\ new[i].orders = Append(levels[i].orders, o)
            /\ o.price = levels[i].price
        BY <2>2, <3>2, Zenon
      <4>2. levels[i] \in Levels /\ LevelOK(side, levels[i], n)
        BY <1>2, Zenon
      <4>3. IsAppended(side, new[i], levels[i], o, n)
        BY <4>1, <4>2, <1>AppendedLevel, Zenon
      <4>. QED BY <3>2, <4>3, Zenon DEF IsAppended
    <3>. QED BY <3>1, <3>2, Zenon
  <2>5. ASSUME NEW i \in DOMAIN levels, NEW j \in DOMAIN levels, i < j
        PROVE  /\ Worse(side, new[i].price, new[j].price)
               /\ Apart(new[i].orders, new[j].orders)
    <3>1. Worse(side, levels[i].price, levels[j].price) /\ Apart(levels[i].orders, levels[j].orders)
      BY <2>5, Zenon DEF SideOK
    <3>2. ~(i \in at /\ j \in at)
      <4>1. levels[i].price # levels[j].price
        BY <1>2, <3>1, WorsePrices, Zenon
      <4>. QED BY <4>1, Zenon
    <3>3. ASSUME NEW k \in DOMAIN new[i].orders, NEW l \in DOMAIN new[j].orders
          PROVE  new[i].orders[k].id # new[j].orders[l].id
      <4>1. (i \in at /\ new[i].orders[k] = o) \/ \E m \in DOMAIN levels[i].orders : new[i].orders[k] = levels[i].orders[m]
        BY <2>4, Zenon
      <4>2. (j \in at /\ new[j].orders[l] = o) \/ \E m \in DOMAIN levels[j].orders : new[j].orders[l] = levels[j].orders[m]
        BY <2>4, Zenon
      <4>. QED BY <1>2, <3>1, <3>2, <4>1, <4>2, Zenon DEF Apart
    <3>. QED BY <2>2, <3>1, <3>3, Zenon DEF Apart
  <2>6. SideOK(side, new, n + 1)
    BY <2>3, <2>4, <2>5, Zenon DEF SideOK
  <2>7. OrdersOf(new) = OrdersOf(levels) \cup {o}
    <3>1. ASSUME NEW p \in OrdersOf(new) PROVE p \in OrdersOf(levels) \cup {o}
      <4>1. PICK i \in DOMAIN new : \E k \in DOMAIN new[i].orders : p = new[i].orders[k]
        BY InOrdersOf, Zenon
      <4>2. p = o \/ \E l \in DOMAIN levels[i].orders : p = levels[i].orders[l]
        BY <2>3, <2>4, <4>1, ZenonT(40)
      <4>3. \A l \in DOMAIN levels[i].orders : levels[i].orders[l] \in OrdersOf(levels)
        BY <2>3, InOrdersOf, Zenon
      <4>. QED BY <4>2, <4>3, Zenon
    <3>2. ASSUME NEW p \in OrdersOf(levels) PROVE p \in OrdersOf(new)
      <4>1. PICK a \in DOMAIN levels : \E k \in DOMAIN levels[a].orders : p = levels[a].orders[k]
        BY InOrdersOf, Zenon
      <4>2. PICK k \in DOMAIN levels[a].orders : p = levels[a].orders[k]
        BY <4>1, Zenon
      <4>3. k \in DOMAIN new[a].orders /\ p = new[a].orders[k]
        BY <2>4, <4>2, Zenon
      <4>4. new[a].orders[k] \in OrdersOf(new)
        BY <2>3, <4>3, InOrdersOf, Zenon
      <4>. QED BY <4>3, <4>4, Zenon
    <3>3. o \in OrdersOf(new)
      <4>1. PICK a \in at : TRUE
        BY <1>4, Zenon
      <4>2. PICK k \in DOMAIN new[a].orders : new[a].orders[k] = o
        BY <2>4, <4>1, Zenon
      <4>3. new[a].orders[k] \in OrdersOf(new)
        BY <2>3, <4>1, InOrdersOf, Zenon
      <4>. QED BY <4>2, <4>3, Zenon
    <3>. QED BY <3>1, <3>2, <3>3, Zenon
  <2>8. PricesOf(new) \subseteq PricesOf(levels) \cup {o.price}
    BY <2>2, <2>3, ZenonT(40) DEF PricesOf
  <2>9. ASSUME ~BadLevels(levels)
        PROVE  ~BadLevels(new)
    <3> SUFFICES ASSUME NEW i \in DOMAIN levels PROVE ~(new[i].volume < 0 \/ new[i].cancelled < 0)
      BY <2>3, Zenon DEF BadLevels
    <3>1. ~(levels[i].volume < 0) /\ ~(levels[i].cancelled < 0)
      BY <2>9, Zenon DEF BadLevels
    <3>2. ~(levels[i].volume + open < 0)
      BY <1>2, <1>3, <3>1
    <3>. QED BY <2>2, <3>1, <3>2, Zenon
  <2>. QED BY <2>6, <2>7, <2>8, <2>9, Zenon DEF IsAdded, new
<1>5. CASE at = {}
  <2> DEFINE q == Position(levels, side, o.price)
             e == Level(o.price, open, <<o>>, 0)
  <2>1. new = Inserted(levels, q, e)
    BY <1>5, Zenon DEF add_order_with_cmp, open
  <2> HIDE DEF new
  <2>2. q \in 0 .. Len(levels) /\ \A i \in DOMAIN levels : Worse(side, levels[i].price, o.price) <=> i <= q
    BY <1>3, <1>PositionOf, Zenon
  <2> HIDE DEF q
  <2>3. <<o>> \in Seq(Orders) /\ DOMAIN <<o>> = {1} /\ <<o>>[1] = o
    OBVIOUS
  <2>4. /\ e \in Levels /\ e.price = o.price /\ e.volume = open /\ e.orders = <<o>> /\ e.cancelled = 0
    <3>1. open \in Int /\ 0 \in Int
      BY <1>3
    <3>. QED BY <1>3, <2>3, <3>1, Zenon DEF Level, Levels
  <2> HIDE DEF e
  <2>5. IsInserted(Levels, new, levels, q, e)
    BY <1>1, <2>1, <2>2, <2>4, <1>InsertedAt, Zenon
  <2>6. /\ new \in Seq(Levels)
        /\ \A i \in DOMAIN new :
             \/ i = q + 1 /\ new[i] = e
             \/ i <= q /\ i \in DOMAIN levels /\ new[i] = levels[i]
             \/ i > q + 1 /\ i - 1 \in DOMAIN levels /\ new[i] = levels[i - 1]
        /\ \A i \in DOMAIN levels :
             \/ i <= q /\ i \in DOMAIN new /\ new[i] = levels[i]
             \/ i > q /\ i + 1 \in DOMAIN new /\ new[i + 1] = levels[i]
        /\ q + 1 \in DOMAIN new /\ new[q + 1] = e
    BY <2>5, Zenon DEF IsInserted
  <2>7. LevelOK(side, e, n + 1)
    <3>1. n < n + 1
      OBVIOUS
    <3>2. \A j, k \in {1} : ~(j < k)
      OBVIOUS
    <3>. QED BY <2>3, <2>4, <3>1, <3>2, Zenon DEF LevelOK, IdsGrow
  <2>8. \A i \in DOMAIN new : LevelOK(side, new[i], n + 1)
    BY <1>2, <2>6, <2>7, Zenon
  <2>9. \A i \in DOMAIN levels : Apart(levels[i].orders, e.orders) /\ Apart(e.orders, levels[i].orders)
    BY <1>2, <2>3, <2>4, Zenon DEF Apart
  <2>10. \A i \in DOMAIN levels : i > q => Worse(side, o.price, levels[i].price)
    <3> SUFFICES ASSUME NEW i \in DOMAIN levels, i > q PROVE Worse(side, o.price, levels[i].price)
      BY Zenon
    <3>1. ~(i <= q)
      BY <1>1, <2>2
    <3>2. levels[i].price # o.price
      BY <1>5, Zenon
    <3>. QED BY <1>2, <1>3, <2>2, <3>1, <3>2, WorsePrices, Zenon
  <2>11. ASSUME NEW i \in DOMAIN new, NEW j \in DOMAIN new, i < j
         PROVE  /\ Worse(side, new[i].price, new[j].price)
                /\ Apart(new[i].orders, new[j].orders)
    <3> DEFINE OK(l, m) == Worse(side, l.price, m.price) /\ Apart(l.orders, m.orders)
    <3>0. \A a, b \in DOMAIN levels : a < b => OK(levels[a], levels[b])
      BY Zenon DEF SideOK
    <3>1. \A a \in DOMAIN levels : (a <= q => OK(levels[a], e)) /\ (a > q => OK(e, levels[a]))
      BY <2>2, <2>4, <2>9, <2>10, Zenon
    <3>2. i \in Nat /\ j \in Nat /\ q \in Nat
      BY <2>2, <2>6
    <3> SUFFICES OK(new[i], new[j])
      BY Zenon
    <3> HIDE DEF OK
    <3>3. CASE i <= q /\ i \in DOMAIN levels /\ new[i] = levels[i]
      <4>1. CASE j = q + 1 /\ new[j] = e
        BY <3>1, <3>3, <4>1, Zenon
      <4>2. CASE j <= q /\ j \in DOMAIN levels /\ new[j] = levels[j]
        BY <2>11, <3>0, <3>3, <4>2, Zenon
      <4>3. CASE j > q + 1 /\ j - 1 \in DOMAIN levels /\ new[j] = levels[j - 1]
        <5>1. i < j - 1
          BY <3>2, <3>3, <4>3
        <5>. QED BY <3>0, <3>3, <4>3, <5>1, Zenon
      <4>. QED BY <2>6, <4>1, <4>2, <4>3, Zenon
    <3>4. CASE i = q + 1 /\ new[i] = e
      <4>1. j > q + 1 /\ j - 1 > q /\ ~(j = q + 1) /\ ~(j <= q)
        BY <2>11, <3>2, <3>4
      <4>2. j - 1 \in DOMAIN levels /\ new[j] = levels[j - 1]
        BY <2>6, <4>1, Zenon
      <4>. QED BY <3>1, <3>4, <4>1, <4>2, Zenon
    <3>5. CASE i > q + 1 /\ i - 1 \in DOMAIN levels /\ new[i] = levels[i - 1]
      <4>1. ~(j = q + 1) /\ ~(j <= q) /\ i - 1 < j - 1
        BY <2>11, <3>2, <3>5
      <4>2. j - 1 \in DOMAIN levels /\ new[j] = levels[j - 1]
        BY <2>6, <4>1, Zenon
      <4>. QED BY <3>0, <3>5, <4>1, <4>2, Zenon
    <3>. QED BY <2>6, <3>3, <3>4, <3>5, Zenon
  <2>12. SideOK(side, new, n + 1)
    BY <2>6, <2>8, <2>11, Zenon DEF SideOK
  <2>13. \A i \in DOMAIN new : new[i] = e \/ \E a \in DOMAIN levels : new[i] = levels[a]
    BY <2>6, Zenon
  <2>14. \A a \in DOMAIN levels : \E i \in DOMAIN new : new[i] = levels[a]
    BY <2>6, Zenon
  <2>15. OrdersOf(new) = OrdersOf(levels) \cup {o}
    <3>1. ASSUME NEW p \in OrdersOf(new) PROVE p \in OrdersOf(levels) \cup {o}
      <4>1. PICK i \in DOMAIN new : \E k \in DOMAIN new[i].orders : p = new[i].orders[k]
        BY InOrdersOf, Zenon
      <4>2. CASE new[i] = e
        BY <2>3, <2>4, <4>1, <4>2, Zenon
      <4>3. CASE \E a \in DOMAIN levels : new[i] = levels[a]
        <5>1. PICK a \in DOMAIN levels : new[i] = levels[a]
          BY <4>3, Zenon
        <5>2. PICK k \in DOMAIN levels[a].orders : p = levels[a].orders[k]
          BY <4>1, <5>1, Zenon
        <5>3. levels[a].orders[k] \in OrdersOf(levels)
          BY InOrdersOf, Zenon
        <5>. QED BY <5>2, <5>3, Zenon
      <4>. QED BY <2>13, <4>2, <4>3, Zenon
    <3>2. ASSUME NEW p \in OrdersOf(levels) PROVE p \in OrdersOf(new)
      <4>1. PICK a \in DOMAIN levels : \E k \in DOMAIN levels[a].orders : p = levels[a].orders[k]
        BY InOrdersOf, Zenon
      <4>2. PICK i \in DOMAIN new : new[i] = levels[a]
        BY <2>14, Zenon
      <4>3. PICK k \in DOMAIN new[i].orders : p = new[i].orders[k]
        BY <4>1, <4>2, Zenon
      <4>4. new[i].orders[k] \in OrdersOf(new)
        BY InOrdersOf, Zenon
      <4>. QED BY <4>3, <4>4, Zenon
    <3>3. o \in OrdersOf(new)
      <4>1. 1 \in DOMAIN e.orders /\ e.orders[1] = o
        BY <2>3, <2>4, Zenon
      <4>2. 1 \in DOMAIN new[q + 1].orders /\ new[q + 1].orders[1] = o
        BY <2>6, <4>1, Zenon
      <4>3. new[q + 1].orders[1] \in OrdersOf(new)
        BY <2>6, <4>2, InOrdersOf, Zenon
      <4>. QED BY <4>2, <4>3, Zenon
    <3>. QED BY <3>1, <3>2, <3>3, Zenon
  <2>16. PricesOf(new) \subseteq PricesOf(levels) \cup {o.price}
    BY <2>4, <2>13, Zenon DEF PricesOf
  <2>17. ASSUME ~BadLevels(levels)
         PROVE  ~BadLevels(new)
    <3>1. ~(e.volume < 0) /\ ~(e.cancelled < 0)
      BY <1>3, <2>4
    <3>. QED BY <2>13, <2>17, <3>1, Zenon DEF BadLevels
  <2>. QED BY <2>12, <2>15, <2>16, <2>17, Zenon DEF IsAdded, new
<1>. QED BY <1>4, <1>5, Zenon

-----------------------------------------------------------------------------
(* A cancelled order                                                       *)

\* The orders of a level that are not cancelled, of its first i orders.
Kept(s, i, t) ==
    /\ t \in Seq(Orders) /\ IdsGrow(t)
    /\ \A k \in DOMAIN t : \E l \in 1 .. i : t[k] = s[l] /\ ~s[l].cancelled

Keep(t, o) == IF o.cancelled THEN t ELSE Append(t, o)

\* A sequence without one of its elements.
IsRemoved(S, c, s, k) ==
    /\ c \in Seq(S)
    /\ \A i \in DOMAIN c :
         \/ i < k /\ i \in DOMAIN s /\ c[i] = s[i]
         \/ i >= k /\ i + 1 \in DOMAIN s /\ c[i] = s[i + 1]

Key(o, p) == o.id = p.id /\ o.direction = p.direction /\ o.price = p.price

\* The level in which order c was marked as cancelled, and pruned.
IsMarked(e, level, c) ==
    /\ e \in Levels /\ e.price = level.price /\ IdsGrow(e.orders)
    /\ \A k \in DOMAIN e.orders : \E l \in DOMAIN level.orders :
         /\ Key(e.orders[k], level.orders[l])
         /\ e.orders[k].cancelled \/ (l # c /\ e.orders[k] = level.orders[l])
    /\ ~(e.volume < 0) /\ ~(e.cancelled < 0)

\* So does the removal of a level.
Without(side, levels, at, n, y) ==
    /\ SideOK(side, y, n)
    /\ \A i \in DOMAIN y : \E j \in DOMAIN levels : j # at /\ y[i] = levels[j]

\* What cancelling order o does to a side.
IsCancelled(side, levels, o, n, r) ==
    /\ SideOK(side, r.levels, n) /\ ~BadLevels(r.levels)
    /\ PricesOf(r.levels) \subseteq PricesOf(levels)
    /\ \A p \in OrdersOf(r.levels) : \E q \in OrdersOf(levels) : p.id = q.id /\ (p.cancelled \/ p = q)
    /\ \A p \in OrdersOf(r.levels) : ~p.cancelled => p.id # o.id
    /\ r.unfilled \in Nat

SamePlace(i, k, j, l) == i = j /\ k = l

\* Two places of a side hold different orders.
LEMMA PlacesDiffer ==
    ASSUME NEW side, NEW levels, NEW n, SideOK(side, levels, n),
           NEW i \in DOMAIN levels, NEW j \in DOMAIN levels,
           NEW k \in DOMAIN levels[i].orders, NEW l \in DOMAIN levels[j].orders,
           levels[i].orders[k].id = levels[j].orders[l].id
    PROVE  SamePlace(i, k, j, l)
<1>1. levels \in Seq(Levels) /\ DOMAIN levels \subseteq Nat
  <2>1. levels \in Seq(Levels)
    BY Zenon DEF SideOK
  <2>. QED BY <2>1
<1>2. levels[i].orders \in Seq(Orders) /\ DOMAIN levels[i].orders \subseteq Nat
  <2>1. levels[i] \in Levels
    BY <1>1
  <2>2. levels[i].orders \in Seq(Orders)
    BY <2>1, LevelFields, Zenon
  <2>. QED BY <2>2
<1>3. \A a, b \in Nat : a = b \/ a < b \/ b < a
  OBVIOUS
<1>4. ~(i < j) /\ ~(j < i)
  <2>1. ASSUME i < j PROVE FALSE
    BY <2>1, Zenon DEF SideOK, Apart
  <2>2. ASSUME j < i PROVE FALSE
    BY <2>2, Zenon DEF SideOK, Apart
  <2>. QED BY <2>1, <2>2, Zenon
<1>5. i = j
  BY <1>1, <1>3, <1>4, Zenon
<1>6. l \in DOMAIN levels[i].orders /\ levels[i].orders[k].id = levels[i].orders[l].id
  BY <1>5, Zenon
<1>7. IdsGrow(levels[i].orders)
  BY Zenon DEF SideOK, LevelOK
<1>8. levels[i].orders[k] \in Orders /\ levels[i].orders[k].id \in Nat
  <2>1. levels[i].orders[k] \in Orders
    BY <1>2
  <2>. QED BY <2>1, OrderFields, Zenon
<1>9. \A a \in Nat : ~(a < a)
  OBVIOUS
<1>10. ~(k < l) /\ ~(l < k)
  <2>1. ASSUME k < l PROVE FALSE
    <3>1. levels[i].orders[k].id < levels[i].orders[l].id
      BY <1>6, <1>7, <2>1, Zenon DEF IdsGrow
    <3>. QED BY <1>6, <1>8, <1>9, <3>1, Zenon
  <2>2. ASSUME l < k PROVE FALSE
    <3>1. levels[i].orders[l].id < levels[i].orders[k].id
      BY <1>6, <1>7, <2>2, Zenon DEF IdsGrow
    <3>. QED BY <1>6, <1>8, <1>9, <3>1, Zenon
  <2>. QED BY <2>1, <2>2, Zenon
<1>11. k = l
  BY <1>2, <1>3, <1>6, <1>10, Zenon
<1>. QED BY <1>5, <1>11, Zenon DEF SamePlace

\* The side stays in order, and has no live order of this id any more.
LEMMA CancelSide ==
    \A side, levels, n, o, r :
        (/\ SideOK(side, levels, n)
         /\ ~BadLevels(levels)
         /\ (\A b \in OrdersOf(levels) : ~b.cancelled /\ b.id = o.id => b = o)
         /\ r = cancel_order_with_cmp(levels, o)
         /\ ~r.panics) => IsCancelled(side, levels, o, n, r)
\* The loop that keeps them is what its definition says.
<1>RetainLoop. ASSUME NEW s, Len(s) \in Nat
               PROVE  \E f : /\ f = [i \in 0 .. Len(s) |-> IF i = 0 THEN << >> ELSE Keep(f[i - 1], s[i])]
                             /\ retain(s) = f[Len(s)]
  <2> USE <1>RetainLoop
  <2> DEFINE Loop(f, n) == f = [i \in 0 .. n |-> IF i = 0 THEN << >> ELSE Keep(f[i - 1], s[i])]
             S == {n \in Nat : \E f : Loop(f, n)}
  <2>1. 0 \in S
    <3>1. Loop([i \in 0 .. 0 |-> << >>], 0)
      OBVIOUS
    <3>. QED BY <3>1, Zenon
  <2>2. ASSUME NEW n \in 0 .. Len(s) - 1, n \in S PROVE n + 1 \in S
    <3>1. n \in Nat /\ n + 1 \in Nat
      OBVIOUS
    <3>2. PICK g : Loop(g, n)
      BY <2>2, Zenon
    <3> DEFINE h == [i \in 0 .. n + 1 |-> IF i = 0 THEN << >> ELSE Keep(g[i - 1], s[i])]
    <3>3. \A i \in 0 .. n : h[i] = g[i]
      BY <3>1, <3>2
    <3>4. \A i \in 0 .. n + 1 : i # 0 => i - 1 \in 0 .. n
      BY <3>1
    <3>5. Loop(h, n + 1)
      BY <3>3, <3>4, Zenon
    <3> HIDE DEF h, Loop
    <3>. QED BY <3>1, <3>5, Zenon
  <2> HIDE DEF S
  <2>3. Len(s) \in S
    <3>1. Len(s) \in 0 .. Len(s)
      OBVIOUS
    <3>. QED BY <2>1, <2>2, <3>1, Induction, Zenon
  <2>4. \E f : Loop(f, Len(s))
    BY <2>3, Zenon DEF S
  <2>. QED BY <2>4, Zenon DEF retain, Keep
\* What is kept of a level.
<1>RetainKeeps. ASSUME NEW s \in Seq(Orders), IdsGrow(s)
                PROVE  Kept(s, Len(s), retain(s))
  <2> USE <1>RetainKeeps
  <2>1. Len(s) \in Nat /\ DOMAIN s = 1 .. Len(s)
    OBVIOUS
  <2>2. PICK f : /\ f = [i \in 0 .. Len(s) |-> IF i = 0 THEN << >> ELSE Keep(f[i - 1], s[i])]
                 /\ retain(s) = f[Len(s)]
    BY <2>1, <1>RetainLoop, Zenon
  <2> DEFINE S == {i \in 0 .. Len(s) : Kept(s, i, f[i])}
  <2>3. 0 \in S
    <3>1. 0 \in 0 .. Len(s)
      BY <2>1
    <3>2. f[0] = << >>
      BY <2>2, <3>1, Zenon
    <3>3. << >> \in Seq(Orders) /\ DOMAIN << >> = {}
      OBVIOUS
    <3>4. Kept(s, 0, << >>)
      BY <3>3, Zenon DEF Kept, IdsGrow
    <3>. QED BY <3>1, <3>2, <3>4, Zenon
  <2>4. ASSUME NEW i \in 0 .. Len(s) - 1, i \in S PROVE i + 1 \in S
    <3>1. /\ i + 1 \in 0 .. Len(s) /\ i + 1 # 0 /\ i + 1 - 1 = i /\ i + 1 \in DOMAIN s
          /\ i + 1 \in 1 .. i + 1 /\ i \in Nat /\ \A l \in 1 .. i : l \in 1 .. i + 1 /\ l \in DOMAIN s /\ l < i + 1
      BY <2>1
    <3>2. f[i + 1] = IF s[i + 1].cancelled THEN f[i] ELSE Append(f[i], s[i + 1])
      <4>1. f[i + 1] = Keep(f[i + 1 - 1], s[i + 1])
        BY <2>1, <2>2, <3>1
      <4>. QED BY <3>1, <4>1, Zenon DEF Keep
    <3>3. Kept(s, i, f[i])
      BY <2>4, Zenon
    <3>4. CASE s[i + 1].cancelled
      <4>1. Kept(s, i + 1, f[i])
        BY <3>1, <3>3, Zenon DEF Kept
      <4>2. f[i + 1] = f[i]
        BY <3>2, <3>4, Zenon
      <4>. QED BY <3>1, <4>1, <4>2, Zenon
    <3>5. CASE ~s[i + 1].cancelled
      <4> DEFINE t == f[i]
                 u == Append(t, s[i + 1])
      <4>1. t \in Seq(Orders) /\ IdsGrow(t) /\ \A k \in DOMAIN t : \E l \in 1 .. i : t[k] = s[l] /\ ~s[l].cancelled
        BY <3>3, Zenon DEF Kept
      <4> HIDE DEF t
      <4>2. s[i + 1] \in Orders
        BY <3>1
      <4>3. /\ u \in Seq(Orders) /\ Len(t) \in Nat /\ DOMAIN t = 1 .. Len(t) /\ DOMAIN u = 1 .. Len(t) + 1
            /\ u[Len(t) + 1] = s[i + 1] /\ \A k \in DOMAIN t : u[k] = t[k]
        BY <4>1, <4>2
      <4> HIDE DEF u
      <4>4. \A k \in DOMAIN u : k = Len(t) + 1 \/ (k \in DOMAIN t /\ k < Len(t) + 1)
        BY <4>3
      <4>5. \A k \in DOMAIN u : \E l \in 1 .. i + 1 : u[k] = s[l] /\ ~s[l].cancelled
        <5> SUFFICES ASSUME NEW k \in DOMAIN u PROVE \E l \in 1 .. i + 1 : u[k] = s[l] /\ ~s[l].cancelled
          BY Zenon
        <5>1. CASE k = Len(t) + 1
          BY <3>1, <3>5, <4>3, <5>1, Zenon
        <5>2. CASE k \in DOMAIN t
          BY <3>1, <4>1, <4>3, <5>2, ZenonT(40)
        <5>. QED BY <4>4, <5>1, <5>2, Zenon
      <4>6. ASSUME NEW j \in DOMAIN u, NEW k \in DOMAIN u, j < k PROVE u[j].id < u[k].id
        <5>1. j \in DOMAIN t
          BY <4>3, <4>6
        <5>2. CASE k = Len(t) + 1
          <6>1. PICK l \in 1 .. i : t[j] = s[l]
            BY <4>1, <5>1, Zenon
          <6>2. s[l].id < s[i + 1].id
            BY <3>1, Zenon DEF IdsGrow
          <6>. QED BY <4>3, <5>1, <5>2, <6>1, <6>2, Zenon
        <5>3. CASE k \in DOMAIN t
          BY <4>1, <4>3, <4>6, <5>1, <5>3, Zenon DEF IdsGrow
        <5>. QED BY <4>4, <5>2, <5>3, Zenon
      <4>7. Kept(s, i + 1, u)
        BY <4>3, <4>5, <4>6, Zenon DEF Kept, IdsGrow
      <4>8. f[i + 1] = u
        BY <3>2, <3>5, Zenon DEF u, t
      <4>. QED BY <3>1, <4>7, <4>8, Zenon
    <3>. QED BY <3>4, <3>5, Zenon
  <2> HIDE DEF S
  <2>5. Len(s) \in S
    <3>1. Len(s) \in 0 .. Len(s)
      BY <2>1
    <3>. QED BY <2>1, <2>3, <2>4, <3>1, Induction, Zenon
  <2>. QED BY <2>2, <2>5, Zenon DEF S
\* Removed is the sequence without it.
<1>RemovedAt. ASSUME NEW S, NEW s \in Seq(S), NEW k \in DOMAIN s
              PROVE  IsRemoved(S, Removed(s, k), s, k)
  <2> USE <1>RemovedAt
  <2> DEFINE a == SubSeq(s, 1, k - 1)
             b == SubSeq(s, k + 1, Len(s))
             c == a \o b
             n == Len(s)
  <2>1. n \in Nat /\ k \in 1 .. n /\ k \in Nat /\ k - 1 \in Nat /\ k + 1 \in Nat /\ n <= Len(s) /\ DOMAIN s = 1 .. n
    OBVIOUS
  <2>2. IsPart(S, a, s, 1, k - 1)
    <3>1. 1 \in Nat /\ 1 >= 1 /\ 1 <= k - 1 + 1 /\ k - 1 <= Len(s)
      BY <2>1
    <3>. QED BY <2>1, <3>1, SubSeqOf, Zenon
  <2>3. IsPart(S, b, s, k + 1, n)
    <3>1. k + 1 >= 1 /\ k + 1 <= n + 1
      BY <2>1
    <3>. QED BY <2>1, <3>1, SubSeqOf, Zenon
  <2> HIDE DEF a, b
  <2>4. /\ a \in Seq(S) /\ Len(a) = k - 1 /\ DOMAIN a = 1 .. k - 1 /\ \A i \in 1 .. k - 1 : a[i] = s[i]
    <3>1. /\ a \in Seq(S) /\ Len(a) = (k - 1) - 1 + 1 /\ DOMAIN a = 1 .. (k - 1) - 1 + 1
          /\ \A i \in 1 .. (k - 1) - 1 + 1 : a[i] = s[1 + i - 1]
      BY <2>2, Zenon DEF IsPart
    <3>2. (k - 1) - 1 + 1 = k - 1 /\ \A i \in 1 .. k - 1 : 1 + i - 1 = i
      BY <2>1
    <3>. QED BY <3>1, <3>2, Zenon
  <2>5. /\ b \in Seq(S) /\ Len(b) = n - k /\ DOMAIN b = 1 .. n - k /\ \A i \in 1 .. n - k : b[i] = s[k + i]
    <3>1. /\ b \in Seq(S) /\ Len(b) = n - (k + 1) + 1 /\ DOMAIN b = 1 .. n - (k + 1) + 1
          /\ \A i \in 1 .. n - (k + 1) + 1 : b[i] = s[k + 1 + i - 1]
      BY <2>3, Zenon DEF IsPart
    <3>2. n - (k + 1) + 1 = n - k /\ \A i \in 1 .. n - k : k + 1 + i - 1 = k + i
      BY <2>1
    <3> HIDE DEF n
    <3>. QED BY <3>1, <3>2, Zenon
  <2>6. IsConcat(S, c, a, b)
    BY <2>4, <2>5, ConcatOf, Zenon
  <2>7. /\ c \in Seq(S) /\ DOMAIN c = 1 .. n - 1
        /\ \A i \in DOMAIN a : c[i] = a[i]
        /\ \A i \in DOMAIN b : c[k - 1 + i] = b[i]
    <3>1. /\ c \in Seq(S) /\ DOMAIN c = 1 .. Len(a) + Len(b)
          /\ \A i \in DOMAIN a : c[i] = a[i]
          /\ \A i \in DOMAIN b : c[Len(a) + i] = b[i]
      BY <2>6, Zenon DEF IsConcat
    <3>2. Len(a) + Len(b) = n - 1
      BY <2>1, <2>4, <2>5, SMTT(40)
    <3>. QED BY <2>4, <3>1, <3>2, Zenon
  <2> HIDE DEF c
  <2>8. ASSUME NEW i \in DOMAIN c
        PROVE  \/ i < k /\ i \in DOMAIN s /\ c[i] = s[i]
               \/ i >= k /\ i + 1 \in DOMAIN s /\ c[i] = s[i + 1]
    <3>1. CASE i < k
      <4>1. i \in 1 .. k - 1 /\ i \in DOMAIN s
        BY <2>1, <2>7, <3>1
      <4>. QED BY <2>4, <2>7, <3>1, <4>1, Zenon
    <3>2. CASE ~(i < k)
      <4> DEFINE j == i - (k - 1)
      <4>1. i >= k /\ i + 1 \in DOMAIN s /\ j \in 1 .. n - k /\ k - 1 + j = i /\ k + j = i + 1
        BY <2>1, <2>7, <3>2, SMTT(40)
      <4> HIDE DEF j
      <4>. QED BY <2>5, <2>7, <4>1, Zenon
    <3>. QED BY <3>1, <3>2, Zenon
  <2>. QED BY <2>7, <2>8, Zenon DEF IsRemoved, Removed, a, b, c
\* Marking an order.
<1>MarkedOrder. ASSUME NEW o \in Orders
                PROVE  Marked(o) \in Orders /\ Key(Marked(o), o) /\ Marked(o).cancelled = TRUE
  <2> USE <1>MarkedOrder
  <2>1. /\ Marked(o) \in OrderSet /\ Key(Marked(o), o) /\ Marked(o).cancelled = TRUE
        /\ Marked(o).base_lots = o.base_lots /\ Marked(o).filled_base_lots = o.filled_base_lots
        /\ Marked(o).self_filled = o.self_filled
    BY OrderFields, Zenon DEF Marked, LimitOrder, OrderSet, Key
  <2>2. get_order_remaining(Marked(o)) = get_order_remaining(o)
    BY <2>1, Zenon DEF get_order_remaining
  <2>3. get_order_remaining(o) \in Nat
    BY OrderFields, Zenon
  <2>. QED BY <2>1, <2>2, <2>3, Zenon DEF Orders
\* cancel_order_with_cmp marks it in its level, which is then pruned if it has become sparse.
<1>MarkedLevel. ASSUME NEW level \in Levels, IdsGrow(level.orders), NEW c \in DOMAIN level.orders,
                       NEW volume \in Int, ~(volume < 0), ~(level.cancelled < 0),
                       NEW m, m = Level(level.price, volume, [level.orders EXCEPT ![c] = Marked(level.orders[c])],
                                        level.cancelled + 1)
                PROVE  IsMarked(prune_level(m), level, c)
  <2> USE <1>MarkedLevel
  <2> DEFINE s == level.orders
             t == [s EXCEPT ![c] = Marked(s[c])]
  <2>1. s \in Seq(Orders) /\ level.price \in Prices /\ level.cancelled \in Int
    BY LevelFields, Zenon
  <2>2. Len(s) \in Nat /\ DOMAIN s = 1 .. Len(s) /\ \A k \in DOMAIN s : s[k] \in Orders /\ s[k].id \in Nat
    <3>1. Len(s) \in Nat /\ DOMAIN s = 1 .. Len(s) /\ \A k \in DOMAIN s : s[k] \in Orders
      BY <2>1
    <3>. QED BY <3>1, OrderFields, Zenon
  <2>3. Marked(s[c]) \in Orders /\ Key(Marked(s[c]), s[c]) /\ Marked(s[c]).cancelled = TRUE
    BY <2>2, <1>MarkedOrder, Zenon
  <2> HIDE DEF s
  <2>4. t \in Seq(Orders) /\ DOMAIN t = DOMAIN s /\ t[c] = Marked(s[c]) /\ \A k \in DOMAIN s : k # c => t[k] = s[k]
        /\ Len(t) = Len(s)
    BY <2>1, <2>2, <2>3 DEF s
  <2> HIDE DEF t
  <2>5. \A k \in DOMAIN t : k \in DOMAIN s /\ Key(t[k], s[k]) /\ (t[k].cancelled \/ (k # c /\ t[k] = s[k]))
    BY <2>3, <2>4, Zenon DEF Key
  <2>6. IdsGrow(t)
    BY <2>4, <2>5, Zenon DEF IdsGrow, Key, s
  <2>7. /\ m \in Levels /\ m.price = level.price /\ m.volume = volume /\ m.orders = t
        /\ m.cancelled = level.cancelled + 1
    <3>1. m = Level(level.price, volume, t, level.cancelled + 1)
      BY Zenon DEF t, s
    <3>2. level.cancelled + 1 \in Int
      BY <2>1
    <3>. QED BY <2>1, <2>4, <3>1, <3>2 DEF Level, Levels
  <2>8. CASE m.cancelled > Len(m.orders) \div 2
    <3> DEFINE u == retain(t)
               e == Level(m.price, m.volume, u, 0)
    <3>1. prune_level(m) = e
      BY <2>7, <2>8, Zenon DEF prune_level
    <3>2. Kept(t, Len(t), u)
      BY <2>4, <2>6, <1>RetainKeeps, Zenon
    <3>3. /\ u \in Seq(Orders) /\ IdsGrow(u)
          /\ \A k \in DOMAIN u : \E l \in DOMAIN t : u[k] = t[l] /\ ~t[l].cancelled
      <4>1. 1 .. Len(t) = DOMAIN t
        BY <2>4
      <4>. QED BY <3>2, <4>1, Zenon DEF Kept
    <3> HIDE DEF u
    <3>4. e \in Levels /\ e.price = level.price /\ e.orders = u /\ e.volume = volume /\ e.cancelled = 0
      BY <2>1, <2>7, <3>3 DEF Level, Levels
    <3> HIDE DEF e
    <3>5. ASSUME NEW k \in DOMAIN u
          PROVE  \E l \in DOMAIN s : Key(u[k], s[l]) /\ (u[k].cancelled \/ (l # c /\ u[k] = s[l]))
      <4>1. PICK l \in DOMAIN t : u[k] = t[l] /\ ~t[l].cancelled
        BY <3>3, Zenon
      <4>2. l \in DOMAIN s /\ Key(t[l], s[l]) /\ l # c /\ t[l] = s[l]
        BY <2>5, <4>1, Zenon
      <4>3. Key(u[k], s[l]) /\ u[k] = s[l]
        BY <4>1, <4>2, Zenon
      <4>. QED BY <4>2, <4>3, Zenon
    <3>6. ~(0 < 0)
      OBVIOUS
    <3>7. IsMarked(e, level, c)
      BY <3>3, <3>4, <3>5, <3>6, Zenon DEF IsMarked, s
    <3>. QED BY <3>1, <3>7, Zenon
  <2>9. CASE ~(m.cancelled > Len(m.orders) \div 2)
    <3>1. prune_level(m) = m
      BY <2>9, Zenon DEF prune_level
    <3>2. ~(level.cancelled + 1 < 0)
      BY <2>1
    <3>3. IsMarked(m, level, c)
      BY <2>5, <2>6, <2>7, <3>2, Zenon DEF IsMarked, s
    <3>. QED BY <3>1, <3>3, Zenon
  <2>. QED BY <2>8, <2>9, Zenon
\* The changed level leaves its side in order.
<1>ChangedLevel. ASSUME NEW side, NEW levels, NEW n, SideOK(side, levels, n), NEW at \in DOMAIN levels,
                        NEW e, NEW c, IsMarked(e, levels[at], c)
                 PROVE  SideOK(side, [levels EXCEPT ![at] = e], n)
  <2> USE <1>ChangedLevel
  <2> DEFINE y == [levels EXCEPT ![at] = e]
  <2>1. levels \in Seq(Levels) /\ e \in Levels
    BY Zenon DEF SideOK, IsMarked
  <2>2. y \in Seq(Levels) /\ DOMAIN y = DOMAIN levels /\ y[at] = e /\ \A i \in DOMAIN levels : i # at => y[i] = levels[i]
    BY <2>1
  <2> HIDE DEF y
  <2>3. \A i \in DOMAIN levels :
          /\ y[i].price = levels[i].price /\ IdsGrow(y[i].orders)
          /\ \A k \in DOMAIN y[i].orders : \E l \in DOMAIN levels[i].orders : Key(y[i].orders[k], levels[i].orders[l])
    <3> SUFFICES ASSUME NEW i \in DOMAIN levels
                 PROVE  /\ y[i].price = levels[i].price /\ IdsGrow(y[i].orders)
                        /\ \A k \in DOMAIN y[i].orders : \E l \in DOMAIN levels[i].orders :
                             Key(y[i].orders[k], levels[i].orders[l])
      BY Zenon
    <3>1. CASE i = at
      BY <2>2, <3>1, Zenon DEF IsMarked
    <3>2. CASE i # at
      <4>1. y[i] = levels[i]
        BY <2>2, <3>2, Zenon
      <4>2. \A k \in DOMAIN levels[i].orders : Key(levels[i].orders[k], levels[i].orders[k])
        BY Zenon DEF Key
      <4>. QED BY <4>1, <4>2, Zenon DEF SideOK, LevelOK
    <3>. QED BY <3>1, <3>2, Zenon
  <2>4. \A i \in DOMAIN levels : LevelOK(side, y[i], n)
    <3> SUFFICES ASSUME NEW i \in DOMAIN levels, NEW k \in DOMAIN y[i].orders
                 PROVE  /\ y[i].orders[k].id < n /\ y[i].orders[k].direction = side
                        /\ y[i].orders[k].price = y[i].price
      BY <2>3, Zenon DEF LevelOK
    <3>1. PICK l \in DOMAIN levels[i].orders : Key(y[i].orders[k], levels[i].orders[l])
      BY <2>3, Zenon
    <3>2. /\ levels[i].orders[l].id < n /\ levels[i].orders[l].direction = side
          /\ levels[i].orders[l].price = levels[i].price
      BY Zenon DEF SideOK, LevelOK
    <3>. QED BY <2>3, <3>1, <3>2, Zenon DEF Key
  <2>5. ASSUME NEW i \in DOMAIN levels, NEW j \in DOMAIN levels, i < j
        PROVE  Worse(side, y[i].price, y[j].price) /\ Apart(y[i].orders, y[j].orders)
    <3>1. Worse(side, levels[i].price, levels[j].price) /\ Apart(levels[i].orders, levels[j].orders)
      BY <2>5, Zenon DEF SideOK
    <3>2. ASSUME NEW k \in DOMAIN y[i].orders, NEW l \in DOMAIN y[j].orders
          PROVE  y[i].orders[k].id # y[j].orders[l].id
      <4>1. PICK a \in DOMAIN levels[i].orders : Key(y[i].orders[k], levels[i].orders[a])
        BY <2>3, Zenon
      <4>2. PICK b \in DOMAIN levels[j].orders : Key(y[j].orders[l], levels[j].orders[b])
        BY <2>3, Zenon
      <4>. QED BY <3>1, <4>1, <4>2, Zenon DEF Key, Apart
    <3>. QED BY <2>3, <3>1, <3>2, Zenon DEF Apart
  <2>. QED BY <2>2, <2>4, <2>5, Zenon DEF SideOK, y
\* Removing a level.
<1>RemovedLevel. ASSUME NEW side, NEW levels, NEW n, SideOK(side, levels, n), NEW at \in DOMAIN levels
                 PROVE  Without(side, levels, at, n, Removed(levels, at))
  <2> USE <1>RemovedLevel
  <2> DEFINE y == Removed(levels, at)
  <2>1. levels \in Seq(Levels)
    BY Zenon DEF SideOK
  <2>2. IsRemoved(Levels, y, levels, at)
    BY <2>1, <1>RemovedAt, Zenon
  <2> HIDE DEF y
  <2>3. y \in Seq(Levels) /\ \A i \in DOMAIN y : \/ i < at /\ i \in DOMAIN levels /\ y[i] = levels[i]
                                                 \/ i >= at /\ i + 1 \in DOMAIN levels /\ y[i] = levels[i + 1]
    BY <2>2, Zenon DEF IsRemoved
  <2> DEFINE Old(i) == IF i < at THEN i ELSE i + 1
  <2>4. at \in Nat /\ DOMAIN y \subseteq Nat
    BY <2>1, <2>3
  <2>5. \A i, j \in DOMAIN y : /\ Old(i) \in DOMAIN levels /\ y[i] = levels[Old(i)] /\ Old(i) # at
                               /\ i < j => Old(i) < Old(j)
    <3>1. \A i, j \in Nat : Old(i) # at /\ (i < j => Old(i) < Old(j)) /\ ~(i < at /\ i >= at) /\ (i >= at \/ i < at)
      BY <2>4
    <3>. QED BY <2>3, <2>4, <3>1, Zenon
  <2> HIDE DEF Old
  <2>6. \A i \in DOMAIN y : LevelOK(side, y[i], n)
    BY <2>5, Zenon DEF SideOK
  <2>7. \A i, j \in DOMAIN y : i < j => Worse(side, y[i].price, y[j].price) /\ Apart(y[i].orders, y[j].orders)
    <3> SUFFICES ASSUME NEW i \in DOMAIN y, NEW j \in DOMAIN y, i < j
                 PROVE  Worse(side, y[i].price, y[j].price) /\ Apart(y[i].orders, y[j].orders)
      BY Zenon
    <3>1. Old(i) \in DOMAIN levels /\ Old(j) \in DOMAIN levels /\ Old(i) < Old(j) /\ y[i] = levels[Old(i)] /\ y[j] = levels[Old(j)]
      BY <2>5, Zenon
    <3>2. /\ Worse(side, levels[Old(i)].price, levels[Old(j)].price)
          /\ Apart(levels[Old(i)].orders, levels[Old(j)].orders)
      BY <3>1, Zenon DEF SideOK
    <3>. QED BY <3>1, <3>2, Zenon
  <2>8. \A i \in DOMAIN y : \E j \in DOMAIN levels : j # at /\ y[i] = levels[j]
    BY <2>5, Zenon
  <2>. QED BY <2>3, <2>6, <2>7, <2>8, Zenon DEF SideOK, Without, y
<1> SUFFICES ASSUME NEW side, NEW levels, NEW n, SideOK(side, levels, n), ~BadLevels(levels), NEW o,
               \A b \in OrdersOf(levels) : ~b.cancelled /\ b.id = o.id => b = o,
               NEW r, r = cancel_order_with_cmp(levels, o), ~r.panics
             PROVE  IsCancelled(side, levels, o, n, r)
  BY Zenon
<1> DEFINE found == {at \in UNION {{i} \X DOMAIN levels[i].orders : i \in DOMAIN levels} :
                       /\ levels[at[1]].price = o.price
                       /\ levels[at[1]].orders[at[2]].id = o.id
                       /\ ~levels[at[1]].orders[at[2]].cancelled}
           unfilled == o.base_lots - o.filled_base_lots
<1>1. levels \in Seq(Levels)
  BY Zenon DEF SideOK
<1>2. CASE found = {}
  <2>1. r.levels = levels /\ r.unfilled = 0
    <3>1. r = [levels |-> levels, unfilled |-> 0, panics |-> FALSE]
      BY <1>2, Zenon DEF cancel_order_with_cmp
    <3>. QED BY <3>1
  <2>2. ASSUME NEW p \in OrdersOf(levels), ~p.cancelled, p.id = o.id PROVE FALSE
    <3>1. p = o
      BY <2>2, Zenon
    <3>2. PICK i \in DOMAIN levels : \E k \in DOMAIN levels[i].orders : p = levels[i].orders[k]
      BY InOrdersOf, ZenonT(40)
    <3>3. PICK k \in DOMAIN levels[i].orders : p = levels[i].orders[k]
      BY <3>2, Zenon
    <3>4. levels[i].price = o.price
      <4>1. LevelOK(side, levels[i], n)
        BY Zenon DEF SideOK
      <4>. QED BY <3>1, <3>3, <4>1, Zenon DEF LevelOK
    <3>5. <<i, k>> \in UNION {{a} \X DOMAIN levels[a].orders : a \in DOMAIN levels}
      <4>1. <<i, k>> \in {i} \X DOMAIN levels[i].orders
        BY <3>3, Zenon
      <4>. QED BY <4>1, Zenon
    <3>6. <<i, k>>[1] = i /\ <<i, k>>[2] = k
      BY Zenon
    <3>7. <<i, k>> \in found
      BY <2>2, <3>3, <3>4, <3>5, <3>6, Zenon
    <3>. QED BY <1>2, <3>7, Zenon
  <2>3. 0 \in Nat
    BY Zenon
  <2>. QED BY <2>1, <2>2, <2>3, Zenon DEF IsCancelled
<1>3. CASE found # {}
  <2> DEFINE at     == CHOOSE x \in found : TRUE
             i      == at[1]
             c      == at[2]
             level  == levels[i]
             volume == level.volume - unfilled
             marked == Level(level.price, volume,
                             [level.orders EXCEPT ![c] = Marked(level.orders[c])],
                             level.cancelled + 1)
             e      == prune_level(marked)
  <2>1. at \in found
    BY <1>3, Zenon
  <2>2. i \in DOMAIN levels /\ c \in DOMAIN level.orders
    <3>1. PICK a \in DOMAIN levels : at \in {a} \X DOMAIN levels[a].orders
      BY <2>1, Zenon
    <3>2. \A S, x : x \in {a} \X S => x[1] = a /\ x[2] \in S
      BY Zenon
    <3>. QED BY <3>1, <3>2, Zenon
  <2>3. level.orders[c].id = o.id /\ ~level.orders[c].cancelled
    BY <2>1, Zenon
  <2>4. /\ r.levels = (IF volume = 0 THEN Removed(levels, i) ELSE [levels EXCEPT ![i] = e])
        /\ r.unfilled = unfilled /\ r.panics = (volume < 0)
    <3>1. r = [levels   |-> IF volume = 0 THEN Removed(levels, i) ELSE [levels EXCEPT ![i] = e],
               unfilled |-> unfilled,
               panics   |-> volume < 0]
      BY <1>3, Zenon DEF cancel_order_with_cmp
    <3> HIDE DEF volume, i, e, unfilled, at
    <3>. QED BY <3>1
  <2> HIDE DEF at, i, c, found
  <2>5. level.orders[c] \in OrdersOf(levels)
    BY <2>2, InOrdersOf, Zenon
  <2>6. level.orders[c] = o /\ o \in Orders
    <3>1. level.orders[c] = o
      BY <2>3, <2>5, Zenon
    <3>2. level.orders[c] \in Orders
      BY <2>5, SideOrders, Zenon
    <3>. QED BY <3>1, <3>2, Zenon
  <2>7. unfilled \in Nat
    <3>1. o.base_lots \in Nat /\ o.filled_base_lots \in Nat /\ o.self_filled \in Nat /\ get_order_remaining(o) \in Nat
      BY <2>6, OrderFields, Zenon
    <3>. QED BY <3>1 DEF get_order_remaining
  <2>8. level \in Levels /\ IdsGrow(level.orders) /\ ~(level.volume < 0) /\ ~(level.cancelled < 0) /\ level.volume \in Int
    <3>1. level \in Levels
      BY <1>1, <2>2
    <3>2. level.volume \in Int
      BY <3>1, LevelFields, Zenon
    <3>. QED BY <2>2, <3>1, <3>2, Zenon DEF SideOK, LevelOK, BadLevels
  <2>9. volume \in Int /\ ~(volume < 0)
    <3>1. volume \in Int
      BY <2>7, <2>8
    <3>. QED BY <2>4, <3>1, Zenon
  <2> HIDE DEF unfilled, volume
  <2>10. CASE volume = 0
    <3> DEFINE y == Removed(levels, i)
    <3>1. r.levels = y
      BY <2>4, <2>10, Zenon
    <3>0. Without(side, levels, i, n, y)
      BY <2>2, <1>RemovedLevel, Zenon
    <3> HIDE DEF y
    <3>2. SideOK(side, y, n) /\ \A a \in DOMAIN y : \E j \in DOMAIN levels : j # i /\ y[a] = levels[j]
      BY <3>0, Zenon DEF Without
    <3>3. ~BadLevels(y)
      BY <3>2, Zenon DEF BadLevels
    <3>4. PricesOf(y) \subseteq PricesOf(levels)
      BY <3>2, Zenon DEF PricesOf
    <3>5. ASSUME NEW p \in OrdersOf(y)
          PROVE  p \in OrdersOf(levels) /\ p.id # o.id
      <4>1. PICK a \in DOMAIN y : \E k \in DOMAIN y[a].orders : p = y[a].orders[k]
        BY InOrdersOf, ZenonT(60)
      <4>2. PICK j \in DOMAIN levels : j # i /\ y[a] = levels[j]
        BY <3>2, Zenon
      <4>3. PICK k \in DOMAIN levels[j].orders : p = levels[j].orders[k]
        BY <4>1, <4>2, Zenon
      <4>4. levels[j].orders[k] \in OrdersOf(levels)
        BY InOrdersOf, Zenon
      <4>5. ASSUME levels[j].orders[k].id = levels[i].orders[c].id PROVE FALSE
        <5>1. SamePlace(j, k, i, c)
          BY <2>2, <4>5, PlacesDiffer, Zenon
        <5>. QED BY <4>2, <5>1, Zenon DEF SamePlace
      <4>. QED BY <2>3, <4>3, <4>4, <4>5, Zenon
    <3>. QED BY <2>4, <2>7, <3>1, <3>2, <3>3, <3>4, <3>5, Zenon DEF IsCancelled
  <2>11. CASE volume # 0
    <3> DEFINE y == [levels EXCEPT ![i] = e]
    <3>1. r.levels = y
      BY <2>4, <2>11, Zenon
    <3>2. IsMarked(e, level, c)
      BY <2>2, <2>8, <2>9, <1>MarkedLevel, Zenon
    <3> HIDE DEF e
    <3>3. SideOK(side, y, n)
      BY <2>2, <3>2, <1>ChangedLevel, Zenon
    <3>4. DOMAIN y = DOMAIN levels /\ y[i] = e /\ \A j \in DOMAIN levels : j # i => y[j] = levels[j]
      BY <2>2, Zenon
    <3> HIDE DEF y
    <3>5. ~BadLevels(y)
      <4> SUFFICES ASSUME NEW j \in DOMAIN levels PROVE ~(y[j].volume < 0 \/ y[j].cancelled < 0)
        BY <3>4, Zenon DEF BadLevels
      <4>1. CASE j = i
        BY <3>2, <3>4, <4>1, Zenon DEF IsMarked
      <4>2. CASE j # i
        BY <3>4, <4>2, Zenon DEF BadLevels
      <4>. QED BY <4>1, <4>2, Zenon
    <3>6. \A j \in DOMAIN levels : y[j].price = levels[j].price
      BY <3>2, <3>4, Zenon DEF IsMarked
    <3>7. PricesOf(y) \subseteq PricesOf(levels)
      BY <3>4, <3>6, Zenon DEF PricesOf
    <3>8. ASSUME NEW p \in OrdersOf(y)
          PROVE  /\ \E q \in OrdersOf(levels) : p.id = q.id /\ (p.cancelled \/ p = q)
                 /\ ~p.cancelled => p.id # o.id
      <4>1. PICK j \in DOMAIN y : \E k \in DOMAIN y[j].orders : p = y[j].orders[k]
        BY InOrdersOf, Zenon
      <4>2. \E l \in DOMAIN levels[j].orders : /\ p.id = levels[j].orders[l].id
                                               /\ p.cancelled \/ (p = levels[j].orders[l] /\ (j = i => l # c))
        <5>1. PICK k \in DOMAIN y[j].orders : p = y[j].orders[k]
          BY <4>1, Zenon
        <5>2. CASE j = i
          <6>1. PICK l \in DOMAIN level.orders : /\ Key(e.orders[k], level.orders[l])
                                                 /\ e.orders[k].cancelled \/ (l # c /\ e.orders[k] = level.orders[l])
            BY <3>2, <3>4, <5>1, <5>2, Zenon DEF IsMarked
          <6>2. p = e.orders[k] /\ levels[j] = level
            BY <3>4, <5>1, <5>2, Zenon
          <6>. QED BY <6>1, <6>2, Zenon DEF Key
        <5>3. CASE j # i
          BY <3>4, <5>1, <5>3, Zenon
        <5>. QED BY <5>2, <5>3, Zenon
      <4>3. PICK l \in DOMAIN levels[j].orders : /\ p.id = levels[j].orders[l].id
                                                 /\ p.cancelled \/ (p = levels[j].orders[l] /\ (j = i => l # c))
        BY <4>2, Zenon
      <4>4. levels[j].orders[l] \in OrdersOf(levels)
        BY <3>4, InOrdersOf, Zenon
      <4>5. ASSUME ~p.cancelled PROVE p.id # o.id
        <5>1. ~(j = i /\ l = c)
          BY <4>3, <4>5, Zenon
        <5>2. levels[j].orders[l].id # levels[i].orders[c].id
          <6>1. ASSUME levels[j].orders[l].id = levels[i].orders[c].id PROVE SamePlace(j, l, i, c)
            <7>1. j \in DOMAIN levels
              BY <3>4, Zenon
            <7>. QED BY <2>2, <6>1, <7>1, PlacesDiffer, Zenon
          <6>. QED BY <5>1, <6>1, Zenon DEF SamePlace
        <5>. QED BY <2>3, <4>3, <5>2, Zenon
      <4>. QED BY <4>3, <4>4, <4>5, Zenon
    <3>. QED BY <2>4, <2>7, <3>1, <3>3, <3>5, <3>7, <3>8, Zenon DEF IsCancelled
  <2>. QED BY <2>10, <2>11, Zenon
<1>. QED BY <1>2, <1>3, Zenon

-----------------------------------------------------------------------------
(* What an execution takes from a side                                     *)

\* An order that is left was there before, is not among those that were used up, and is
\* as it was unless it is the residual.
Taken(levels, x) ==
    /\ x.filled \in Seq(Orders)
    /\ PricesOf(x.levels) \subseteq PricesOf(levels)
    /\ \A p \in OrdersOf(x.levels) : \E o \in OrdersOf(levels) :
         /\ Same(p, o) /\ \A f \in DOMAIN x.filled : x.filled[f].id # o.id
         /\ \/ p = o /\ \A r \in x.residual : r.order_id # o.id
            \/ \E r \in x.residual : /\ x.residual = {r} /\ r.order_id = o.id
                                     /\ p = Filled(o, r.filled_base_lots, r.self_fill)
    /\ \A r \in x.residual : /\ r.filled_base_lots \in Nat /\ r.self_fill \in Nat
                             /\ r.account \in Accounts /\ r.price \in Prices /\ x.residual = {r}
                             /\ \E o \in OrdersOf(levels) : r.order_id = o.id
    /\ \A f \in DOMAIN x.filled : \E o \in OrdersOf(levels) : x.filled[f].id = o.id

\* Orders go from the best one on.
InTurn(levels, y) ==
    \A p, q \in OrdersOf(levels) :
        Ahead(p, q) /\ q \notin OrdersOf(y) => \A r \in OrdersOf(y) : r.id # p.id

\* The results of an execution, order by order.
LEMMA TakenOf ==
    \A side, levels, n, x :
        (/\ SideOK(side, levels, n)
         /\ Left(levels, x)) => Taken(levels, x)
\* The residual's place is the first that is left.
<1>ResidualPlace. ASSUME NEW levels \in Seq(Levels), NEW x, Left(levels, x), NEW r \in x.residual
                  PROVE  LET n == Len(x.levels)
                             d == Off(levels, x.levels, n)
                         IN /\ n \in DOMAIN x.levels /\ n \in DOMAIN levels /\ d + 1 \in DOMAIN levels[n].orders
                            /\ ResidualOf(r, levels[n].orders[d + 1]) /\ x.residual = {r}
  <2> USE <1>ResidualPlace
  <2> DEFINE n == Len(x.levels)
             d == Off(levels, x.levels, n)
  <2>1. n > 0
    BY Zenon DEF Left
  <2>2. n \in DOMAIN x.levels /\ n \in Nat
    <3>1. x.levels \in Seq(Levels)
      BY Zenon DEF Left
    <3>. QED BY <2>1, <3>1
  <2>3. PartOf(levels[n], x.levels[n], x.residual)
    BY <2>1, Zenon DEF Left
  <2>4. x.residual = {r} /\ 1 \in DOMAIN x.levels[n].orders /\ ResidualOf(r, levels[n].orders[d + 1])
    BY <2>3, Zenon DEF PartOf, Off
  <2>5. n \in DOMAIN levels /\ Stays(levels, x, n, 1)
    BY <2>2, <2>4, LeftLevels, Zenon
  <2>6. d + 1 \in DOMAIN levels[n].orders
    BY <2>5, Zenon DEF Stays
  <2>. QED BY <2>2, <2>4, <2>5, <2>6, Zenon
<1> SUFFICES ASSUME NEW side, NEW levels, NEW n, SideOK(side, levels, n), NEW x, Left(levels, x)
             PROVE  Taken(levels, x)
  BY Zenon
<1> DEFINE y == x.levels
           d(i) == Off(levels, y, i)
<1>1. levels \in Seq(Levels) /\ x.filled \in Seq(Orders) /\ y \in Seq(Levels)
  BY Zenon DEF SideOK, Left
<1>2. \A i \in DOMAIN y :
        /\ i \in DOMAIN levels /\ y[i].price = levels[i].price /\ d(i) \in Nat
        /\ y[i].orders \in Seq(Orders)
        /\ \A k \in DOMAIN y[i].orders : Stays(levels, x, i, k)
  BY <1>1, LeftLevels, ZenonT(60)
<1>3. PricesOf(y) \subseteq PricesOf(levels)
  BY <1>2, Zenon DEF PricesOf
<1>4. ASSUME NEW r \in x.residual
      PROVE  /\ r.filled_base_lots \in Nat /\ r.self_fill \in Nat
             /\ r.account \in Accounts /\ r.price \in Prices /\ x.residual = {r}
             /\ \E o \in OrdersOf(levels) : r.order_id = o.id
  <2> DEFINE m == Len(y)
             o == levels[m].orders[d(m) + 1]
  <2>1. /\ m \in DOMAIN levels /\ d(m) + 1 \in DOMAIN levels[m].orders
        /\ ResidualOf(r, o) /\ x.residual = {r}
    BY <1>1, <1>ResidualPlace, Zenon
  <2>2. o \in OrdersOf(levels)
    BY <2>1, InOrdersOf, Zenon
  <2>3. o.account \in Accounts
    BY <2>2, SideOrders, OrderFields, Zenon
  <2>. QED BY <2>1, <2>2, <2>3, Zenon DEF ResidualOf
<1>5. ASSUME NEW p \in OrdersOf(y)
      PROVE  \E o \in OrdersOf(levels) :
               /\ Same(p, o) /\ \A f \in DOMAIN x.filled : x.filled[f].id # o.id
               /\ \/ p = o /\ \A r \in x.residual : r.order_id # o.id
                  \/ \E r \in x.residual : /\ x.residual = {r} /\ r.order_id = o.id
                                           /\ p = Filled(o, r.filled_base_lots, r.self_fill)
  <2>1. PICK i \in DOMAIN y : \E k \in DOMAIN y[i].orders : p = y[i].orders[k]
    BY InOrdersOf, Zenon
  <2>2. PICK k \in DOMAIN y[i].orders : p = y[i].orders[k]
    BY <2>1, Zenon
  <2> DEFINE o == levels[i].orders[d(i) + k]
  <2>3. Stays(levels, x, i, k) /\ i \in DOMAIN levels
    BY <1>2, Zenon
  <2>4. /\ d(i) + k \in DOMAIN levels[i].orders /\ Same(p, o) /\ ~Gone(levels, y, i, d(i) + k)
        /\ \/ p = o /\ \A r \in x.residual : i = Len(y) => k # 1
           \/ \E r \in x.residual : /\ x.residual = {r} /\ ResidualOf(r, o)
                                    /\ p = Filled(o, r.filled_base_lots, r.self_fill)
    BY <2>2, <2>3, Zenon DEF Stays
  <2>5. o \in OrdersOf(levels)
    BY <2>3, <2>4, InOrdersOf, Zenon
  <2>6. ASSUME NEW f \in DOMAIN x.filled PROVE x.filled[f].id # o.id
    <3>1. PICK j \in DOMAIN levels : \E l \in DOMAIN levels[j].orders :
            Gone(levels, y, j, l) /\ Same(x.filled[f], levels[j].orders[l])
      BY Zenon DEF Left
    <3>2. PICK l \in DOMAIN levels[j].orders : Gone(levels, y, j, l) /\ Same(x.filled[f], levels[j].orders[l])
      BY <3>1, Zenon
    <3>3. ASSUME levels[j].orders[l].id = levels[i].orders[d(i) + k].id PROVE FALSE
      <4> DEFINE c == d(i) + k
      <4>0. c \in DOMAIN levels[i].orders /\ levels[j].orders[l].id = levels[i].orders[c].id
        BY <2>4, <3>3, Zenon
      <4> HIDE DEF c
      <4>1. SamePlace(j, l, i, c)
        BY <2>3, <4>0, PlacesDiffer, Zenon
      <4>. QED BY <2>4, <3>2, <4>1, Zenon DEF c, SamePlace
    <3>. QED BY <3>2, <3>3, Zenon DEF Same
  <2>7. ASSUME p = o, \A r \in x.residual : i = Len(y) => k # 1, NEW r \in x.residual
        PROVE  r.order_id # o.id
    <3> DEFINE m == Len(y)
    <3>1. /\ m \in DOMAIN levels /\ m \in DOMAIN y /\ d(m) + 1 \in DOMAIN levels[m].orders
          /\ ResidualOf(r, levels[m].orders[d(m) + 1])
      BY <1>1, <1>ResidualPlace, Zenon
    <3>2. ASSUME levels[m].orders[d(m) + 1].id = levels[i].orders[d(i) + k].id PROVE FALSE
      <4> DEFINE b == d(m) + 1
                 c == d(i) + k
      <4>0. /\ m \in DOMAIN levels /\ b \in DOMAIN levels[m].orders /\ c \in DOMAIN levels[i].orders
            /\ levels[m].orders[b].id = levels[i].orders[c].id
        BY <2>4, <3>1, <3>2, Zenon
      <4> HIDE DEF b, c, m
      <4>a. SamePlace(m, b, i, c)
        BY <2>3, <4>0, PlacesDiffer, Zenon
      <4>1. m = i /\ d(m) + 1 = d(i) + k
        BY <4>a, Zenon DEF b, c, SamePlace
      <4>2. d(i) \in Nat /\ k \in Nat /\ d(i) + 1 = d(i) + k
        <5>1. d(i) \in Nat /\ y[i].orders \in Seq(Orders)
          BY <1>2, Zenon
        <5>2. k \in Nat
          BY <5>1
        <5>. QED BY <4>1, <5>1, <5>2, Zenon
      <4>3. k = 1
        <5> HIDE DEF d
        <5>. QED BY <4>2
      <4>. QED BY <2>7, <4>1, <4>3, Zenon DEF m
    <3>. QED BY <3>1, <3>2, Zenon DEF ResidualOf
  <2>. QED BY <2>4, <2>5, <2>6, <2>7, Zenon DEF ResidualOf
<1>6. ASSUME NEW f \in DOMAIN x.filled PROVE \E o \in OrdersOf(levels) : x.filled[f].id = o.id
  <2>1. PICK j \in DOMAIN levels : \E l \in DOMAIN levels[j].orders : Same(x.filled[f], levels[j].orders[l])
    BY Zenon DEF Left
  <2>2. PICK l \in DOMAIN levels[j].orders : Same(x.filled[f], levels[j].orders[l])
    BY <2>1, Zenon
  <2>3. levels[j].orders[l] \in OrdersOf(levels)
    BY InOrdersOf, Zenon
  <2>. QED BY <2>2, <2>3, Zenon DEF Same
<1>. QED BY <1>1, <1>3, <1>4, <1>5, <1>6, Zenon DEF Taken

\* Orders go in turn.
LEMMA InTurnOf ==
    \A side, levels, n, x :
        (/\ SideOK(side, levels, n)
         /\ Left(levels, x)) => InTurn(levels, x.levels)
\* An order that is not gone is left, as it was unless it is the residual's.
<1>StaysThere. ASSUME NEW levels \in Seq(Levels), NEW x, Left(levels, x),
                      NEW i \in DOMAIN levels, NEW k \in DOMAIN levels[i].orders, ~Gone(levels, x.levels, i, k)
               PROVE  \/ levels[i].orders[k] \in OrdersOf(x.levels)
                      \/ i = Len(x.levels) /\ k = Off(levels, x.levels, i) + 1
  <2> USE <1>StaysThere
  <2> DEFINE y == x.levels
             n == Len(y)
             d == Off(levels, y, i)
  <2>1. y \in Seq(Levels) /\ n <= Len(levels) /\ DOMAIN y = 1 .. n /\ n \in Nat
        /\ Len(levels) \in Nat /\ DOMAIN levels = 1 .. Len(levels)
    <3>1. x.levels \in Seq(Levels) /\ Len(x.levels) <= Len(levels)
      BY Zenon DEF Left
    <3>. QED BY <3>1
  <2>2. ~(i > n) /\ ~(i = n /\ k <= d)
    BY Zenon DEF Gone, Off
  <2>3. i \in DOMAIN y /\ (i < n \/ i = n)
    BY <2>1, <2>2
  <2>4. /\ d \in Nat /\ y[i].orders \in Seq(Orders) /\ levels[i].orders \in Seq(Orders)
        /\ \A l \in DOMAIN y[i].orders : Stays(levels, x, i, l)
        /\ i < n => y[i] = levels[i]
    BY <2>3, LeftLevels, ZenonT(40)
  <2>5. CASE i < n
    BY <2>3, <2>4, <2>5, InOrdersOf, Zenon
  <2>6. CASE i = n
    <3> DEFINE l == k - d
               len == Len(y[i].orders)
               all == Len(levels[i].orders)
    <3>1. d = all - len /\ len \in Nat /\ all \in Nat /\ k \in 1 .. all /\ DOMAIN y[i].orders = 1 .. len
      BY <2>4, SMTT(40) DEF Off
    <3>2. ~(k <= d)
      BY <2>2, <2>6, Zenon
    <3> HIDE DEF len, all, d
    <3>3. l \in 1 .. len /\ d + l = k /\ (l = 1 => k = d + 1)
      BY <2>4, <3>1, <3>2
    <3> HIDE DEF l
    <3>4. l \in DOMAIN y[i].orders
      BY <3>1, <3>3, Zenon
    <3>5. Stays(levels, x, i, l)
      BY <2>4, <3>4, Zenon
    <3>6. y[i].orders[l] \in OrdersOf(y)
      BY <2>3, <3>4, InOrdersOf, Zenon
    <3>7. y[i].orders[l] = levels[i].orders[k] \/ l = 1
      BY <3>3, <3>5, Zenon DEF Stays, d
    <3>. QED BY <2>6, <3>3, <3>6, <3>7, Zenon DEF d
  <2>. QED BY <2>3, <2>5, <2>6, Zenon
\* An order that is ahead of another stands after it, in the levels or in its level.
<1>AheadPlace. ASSUME NEW side, NEW levels, NEW n, SideOK(side, levels, n),
                      NEW i \in DOMAIN levels, NEW k \in DOMAIN levels[i].orders,
                      NEW j \in DOMAIN levels, NEW l \in DOMAIN levels[j].orders,
                      Ahead(levels[i].orders[k], levels[j].orders[l])
               PROVE  i > j \/ (i = j /\ k < l)
  <2> USE <1>AheadPlace
  <2> DEFINE p == levels[i].orders[k]
             q == levels[j].orders[l]
  <2>1. levels \in Seq(Levels) /\ DOMAIN levels \subseteq Nat
    <3>1. levels \in Seq(Levels)
      BY Zenon DEF SideOK
    <3>. QED BY <3>1
  <2>2. \A a \in DOMAIN levels : /\ levels[a].orders \in Seq(Orders) /\ levels[a].price \in Nat
                                 /\ LevelOK(side, levels[a], n)
    <3> SUFFICES ASSUME NEW a \in DOMAIN levels
                 PROVE  levels[a].orders \in Seq(Orders) /\ levels[a].price \in Nat /\ LevelOK(side, levels[a], n)
      BY Zenon
    <3>1. levels[a] \in Levels
      BY <2>1
    <3>2. levels[a].orders \in Seq(Orders) /\ levels[a].price \in Nat \ {0}
      BY <3>1, LevelFields, Zenon
    <3>3. levels[a].price \in Nat
      BY <3>2, Zenon
    <3>. QED BY <3>2, <3>3, Zenon DEF SideOK
  <2>3. p.price = levels[i].price /\ q.price = levels[j].price /\ p.direction = side
    BY <2>2, Zenon DEF LevelOK
  <2>4. p \in Orders /\ q \in Orders /\ k \in Nat /\ l \in Nat
    BY <2>2
  <2>5. p.id \in Nat /\ q.id \in Nat
    BY <2>4, OrderFields, Zenon
  <2> HIDE DEF p, q
  <2>6. CASE Worse(side, q.price, p.price)
    <3>1. ~Worse(side, p.price, q.price) /\ p.price # q.price
      BY <2>2, <2>3, <2>6, WorsePrices, Zenon
    <3>2. ~(i < j)
      BY <2>3, <3>1, Zenon DEF SideOK
    <3>3. i # j
      BY <2>3, <3>1, Zenon
    <3>. QED BY <2>1, <3>2, <3>3
  <2>7. CASE p.price = q.price /\ p.id < q.id
    <3>1. i = j
      <4>1. ~Worse(side, levels[i].price, levels[j].price) /\ ~Worse(side, levels[j].price, levels[i].price)
        BY <2>2, <2>3, <2>7, WorsePrices, Zenon
      <4>2. ~(i < j) /\ ~(j < i)
        BY <4>1, Zenon DEF SideOK
      <4>. QED BY <2>1, <4>2
    <3>2. IdsGrow(levels[i].orders) /\ l \in DOMAIN levels[i].orders
      BY <2>2, <3>1, Zenon DEF LevelOK
    <3>3. ~(q.id < p.id) /\ p.id # q.id
      BY <2>5, <2>7
    <3>4. ~(l < k)
      BY <3>1, <3>2, <3>3, Zenon DEF IdsGrow, p, q
    <3>5. k # l
      BY <3>1, <3>3, Zenon DEF p, q
    <3>. QED BY <2>4, <3>1, <3>4, <3>5
  <2>. QED BY <2>3, <2>6, <2>7, Zenon DEF Ahead, p, q
<1> SUFFICES ASSUME NEW side, NEW levels, NEW n, SideOK(side, levels, n), NEW x, Left(levels, x)
             PROVE  InTurn(levels, x.levels)
  BY Zenon
<1> DEFINE y == x.levels
<1>1. levels \in Seq(Levels) /\ y \in Seq(Levels)
  BY Zenon DEF SideOK, Left
<1> SUFFICES ASSUME NEW p \in OrdersOf(levels), NEW q \in OrdersOf(levels), Ahead(p, q),
                    q \notin OrdersOf(y), NEW r \in OrdersOf(y), r.id = p.id
             PROVE  FALSE
  BY Zenon DEF InTurn
<1>2. PICK i \in DOMAIN levels : \E k \in DOMAIN levels[i].orders : p = levels[i].orders[k]
  BY InOrdersOf, ZenonT(60)
<1>3. PICK k \in DOMAIN levels[i].orders : p = levels[i].orders[k]
  BY <1>2, Zenon
<1>4. PICK j \in DOMAIN levels : \E l \in DOMAIN levels[j].orders : q = levels[j].orders[l]
  BY InOrdersOf, ZenonT(60)
<1>5. PICK l \in DOMAIN levels[j].orders : q = levels[j].orders[l]
  BY <1>4, Zenon
<1>6. i > j \/ (i = j /\ k < l)
  BY <1>3, <1>5, <1>AheadPlace, Zenon
<1>7. Gone(levels, y, j, l) \/ (j = Len(y) /\ l = Off(levels, y, j) + 1)
  BY <1>1, <1>5, <1>StaysThere, Zenon
<1>8. /\ DOMAIN levels \subseteq Nat /\ Len(y) \in Nat /\ DOMAIN levels[i].orders \subseteq Nat
      /\ DOMAIN levels[j].orders \subseteq Nat
  <2>1. levels[i] \in Levels /\ levels[j] \in Levels
    BY <1>1
  <2>2. levels[i].orders \in Seq(Orders) /\ levels[j].orders \in Seq(Orders)
    BY <2>1, LevelFields, Zenon
  <2>. QED BY <1>1, <2>2, SMTT(40)
<1>9. Gone(levels, y, i, k)
  <2> DEFINE d == Off(levels, y, j)
  <2>1. CASE i > j
    <3>1. CASE j > Len(y) \/ j = Len(y)
      <4>1. i > Len(y)
        BY <1>8, <2>1, <3>1
      <4>. QED BY <4>1, Zenon DEF Gone
    <3>. QED BY <1>7, <3>1, Zenon DEF Gone
  <2>2. CASE i = j /\ k < l
    <3>1. CASE j > Len(y)
      BY <2>2, <3>1, Zenon DEF Gone
    <3>2. CASE j = Len(y) /\ (l <= d \/ l = d + 1)
      <4>1. d \in Nat
        <5>1. j \in DOMAIN y
          <6>1. j \in Nat /\ j >= 1
            BY <1>1
          <6>. QED BY <1>1, <3>2, <6>1
        <5>. QED BY <1>1, <5>1, LeftLevels, Zenon
      <4>2. k \in Nat /\ l \in Nat
        BY <1>8, Zenon
      <4> HIDE DEF d
      <4>3. k <= d
        BY <2>2, <3>2, <4>1, <4>2
      <4>. QED BY <2>2, <3>2, <4>3, Zenon DEF Gone, Off, d
    <3>. QED BY <1>7, <3>1, <3>2, Zenon DEF Gone, Off
  <2>. QED BY <1>6, <2>1, <2>2, Zenon
<1>10. PICK a \in DOMAIN y : \E b \in DOMAIN y[a].orders : r = y[a].orders[b]
  BY InOrdersOf, Zenon
<1>11. PICK b \in DOMAIN y[a].orders : r = y[a].orders[b]
  BY <1>10, Zenon
<1> DEFINE c == Off(levels, y, a) + b
<1>12. a \in DOMAIN levels /\ Stays(levels, x, a, b)
  BY <1>1, LeftLevels, Zenon
<1>13. c \in DOMAIN levels[a].orders /\ ~Gone(levels, y, a, c) /\ r.id = levels[a].orders[c].id
  BY <1>11, <1>12, Zenon DEF Stays, Same
<1> HIDE DEF c
<1>14. levels[i].orders[k].id = levels[a].orders[c].id
  BY <1>3, <1>13, Zenon
<1>15. SamePlace(i, k, a, c)
  BY <1>12, <1>13, <1>14, PlacesDiffer, Zenon
<1>. QED BY <1>9, <1>13, <1>15, Zenon DEF SamePlace

\* All prices of a side are beyond one that its best price does not reach.
LEMMA BehindBest ==
    ASSUME NEW side \in Sides, NEW levels, NEW n, SideOK(Other(side), levels, n),
           NEW o, o.price \in Nat, o.direction = side,
           levels = << >> \/ ~Crosses(levels[Len(levels)].price, {o}),
           NEW p \in PricesOf(levels)
    PROVE  Worse(side, o.price, p)
<1> DEFINE b == levels[Len(levels)].price
<1>1. levels \in Seq(Levels)
  BY Zenon DEF SideOK
<1>2. PICK i \in DOMAIN levels : p = levels[i].price
  BY Zenon DEF PricesOf
<1>3. levels # << >> /\ Len(levels) \in DOMAIN levels /\ Len(levels) \in Nat /\ (i < Len(levels) \/ i = Len(levels))
  BY <1>1
<1>4. \A a \in DOMAIN levels : levels[a].price \in Nat
  <2> SUFFICES ASSUME NEW a \in DOMAIN levels PROVE levels[a].price \in Nat
    BY Zenon
  <2>1. levels[a] \in Levels
    BY <1>1
  <2>2. levels[a].price \in Nat \ {0}
    BY <2>1, LevelFields, Zenon
  <2>. QED BY <2>2, Zenon
<1>5. ~(b = o.price \/ Worse(Other(side), o.price, b))
  BY <1>3, Zenon DEF Crosses
<1>6. p = b \/ Worse(Other(side), p, b)
  BY <1>2, <1>3, Zenon DEF SideOK
<1>7. b \in Nat /\ p \in Nat
  BY <1>2, <1>3, <1>4, Zenon
<1> HIDE DEF b
<1>8. CASE side = "Buy"
  <2>1. Other(side) = "Sell" /\ "Sell" # "Buy"
    BY <1>8, Zenon DEF Other
  <2>. QED BY <1>5, <1>6, <1>7, <1>8, <2>1 DEF Worse
<1>9. CASE side = "Sell"
  <2>1. Other(side) = "Buy" /\ "Sell" # "Buy"
    BY <1>9, Zenon DEF Other
  <2>. QED BY <1>5, <1>6, <1>7, <1>9, <2>1 DEF Worse
<1>. QED BY <1>8, <1>9, Zenon DEF Sides

=============================================================================
