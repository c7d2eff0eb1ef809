----------------------------- MODULE OrderEntry -----------------------------
(***************************************************************************)
(* What the console makes of an order that is typed at a market's prompt   *)
(* (src/src/console.rs): the amounts become lots and ticks, and the order   *)
(* is compared with the balance that the node reported.                    *)
(*                                                                         *)
(* A typed number is an integer in tenths of the asset's smallest unit (of  *)
(* the price's last decimal), so that there is something to round.  Ties,   *)
(* where the outcome depends on the f64 nearest to the decimal, are left    *)
(* out.  None is {}, Some(x) is {x}.                                       *)
(***************************************************************************)
EXTENDS LotConversions

\* (typed * factor).round() as u64: a negative number becomes 0.
RawUnits(typed) == IF typed < 0 THEN 0 ELSE (typed + 5) \div 10

\* Mutant: the last lot that is begun is bought whole.
lots_rounded_up(typed, lot_size) ==
    IF typed < 0 THEN {} ELSE {(RawUnits(typed) + lot_size - 1) \div lot_size}

amount_to_lots(typed, lot_size) ==
    IF typed < 0 THEN {} ELSE {RawUnits(typed) \div lot_size}

parse_price_to_multiple(typed) ==
    IF RawUnits(typed) % tick # 0 THEN {} ELSE {RawUnits(typed) \div tick}

\* What the screens show of a price and of an amount, in the units of RawUnits.
format_price(price) == price * tick
lots_to_amount(lots, lot_size) == lots * lot_size

LotSize(o) == IF o.kind = "market" /\ o.side = "Buy" THEN quote_lot_size ELSE base_lot_size

\* The arms of handle_market for typed order t: a set with the order, or without if
\* the amount or the price is invalid.  A market order has no price.
Entered(t) ==
    {[kind |-> t.kind, side |-> t.side, price |-> price, lots |-> lots] :
        lots \in amount_to_lots(t.amount, LotSize(t)) \ {0},
        price \in IF t.kind = "limit" THEN parse_price_to_multiple(t.price) \ {0} ELSE {0}}

\* Mutant: the price is taken in quote units.
needs_in_units(o) ==
    IF o.kind = "limit" /\ o.side = "Buy" THEN o.price * tick * o.lots ELSE o.lots

\* The amount that handle_limit_order and handle_market_order compare with the
\* available balance.
Needs(o) == IF o.kind = "limit" /\ o.side = "Buy" THEN o.price * o.lots ELSE o.lots

\* The amount that the ledger requires.
Required(o) ==
    IF o.kind = "limit" /\ o.side = "Buy"
    THEN base_to_quote_lots(o.lots, o.price) * quote_lot_size
    ELSE o.lots * LotSize(o)

=============================================================================
