--------------------------- MODULE LotConversions ---------------------------
(***************************************************************************)
(* The precision of a market and the conversions between base lots and     *)
(* quote lots at a price, in ticks (src/src/state/spot_clearinghouse.rs).  *)
(***************************************************************************)
EXTENDS Integers

CONSTANTS
    \* MarketPrecision
    base_lot_size, quote_lot_size, tick, tick_scale     \* 10^tick_decimals

ASSUME PrecisionAssumption ==
    {base_lot_size, quote_lot_size, tick, tick_scale} \subseteq Nat \ {0}

base_to_quote_lots(base_lots, price) ==
    (base_lots * base_lot_size * price * tick) \div (quote_lot_size * tick_scale)

quote_lots_to_base_lots(quote_lots, price) ==
    (quote_lots * quote_lot_size * tick_scale) \div (price * tick * base_lot_size)

=============================================================================
