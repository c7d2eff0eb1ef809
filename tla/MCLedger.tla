------------------------------ MODULE MCLedger ------------------------------
(* Instances of Ledger for TLC. *)
EXTENDS LedgerTotals, TLC

BothAssets == {<<Base, Quote>>}
NoTransfers == {}
SomeTransfers == [from : LimitTraders, to : MarketTraders, asset_id : {Quote}, amount : {2}]

\* The accounts that place limit orders may be exchanged.
Symmetry == Permutations(LimitTraders)
=============================================================================
