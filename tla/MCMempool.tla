------------------------------ MODULE MCMempool ------------------------------
(* Instances of Mempool for TLC. *)
EXTENDS Mempool

Transaction(a, n, k) == [from |-> a, nonce |-> n, kind |-> k]

\* Two transactions for one nonce and the one that follows them.
Replacement == {Transaction("a", 0, "Other"), Transaction("a", 0, "Cancel"),
                Transaction("a", 1, "Cancel")}
\* The ledger takes them all, or refuses one of those that have the same nonce.
Unpaid == {{}, {Transaction("a", 0, "Cancel")}}

==============================================================================
