----------------------------- MODULE MCConsole ------------------------------
(* Instances of Console for TLC, with the lots and ticks of the deployed market. *)
EXTENDS Console

OnlyOne(commands) == [c \in Consoles \cup {"elsewhere"} |-> IF c = "c1" THEN commands ELSE {}]

\* One console in the markets, one that transfers, both of which wait for each transaction;
\* two that drip; one that drips and queries while others drip elsewhere; one whose user
\* does not wait.
SomeHabits ==
    {OnlyOne({"start", "markets", "quit", "patient"}),
     OnlyOne({"start", "query", "transfer", "patient"}),
     [c \in Consoles \cup {"elsewhere"} |-> IF c = "elsewhere" THEN {} ELSE {"start", "drip"}],
     [OnlyOne({"start", "drip", "query"}) EXCEPT !["elsewhere"] = {"drip"}],
     OnlyOne({"start", "query", "transfer"})}

\* A drip of another node, with the nonce that the first drip here reads as well.
SomeGossip == {[from |-> Faucet, nonce |-> 0, body |-> Drip("elsewhere")]}

\* 0.0590 at 2.0; a price between two ticks; a market order of less than a lot, of
\* some lots, of more than there is, and of less than nothing.
SomeTyped ==
    {[kind |-> "limit", side |-> "Buy", price |-> 20000, amount |-> 5900],
     [kind |-> "limit", side |-> "Sell", price |-> 2500, amount |-> 3000],
     [kind |-> "market", side |-> "Buy", price |-> 0, amount |-> 900],
     [kind |-> "market", side |-> "Sell", price |-> 0, amount |-> 3999],
     [kind |-> "market", side |-> "Buy", price |-> 0, amount |-> 2000000],
     [kind |-> "market", side |-> "Sell", price |-> 0, amount |-> -1000]}
=============================================================================
