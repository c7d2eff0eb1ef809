------------------------------ MODULE Console -------------------------------
(***************************************************************************)
(* Consoles (src/src/console.rs) at work on one node: the requests they    *)
(* send and the answers they wait for (message_protocol.rs), the node's    *)
(* handler task for each of them (node/client/handler.rs), and the inbox    *)
(* through which handlers, peers and the replica itself reach the replica   *)
(* (node/runner.rs, hotstuff/replica_sender.rs).                           *)
(*                                                                         *)
(* The ledger is abstract here: an account has the nonce it expects next,   *)
(* a query reports some balance, and a transaction that is executed is      *)
(* accepted or refused.  Ledger and Mempool have the details.              *)
(***************************************************************************)
EXTENDS OrderEntry, Sequences, FiniteSets

CONSTANTS
    Consoles,
    Habits,         \* what the users may be like: console -> the commands they give,
                    \* and "patient" if they wait for a transaction before the next;
                    \* "elsewhere" stands for the consoles of the other nodes
    Typed,          \* the orders that are typed: [kind, side, price, amount]
    Available,      \* the balances that a query may report
    Capacity,       \* mpsc::channel(1024)
    Gossip,         \* the drips from elsewhere, that peers pass on
    MaxSent,        \* bound on the transactions of a console
    MaxDrips        \* bound on its drips

Faucet == "faucet"
Accounts == Consoles \cup {Faucet}      \* every console loads an account of its own

ASSUME ConsoleAssumption ==
    /\ IsFiniteSet(Consoles) /\ Faucet \notin Consoles
    /\ {Capacity, MaxSent, MaxDrips} \cup Available \subseteq Nat
    /\ \A t \in Gossip : t.from = Faucet /\ t.nonce \in Nat /\ t.body.to \notin Consoles
    /\ \A t \in Typed : /\ t.kind \in {"limit", "market"} /\ {t.price, t.amount} \subseteq Int
                        /\ t.price % 10 # 5 /\ t.amount % 10 # 5

VARIABLES
    user,           \* the one of Habits that is the case
    pc,             \* console -> its prompt, or what it does with the answer
    loaded,         \* console -> client_account is Some
    order,          \* console -> the order that was typed, and what was made of it
    to_node, to_client,     \* console -> messages on the way
    handler,        \* console -> where handle_client_connection is
    inbox,          \* to_replica_rx
    response,       \* console -> the oneshot channel of its query
    sending,        \* the message that the replica has to send to itself
    seen,           \* seen_transactions
    pool,           \* the mempool
    expected_nonce, \* account -> Nonce
    sent,           \* console -> what was signed for it
    decided         \* transactions that were accepted or refused

console == <<user, pc, loaded, order>>
wires == <<to_node, to_client>>
node == <<handler, response, seen>>
replica == <<inbox, sending, pool, expected_nonce, decided>>
vars == <<console, wires, node, replica, sent>>

None == [kind |-> "None"]
NoOrder == [typed |-> None, made |-> {}]
Idle == [at |-> "read", item |-> None]

Init ==
    /\ user \in Habits
    /\ pc = [c \in Consoles |-> "start"]
    /\ loaded = [c \in Consoles |-> FALSE]
    /\ order = [c \in Consoles |-> NoOrder]
    /\ to_node = [c \in Consoles |-> << >>] /\ to_client = [c \in Consoles |-> << >>]
    /\ handler = [c \in Consoles |-> Idle]
    /\ inbox = << >>
    /\ response = [c \in Consoles |-> None]
    /\ sending = None
    /\ seen = {} /\ pool = {} /\ decided = {}
    /\ expected_nonce = [a \in Accounts |-> 0]
    /\ sent = [c \in Consoles |-> {}]

-----------------------------------------------------------------------------
(* The console's commands                                                  *)

At(c, p) == pc' = [pc EXCEPT ![c] = p]
Send(c, m) == to_node' = [to_node EXCEPT ![c] = Append(@, m)]
Gives(c, command) == command \in user[c]

\* A query is sent, and the answer awaited at p.
Ask(c, kind, p) == Send(c, [kind |-> kind]) /\ At(c, p) /\ UNCHANGED to_client

\* The answer each place waits for.
Awaited(p) ==
    CASE p = "assets"  -> "Assets"
      [] p = "markets" -> "Markets"
      [] p = "info"    -> "MarketInfo"
      [] p \in {"query", "transfer", "screen", "open", "order", "cancel"} -> "Account"
      [] OTHER -> "None"

Own(c) == {t \in sent[c] : t.from = c}

\* The user of a patient console sees the last transaction through first.
MaySubmit(c) == Cardinality(Own(c)) < MaxSent /\ (Gives(c, "patient") => Own(c) \subseteq decided)

run_console(c) ==
    /\ pc[c] = "start" /\ Gives(c, "start")
    /\ Ask(c, "Assets", "assets") /\ UNCHANGED <<user, loaded, order>>

\* create or load.
handle_load(c) ==
    /\ pc[c] = "menu" /\ ~loaded[c]
    /\ loaded' = [loaded EXCEPT ![c] = TRUE]
    /\ UNCHANGED <<user, pc, order, wires>>

\* A drip is not answered.
handle_drip(c) ==
    /\ pc[c] = "menu" /\ loaded[c] /\ Gives(c, "drip")
    /\ Cardinality(sent[c] \ Own(c)) + Len(to_node[c]) < MaxDrips
    /\ Send(c, [kind |-> "Drip"])
    /\ UNCHANGED <<console, to_client>>

handle_query(c) ==
    /\ pc[c] = "menu" /\ loaded[c] /\ Gives(c, "query")
    /\ Ask(c, "Account", "query") /\ UNCHANGED <<user, loaded, order>>

handle_transfer(c) ==
    /\ pc[c] = "menu" /\ loaded[c] /\ Gives(c, "transfer") /\ MaySubmit(c)
    /\ Ask(c, "Account", "transfer") /\ UNCHANGED <<user, loaded, order>>

handle_markets(c) ==
    /\ pc[c] = "menu" /\ loaded[c] /\ Gives(c, "markets")
    /\ Ask(c, "Markets", "markets") /\ UNCHANGED <<user, loaded, order>>

\* The list of markets: a market is chosen, or the menu.
choose_market(c) ==
    /\ pc[c] = "list"
    /\ \/ Ask(c, "MarketInfo", "info")
       \/ At(c, "menu") /\ UNCHANGED wires
    /\ UNCHANGED <<user, loaded, order>>

\* The prompt of a market that needs no order: back, open and re.
market_menu(c) ==
    /\ pc[c] = "market"
    /\ \/ At(c, "list") /\ UNCHANGED wires
       \/ Ask(c, "Account", "open")
       \/ Ask(c, "MarketInfo", "info")
    /\ UNCHANGED <<user, loaded, order>>

\* An order that is invalid, or is not confirmed, leads back to the market's screen.
order_command(c, t) ==
    /\ pc[c] = "market" /\ MaySubmit(c)
    /\ \/ /\ Entered(t) # {}
          /\ order' = [order EXCEPT ![c] = [typed |-> t, made |-> Entered(t)]]
          /\ Ask(c, "Account", "order")
       \/ Ask(c, "MarketInfo", "info") /\ UNCHANGED order
    /\ UNCHANGED <<user, loaded>>

cancel_command(c) ==
    /\ pc[c] = "market" /\ MaySubmit(c)
    /\ Ask(c, "Account", "cancel") \/ Ask(c, "MarketInfo", "info")
    /\ UNCHANGED <<user, loaded, order>>

\* prompt_ack after an order was submitted.
acknowledge(c) ==
    /\ pc[c] = "ack"
    /\ Ask(c, "MarketInfo", "info")
    /\ order' = [order EXCEPT ![c] = NoOrder]
    /\ UNCHANGED <<user, loaded>>

\* The node is not told.
quit(c) ==
    /\ pc[c] = "menu" /\ Gives(c, "quit")
    /\ At(c, "left")
    /\ UNCHANGED <<user, loaded, order, wires>>

Command(c) ==
    /\ \/ run_console(c) \/ handle_load(c) \/ handle_drip(c) \/ handle_query(c)
       \/ handle_transfer(c) \/ handle_markets(c) \/ choose_market(c) \/ market_menu(c)
       \/ \E t \in Typed : order_command(c, t)
       \/ cancel_command(c) \/ acknowledge(c) \/ quit(c)
    /\ UNCHANGED <<node, replica, sent>>

-----------------------------------------------------------------------------
(* The console and its answers                                             *)

\* Mutant: the nonce that was read first is used for every transaction.
first_nonce(c, answer) == 0

\* The nonce that the transaction is signed with.
NonceOf(c, answer) == answer.nonce

Sign(c, answer, body) ==
    LET t == [from |-> c, nonce |-> NonceOf(c, answer), body |-> body]
    IN /\ sent' = [sent EXCEPT ![c] = @ \cup {t}]
       /\ Send(c, [kind |-> "Submit", tx |-> t])

Received(c) == to_client' = [to_client EXCEPT ![c] = Tail(@)]

\* What was awaited: on to the next prompt, or to the next query.
receive_at_prompt(c, m) ==
    /\ \/ pc[c] = "assets" /\ At(c, "menu") /\ UNCHANGED to_node
       \/ pc[c] = "query" /\ At(c, "menu") /\ UNCHANGED to_node
       \/ pc[c] = "markets" /\ At(c, "list") /\ UNCHANGED to_node
       \/ pc[c] = "info" /\ At(c, "screen") /\ Send(c, [kind |-> "Account"])
       \/ pc[c] = "screen" /\ At(c, "market") /\ UNCHANGED to_node
       \/ pc[c] = "open" /\ At(c, "info") /\ Send(c, [kind |-> "MarketInfo"])
    /\ UNCHANGED <<order, sent>>

\* The rest of handle_transfer.  There may be no balance, or too little of it.
transfer_answered(c, m) ==
    /\ pc[c] = "transfer" /\ At(c, "menu")
    /\ \/ UNCHANGED <<to_node, sent>>
       \/ \E amount \in Available : amount <= m.available /\ Sign(c, m, [kind |-> "transfer", amount |-> amount])
    /\ UNCHANGED order

Refused(o, available) == Needs(o) > available

\* handle_limit_order and handle_market_order.
order_answered(c, m) ==
    /\ pc[c] = "order"
    /\ \E o \in order[c].made :
         IF Refused(o, m.available)
         THEN /\ At(c, "info") /\ Send(c, [kind |-> "MarketInfo"])
              /\ order' = [order EXCEPT ![c] = NoOrder]
              /\ UNCHANGED sent
         ELSE At(c, "ack") /\ Sign(c, m, o) /\ UNCHANGED order

handle_cancel_order(c, m) ==
    /\ pc[c] = "cancel"
    /\ At(c, "ack") /\ Sign(c, m, [kind |-> "cancel"]) /\ UNCHANGED order

\* Any answer but the awaited one is an error, which ends the console.
Receive(c) ==
    /\ Awaited(pc[c]) # "None" /\ to_client[c] # << >>
    /\ Received(c)
    /\ LET m == Head(to_client[c]) IN
       IF m.kind # Awaited(pc[c])
       THEN At(c, "failed") /\ UNCHANGED <<to_node, order, sent>>
       ELSE \/ receive_at_prompt(c, m) \/ transfer_answered(c, m)
            \/ order_answered(c, m) \/ handle_cancel_order(c, m)
    /\ UNCHANGED <<user, loaded, node, replica>>

-----------------------------------------------------------------------------
(* The node's handler                                                      *)

HandlerAt(c, at, item) == handler' = [handler EXCEPT ![c] = [at |-> at, item |-> item]]

\* handle_transaction: what was seen before goes no further.
handle_transaction(c, t) ==
    IF t \in seen THEN HandlerAt(c, "read", None) /\ UNCHANGED seen
    ELSE /\ seen' = seen \cup {t}
         /\ HandlerAt(c, "push", [kind |-> "Transaction", tx |-> t])

\* A message is read: a transaction, or a query for the replica.  The end of the
\* stream, after the console has left, is ignored.
handle_client_connection(c) ==
    /\ handler[c].at = "read" /\ to_node[c] # << >>
    /\ to_node' = [to_node EXCEPT ![c] = Tail(@)]
    /\ LET m == Head(to_node[c]) IN
       IF m.kind = "Submit" THEN handle_transaction(c, m.tx)
       ELSE /\ HandlerAt(c, "push", [kind |-> "Query", query |-> m.kind, client |-> c])
            /\ UNCHANGED seen
    /\ UNCHANGED <<console, to_client, response, replica, sent>>

HasRoom == Len(inbox) < Capacity

\* Mutant: the handler reads on before a query is answered.
push_without_waiting(c) ==
    /\ handler[c].at = "push" /\ HasRoom
    /\ inbox' = Append(inbox, handler[c].item)
    /\ HandlerAt(c, "read", None)
    /\ UNCHANGED <<console, wires, response, seen, sending, pool, expected_nonce, decided, sent>>

\* Mutant: a transaction is pushed twice.
push_twice(c) ==
    /\ handler[c].at = "push" /\ HasRoom
    /\ inbox' = IF handler[c].item.kind = "Query" THEN Append(inbox, handler[c].item)
                ELSE inbox \o <<handler[c].item, handler[c].item>>
    /\ IF handler[c].item.kind = "Query" THEN HandlerAt(c, "wait", handler[c].item)
       ELSE HandlerAt(c, "read", None)
    /\ UNCHANGED <<console, wires, response, seen, sending, pool, expected_nonce, decided, sent>>

\* The send into the inbox, which waits for room.
push(c) ==
    /\ handler[c].at = "push" /\ HasRoom
    /\ inbox' = Append(inbox, handler[c].item)
    /\ IF handler[c].item.kind = "Query" THEN HandlerAt(c, "wait", handler[c].item)
       ELSE HandlerAt(c, "read", None)
    /\ UNCHANGED <<console, wires, response, seen, sending, pool, expected_nonce, decided, sent>>

Drip(c) == [kind |-> "drip", to |-> c]

\* Mutant: a drip is acknowledged.
drip_acknowledged(c, m) ==
    LET t == [from |-> Faucet, nonce |-> m.nonce, body |-> Drip(c)]
    IN /\ sent' = [sent EXCEPT ![c] = @ \cup {t}]
       /\ handle_transaction(c, t)
       /\ to_client' = [to_client EXCEPT ![c] = Append(@, [kind |-> "Ack"])]

\* Mutant: the nonce after the expected one is used.
drip_next_nonce(c, m) ==
    LET t == [from |-> Faucet, nonce |-> m.nonce + 1, body |-> Drip(c)]
    IN /\ sent' = [sent EXCEPT ![c] = @ \cup {t}]
       /\ handle_transaction(c, t)
       /\ UNCHANGED to_client

\* The rest of the node's handle_drip: a transfer of the faucet to the console's account.
drip_answered(c, m) ==
    LET t == [from |-> Faucet, nonce |-> m.nonce, body |-> Drip(c)]
    IN /\ sent' = [sent EXCEPT ![c] = @ \cup {t}]
       /\ handle_transaction(c, t)
       /\ UNCHANGED to_client

\* The replica's answer goes to the console, or into a drip.
answered(c) ==
    /\ handler[c].at = "wait" /\ response[c] # None
    /\ response' = [response EXCEPT ![c] = None]
    /\ IF handler[c].item.query = "Drip" THEN drip_answered(c, response[c])
       ELSE /\ to_client' = [to_client EXCEPT ![c] = Append(@, response[c])]
            /\ HandlerAt(c, "read", None)
            /\ UNCHANGED <<seen, sent>>
    /\ UNCHANGED <<console, to_node, replica>>

Handle(c) == handle_client_connection(c) \/ push(c) \/ answered(c)

-----------------------------------------------------------------------------
(* The replica                                                             *)

\* A drip asks for the faucet's account.
Account(q) == IF q.query = "Drip" THEN Faucet ELSE q.client

\* handle_query of the ledger: what the console does not use is left out.
Answer(q, available) ==
    IF q.query \in {"Account", "Drip"}
    THEN [kind |-> "Account", nonce |-> expected_nonce[Account(q)],
          available |-> IF q.query = "Drip" THEN 0 ELSE available]
    ELSE [kind |-> q.query]

\* Mutant: the list of markets is not given.
ignores_markets(q) ==
    IF q.query = "Markets" THEN UNCHANGED response
    ELSE \E available \in Available :
            response' = [response EXCEPT ![q.client] = Answer(q, available)]

replica_handle_query(q) ==
    \E available \in Available :
        response' = [response EXCEPT ![q.client] = Answer(q, available)]

\* The insertion into the mempool: a nonce that was used is too late, and of two
\* transactions with the same nonce the later one stays.
insert(t) ==
    pool' = IF t.nonce < expected_nonce[t.from] THEN pool
            ELSE {u \in pool : u.from # t.from \/ u.nonce # t.nonce} \cup {t}

Vote == [kind |-> "Vote"]
NewView == [kind |-> "NewView"]

\* What the replica may send to itself after a HotStuff message.  A message of a peer may
\* make it vote as the next leader, or enter a view as its leader, and its own vote may
\* complete a quorum.  Its own new-view makes it propose, which goes to the others only.
ToSelf(m) ==
    CASE m.kind = "Peer" -> {None, Vote, NewView}
      [] m.kind = "Vote" -> {None, NewView}
      [] OTHER -> {None}

\* One round of run_replica.  It takes nothing from the inbox before send_to_self is done.
run_replica ==
    /\ sending = None /\ inbox # << >>
    /\ inbox' = Tail(inbox)
    /\ LET m == Head(inbox) IN
       \/ /\ m.kind = "Query" /\ replica_handle_query(m)
          /\ UNCHANGED <<sending, pool>>
       \/ m.kind = "Transaction" /\ insert(m.tx) /\ UNCHANGED <<sending, response>>
       \/ /\ m.kind \in {"Peer", "Vote", "NewView"} /\ sending' \in ToSelf(m)
          /\ UNCHANGED <<pool, response>>
    /\ UNCHANGED <<console, wires, handler, seen, expected_nonce, decided, sent>>

\* The send waits for room, which only the replica itself could make.
send_to_self ==
    /\ sending # None /\ HasRoom
    /\ sending' = None /\ inbox' = Append(inbox, sending)
    /\ UNCHANGED <<console, wires, node, pool, expected_nonce, decided, sent>>

\* The pacemaker's timer, which does not look at the inbox: the leader of the new view
\* sends the new-view message to itself.
advance_view ==
    /\ sending = None
    /\ sending' = NewView
    /\ UNCHANGED <<console, wires, node, inbox, pool, expected_nonce, decided, sent>>

\* The drips that the users elsewhere want.
Gossiped == {t \in Gossip : Gives("elsewhere", "drip")}

\* handle_peer_connection: a HotStuff message, or a transaction that was not seen before.
Peer ==
    /\ HasRoom
    /\ \/ inbox' = Append(inbox, [kind |-> "Peer"]) /\ UNCHANGED seen
       \/ \E t \in Gossiped \ seen :
            /\ seen' = seen \cup {t}
            /\ inbox' = Append(inbox, [kind |-> "Transaction", tx |-> t])
    /\ UNCHANGED <<console, wires, handler, response, sending, pool, expected_nonce, decided, sent>>

\* A block with t, of this node or another, is committed.  A transaction that is accepted uses up its nonce; some
\* that are refused do not.  The faucet's transfers are accepted.
Decide(t) ==
    /\ t.nonce = expected_nonce[t.from]
    /\ pool' = pool \ {t} /\ decided' = decided \cup {t}
    /\ \/ expected_nonce' = [expected_nonce EXCEPT ![t.from] = @ + 1]
       \/ t.from # Faucet /\ UNCHANGED expected_nonce

Commit ==
    /\ sending = None /\ \E t \in pool \cup (Gossiped \ decided) : Decide(t)
    /\ UNCHANGED <<console, wires, node, inbox, sending, sent>>

Next ==
    \/ \E c \in Consoles : Command(c) \/ Receive(c) \/ Handle(c)
    \/ run_replica \/ send_to_self \/ advance_view \/ Peer \/ Commit

Spec == Init /\ [][Next]_vars

\* tokio runs every task that can make a step, messages arrive, and the leaders keep
\* committing what is in the mempool.  The channel serves those that wait for room in
\* turn.  The users, the peers and the timer do as they like.
FairSpec ==
    /\ Spec
    /\ \A c \in Consoles : WF_vars(Receive(c)) /\ WF_vars(Handle(c)) /\ SF_vars(push(c))
    /\ WF_vars(run_replica) /\ WF_vars(send_to_self) /\ SF_vars(Commit)

-----------------------------------------------------------------------------
(* Properties                                                              *)

\* A handler has at most one query in the replica's hands, and its console at most
\* one answer on the way.
TypeOK ==
    /\ \A c \in Consoles :
         /\ handler[c].at \in {"read", "push", "wait"}
         /\ response[c] # None => handler[c].at = "wait"
         /\ Len(to_client[c]) <= 1
         /\ Cardinality({i \in DOMAIN inbox :
              inbox[i].kind = "Query" /\ inbox[i].client = c}) <= 1
    /\ Len(inbox) <= Capacity /\ sending \in {None, Vote, NewView}
    /\ \A a \in Accounts : expected_nonce[a] \in Nat

\* Requests and answers stay in step: no console meets an answer to another question,
\* whatever drips and transactions, which are not answered, it sends in between.
AnswersInStep == \A c \in Consoles : pc[c] # "failed"

\* The console whose handler pushes a transaction.
Owner(t) == IF t.from = Faucet THEN t.body.to ELSE t.from

\* The message m of the inbox is of console c.
IsQuery(c, m) == m.kind = "Query" /\ m.client = c
IsTransaction(c, m) == m.kind = "Transaction" /\ Owner(m.tx) = c
IsOf(c, m) == IsQuery(c, m) \/ IsTransaction(c, m)

\* The replica is the only reader of its inbox, and writes to it: once the inbox is full
\* when it does, it waits for itself for good.
Stuck == sending # None /\ Len(inbox) = Capacity

\* No console can bring that about, however fast its user is and however slow the
\* replica: it has at most one transaction and one query in the inbox, the query last.
InboxShare ==
    \A c \in Consoles : \A i, j \in DOMAIN inbox :
        IsOf(c, inbox[i]) /\ IsOf(c, inbox[j]) /\ i < j =>
            inbox[i].kind = "Transaction" /\ inbox[j].kind = "Query"

\* Every question of a console is answered, unless the replica waits for itself.
EventuallyAnswered ==
    \A c \in Consoles : Awaited(pc[c]) # "None" ~> Awaited(pc[c]) = "None" \/ Stuck

\* The nonce of a transaction is read before it is signed and used after that.  If the
\* user waits for each transaction, every one of them comes to be decided.
PatientDecided ==
    \A c \in Consoles : Gives(c, "patient") => []<>(Own(c) \subseteq decided \/ Stuck)

\* Whoever does not wait, and everyone who drips, may lose a transaction, but only to
\* another one with its nonce, from here or elsewhere.
LostToRivalOnly ==
    \A c \in Consoles :
        []<>(\/ Stuck
             \/ \A t \in sent[c] : \E u \in decided : u.from = t.from /\ u.nonce = t.nonce)

\* What is ordered is what was typed, less what is not a whole lot: the screens would
\* show the price as typed, and an amount that is less by less than a lot.
OrderAsTyped ==
    \A c \in Consoles : \A o \in order[c].made :
        LET t == order[c].typed
        IN /\ o.kind = "limit" => format_price(o.price) = RawUnits(t.price)
           /\ RawUnits(t.amount) - lots_to_amount(o.lots, LotSize(o)) \in 0..LotSize(o) - 1

\* The console compares lots and ticks with units; all the same it refuses no order
\* that the ledger would take, but for orders worth less than a quote lot.
RefusesUncoveredOnly ==
    \A c \in Consoles : \A o \in order[c].made : \A available \in Available :
        Refused(o, available) => Required(o) > available \/ Required(o) = 0

=============================================================================
