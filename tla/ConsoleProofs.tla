--------------------------- MODULE ConsoleProofs ----------------------------
(***************************************************************************)
(* Consoles and their node, for any number of consoles, any habits of the   *)
(* users and any bounds: requests and answers stay in step, no console has  *)
(* more than two messages in the inbox, and what is ordered is what was     *)
(* typed.                                                                  *)
(***************************************************************************)
EXTENDS Console, FiniteSetTheorems, TLAPS

Queries == {"Assets", "Markets", "MarketInfo", "Account", "Drip"}
Places == {"start", "menu", "assets", "query", "transfer", "markets", "list", "info", "screen",
           "market", "open", "order", "cancel", "ack", "left"}

Orders == UNION {Entered(t) : t \in Typed}
Bodies == {[kind |-> "transfer", amount |-> amount] : amount \in Available}
            \cup {[kind |-> "cancel"]} \cup Orders
Signed == [from : Consoles, nonce : Nat, body : Bodies]
Drips == [from : {Faucet}, nonce : Nat, body : {Drip(c) : c \in Consoles}]

ToNode == [kind : Queries] \cup [kind : {"Submit"}, tx : Signed]
Answers == [kind : {"Account"}, nonce : Nat, available : Nat]
             \cup [kind : {"Assets", "Markets", "MarketInfo"}]
AQuery == [kind : {"Query"}, query : Queries, client : Consoles]
ATransaction == [kind : {"Transaction"}, tx : Signed \cup Drips]
AMessage == [kind : {"Peer", "Vote", "NewView"}] \cup [kind : {"Transaction"}, tx : Gossip]
Items == AQuery \cup ATransaction \cup AMessage
Handlers == {Idle} \cup [at : {"push"}, item : AQuery \cup ATransaction]
              \cup [at : {"wait"}, item : AQuery]

\* The shape of the state.  No console has failed.
Shape ==
    /\ pc \in [Consoles -> Places]
    /\ order \in [Consoles -> {NoOrder} \cup {[typed |-> t, made |-> Entered(t)] : t \in Typed}]
    /\ to_node \in [Consoles -> Seq(ToNode)] /\ to_client \in [Consoles -> Seq(Answers)]
    /\ handler \in [Consoles -> Handlers] /\ response \in [Consoles -> Answers \cup {None}]
    /\ inbox \in Seq(Items) /\ Len(inbox) <= Capacity
    /\ sending \in {None, Vote, NewView}
    /\ expected_nonce \in [Accounts -> Nat]

\* No message of console c is in the inbox.
Clear(c) == \A i \in 1 .. Len(inbox) : ~IsOf(c, inbox[i])

\* In the inbox there are at most one query and one transaction of a console, the
\* query last, and its handler waits for the answer to it.
InboxInv(c) ==
    \A i, j \in 1 .. Len(inbox) :
        /\ IsQuery(c, inbox[i]) /\ IsQuery(c, inbox[j]) => i = j
        /\ IsTransaction(c, inbox[i]) /\ IsTransaction(c, inbox[j]) => i = j
        /\ IsQuery(c, inbox[i]) =>
             handler[c] = [at |-> "wait", item |-> inbox[i]] /\ response[c] = None
        /\ IsQuery(c, inbox[i]) /\ IsTransaction(c, inbox[j]) => j < i

\* When a query is answered, or a transaction is about to be pushed, nothing of the
\* console is in the inbox any more: the replica takes messages in order.
HandlerInv(c) ==
    /\ handler[c].at # "read" => IsOf(c, handler[c].item)
    /\ handler[c].at = "push" /\ handler[c].item.kind = "Transaction" => Clear(c)
    /\ response[c] # None =>
         /\ handler[c].at = "wait" /\ Clear(c)
         /\ response[c].kind = IF handler[c].item.query = "Drip" THEN "Account"
                               ELSE handler[c].item.query

\* The handler has a query that the console waits for.
Asking(c) ==
    handler[c].at # "read" /\ handler[c].item.kind = "Query" /\ handler[c].item.query # "Drip"

\* All that the console has sent has been dealt with.
Done(c) == to_node[c] = << >> /\ handler[c].at = "read" /\ Clear(c)

\* A transaction is sent when all that was sent before has been dealt with, and a
\* question is the last that was sent.
SentInv(c) ==
    \A i \in 1 .. Len(to_node[c]) :
        /\ to_node[c][i].kind = "Submit" =>
             i = 1 /\ to_node[c][i].tx.from = c /\ handler[c].at = "read" /\ Clear(c)
        /\ to_node[c][i].kind \notin {"Submit", "Drip"} =>
             /\ i = Len(to_node[c]) /\ to_node[c][i].kind = Awaited(pc[c])
             /\ ~Asking(c) /\ to_client[c] = << >>

\* The question of the console is in one place: on the way to the node, with the
\* handler, or answered.
AnswerInv(c) ==
    /\ Asking(c) => /\ to_node[c] = << >> /\ to_client[c] = << >>
                    /\ handler[c].item.query = Awaited(pc[c])
    /\ to_client[c] # << >> =>
         Len(to_client[c]) = 1 /\ to_client[c][1].kind = Awaited(pc[c]) /\ Done(c)

ConsoleInv(c) == InboxInv(c) /\ HandlerInv(c) /\ SentInv(c) /\ AnswerInv(c)

IInv == Shape /\ \A c \in Consoles : ConsoleInv(c)

-----------------------------------------------------------------------------
(* Sequences                                                               *)

\* A message is added.
LEMMA Appended ==
    ASSUME NEW S, NEW s \in Seq(S), NEW x \in S
    PROVE  /\ Append(s, x) \in Seq(S) /\ Append(s, x) # << >>
           /\ Len(Append(s, x)) = Len(s) + 1
           /\ \A i \in 1 .. Len(s) : Append(s, x)[i] = s[i]
           /\ Append(s, x)[Len(s) + 1] = x
BY SMT

\* The first message is taken.
LEMMA Taken ==
    ASSUME NEW S, NEW s \in Seq(S), s # << >>
    PROVE  /\ Head(s) \in S /\ Tail(s) \in Seq(S)
           /\ Len(Tail(s)) = Len(s) - 1
           /\ \A i \in 1 .. Len(Tail(s)) : Tail(s)[i] = s[i + 1]
BY SMT

\* There is none.
LEMMA NoneLeft ==
    ASSUME NEW S
    PROVE  /\ << >> \in Seq(S) /\ Len(<< >>) = 0
           /\ \A s \in Seq(S) : s # << >> => Len(s) \in Nat \ {0}
BY SMT

-----------------------------------------------------------------------------
(* What the console awaits                                                 *)

\* The places where an answer is awaited, and which.
LEMMA AwaitedIs ==
    /\ \A p \in {"start", "menu", "list", "market", "ack", "left"} : Awaited(p) = "None"
    /\ \A p \in {"query", "transfer", "screen", "open", "order", "cancel"} : Awaited(p) = "Account"
    /\ Awaited("assets") = "Assets" /\ Awaited("markets") = "Markets"
    /\ Awaited("info") = "MarketInfo"
BY Zenon DEF Awaited

\* A console that awaits nothing has no question on the way, and no answer.
LEMMA Silent ==
    ASSUME IInv, NEW c \in Consoles, Awaited(pc[c]) = "None"
    PROVE  /\ ~Asking(c) /\ to_client[c] = << >>
           /\ \A i \in 1 .. Len(to_node[c]) : to_node[c][i].kind \in {"Submit", "Drip"}
<1>1. to_node[c] \in Seq(ToNode) /\ to_client[c] \in Seq(Answers) /\ handler[c] \in Handlers
  BY Zenon DEF IInv, Shape
<1>2. \A i \in 1 .. Len(to_node[c]) : to_node[c][i] \in ToNode
  BY <1>1
<1>3. \A m \in ToNode : m.kind # "None"
  BY Zenon DEF ToNode, Queries
<1>4. \A i \in 1 .. Len(to_node[c]) : to_node[c][i].kind \in {"Submit", "Drip"}
  BY <1>2, <1>3 DEF IInv, ConsoleInv, SentInv
<1>5. ~Asking(c)
  <2> SUFFICES ASSUME Asking(c) PROVE FALSE
    BY Zenon
  <2>1. handler[c].item \in AQuery
    BY <1>1 DEF Handlers, Asking, Idle, ATransaction
  <2>. QED BY <2>1, Zenon DEF IInv, ConsoleInv, AnswerInv, AQuery, Queries
<1>6. to_client[c] = << >>
  <2> SUFFICES ASSUME to_client[c] # << >> PROVE FALSE
    BY Zenon
  <2>1. Len(to_client[c]) = 1 /\ to_client[c][1].kind = "None"
    BY Zenon DEF IInv, ConsoleInv, AnswerInv
  <2>2. to_client[c][1] \in Answers
    BY <1>1, <2>1
  <2>. QED BY <2>1, <2>2, Zenon DEF Answers
<1>. QED BY <1>4, <1>5, <1>6, Zenon

-----------------------------------------------------------------------------
(* The steps of the console                                                *)

\* A console that has no question pending, and moves on to p with at most one message.
LEMMA ConsoleStep ==
    ASSUME IInv, NEW c \in Consoles, NEW p \in Places,
           ~Asking(c),
           \A i \in 1 .. Len(to_node[c]) : to_node[c][i].kind \in {"Submit", "Drip"},
           pc' = [pc EXCEPT ![c] = p],
           to_client' = [to_client EXCEPT ![c] = << >>],
           \/ to_node' = to_node /\ Awaited(p) = "None"
           \/ \E m \in ToNode :
                /\ to_node' = [to_node EXCEPT ![c] = Append(@, m)]
                /\ \/ m.kind = "Drip" /\ Awaited(p) = "None"
                   \/ m.kind = "Submit" /\ m.tx.from = c /\ Done(c) /\ Awaited(p) = "None"
                   \/ m.kind \notin {"Submit", "Drip"} /\ m.kind = Awaited(p),
           order' \in [Consoles -> {NoOrder} \cup {[typed |-> t, made |-> Entered(t)] : t \in Typed}],
           UNCHANGED <<handler, inbox, response, sending, expected_nonce>>
    PROVE  IInv'
<1>1. Shape /\ \A d \in Consoles : ConsoleInv(d)
  BY Zenon DEF IInv
<1>2. to_node \in [Consoles -> Seq(ToNode)] /\ to_client \in [Consoles -> Seq(Answers)]
      /\ pc \in [Consoles -> Places]
  BY <1>1, Zenon DEF Shape
<1>3. Shape'
  <2>1. to_node' \in [Consoles -> Seq(ToNode)]
    <3>1. ASSUME NEW m \in ToNode, to_node' = [to_node EXCEPT ![c] = Append(@, m)]
          PROVE  to_node' \in [Consoles -> Seq(ToNode)]
      <4>1. Append(to_node[c], m) \in Seq(ToNode)
        BY <1>2, Appended, Zenon
      <4>. QED BY <1>2, <3>1, <4>1, Zenon
    <3>. QED BY <1>2, <3>1, Zenon
  <2>2. to_client' \in [Consoles -> Seq(Answers)]
    BY <1>2
  <2>. QED BY <1>1, <1>2, <2>1, <2>2, Zenon DEF Shape
<1>5. \A d \in Consoles : (Clear(d) <=> Clear(d)') /\ (Asking(d) <=> Asking(d)')
  BY Zenon DEF Clear, Asking
<1>6. ASSUME NEW d \in Consoles PROVE InboxInv(d)' /\ HandlerInv(d)'
  BY <1>1, <1>5, ZenonT(40) DEF ConsoleInv, InboxInv, HandlerInv
<1>7. ASSUME NEW d \in Consoles, d # c PROVE SentInv(d)' /\ AnswerInv(d)'
  <2>1. to_node'[d] = to_node[d] /\ to_client'[d] = to_client[d] /\ pc'[d] = pc[d]
    BY <1>2, <1>7, Zenon
  <2>. QED BY <1>1, <1>5, <2>1 DEF ConsoleInv, SentInv, AnswerInv, Done
<1>8. SentInv(c)' /\ AnswerInv(c)'
  <2>1. pc'[c] = p /\ to_client'[c] = << >>
    BY <1>2, Zenon
  <2>2. CASE to_node' = to_node
    BY <1>1, <1>5, <2>1, <2>2 DEF ConsoleInv, SentInv, AnswerInv, Done
  <2>3. ASSUME NEW m \in ToNode, to_node' = [to_node EXCEPT ![c] = Append(@, m)],
               \/ m.kind = "Drip" /\ Awaited(p) = "None"
               \/ m.kind = "Submit" /\ m.tx.from = c /\ Done(c) /\ Awaited(p) = "None"
               \/ m.kind \notin {"Submit", "Drip"} /\ m.kind = Awaited(p)
        PROVE  SentInv(c)' /\ AnswerInv(c)'
    <3>1. to_node[c] \in Seq(ToNode) /\ to_node'[c] = Append(to_node[c], m)
      BY <1>2, <2>3, Zenon
    <3>2. /\ Len(to_node'[c]) = Len(to_node[c]) + 1 /\ Len(to_node[c]) \in Nat
          /\ \A i \in 1 .. Len(to_node[c]) : to_node'[c][i] = to_node[c][i]
          /\ to_node'[c][Len(to_node[c]) + 1] = m
      BY <3>1, Appended, SMTT(40)
    <3>3. SentInv(c)'
      <4> SUFFICES ASSUME NEW i \in 1 .. Len(to_node'[c])
                   PROVE  /\ to_node'[c][i].kind = "Submit" =>
                               /\ i = 1 /\ to_node'[c][i].tx.from = c
                               /\ handler'[c].at = "read" /\ Clear(c)'
                          /\ to_node'[c][i].kind \notin {"Submit", "Drip"} =>
                               /\ i = Len(to_node'[c]) /\ to_node'[c][i].kind = Awaited(p)
                               /\ ~Asking(c)' /\ to_client'[c] = << >>
        BY <2>1, Zenon DEF SentInv
      <4>1. CASE i \in 1 .. Len(to_node[c])
        <5>1. to_node'[c][i] = to_node[c][i] /\ to_node[c][i].kind \in {"Submit", "Drip"}
          BY <3>2, <4>1, Zenon
        <5>2. to_node[c][i].kind = "Submit" =>
                i = 1 /\ to_node[c][i].tx.from = c /\ handler[c].at = "read" /\ Clear(c)
          BY <1>1, <4>1, Zenon DEF ConsoleInv, SentInv
        <5>. QED BY <1>5, <5>1, <5>2, Zenon
      <4>2. CASE i = Len(to_node[c]) + 1
        <5>1. to_node'[c][i] = m
          BY <3>2, <4>2, Zenon
        <5>2. CASE m.kind = "Submit"
          <6>1. Done(c) /\ Len(to_node[c]) = 0 /\ m.tx.from = c
            BY <2>3, <5>2, Zenon DEF Done
          <6>. QED BY <1>5, <4>2, <5>1, <5>2, <6>1 DEF Done
        <5>3. CASE m.kind # "Submit"
          BY <1>5, <2>1, <2>3, <3>2, <4>2, <5>1, <5>3, Zenon
        <5>. QED BY <5>2, <5>3, Zenon
      <4>. QED BY <3>2, <4>1, <4>2
    <3>. QED BY <1>5, <2>1, <3>3, Zenon DEF AnswerInv
  <2>. QED BY <2>2, <2>3, Zenon
<1>9. \A d \in Consoles : ConsoleInv(d)'
  BY <1>6, <1>7, <1>8, Zenon DEF ConsoleInv
<1>. QED BY <1>3, <1>9, Zenon DEF IInv

\* A question is asked where none is pending.
LEMMA AskStep ==
    ASSUME IInv, NEW c \in Consoles, NEW p \in Places,
           Awaited(pc[c]) = "None", Awaited(p) \in Queries \ {"Drip"}, Ask(c, Awaited(p), p),
           order' \in [Consoles -> {NoOrder} \cup {[typed |-> t, made |-> Entered(t)] : t \in Typed}],
           UNCHANGED <<node, replica>>
    PROVE  IInv'
<1>1. /\ ~Asking(c) /\ to_client[c] = << >>
      /\ \A i \in 1 .. Len(to_node[c]) : to_node[c][i].kind \in {"Submit", "Drip"}
  BY Silent, Zenon
<1>2. to_client' = [to_client EXCEPT ![c] = << >>]
  BY <1>1, Zenon DEF Ask, IInv, Shape
<1>3. PICK m \in ToNode : m = [kind |-> Awaited(p)]
  BY Zenon DEF ToNode
<1>4. /\ to_node' = [to_node EXCEPT ![c] = Append(@, m)] /\ pc' = [pc EXCEPT ![c] = p]
      /\ m.kind \notin {"Submit", "Drip"} /\ m.kind = Awaited(p)
  BY <1>3, Zenon DEF Ask, Send, At, Queries
<1>5. UNCHANGED <<handler, inbox, response, sending, expected_nonce>>
  BY Zenon DEF node, replica
<1> HIDE DEF Ask
<1>. QED BY <1>1, <1>2, <1>4, <1>5, ConsoleStep, Zenon

\* No command disturbs the order of questions and answers.
LEMMA CommandStep ==
    ASSUME IInv, NEW c \in Consoles, Command(c)
    PROVE  IInv'
<1> DEFINE OrderType == [Consoles -> {NoOrder} \cup {[typed |-> t, made |-> Entered(t)] : t \in Typed}]
<1>1. pc \in [Consoles -> Places] /\ order \in OrderType
      /\ to_client \in [Consoles -> Seq(Answers)] /\ to_node \in [Consoles -> Seq(ToNode)]
  BY Zenon DEF IInv, Shape
<1>2. UNCHANGED <<node, replica>>
  BY Zenon DEF Command
<1>3. UNCHANGED <<handler, inbox, response, sending, expected_nonce>>
  BY <1>2, Zenon DEF node, replica
<1>4. UNCHANGED order => order' \in OrderType
  BY <1>1, Zenon
<1>5. ASSUME Awaited(pc[c]) = "None", NEW p \in Places, Awaited(p) = "None", At(c, p),
             UNCHANGED wires, UNCHANGED order
      PROVE  IInv'
  <2>1. /\ ~Asking(c) /\ to_client[c] = << >>
        /\ \A i \in 1 .. Len(to_node[c]) : to_node[c][i].kind \in {"Submit", "Drip"}
    BY <1>5, Silent, Zenon
  <2>2. to_client' = [to_client EXCEPT ![c] = << >>] /\ to_node' = to_node
    BY <1>1, <1>5, <2>1, Zenon DEF wires
  <2>. QED BY <1>3, <1>4, <1>5, <2>1, <2>2, ConsoleStep, Zenon DEF At
<1>6. ASSUME NEW p \in Places, NEW k \in Queries \ {"Drip"}, Awaited(pc[c]) = "None", Awaited(p) = k,
             Ask(c, k, p), order' \in OrderType
      PROVE  IInv'
  BY <1>2, <1>6, AskStep, Zenon
<1> HIDE DEF OrderType
<1>7. /\ \A p \in {"start", "menu", "list", "market", "ack", "left"} : Awaited(p) = "None"
      /\ \A p \in {"query", "transfer", "screen", "open", "order", "cancel"} : Awaited(p) = "Account"
      /\ Awaited("assets") = "Assets" /\ Awaited("markets") = "Markets"
      /\ Awaited("info") = "MarketInfo"
  BY AwaitedIs, Zenon
<1>8. /\ {"assets", "query", "transfer", "markets", "info", "open", "order", "cancel",
          "menu", "list", "left"} \subseteq Places
      /\ {"Assets", "Account", "Markets", "MarketInfo"} \subseteq Queries \ {"Drip"}
  BY Zenon DEF Places, Queries
<1>9. CASE run_console(c)
  BY <1>4, <1>6, <1>7, <1>8, <1>9, Zenon DEF run_console
<1>10. CASE handle_load(c)
  <2>1. pc' = pc /\ Awaited(pc[c]) = "None" /\ pc[c] \in Places /\ UNCHANGED <<wires, order>>
    BY <1>1, <1>7, <1>10, Zenon DEF handle_load
  <2>2. At(c, pc[c])
    BY <1>1, <2>1, Zenon DEF At
  <2>. QED BY <1>5, <2>1, <2>2, Zenon
<1>11. CASE handle_drip(c)
  <2>1. pc' = pc /\ Awaited(pc[c]) = "None" /\ pc[c] \in Places /\ UNCHANGED <<to_client, order>>
    BY <1>1, <1>7, <1>11, Zenon DEF handle_drip, console
  <2>2. /\ ~Asking(c) /\ to_client[c] = << >>
        /\ \A i \in 1 .. Len(to_node[c]) : to_node[c][i].kind \in {"Submit", "Drip"}
    BY <2>1, Silent, Zenon
  <2>3. to_client' = [to_client EXCEPT ![c] = << >>] /\ pc' = [pc EXCEPT ![c] = pc[c]]
    BY <1>1, <2>1, <2>2, Zenon
  <2>4. \E m \in ToNode : to_node' = [to_node EXCEPT ![c] = Append(@, m)] /\ m.kind = "Drip"
    <3>1. [kind |-> "Drip"] \in ToNode
      BY Zenon DEF ToNode, Queries
    <3>. QED BY <1>11, <3>1, Zenon DEF handle_drip, Send
  <2>. QED BY <1>3, <1>4, <2>1, <2>2, <2>3, <2>4, ConsoleStep, Zenon DEF OrderType
<1>12. CASE handle_query(c)
  BY <1>4, <1>6, <1>7, <1>8, <1>12, Zenon DEF handle_query
<1>13. CASE handle_transfer(c)
  BY <1>4, <1>6, <1>7, <1>8, <1>13, Zenon DEF handle_transfer
<1>14. CASE handle_markets(c)
  BY <1>4, <1>6, <1>7, <1>8, <1>14, Zenon DEF handle_markets
<1>15. CASE choose_market(c)
  BY <1>4, <1>5, <1>6, <1>7, <1>8, <1>15, Zenon DEF choose_market
<1>16. CASE market_menu(c)
  BY <1>4, <1>5, <1>6, <1>7, <1>8, <1>16, Zenon DEF market_menu
<1>17. ASSUME NEW t \in Typed, order_command(c, t) PROVE IInv'
  <2>1. order' \in OrderType
    BY <1>1, <1>17, Zenon DEF order_command, OrderType
  <2>. QED BY <1>6, <1>7, <1>8, <1>17, <2>1, Zenon DEF order_command
<1>18. CASE cancel_command(c)
  BY <1>4, <1>6, <1>7, <1>8, <1>18, Zenon DEF cancel_command
<1>19. CASE acknowledge(c)
  <2>1. order' \in OrderType
    BY <1>1, <1>19, Zenon DEF acknowledge, OrderType
  <2>. QED BY <1>6, <1>7, <1>8, <1>19, <2>1, Zenon DEF acknowledge
<1>20. CASE quit(c)
  BY <1>4, <1>5, <1>7, <1>8, <1>20, Zenon DEF quit
<1>. QED BY <1>9, <1>10, <1>11, <1>12, <1>13, <1>14, <1>15, <1>16, <1>17, <1>18, <1>19, <1>20
        , Zenon DEF Command

\* The answer that arrives is the awaited one, and whatever the console does with it
\* leaves questions and answers in order.
LEMMA ReceiveStep ==
    ASSUME IInv, NEW c \in Consoles, Receive(c)
    PROVE  IInv'
<1> DEFINE OrderType == [Consoles -> {NoOrder} \cup {[typed |-> t, made |-> Entered(t)] : t \in Typed}]
           m == Head(to_client[c])
<1>1. /\ pc \in [Consoles -> Places] /\ order \in OrderType
      /\ to_client \in [Consoles -> Seq(Answers)] /\ to_node \in [Consoles -> Seq(ToNode)]
  BY Zenon DEF IInv, Shape
<1>2. UNCHANGED <<handler, inbox, response, sending, expected_nonce>>
  BY Zenon DEF Receive, node, replica
<1>3. to_client[c] # << >> /\ Awaited(pc[c]) # "None"
      /\ to_client' = [to_client EXCEPT ![c] = Tail(to_client[c])]
  BY <1>1, Zenon DEF Receive, Received
<1>4. Len(to_client[c]) = 1 /\ to_client[c][1].kind = Awaited(pc[c]) /\ Done(c)
  BY <1>3, Zenon DEF IInv, ConsoleInv, AnswerInv
<1>5. m = to_client[c][1] /\ m \in Answers /\ Tail(to_client[c]) = << >>
  <2>1. to_client[c] \in Seq(Answers)
    BY <1>1, Zenon
  <2>2. Tail(to_client[c]) \in Seq(Answers) /\ Len(Tail(to_client[c])) = 0
    BY <1>3, <1>4, <2>1, Taken
  <2>3. Tail(to_client[c]) = << >>
    BY <2>2, NoneLeft, Zenon
  <2>. QED BY <1>4, <2>1, <2>3
<1>6. m.kind = Awaited(pc[c])
  BY <1>4, <1>5, Zenon
<1>7. to_client' = [to_client EXCEPT ![c] = << >>]
  BY <1>3, <1>5, Zenon
<1>8. ~Asking(c) /\ Len(to_node[c]) = 0
  BY <1>4, Zenon DEF Asking, Done
<1>9. \A i \in 1 .. Len(to_node[c]) : to_node[c][i].kind \in {"Submit", "Drip"}
  BY <1>8
<1>10. \/ receive_at_prompt(c, m) \/ transfer_answered(c, m)
       \/ order_answered(c, m) \/ handle_cancel_order(c, m)
  BY <1>6, Zenon DEF Receive
<1>11. UNCHANGED order => order' \in OrderType
  BY <1>1, Zenon
<1>12. /\ \A p \in {"start", "menu", "list", "market", "ack", "left"} : Awaited(p) = "None"
       /\ \A p \in {"query", "transfer", "screen", "open", "order", "cancel"} : Awaited(p) = "Account"
       /\ Awaited("assets") = "Assets" /\ Awaited("markets") = "Markets"
       /\ Awaited("info") = "MarketInfo"
  BY AwaitedIs, Zenon
<1>13. {"menu", "list", "market", "ack", "info", "screen"} \subseteq Places
  BY Zenon DEF Places
<1> HIDE DEF OrderType, m
<1>14. ASSUME NEW p \in {"menu", "list", "market"}, At(c, p), UNCHANGED to_node, order' \in OrderType
       PROVE  IInv'
  <2>1. p \in Places /\ Awaited(p) = "None" /\ to_node' = to_node /\ pc' = [pc EXCEPT ![c] = p]
    BY <1>12, <1>13, <1>14, Zenon DEF At
  <2>. QED BY <1>2, <1>7, <1>8, <1>9, <1>14, <2>1, ConsoleStep, Zenon DEF OrderType
<1>15. ASSUME NEW p \in {"info", "screen"}, At(c, p), Send(c, [kind |-> Awaited(p)]), order' \in OrderType
       PROVE  IInv'
  <2>1. p \in Places /\ Awaited(p) \in Queries \ {"Drip"} /\ pc' = [pc EXCEPT ![c] = p]
    BY <1>12, <1>13, <1>15, Zenon DEF At, Queries
  <2>2. PICK q \in ToNode : q = [kind |-> Awaited(p)]
    BY <2>1, Zenon DEF ToNode
  <2>3. /\ to_node' = [to_node EXCEPT ![c] = Append(@, q)]
        /\ q.kind \notin {"Submit", "Drip"} /\ q.kind = Awaited(p)
    BY <1>15, <2>1, <2>2, Zenon DEF Send, Queries
  <2>. QED BY <1>2, <1>7, <1>8, <1>9, <1>15, <2>1, <2>3, ConsoleStep, Zenon DEF OrderType
<1>16. ASSUME NEW p \in {"menu", "ack"}, At(c, p), NEW body \in Bodies, Sign(c, m, body),
              order' \in OrderType, Awaited(pc[c]) = "Account"
       PROVE  IInv'
  <2>1. p \in Places /\ Awaited(p) = "None" /\ pc' = [pc EXCEPT ![c] = p]
    BY <1>12, <1>13, <1>16, Zenon DEF At
  <2>2. m.nonce \in Nat
    BY <1>5, <1>6, <1>16, Zenon DEF Answers
  <2> DEFINE t == [from |-> c, nonce |-> m.nonce, body |-> body]
             q == [kind |-> "Submit", tx |-> t]
  <2>3. t \in Signed
    BY <2>2, <1>16, Zenon DEF Signed
  <2>4. q \in ToNode /\ q.kind = "Submit" /\ q.tx.from = c
    BY <2>3, Zenon DEF ToNode
  <2>5. to_node' = [to_node EXCEPT ![c] = Append(@, q)]
    BY <1>16, Zenon DEF Sign, Send, NonceOf
  <2> HIDE DEF q
  <2>. QED BY <1>2, <1>4, <1>7, <1>8, <1>9, <1>16, <2>1, <2>4, <2>5, ConsoleStep, Zenon DEF OrderType
<1>17. CASE receive_at_prompt(c, m)
  BY <1>11, <1>12, <1>14, <1>15, <1>17, Zenon DEF receive_at_prompt
<1>18. CASE transfer_answered(c, m)
  <2>1. ASSUME NEW amount \in Available, Sign(c, m, [kind |-> "transfer", amount |-> amount])
        PROVE  IInv'
    <3>1. [kind |-> "transfer", amount |-> amount] \in Bodies
      BY Zenon DEF Bodies
    <3>2. At(c, "menu") /\ UNCHANGED order /\ Awaited(pc[c]) = "Account"
      BY <1>12, <1>18, Zenon DEF transfer_answered
    <3>. QED BY <1>11, <1>16, <2>1, <3>1, <3>2, Zenon
  <2>. QED BY <1>11, <1>14, <1>18, <2>1, Zenon DEF transfer_answered
<1>19. CASE order_answered(c, m)
  <2>1. PICK o \in order[c].made :
          IF Refused(o, m.available)
          THEN /\ At(c, "info") /\ Send(c, [kind |-> "MarketInfo"])
               /\ order' = [order EXCEPT ![c] = NoOrder]
               /\ UNCHANGED sent
          ELSE At(c, "ack") /\ Sign(c, m, o) /\ UNCHANGED order
    BY <1>19, Zenon DEF order_answered
  <2>2. Awaited(pc[c]) = "Account"
    BY <1>12, <1>19, Zenon DEF order_answered
  <2>3. CASE Refused(o, m.available)
    <3>1. order' \in OrderType
      BY <1>1, <2>1, <2>3, Zenon DEF OrderType
    <3>. QED BY <1>12, <1>15, <2>1, <2>3, <3>1, Zenon
  <2>4. CASE ~Refused(o, m.available)
    <3>1. o \in Bodies
      BY <1>1, <2>1 DEF OrderType, Bodies, Orders, NoOrder
    <3>. QED BY <1>11, <1>16, <2>1, <2>2, <2>4, <3>1, Zenon
  <2>. QED BY <2>3, <2>4, Zenon
<1>20. CASE handle_cancel_order(c, m)
  <2>1. [kind |-> "cancel"] \in Bodies
    BY Zenon DEF Bodies
  <2>. QED BY <1>11, <1>12, <1>16, <1>20, <2>1, Zenon DEF handle_cancel_order
<1>. QED BY <1>10, <1>17, <1>18, <1>19, <1>20, Zenon

-----------------------------------------------------------------------------
(* What happens to the others                                              *)

\* A console that a step does not concern.
LEMMA Untouched ==
    ASSUME NEW d, ConsoleInv(d), inbox' = inbox,
           pc'[d] = pc[d], handler'[d] = handler[d], response'[d] = response[d],
           to_node'[d] = to_node[d], to_client'[d] = to_client[d]
    PROVE  ConsoleInv(d)'
<1>1. (Clear(d) <=> Clear(d)') /\ (Asking(d) <=> Asking(d)')
  BY Zenon DEF Clear, Asking
<1>. QED BY <1>1, ZenonT(40) DEF ConsoleInv, InboxInv, HandlerInv, SentInv, AnswerInv, Done

\* A console when a message that is not its own enters the inbox.
LEMMA OthersPush ==
    ASSUME NEW d, ConsoleInv(d), inbox \in Seq(Items),
           NEW x \in Items, ~IsOf(d, x), inbox' = Append(inbox, x),
           pc'[d] = pc[d], handler'[d] = handler[d], response'[d] = response[d],
           to_node'[d] = to_node[d], to_client'[d] = to_client[d]
    PROVE  ConsoleInv(d)'
<1>1. /\ Len(inbox') = Len(inbox) + 1 /\ Len(inbox) \in Nat
      /\ \A i \in 1 .. Len(inbox) : inbox'[i] = inbox[i]
      /\ inbox'[Len(inbox) + 1] = x
  <2>1. Len(inbox) \in Nat
    BY NoneLeft
  <2>2. /\ Len(Append(inbox, x)) = Len(inbox) + 1
        /\ \A i \in 1 .. Len(inbox) : Append(inbox, x)[i] = inbox[i]
        /\ Append(inbox, x)[Len(inbox) + 1] = x
    BY Appended
  <2>. QED BY <2>1, <2>2, Zenon
<1>2. \A i \in 1 .. Len(inbox') :
        (i \in 1 .. Len(inbox) /\ inbox'[i] = inbox[i]) \/ ~IsOf(d, inbox'[i])
  BY <1>1
<1>3. (Clear(d) => Clear(d)') /\ (Asking(d) <=> Asking(d)')
  BY <1>1, <1>2, Zenon DEF Clear, Asking
<1>4. InboxInv(d)'
  BY <1>1, <1>2, ZenonT(40) DEF ConsoleInv, InboxInv, IsOf
<1>. QED BY <1>3, <1>4, Zenon DEF ConsoleInv, HandlerInv, SentInv, AnswerInv, Done

\* A console when a message is taken from the inbox that is not a query of its own.
LEMMA OthersTake ==
    ASSUME NEW d, ConsoleInv(d), inbox \in Seq(Items), inbox # << >>, inbox' = Tail(inbox),
           pc'[d] = pc[d], handler'[d] = handler[d], response'[d] = response[d],
           to_node'[d] = to_node[d], to_client'[d] = to_client[d]
    PROVE  ConsoleInv(d)'
<1>1. /\ Len(inbox') = Len(inbox) - 1 /\ Len(inbox) \in Nat
      /\ \A i \in 1 .. Len(inbox') : inbox'[i] = inbox[i + 1]
  BY Taken
<1>2. \A i \in 1 .. Len(inbox') : i + 1 \in 1 .. Len(inbox) /\ inbox'[i] = inbox[i + 1]
  BY <1>1
<1>3. (Clear(d) => Clear(d)') /\ (Asking(d) <=> Asking(d)')
  BY <1>2, Zenon DEF Clear, Asking
<1>4. InboxInv(d)'
  <2> SUFFICES ASSUME NEW i \in 1 .. Len(inbox'), NEW j \in 1 .. Len(inbox')
               PROVE  /\ IsQuery(d, inbox'[i]) /\ IsQuery(d, inbox'[j]) => i = j
                      /\ IsTransaction(d, inbox'[i]) /\ IsTransaction(d, inbox'[j]) => i = j
                      /\ IsQuery(d, inbox'[i]) =>
                           handler'[d] = [at |-> "wait", item |-> inbox'[i]] /\ response'[d] = None
                      /\ IsQuery(d, inbox'[i]) /\ IsTransaction(d, inbox'[j]) => j < i
    BY Zenon DEF InboxInv
  <2>1. /\ IsQuery(d, inbox[i + 1]) /\ IsQuery(d, inbox[j + 1]) => i + 1 = j + 1
        /\ IsTransaction(d, inbox[i + 1]) /\ IsTransaction(d, inbox[j + 1]) => i + 1 = j + 1
        /\ IsQuery(d, inbox[i + 1]) =>
             handler[d] = [at |-> "wait", item |-> inbox[i + 1]] /\ response[d] = None
        /\ IsQuery(d, inbox[i + 1]) /\ IsTransaction(d, inbox[j + 1]) => j + 1 < i + 1
    BY <1>2, Zenon DEF ConsoleInv, InboxInv
  <2>2. inbox'[i] = inbox[i + 1] /\ inbox'[j] = inbox[j + 1]
    BY <1>2, Zenon
  <2>. QED BY <1>1, <2>1, <2>2
<1>. QED BY <1>3, <1>4, Zenon DEF ConsoleInv, HandlerInv, SentInv, AnswerInv, Done

-----------------------------------------------------------------------------
(* The steps of the handler                                                *)

\* A handler that does not wait has no query in the inbox.
LEMMA NoQuery ==
    ASSUME NEW c, ConsoleInv(c), handler[c].at # "wait", NEW i \in 1 .. Len(inbox)
    PROVE  ~IsQuery(c, inbox[i])
<1> SUFFICES ASSUME IsQuery(c, inbox[i]) PROVE FALSE
  BY Zenon
<1>1. handler[c] = [at |-> "wait", item |-> inbox[i]]
  BY Zenon DEF ConsoleInv, InboxInv
<1>. QED BY <1>1

\* The handler of c is back at its read, or has transaction t, with the inbox clear of
\* messages of c and no question of c pending.
LEMMA HandleTransaction ==
    ASSUME IInv, NEW c \in Consoles, NEW t \in Signed \cup Drips, Owner(t) = c,
           handle_transaction(c, t), Clear(c), UNCHANGED <<pc, order, inbox, sending, expected_nonce, to_client>>,
           response' = [response EXCEPT ![c] = None],
           to_node' \in [Consoles -> Seq(ToNode)], \A d \in Consoles \ {c} : to_node'[d] = to_node[d],
           \A i \in 1 .. Len(to_node'[c]) :
                /\ to_node'[c][i].kind # "Submit"
                /\ to_node'[c][i].kind # "Drip" =>
                     i = Len(to_node'[c]) /\ to_node'[c][i].kind = Awaited(pc[c]),
           to_client[c] = << >>
    PROVE  IInv'
<1>1. Shape /\ \A d \in Consoles : ConsoleInv(d)
  BY Zenon DEF IInv
<1>2. /\ handler \in [Consoles -> Handlers] /\ response \in [Consoles -> Answers \cup {None}]
      /\ inbox \in Seq(Items)
  BY <1>1, Zenon DEF Shape
<1> DEFINE item == [kind |-> "Transaction", tx |-> t]
           push_item == [at |-> "push", item |-> item]
<1>3. item \in ATransaction /\ push_item \in Handlers /\ Idle \in Handlers
  BY Zenon DEF ATransaction, Handlers
<1>4. \/ handler' = [handler EXCEPT ![c] = Idle]
      \/ handler' = [handler EXCEPT ![c] = push_item]
  BY Zenon DEF handle_transaction, HandlerAt, Idle
<1>5. handler'[c] \in {Idle, push_item} /\ handler' \in [Consoles -> Handlers]
      /\ \A d \in Consoles \ {c} : handler'[d] = handler[d]
  BY <1>2, <1>3, <1>4, ZenonT(40)
<1>6. response'[c] = None /\ \A d \in Consoles \ {c} : response'[d] = response[d]
  BY <1>2, Zenon
<1>7. Shape'
  BY <1>1, <1>5, Zenon DEF Shape
<1>9. ASSUME NEW d \in Consoles, d # c PROVE ConsoleInv(d)'
  BY <1>1, <1>5, <1>6, <1>9, Untouched, Zenon
<1>10. ConsoleInv(c)'
  <2>1. Clear(c)'
    BY Zenon DEF Clear
  <2>2. ~Asking(c)'
    BY <1>5 DEF Asking, Idle, None
  <2>3. InboxInv(c)'
    BY Zenon DEF Clear, InboxInv, IsOf
  <2>4. HandlerInv(c)'
    <3>1. handler'[c].at # "read" => handler'[c].at = "push" /\ handler'[c].item = item
      BY <1>5 DEF Idle
    <3>2. IsOf(c, item)
      BY Zenon DEF IsOf, IsTransaction
    <3>. QED BY <1>6, <2>1, <3>1, <3>2, Zenon DEF HandlerInv
  <2>5. SentInv(c)'
    BY <2>2, Zenon DEF SentInv
  <2>6. AnswerInv(c)'
    BY <2>2, Zenon DEF AnswerInv
  <2>. QED BY <2>3, <2>4, <2>5, <2>6, Zenon DEF ConsoleInv
<1>. QED BY <1>7, <1>9, <1>10, Zenon DEF IInv

\* A message is read: a transaction, when nothing of the console is in the inbox, or a
\* query, of which the console awaits the answer unless it is for a drip.
LEMMA ReadStep ==
    ASSUME IInv, NEW c \in Consoles, handle_client_connection(c)
    PROVE  IInv'
<1>1. Shape /\ \A d \in Consoles : ConsoleInv(d)
  BY Zenon DEF IInv
<1>2. /\ handler \in [Consoles -> Handlers] /\ response \in [Consoles -> Answers \cup {None}]
      /\ inbox \in Seq(Items) /\ to_node \in [Consoles -> Seq(ToNode)]
  BY <1>1, Zenon DEF Shape
<1> DEFINE m == Head(to_node[c])
<1>3. /\ UNCHANGED <<pc, order, inbox, sending, expected_nonce, to_client, response>>
      /\ handler[c].at = "read" /\ to_node[c] # << >>
      /\ to_node' = [to_node EXCEPT ![c] = Tail(@)]
  BY Zenon DEF handle_client_connection, console, replica
<1>4. to_node[c] \in Seq(ToNode)
  BY <1>2, Zenon
<1>5. /\ Len(to_node[c]) \in Nat \ {0} /\ m = to_node[c][1] /\ m \in ToNode
      /\ Tail(to_node[c]) \in Seq(ToNode)
      /\ Len(Tail(to_node[c])) = Len(to_node[c]) - 1
      /\ \A i \in 1 .. Len(Tail(to_node[c])) : Tail(to_node[c])[i] = to_node[c][i + 1]
  BY <1>3, <1>4, Taken, NoneLeft
<1>6. /\ to_node' \in [Consoles -> Seq(ToNode)] /\ to_node'[c] = Tail(to_node[c])
      /\ \A d \in Consoles \ {c} : to_node'[d] = to_node[d]
  BY <1>2, <1>3, <1>5, Zenon
<1>7. ~Asking(c) /\ response[c] = None
  BY <1>1, <1>3, Zenon DEF Asking, ConsoleInv, HandlerInv
<1>8. to_client[c] = << >>
  BY <1>1, <1>3, Zenon DEF ConsoleInv, AnswerInv, Done
<1>9. \A i \in 1 .. Len(to_node'[c]) :
        /\ to_node'[c][i].kind # "Submit"
        /\ to_node'[c][i].kind # "Drip" =>
             i = Len(to_node'[c]) /\ to_node'[c][i].kind = Awaited(pc[c])
  <2> SUFFICES ASSUME NEW i \in 1 .. Len(to_node'[c])
               PROVE  /\ to_node'[c][i].kind # "Submit"
                      /\ to_node'[c][i].kind # "Drip" =>
                           i = Len(to_node'[c]) /\ to_node'[c][i].kind = Awaited(pc[c])
    BY Zenon
  <2>1. i + 1 \in 1 .. Len(to_node[c]) /\ to_node'[c][i] = to_node[c][i + 1] /\ i + 1 # 1
    BY <1>5, <1>6
  <2>2. /\ to_node[c][i + 1].kind = "Submit" => i + 1 = 1
        /\ to_node[c][i + 1].kind \notin {"Submit", "Drip"} =>
             i + 1 = Len(to_node[c]) /\ to_node[c][i + 1].kind = Awaited(pc[c])
    BY <1>1, <2>1, Zenon DEF ConsoleInv, SentInv
  <2>. QED BY <1>5, <1>6, <2>1, <2>2
<1>10. CASE m.kind = "Submit"
  <2>1. m.tx \in Signed
    BY <1>5, <1>10, Zenon DEF ToNode, Queries
  <2>2. m.tx.from = c /\ Clear(c)
    BY <1>1, <1>5, <1>10 DEF ConsoleInv, SentInv
  <2>3. Owner(m.tx) = c
    BY <2>2, ConsoleAssumption, Zenon DEF Owner
  <2>4. handle_transaction(c, m.tx) /\ response' = [response EXCEPT ![c] = None]
    BY <1>2, <1>3, <1>7, <1>10, Zenon DEF handle_client_connection
  <2> HIDE DEF m
  <2>. QED BY <1>3, <1>6, <1>8, <1>9, <2>1, <2>2, <2>3, <2>4, HandleTransaction, Zenon
<1>11. CASE m.kind # "Submit"
  <2> DEFINE item == [kind |-> "Query", query |-> m.kind, client |-> c]
  <2>1. m.kind \in Queries
    BY <1>5, <1>11, Zenon DEF ToNode
  <2>2. item \in AQuery /\ [at |-> "push", item |-> item] \in Handlers
    BY <2>1, Zenon DEF AQuery, Handlers
  <2>3. handler' = [handler EXCEPT ![c] = [at |-> "push", item |-> item]]
    BY <1>11, Zenon DEF handle_client_connection, HandlerAt
  <2>4. /\ handler' \in [Consoles -> Handlers] /\ handler'[c] = [at |-> "push", item |-> item]
        /\ \A d \in Consoles \ {c} : handler'[d] = handler[d]
    BY <1>2, <2>2, <2>3, Zenon
  <2>5. Shape'
    BY <1>1, <1>3, <1>6, <2>4, Zenon DEF Shape
  <2>7. ASSUME NEW d \in Consoles, d # c PROVE ConsoleInv(d)'
    BY <1>1, <1>3, <1>6, <2>4, <2>7, Untouched, Zenon
  <2>8. ConsoleInv(c)'
    <3>1. InboxInv(c)'
      <4>1. \A i \in 1 .. Len(inbox) : ~IsQuery(c, inbox[i])
        BY <1>1, <1>3, NoQuery, Zenon
      <4>. QED BY <1>1, <1>3, <4>1, Zenon DEF ConsoleInv, InboxInv
    <3>2. HandlerInv(c)'
      <4>1. handler'[c].item = item /\ IsOf(c, item) /\ item.kind # "Transaction"
        BY <2>4 DEF IsOf, IsQuery
      <4>2. response'[c] = None
        BY <1>3, <1>7, Zenon
      <4>. QED BY <4>1, <4>2, Zenon DEF HandlerInv
    <3>3. m.kind # "Drip" => Len(to_node[c]) = 1 /\ m.kind = Awaited(pc[c])
      <4>1. 1 \in 1 .. Len(to_node[c]) /\ to_node[c][1].kind = m.kind
        BY <1>5
      <4>. QED BY <1>1, <1>11, <4>1, Zenon DEF ConsoleInv, SentInv
    <3>4. m.kind # "Drip" => to_node'[c] = << >>
      BY <1>5, <1>6, <3>3, NoneLeft, SMTT(40)
    <3>5. Asking(c)' <=> m.kind # "Drip"
      BY <2>4 DEF Asking
    <3>6. SentInv(c)'
      <4>1. ASSUME NEW i \in 1 .. Len(to_node'[c]) PROVE ~Asking(c)'
        BY <3>4, <3>5
      <4>. QED BY <1>3, <1>8, <1>9, <4>1, Zenon DEF SentInv
    <3>7. AnswerInv(c)'
      <4>1. handler'[c].item.query = m.kind /\ to_client'[c] = << >> /\ pc'[c] = pc[c]
        BY <1>3, <1>8, <2>4, SMTT(40)
      <4>. QED BY <3>3, <3>4, <3>5, <4>1, Zenon DEF AnswerInv
    <3>. QED BY <3>1, <3>2, <3>6, <3>7, Zenon DEF ConsoleInv
  <2>. QED BY <2>5, <2>7, <2>8, Zenon DEF IInv
<1>. QED BY <1>10, <1>11, Zenon

\* The handler's message enters the inbox: a query after the console's transaction,
\* or a transaction when there is nothing of the console.
LEMMA PushStep ==
    ASSUME IInv, NEW c \in Consoles, push(c)
    PROVE  IInv'
<1>1. Shape /\ \A d \in Consoles : ConsoleInv(d)
  BY Zenon DEF IInv
<1>2. /\ handler \in [Consoles -> Handlers] /\ inbox \in Seq(Items)
      /\ Len(inbox) < Capacity /\ Len(inbox) \in Nat /\ Capacity \in Nat
  <2>1. handler \in [Consoles -> Handlers] /\ inbox \in Seq(Items) /\ Len(inbox) < Capacity
    BY <1>1, Zenon DEF Shape, push, HasRoom
  <2>. QED BY <2>1, ConsoleAssumption
<1> DEFINE item == handler[c].item
<1>3. /\ UNCHANGED <<pc, order, sending, expected_nonce, to_client, to_node, response>>
      /\ handler[c].at = "push" /\ inbox' = Append(inbox, item)
      /\ handler' = [handler EXCEPT ![c] = IF item.kind = "Query" THEN [at |-> "wait", item |-> item]
                                           ELSE Idle]
  BY Zenon DEF push, console, wires, HandlerAt, Idle
<1>4. item \in AQuery \cup ATransaction /\ IsOf(c, item)
  <2>1. handler[c] \in Handlers
    BY <1>2, Zenon
  <2>. QED BY <1>1, <1>3, <2>1 DEF Handlers, Idle, ConsoleInv, HandlerInv
<1>5. item \in Items /\ (item.kind = "Query" => item \in AQuery)
      /\ (item.kind = "Transaction" <=> item.kind # "Query")
  BY <1>4, Zenon DEF Items, AQuery, ATransaction
<1>6. /\ handler' \in [Consoles -> Handlers]
      /\ handler'[c] = IF item.kind = "Query" THEN [at |-> "wait", item |-> item] ELSE Idle
      /\ \A d \in Consoles \ {c} : handler'[d] = handler[d]
  BY <1>2, <1>3, <1>5, Zenon DEF Handlers
<1> HIDE DEF item
<1>7. /\ inbox' \in Seq(Items) /\ Len(inbox') = Len(inbox) + 1
      /\ \A i \in 1 .. Len(inbox) : inbox'[i] = inbox[i]
      /\ inbox'[Len(inbox) + 1] = item
  BY <1>2, <1>3, <1>5, Appended, SMTT(40)
<1>8. Shape'
  BY <1>1, <1>2, <1>3, <1>6, <1>7 DEF Shape
<1>10. ASSUME NEW d \in Consoles, d # c PROVE ConsoleInv(d)'
  <2>1. ~IsOf(d, item)
    BY <1>4, <1>5, <1>10, Zenon DEF IsOf, IsQuery, IsTransaction
  <2>. QED BY <1>1, <1>2, <1>3, <1>5, <1>6, <1>10, <2>1, OthersPush, Zenon
<1>11. ConsoleInv(c)'
  <2>1. response[c] = None
    BY <1>1, <1>3, Zenon DEF ConsoleInv, HandlerInv
  <2>2. \A i \in 1 .. Len(inbox) : ~IsQuery(c, inbox[i])
    BY <1>1, <1>3, NoQuery, Zenon
  <2>3. item.kind = "Transaction" => Clear(c)
    BY <1>1, <1>3, Zenon DEF ConsoleInv, HandlerInv, item
  <2>4. \A i \in 1 .. Len(inbox') :
          \/ i \in 1 .. Len(inbox) /\ inbox'[i] = inbox[i]
          \/ i = Len(inbox) + 1 /\ inbox'[i] = item
    BY <1>2, <1>7
  <2>5. InboxInv(c)'
    <3>1. CASE item.kind = "Query"
      <4>1. \A i \in 1 .. Len(inbox') : IsQuery(c, inbox'[i]) <=> i = Len(inbox) + 1
        BY <1>2, <1>4, <1>7, <2>2, <2>4, <3>1, Zenon DEF IsOf, IsTransaction
      <4>2. \A i \in 1 .. Len(inbox') : IsTransaction(c, inbox'[i]) =>
              i \in 1 .. Len(inbox) /\ inbox'[i] = inbox[i]
        BY <2>4, <3>1, Zenon DEF IsTransaction
      <4>3. handler'[c] = [at |-> "wait", item |-> inbox'[Len(inbox) + 1]] /\ response'[c] = None
        BY <1>3, <1>6, <1>7, <2>1, <3>1, Zenon
      <4>. QED BY <1>1, <1>2, <4>1, <4>2, <4>3 DEF ConsoleInv, InboxInv
    <3>2. CASE item.kind = "Transaction"
      <4>1. \A i \in 1 .. Len(inbox') : IsTransaction(c, inbox'[i]) => i = Len(inbox) + 1
        BY <2>3, <2>4, <3>2, Zenon DEF Clear, IsOf
      <4>2. \A i \in 1 .. Len(inbox') : ~IsQuery(c, inbox'[i])
        BY <2>2, <2>4, <3>2, Zenon DEF IsQuery
      <4>. QED BY <4>1, <4>2, Zenon DEF InboxInv
    <3>. QED BY <1>5, <3>1, <3>2, Zenon
  <2>6. HandlerInv(c)'
    BY <1>3, <1>4, <1>6, <2>1, Zenon DEF HandlerInv, Idle
  <2>7. Asking(c)' <=> Asking(c)
    BY <1>3, <1>6, Zenon DEF Asking, Idle, None, item
  <2>8. SentInv(c)'
    BY <1>1, <1>3, <2>7, Zenon DEF ConsoleInv, SentInv
  <2>9. AnswerInv(c)'
    <3>1. to_client[c] = << >>
      BY <1>1, <1>3, Zenon DEF ConsoleInv, AnswerInv, Done
    <3>2. Asking(c)' => handler'[c].item = handler[c].item
      BY <1>6 DEF Asking, Idle, None, item
    <3>. QED BY <1>1, <1>3, <2>7, <3>1, <3>2, Zenon DEF ConsoleInv, AnswerInv
  <2>. QED BY <2>5, <2>6, <2>8, <2>9, Zenon DEF ConsoleInv
<1>. QED BY <1>8, <1>10, <1>11, Zenon DEF IInv

\* The replica's answer goes on to the console, which awaits it and nothing else, or
\* becomes a drip.
LEMMA AnsweredStep ==
    ASSUME IInv, NEW c \in Consoles, answered(c)
    PROVE  IInv'
<1>1. Shape /\ \A d \in Consoles : ConsoleInv(d)
  BY Zenon DEF IInv
<1>2. /\ handler \in [Consoles -> Handlers] /\ response \in [Consoles -> Answers \cup {None}]
      /\ inbox \in Seq(Items) /\ to_node \in [Consoles -> Seq(ToNode)]
      /\ to_client \in [Consoles -> Seq(Answers)]
  BY <1>1, Zenon DEF Shape
<1>3. /\ UNCHANGED <<pc, order, inbox, sending, expected_nonce, to_node>>
      /\ handler[c].at = "wait" /\ response[c] # None
      /\ response' = [response EXCEPT ![c] = None]
  BY Zenon DEF answered, console, replica
<1>4. Clear(c) /\ to_client[c] = << >>
  BY <1>1, <1>3, Zenon DEF ConsoleInv, HandlerInv, AnswerInv, Done
<1>5. response[c].kind = IF handler[c].item.query = "Drip" THEN "Account" ELSE handler[c].item.query
  BY <1>1, <1>3, Zenon DEF ConsoleInv, HandlerInv
<1>6. handler[c].item \in AQuery /\ response[c] \in Answers
  <2>1. handler[c] \in Handlers
    BY <1>2, Zenon
  <2>. QED BY <1>2, <1>3, <2>1 DEF Handlers, Idle
<1>7. CASE handler[c].item.query = "Drip"
  <2> DEFINE t == [from |-> Faucet, nonce |-> response[c].nonce, body |-> Drip(c)]
  <2>1. response[c].nonce \in Nat
    BY <1>5, <1>6, <1>7, Zenon DEF Answers
  <2>2. t \in Signed \cup Drips /\ Owner(t) = c
    BY <2>1, Zenon DEF Drips, Owner, Drip
  <2>3. handle_transaction(c, t) /\ UNCHANGED to_client
    BY <1>7, Zenon DEF answered, drip_answered
  <2>4. \A i \in 1 .. Len(to_node[c]) :
          /\ to_node[c][i].kind # "Submit"
          /\ to_node[c][i].kind # "Drip" =>
               i = Len(to_node[c]) /\ to_node[c][i].kind = Awaited(pc[c])
    BY <1>1, <1>3, ZenonT(40) DEF ConsoleInv, SentInv
  <2> HIDE DEF t
  <2>. QED BY <1>2, <1>3, <1>4, <2>2, <2>3, <2>4, HandleTransaction, Zenon
<1>8. CASE handler[c].item.query # "Drip"
  <2>1. /\ to_client' = [to_client EXCEPT ![c] = Append(@, response[c])]
        /\ handler' = [handler EXCEPT ![c] = Idle]
    BY <1>8, Zenon DEF answered, HandlerAt, Idle
  <2>2. Asking(c) /\ to_node[c] = << >> /\ handler[c].item.query = Awaited(pc[c])
    BY <1>1, <1>3, <1>6, <1>8, Zenon DEF Asking, AQuery, ConsoleInv, AnswerInv
  <2>3. to_client'[c] = <<response[c]>>
    BY <1>2, <1>4, <2>1
  <2>4. to_client' \in [Consoles -> Seq(Answers)] /\ response' \in [Consoles -> Answers \cup {None}]
        /\ handler' \in [Consoles -> Handlers]
    <3>1. <<response[c]>> \in Seq(Answers)
      BY <1>6
    <3>2. to_client' = [to_client EXCEPT ![c] = <<response[c]>>]
      BY <1>4, <2>1
    <3>. QED BY <1>2, <1>3, <2>1, <3>1, <3>2, Zenon DEF Handlers
  <2>5. /\ handler'[c] = Idle /\ response'[c] = None
        /\ \A d \in Consoles \ {c} : /\ to_client'[d] = to_client[d] /\ handler'[d] = handler[d]
                                    /\ response'[d] = response[d]
    BY <1>2, <1>3, <2>1, Zenon
  <2>6. Shape'
    BY <1>1, <1>3, <2>4, Zenon DEF Shape
  <2>8. ASSUME NEW d \in Consoles, d # c PROVE ConsoleInv(d)'
    BY <1>1, <1>3, <2>5, <2>8, Untouched, Zenon
  <2>9. ConsoleInv(c)'
    <3>1. Clear(c)' /\ ~Asking(c)'
      <4>1. Clear(c)'
        BY <1>3, <1>4, Zenon DEF Clear
      <4>2. handler'[c].at = "read"
        BY <2>5 DEF Idle
      <4>. QED BY <4>1, <4>2, Zenon DEF Asking
    <3>2. InboxInv(c)'
      BY <3>1, Zenon DEF Clear, InboxInv, IsOf
    <3>3. HandlerInv(c)'
      BY <2>5 DEF HandlerInv, Idle
    <3>4. SentInv(c)'
      BY <1>3, <2>2, SMTT(40) DEF SentInv
    <3>5. Len(to_client'[c]) = 1 /\ to_client'[c][1].kind = Awaited(pc[c]) /\ Done(c)'
      BY <1>3, <1>5, <1>8, <2>2, <2>3, <2>5, <3>1, SMTT(40) DEF Done, Idle
    <3>6. AnswerInv(c)'
      BY <1>3, <3>1, <3>5, Zenon DEF AnswerInv
    <3>. QED BY <3>2, <3>3, <3>4, <3>6, Zenon DEF ConsoleInv
  <2>. QED BY <2>6, <2>8, <2>9, Zenon DEF IInv
<1>. QED BY <1>7, <1>8, Zenon

-----------------------------------------------------------------------------
(* The steps of the replica                                                *)

\* One round of run_replica.  When a query is answered, it was the last message of its
\* console in the inbox.
LEMMA ReplicaStep ==
    ASSUME IInv, run_replica
    PROVE  IInv'
<1>1. Shape /\ \A d \in Consoles : ConsoleInv(d)
  BY Zenon DEF IInv
<1>2. /\ inbox \in Seq(Items) /\ response \in [Consoles -> Answers \cup {None}]
      /\ Len(inbox) <= Capacity /\ Capacity \in Nat
      /\ expected_nonce \in [Accounts -> Nat]
  BY <1>1, ConsoleAssumption, Zenon DEF Shape
<1> DEFINE m == Head(inbox)
<1>3. /\ UNCHANGED <<pc, order, to_node, to_client, handler, expected_nonce>>
      /\ sending = None /\ inbox # << >> /\ inbox' = Tail(inbox)
  BY Zenon DEF run_replica, console, wires
<1>4. /\ Len(inbox') = Len(inbox) - 1 /\ Len(inbox) \in Nat \ {0} /\ inbox' \in Seq(Items)
      /\ \A i \in 1 .. Len(inbox') : inbox'[i] = inbox[i + 1]
      /\ m = inbox[1] /\ m \in Items
  BY <1>2, <1>3, Taken, NoneLeft
<1>6. sending' \in {None, Vote, NewView}
  <2>1. sending' \in ToSelf(m) \/ sending' = sending
    BY Zenon DEF run_replica
  <2>2. ToSelf(m) \subseteq {None, Vote, NewView}
    BY Zenon DEF ToSelf
  <2>. QED BY <1>3, <2>1, <2>2, Zenon
<1>8. CASE m.kind # "Query"
  <2>1. response' = response
    BY <1>8, Zenon DEF run_replica
  <2>2. Shape'
    BY <1>1, <1>2, <1>3, <1>4, <1>6, <2>1 DEF Shape
  <2>3. ASSUME NEW d \in Consoles PROVE ConsoleInv(d)'
    BY <1>1, <1>2, <1>3, <2>1, OthersTake, Zenon
  <2>. QED BY <2>2, <2>3, Zenon DEF IInv
<1>9. CASE m.kind = "Query"
  <2>0. m \in AQuery
    BY <1>4, <1>9, Zenon DEF Items, ATransaction, AMessage
  <2>1. PICK c \in Consoles : c = m.client /\ m.query \in Queries
    BY <2>0, Zenon DEF AQuery
  <2>2. PICK available \in Available : response' = [response EXCEPT ![c] = Answer(m, available)]
    BY <1>9, <2>1, Zenon DEF run_replica, replica_handle_query
  <2>3. /\ Answer(m, available) \in Answers
        /\ Answer(m, available).kind = IF m.query = "Drip" THEN "Account" ELSE m.query
    <3>1. available \in Nat /\ 0 \in Nat
      BY <2>2, ConsoleAssumption, Zenon
    <3>2. expected_nonce[Account(m)] \in Nat
      BY <1>2, <2>1, Zenon DEF Account, Accounts
    <3>. QED BY <2>1, <3>1, <3>2, Zenon DEF Answer, Answers, Queries
  <2>4. /\ response' \in [Consoles -> Answers \cup {None}] /\ response'[c] = Answer(m, available)
        /\ \A d \in Consoles \ {c} : response'[d] = response[d]
    BY <1>2, <2>1, <2>2, <2>3, ZenonT(40)
  <2>5. Shape'
    BY <1>1, <1>2, <1>3, <1>4, <1>6, <2>4, SMTT(40) DEF Shape
  <2>6. ASSUME NEW d \in Consoles, d # c PROVE ConsoleInv(d)'
    BY <1>1, <1>2, <1>3, <2>4, <2>6, OthersTake, Zenon
  <2>7. ConsoleInv(c)'
    <3>1. 1 \in 1 .. Len(inbox) /\ IsQuery(c, inbox[1])
      BY <1>4, <1>9, <2>1 DEF IsQuery
    <3>2. handler[c] = [at |-> "wait", item |-> m]
      BY <1>1, <1>4, <2>1, <3>1, ZenonT(40) DEF ConsoleInv, InboxInv
    <3>3. \A j \in 2 .. Len(inbox) : ~IsOf(c, inbox[j])
      <4> SUFFICES ASSUME NEW j \in 2 .. Len(inbox), IsOf(c, inbox[j]) PROVE FALSE
        BY Zenon
      <4>1. j \in 1 .. Len(inbox)
        BY <1>4
      <4>2. /\ IsQuery(c, inbox[1]) /\ IsQuery(c, inbox[j]) => 1 = j
            /\ IsQuery(c, inbox[1]) /\ IsTransaction(c, inbox[j]) => j < 1
        BY <1>1, <3>1, <4>1, Zenon DEF ConsoleInv, InboxInv
      <4>. QED BY <1>4, <3>1, <4>2 DEF IsOf
    <3>4. Clear(c)'
      <4>1. \A i \in 1 .. Len(inbox') : i + 1 \in 2 .. Len(inbox) /\ inbox'[i] = inbox[i + 1]
        BY <1>4
      <4>. QED BY <3>3, <4>1, Zenon DEF Clear
    <3>5. Asking(c)' <=> Asking(c)
      BY <1>3, Zenon DEF Asking
    <3>6. InboxInv(c)'
      BY <3>4, Zenon DEF Clear, InboxInv, IsOf
    <3>7. handler'[c].at = "wait" /\ handler'[c].item = m
      BY <1>3, <3>2
    <3>8. HandlerInv(c)'
      BY <1>9, <2>1, <2>3, <2>4, <3>4, <3>7, Zenon DEF HandlerInv, IsOf, IsQuery
    <3>9. SentInv(c)' /\ AnswerInv(c)'
      <4>1. handler[c].at # "read"
        BY <3>2
      <4>. QED BY <1>1, <1>3, <2>1, <3>5, <4>1, ZenonT(40) DEF ConsoleInv, SentInv, AnswerInv, Done
    <3>. QED BY <3>6, <3>8, <3>9, Zenon DEF ConsoleInv
  <2>. QED BY <2>5, <2>6, <2>7, Zenon DEF IInv
<1>. QED BY <1>8, <1>9, Zenon

\* A message of the replica's own, or one that a peer passes on, enters the inbox.
LEMMA OtherPushed ==
    ASSUME IInv, HasRoom, NEW x \in AMessage, inbox' = Append(inbox, x),
           sending' \in {None, Vote, NewView},
           UNCHANGED <<pc, order, to_node, to_client, handler, response, expected_nonce>>
    PROVE  IInv'
<1>1. Shape /\ \A d \in Consoles : ConsoleInv(d)
  BY Zenon DEF IInv
<1>2. inbox \in Seq(Items) /\ Len(inbox) < Capacity /\ Len(inbox) \in Nat /\ Capacity \in Nat
  BY <1>1, ConsoleAssumption DEF Shape, HasRoom
<1>3. x \in Items
  BY Zenon DEF Items
<1>4. inbox' \in Seq(Items) /\ Len(inbox') = Len(inbox) + 1
  BY <1>2, <1>3, Appended, ZenonT(40)
<1>5. Shape'
  BY <1>1, <1>2, <1>4 DEF Shape
<1>6. ASSUME NEW d \in Consoles PROVE ConsoleInv(d)'
  <2>1. ~IsOf(d, x)
    <3>1. CASE x \in [kind : {"Peer", "Vote", "NewView"}]
      BY <3>1, Zenon DEF IsOf, IsQuery, IsTransaction
    <3>2. CASE x \in [kind : {"Transaction"}, tx : Gossip]
      <4>1. x.kind = "Transaction" /\ x.tx \in Gossip
        BY <3>2, Zenon
      <4>2. Owner(x.tx) \notin Consoles
        BY <4>1, ConsoleAssumption, Zenon DEF Owner
      <4>. QED BY <4>1, <4>2 DEF IsOf, IsQuery, IsTransaction
    <3>. QED BY <3>1, <3>2, Zenon DEF AMessage
  <2>. QED BY <1>1, <1>2, <1>3, <2>1, OthersPush, Zenon
<1>. QED BY <1>5, <1>6, Zenon DEF IInv

\* The other steps of the node.
LEMMA NodeStep ==
    ASSUME IInv, send_to_self \/ advance_view \/ Peer \/ Commit
    PROVE  IInv'
<1>1. Shape /\ \A d \in Consoles : ConsoleInv(d)
  BY Zenon DEF IInv
<1>2. sending \in {None, Vote, NewView}
  BY <1>1, Zenon DEF Shape
<1>4. CASE send_to_self
  <2>1. /\ inbox' = Append(inbox, sending) /\ HasRoom /\ sending # None /\ sending' = None
        /\ UNCHANGED <<pc, order, to_node, to_client, handler, response, expected_nonce>>
    BY <1>4, Zenon DEF send_to_self, console, wires, node
  <2>2. sending \in AMessage
    <3>1. Vote \in AMessage /\ NewView \in AMessage
      BY DEF AMessage, Vote, NewView
    <3>2. sending = Vote \/ sending = NewView
      BY <1>2, <2>1, Zenon
    <3>. QED BY <3>1, <3>2, Zenon
  <2>. QED BY <2>1, <2>2, OtherPushed, Zenon
<1>5. CASE Peer
  <2>1. /\ HasRoom /\ sending' = sending
        /\ UNCHANGED <<pc, order, to_node, to_client, handler, response, expected_nonce>>
    BY <1>5, Zenon DEF Peer, console, wires
  <2>2. PICK x \in AMessage : inbox' = Append(inbox, x)
    <3>1. CASE inbox' = Append(inbox, [kind |-> "Peer"])
      BY <3>1, Zenon DEF AMessage
    <3>2. CASE \E u \in Gossiped : inbox' = Append(inbox, [kind |-> "Transaction", tx |-> u])
      BY <3>2, Zenon DEF AMessage, Gossiped
    <3>. QED BY <1>5, <3>1, <3>2, Zenon DEF Peer
  <2>. QED BY <1>2, <2>1, <2>2, OtherPushed, Zenon
<1>6. ASSUME UNCHANGED <<pc, order, to_node, to_client, handler, response, inbox>>,
             sending' \in {None, Vote, NewView}, expected_nonce' \in [Accounts -> Nat]
      PROVE  IInv'
  <2>1. Shape'
    BY <1>1, <1>6, Zenon DEF Shape
  <2>2. ASSUME NEW d \in Consoles PROVE ConsoleInv(d)'
    BY <1>1, <1>6, Untouched, Zenon
  <2>. QED BY <2>1, <2>2, Zenon DEF IInv
<1>7. CASE advance_view
  <2>1. UNCHANGED <<pc, order, to_node, to_client, handler, response, inbox, expected_nonce>>
        /\ sending' = NewView
    BY <1>7, Zenon DEF advance_view, console, wires, node
  <2>. QED BY <1>1, <1>6, <2>1, Zenon DEF Shape
<1>8. CASE Commit
  <2>1. UNCHANGED <<pc, order, to_node, to_client, handler, response, inbox, sending>>
    BY <1>8, Zenon DEF Commit, console, wires, node
  <2>2. expected_nonce \in [Accounts -> Nat]
    BY <1>1, Zenon DEF Shape
  <2>3. expected_nonce' \in [Accounts -> Nat]
    BY <1>8, <2>2 DEF Commit, Decide
  <2>. QED BY <1>2, <1>6, <2>1, <2>3, Zenon
<1>. QED BY <1>4, <1>5, <1>7, <1>8, Zenon

-----------------------------------------------------------------------------
(* The invariant and what follows from it                                  *)

LEMMA InitStep == Init => IInv
<1> SUFFICES ASSUME Init PROVE IInv
  BY Zenon
<1>1. inbox = << >> /\ Len(inbox) = 0 /\ inbox \in Seq(Items)
  BY SMTT(40) DEF Init
<1>2. Shape
  <2>1. Capacity \in Nat
    BY ConsoleAssumption, Zenon
  <2>2. pc \in [Consoles -> Places] /\ handler \in [Consoles -> Handlers]
    BY Zenon DEF Init, Places, Handlers
  <2>3. /\ order \in [Consoles -> {NoOrder} \cup {[typed |-> t, made |-> Entered(t)] : t \in Typed}]
        /\ response \in [Consoles -> Answers \cup {None}]
    BY Zenon DEF Init
  <2>4. to_node \in [Consoles -> Seq(ToNode)] /\ to_client \in [Consoles -> Seq(Answers)]
    BY DEF Init
  <2>5. sending \in {None, Vote, NewView} /\ expected_nonce \in [Accounts -> Nat]
    BY Zenon DEF Init
  <2>. QED BY <1>1, <2>1, <2>2, <2>3, <2>4, <2>5, SMTT(40) DEF Shape
<1>4. ASSUME NEW c \in Consoles PROVE ConsoleInv(c)
  BY <1>1, SMTT(40) DEF Init, ConsoleInv, InboxInv, HandlerInv, SentInv, AnswerInv, Asking, Idle
<1>. QED BY <1>2, <1>4, Zenon DEF IInv

\* The state of every console, its handler and the inbox fit together in every
\* reachable state, for any number of consoles.
THEOREM Invariance == Spec => []IInv
<1>1. IInv /\ [Next]_vars => IInv'
  <2> SUFFICES ASSUME IInv, [Next]_vars PROVE IInv'
    BY Zenon
  <2>1. ASSUME NEW c \in Consoles, Command(c) PROVE IInv'
    BY <2>1, CommandStep, Zenon
  <2>2. ASSUME NEW c \in Consoles, Receive(c) PROVE IInv'
    BY <2>2, ReceiveStep, Zenon
  <2>3. ASSUME NEW c \in Consoles, Handle(c) PROVE IInv'
    BY <2>3, ReadStep, PushStep, AnsweredStep, Zenon DEF Handle
  <2>4. CASE run_replica
    BY <2>4, ReplicaStep, Zenon
  <2>5. CASE send_to_self \/ advance_view \/ Peer \/ Commit
    BY <2>5, NodeStep, Zenon
  <2>6. CASE UNCHANGED vars
    <3>1. UNCHANGED <<pc, order, to_node, to_client, handler, response, inbox, sending, expected_nonce>>
      BY <2>6, Zenon DEF vars, console, wires, node, replica
    <3>2. Shape'
      BY <3>1, Zenon DEF IInv, Shape
    <3>3. ASSUME NEW d \in Consoles PROVE ConsoleInv(d)'
      BY <3>1, Untouched, Zenon DEF IInv
    <3>. QED BY <3>2, <3>3, Zenon DEF IInv
  <2>. QED BY <2>1, <2>2, <2>3, <2>4, <2>5, <2>6, Zenon DEF Next
<1>. QED BY <1>1, InitStep, PTL DEF Spec

\* The places of the inbox that are not the consoles'.
Elsewhere == {i \in DOMAIN inbox : \A c \in Consoles : ~IsOf(c, inbox[i])}

\* Two messages of each console and those of the others: the inbox has no more.
LEMMA InboxBound ==
    ASSUME IInv
    PROVE  Len(inbox) <= 2 * Cardinality(Consoles) + Cardinality(Elsewhere)
<1>1. Shape /\ (\A d \in Consoles : ConsoleInv(d)) /\ inbox \in Seq(Items) /\ IsFiniteSet(Consoles)
  BY ConsoleAssumption, Zenon DEF IInv, Shape
<1>2. DOMAIN inbox = 1 .. Len(inbox) /\ Len(inbox) \in Nat
  BY <1>1
<1>3. IsFiniteSet(1 .. Len(inbox)) /\ Cardinality(1 .. Len(inbox)) = Len(inbox)
  <2>1. /\ IsFiniteSet(1 .. Len(inbox))
        /\ Cardinality(1 .. Len(inbox)) = IF 1 > Len(inbox) THEN 0 ELSE Len(inbox) - 1 + 1
    BY <1>2, FS_Interval, SMTT(40)
  <2>. QED BY <1>2, <2>1
<1>4. /\ Elsewhere \subseteq 1 .. Len(inbox) /\ IsFiniteSet(Elsewhere)
      /\ Cardinality(Elsewhere) \in Nat
  BY <1>2, <1>3, FS_Subset, FS_CardinalityType, Zenon DEF Elsewhere
<1> DEFINE mine == (1 .. Len(inbox)) \ Elsewhere
           Kinds == {"Query", "Transaction"}
           f == [i \in mine |-> <<IF inbox[i].kind = "Query" THEN inbox[i].client ELSE Owner(inbox[i].tx),
                                  inbox[i].kind>>]
<1>5. IsFiniteSet(mine) /\ Cardinality(mine) = Len(inbox) - Cardinality(Elsewhere)
  <2>1. (1 .. Len(inbox)) \cap Elsewhere = Elsewhere
    BY <1>4, Zenon
  <2>2. /\ IsFiniteSet(mine)
        /\ Cardinality(mine) = Cardinality(1 .. Len(inbox)) - Cardinality((1 .. Len(inbox)) \cap Elsewhere)
    BY <1>3, FS_Difference, Zenon
  <2>. QED BY <1>3, <1>4, <2>1, <2>2, Zenon
<1>6. IsFiniteSet(Kinds) /\ Cardinality(Kinds) = 2
  <2>1. IsFiniteSet({"Query"}) /\ Cardinality({"Query"}) = 1
    BY FS_Singleton, Zenon
  <2>2. Kinds = {"Query"} \cup {"Transaction"} /\ "Transaction" \notin {"Query"}
    BY Zenon
  <2>. QED BY <2>1, <2>2, FS_AddElement
<1>7. /\ IsFiniteSet(Consoles \X Kinds)
      /\ Cardinality(Consoles \X Kinds) = Cardinality(Consoles) * 2
      /\ Cardinality(Consoles) \in Nat
  BY <1>1, <1>6, FS_Product, FS_CardinalityType, Zenon
<1>8. ASSUME NEW i \in mine
      PROVE  /\ i \in 1 .. Len(inbox) /\ f[i] \in Consoles \X Kinds
             /\ inbox[i].kind = "Query" => IsQuery(f[i][1], inbox[i]) /\ f[i][2] = "Query"
             /\ inbox[i].kind # "Query" => IsTransaction(f[i][1], inbox[i]) /\ f[i][2] = "Transaction"
  <2>1. inbox[i] \in Items /\ i \in 1 .. Len(inbox)
    BY <1>1, <1>2
  <2>2. PICK c \in Consoles : IsOf(c, inbox[i])
    BY <1>2, Zenon DEF Elsewhere
  <2>3. CASE IsQuery(c, inbox[i])
    BY <2>1, <2>3, Zenon DEF IsQuery
  <2>4. CASE IsTransaction(c, inbox[i])
    <3>1. inbox[i].kind = "Transaction" /\ inbox[i].kind # "Query"
      BY <2>4, Zenon DEF IsTransaction
    <3>2. Owner(inbox[i].tx) = c
      BY <2>4, Zenon DEF IsTransaction
    <3>. QED BY <2>1, <2>4, <3>1, <3>2, Zenon
  <2>. QED BY <2>2, <2>3, <2>4, Zenon DEF IsOf
<1>9. f \in Injection(mine, Consoles \X Kinds)
  <2>1. f \in [mine -> Consoles \X Kinds]
    <3>1. \A i \in mine : f[i] \in Consoles \X Kinds
      BY <1>8, Zenon
    <3>. QED BY <3>1, Zenon
  <2>2. ASSUME NEW i \in mine, NEW j \in mine, f[i] = f[j] PROVE i = j
    <3> HIDE DEF f, mine
    <3>1. f[i][1] \in Consoles
      BY <1>8, Zenon
    <3>2. InboxInv(f[i][1])
      BY <1>1, <3>1, Zenon DEF ConsoleInv
    <3>. QED BY <1>8, <2>2, <3>2, Zenon DEF InboxInv
  <2> HIDE DEF f
  <2>. QED BY <2>1, <2>2, Zenon DEF Injection, IsInjective
<1>10. Cardinality(mine) <= Cardinality(Consoles \X Kinds)
  <2> HIDE DEF f, mine, Kinds
  <2>. QED BY <1>7, <1>9, FS_Injection, Zenon
<1>. QED BY <1>2, <1>4, <1>5, <1>7, <1>10

\* No console has more than a transaction and a query in the inbox, and the query comes
\* last: its handler waits for the answer before it reads on, and the console for its own
\* before it sends on.
THEOREM InboxShared == Spec => []InboxShare
<1>1. IInv => InboxShare
  <2> SUFFICES ASSUME IInv, NEW c \in Consoles, NEW i \in DOMAIN inbox, NEW j \in DOMAIN inbox,
                      IsOf(c, inbox[i]), IsOf(c, inbox[j]), i < j
               PROVE  inbox[i].kind = "Transaction" /\ inbox[j].kind = "Query"
    BY Zenon DEF InboxShare
  <2>1. DOMAIN inbox = 1 .. Len(inbox) /\ Len(inbox) \in Nat
    BY DEF IInv, Shape
  <2>2. InboxInv(c)
    BY Zenon DEF IInv, ConsoleInv
  <2>3. i # j /\ ~(j < i)
    BY <2>1
  <2>4. ~IsQuery(c, inbox[i])
    BY <2>1, <2>2, <2>3, Zenon DEF InboxInv, IsOf
  <2>5. ~IsTransaction(c, inbox[j])
    BY <2>1, <2>2, <2>3, <2>4, Zenon DEF InboxInv, IsOf
  <2>. QED BY <2>4, <2>5, Zenon DEF IsOf, IsQuery, IsTransaction
<1>. QED BY <1>1, Invariance, PTL

\* The replica reads the inbox and writes to it.  When it finds no room for its own message,
\* and waits for itself, it is not the consoles that fill the inbox: all but two places for
\* each of them have messages of peers and of its own.
THEOREM StuckByOthers ==
    Spec => [](Stuck => Capacity - 2 * Cardinality(Consoles) <= Cardinality(Elsewhere))
<1>1. ASSUME IInv, Stuck PROVE Capacity - 2 * Cardinality(Consoles) <= Cardinality(Elsewhere)
  <2>1. Capacity <= 2 * Cardinality(Consoles) + Cardinality(Elsewhere)
    BY <1>1, InboxBound, Zenon DEF Stuck
  <2>2. Cardinality(Consoles) \in Nat /\ Capacity \in Nat
    BY ConsoleAssumption, FS_CardinalityType, Zenon
  <2>3. DOMAIN inbox = 1 .. Len(inbox) /\ Len(inbox) \in Nat
    BY <1>1 DEF IInv, Shape
  <2>4. IsFiniteSet(1 .. Len(inbox))
    BY <2>3, FS_Interval
  <2>5. Cardinality(Elsewhere) \in Nat
    BY <2>3, <2>4, FS_Subset, FS_CardinalityType, Zenon DEF Elsewhere
  <2>. QED BY <2>1, <2>2, <2>5
<1>. QED BY <1>1, Invariance, PTL

\* No console ever meets an answer to a question it has not asked, although drips and
\* transactions are sent without an answer.
THEOREM InStep == Spec => []AnswersInStep
<1>1. IInv => AnswersInStep
  BY Zenon DEF IInv, Shape, AnswersInStep, Places
<1>. QED BY <1>1, Invariance, PTL

\* Every handler has at most one query with the replica and every console at most one
\* answer on the way.
THEOREM TypeCorrect == Spec => []TypeOK
<1>1. IInv => TypeOK
  <2> SUFFICES ASSUME IInv PROVE TypeOK
    BY Zenon
  <2>1. Shape /\ \A d \in Consoles : ConsoleInv(d)
    BY Zenon DEF IInv
  <2>2. ASSUME NEW c \in Consoles
        PROVE  /\ handler[c].at \in {"read", "push", "wait"}
               /\ response[c] # None => handler[c].at = "wait"
               /\ Len(to_client[c]) <= 1
    <3>1. handler[c] \in Handlers /\ to_client[c] \in Seq(Answers)
      BY <2>1, Zenon DEF Shape
    <3>2. handler[c].at \in {"read", "push", "wait"}
      BY <3>1 DEF Handlers, Idle
    <3>3. response[c] # None => handler[c].at = "wait"
      BY <2>1, Zenon DEF ConsoleInv, HandlerInv
    <3>4. CASE to_client[c] = << >>
      BY <3>2, <3>3, <3>4
    <3>5. CASE to_client[c] # << >>
      <4>1. Len(to_client[c]) = 1
        BY <2>1, <3>5, Zenon DEF ConsoleInv, AnswerInv
      <4>. QED BY <3>2, <3>3, <4>1
    <3>. QED BY <3>4, <3>5, Zenon
  <2>3. ASSUME NEW c \in Consoles
        PROVE  Cardinality({i \in DOMAIN inbox : inbox[i].kind = "Query" /\ inbox[i].client = c}) <= 1
    <3> DEFINE Q == {i \in DOMAIN inbox : inbox[i].kind = "Query" /\ inbox[i].client = c}
    <3>1. DOMAIN inbox = 1 .. Len(inbox)
      BY <2>1 DEF Shape
    <3>2. \A i, j \in Q : i = j
      BY <2>1, <3>1, ZenonT(40) DEF ConsoleInv, InboxInv, IsQuery
    <3> HIDE DEF Q
    <3>3. CASE Q = {}
      BY <3>3, FS_EmptySet DEF Q
    <3>4. CASE Q # {}
      <4>1. PICK i \in Q : Q = {i}
        BY <3>2, <3>4, Zenon
      <4>2. Cardinality(Q) = 1
        BY <4>1, FS_Singleton, Zenon
      <4>. QED BY <4>2 DEF Q
    <3>. QED BY <3>3, <3>4, Zenon
  <2>. QED BY <2>1, <2>2, <2>3, Zenon DEF TypeOK, Shape
<1>. QED BY <1>1, Invariance, PTL

-----------------------------------------------------------------------------
(* Order entry                                                             *)

\* Quotient and remainder.
LEMMA Division ==
    ASSUME NEW a \in Nat, NEW k \in Nat \ {0}
    PROVE  a \div k \in Nat /\ a % k \in 0 .. k - 1 /\ a = k * (a \div k) + (a % k)
OBVIOUS

\* What RawUnits makes of a typed number.
LEMMA RawUnitsType ==
    ASSUME NEW typed \in Int
    PROVE  RawUnits(typed) \in Nat
BY DEF RawUnits

\* An order that is made of a typed one: whole lots of the amount, and a whole number
\* of ticks for the price.
LEMMA EnteredAsTyped ==
    ASSUME NEW t \in Typed, NEW o \in Entered(t)
    PROVE  /\ o.lots \in Nat \ {0} /\ o.price \in Nat /\ LotSize(o) = LotSize(t)
           /\ o.kind = "limit" => format_price(o.price) = RawUnits(t.price)
           /\ RawUnits(t.amount) - lots_to_amount(o.lots, LotSize(o)) \in 0 .. LotSize(o) - 1
<1> DEFINE size == LotSize(t)
<1>1. size \in Nat \ {0} /\ tick \in Nat \ {0}
  BY PrecisionAssumption, Zenon DEF LotSize
<1>2. RawUnits(t.amount) \in Nat /\ RawUnits(t.price) \in Nat
  BY ConsoleAssumption, RawUnitsType, Zenon
<1>3. PICK lots \in amount_to_lots(t.amount, size) \ {0},
           price \in IF t.kind = "limit" THEN parse_price_to_multiple(t.price) \ {0} ELSE {0} :
             o = [kind |-> t.kind, side |-> t.side, price |-> price, lots |-> lots]
  BY DEF Entered
<1>4. o.kind = t.kind /\ o.side = t.side /\ o.price = price /\ o.lots = lots
  BY <1>3, Zenon
<1>5. LotSize(o) = size
  BY <1>4, Zenon DEF LotSize
<1> HIDE DEF size
<1>6. lots = RawUnits(t.amount) \div size /\ lots # 0
  BY <1>3, Zenon DEF amount_to_lots
<1>7. /\ lots \in Nat \ {0} /\ RawUnits(t.amount) % size \in 0 .. size - 1
      /\ RawUnits(t.amount) = size * lots + (RawUnits(t.amount) % size)
  BY <1>1, <1>2, <1>6, Division, Zenon
<1>8. RawUnits(t.amount) - lots * size \in 0 .. size - 1
  BY <1>1, <1>2, <1>7
<1>9. CASE t.kind = "limit"
  <2>1. RawUnits(t.price) % tick = 0 /\ price = RawUnits(t.price) \div tick
    BY <1>3, <1>9, Zenon DEF parse_price_to_multiple
  <2>2. price \in Nat /\ RawUnits(t.price) = tick * price + 0
    BY <1>1, <1>2, <2>1, Division, Zenon
  <2>3. price * tick = RawUnits(t.price)
    BY <1>1, <2>2
  <2>. QED BY <1>4, <1>5, <1>7, <1>8, <2>2, <2>3, Zenon DEF format_price, lots_to_amount, size
<1>10. CASE t.kind # "limit"
  <2>1. price = 0
    BY <1>3, <1>10, Zenon
  <2>. QED BY <1>4, <1>5, <1>7, <1>8, <1>10, <2>1 DEF lots_to_amount, size
<1>. QED BY <1>9, <1>10, Zenon

\* The order of a console is none, or made of a typed one.
LEMMA OrderIs ==
    ASSUME IInv, NEW c \in Consoles, NEW o \in order[c].made
    PROVE  \E t \in Typed : order[c].typed = t /\ o \in Entered(t)
<1>1. order[c] \in {NoOrder} \cup {[typed |-> t, made |-> Entered(t)] : t \in Typed}
  BY Zenon DEF IInv, Shape
<1>2. order[c] # NoOrder
  BY DEF NoOrder
<1>3. PICK t \in Typed : order[c] = [typed |-> t, made |-> Entered(t)]
  BY <1>1, <1>2, Zenon
<1>. QED BY <1>3

\* What is ordered is what was typed, less what is not a whole lot, whatever the
\* precision of the market: amount_to_lots and parse_price_to_multiple lose nothing more.
THEOREM OrdersAsTyped == Spec => []OrderAsTyped
<1>1. IInv => OrderAsTyped
  <2> SUFFICES ASSUME IInv, NEW c \in Consoles, NEW o \in order[c].made
               PROVE  LET t == order[c].typed
                      IN /\ o.kind = "limit" => format_price(o.price) = RawUnits(t.price)
                         /\ RawUnits(t.amount) - lots_to_amount(o.lots, LotSize(o))
                              \in 0 .. LotSize(o) - 1
    BY Zenon DEF OrderAsTyped
  <2>1. PICK t \in Typed : order[c].typed = t /\ o \in Entered(t)
    BY OrderIs, Zenon
  <2>. QED BY <2>1, EnteredAsTyped, Zenon
<1>. QED BY <1>1, Invariance, PTL

\* If n is not less than what q lots are worth, then it was no more than q lots.
LEMMA WorthTwice ==
    ASSUME NEW n \in Nat, NEW worth \in Nat, NEW lot \in Nat \ {0}, NEW scale \in Nat \ {0},
           worth >= 2 * scale, NEW q \in Nat \ {0}, n * worth < (q + 1) * (lot * scale)
    PROVE  n < q * lot
<1>1. n * (2 * scale) <= n * worth
  OBVIOUS
<1>2. (q + 1) * (lot * scale) <= (2 * q) * (lot * scale)
  OBVIOUS
<1>3. n * (2 * scale) < (2 * q) * (lot * scale)
  BY <1>1, <1>2
<1>4. n * (2 * scale) = (2 * scale) * n /\ (2 * q) * (lot * scale) = (2 * scale) * (q * lot)
  OBVIOUS
<1>5. \A x, y, z \in Nat : z * x < z * y => x < y
  OBVIOUS
<1>. QED BY <1>3, <1>4, <1>5

\* The console compares lots and ticks with units, and refuses nothing that the ledger
\* would take, but for orders worth less than a quote lot, in every market where a base
\* lot at one tick is worth two quote units or more (10 in the deployed market).  With
\* less, the rounding down to quote lots may make Required the smaller number.
THEOREM OnlyUncoveredRefused ==
    ASSUME base_lot_size * tick >= 2 * tick_scale
    PROVE  Spec => []RefusesUncoveredOnly
<1>1. /\ base_lot_size \in Nat \ {0} /\ quote_lot_size \in Nat \ {0}
      /\ tick \in Nat \ {0} /\ tick_scale \in Nat \ {0}
  BY PrecisionAssumption, Zenon
<1>2. IInv => RefusesUncoveredOnly
  <2> SUFFICES ASSUME IInv, NEW c \in Consoles, NEW o \in order[c].made,
                      NEW available \in Available, Needs(o) > available, Required(o) # 0
               PROVE  Required(o) > available
    BY Zenon DEF RefusesUncoveredOnly, Refused
  <2>1. PICK t \in Typed : order[c].typed = t /\ o \in Entered(t)
    BY OrderIs, Zenon
  <2>2. o.lots \in Nat \ {0} /\ o.price \in Nat /\ available \in Nat
    BY <2>1, EnteredAsTyped, ConsoleAssumption, Zenon
  <2>3. CASE o.kind = "limit" /\ o.side = "Buy"
    <3> DEFINE n == o.price * o.lots
               worth == base_lot_size * tick
               unit == quote_lot_size * tick_scale
               q == (n * worth) \div unit
    <3>1. n \in Nat /\ worth \in Nat /\ unit \in Nat \ {0} /\ n * worth \in Nat
      BY <1>1, <2>2
    <3>2. o.lots * base_lot_size * o.price * tick = n * worth
      BY <1>1, <2>2
    <3>3. Needs(o) = n /\ Required(o) = q * quote_lot_size
      BY <2>3, <3>2, Zenon DEF Needs, Required, base_to_quote_lots
    <3>4. worth >= 2 * tick_scale /\ n > available
      BY <3>3, Zenon
    <3> HIDE DEF n, worth
    <3>5. q \in Nat /\ n * worth < (q + 1) * unit
      <4>1. /\ q \in Nat /\ (n * worth) % unit \in 0 .. unit - 1
            /\ n * worth = unit * q + ((n * worth) % unit)
        BY <3>1, Division, Zenon
      <4> HIDE DEF q, unit
      <4>. QED BY <3>1, <4>1
    <3> HIDE DEF q
    <3>6. q # 0
      BY <1>1, <3>3
    <3>7. n < q * quote_lot_size
      BY <1>1, <3>1, <3>4, <3>5, <3>6, WorthTwice, Zenon
    <3>. QED BY <1>1, <2>2, <3>1, <3>3, <3>4, <3>5, <3>7, SMTT(40)
  <2>4. CASE ~(o.kind = "limit" /\ o.side = "Buy")
    <3>1. Needs(o) = o.lots /\ Required(o) = o.lots * LotSize(o) /\ LotSize(o) \in Nat \ {0}
      BY <1>1, <2>4, Zenon DEF Needs, Required, LotSize
    <3>2. o.lots * LotSize(o) >= o.lots
      BY <2>2, <3>1
    <3>. QED BY <2>2, <3>1, <3>2
  <2>. QED BY <2>3, <2>4, Zenon
<1>. QED BY <1>2, Invariance, PTL

=============================================================================
