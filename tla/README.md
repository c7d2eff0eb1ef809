# A TLA+ model of superliquid

superliquid is a replicated spot exchange: a node runs a replica of chained
HotStuff, the replicas agree on blocks of signed transactions, and every replica
applies the committed blocks to a ledger with accounts, balances and an order
book. Users trade from a console that is connected to a node. This directory holds
TLA+ modules of the consensus, the mempool, the ledger with its book, the message
window, the Merkle root, the connections between the nodes and the consoles with the
node that serves them; the instances TLC checks; and proofs that TLAPS checks. Line
numbers below are those of `src/src/`.

## The system and its modules

| Part | Code | Module |
|---|---|---|
| Replica: leader, voter, view change, lock, commit | `hotstuff/replica.rs`, `utils.rs` | `HotStuff` |
| Blocks, votes, certificates, messages | `hotstuff/block.rs`, `crypto.rs`, `message.rs` | `HotStuff` (records) |
| Pacemaker | `hotstuff/pacemaker.rs` | `HotStuff`, `HotStuffRounds` (when a timer may expire) |
| Network between replicas | `node/peer/broadcast.rs`, `node/peer/handler.rs` | `HotStuff` (any order, delay or loss), `HotStuffRounds`, `HotStuffOutage` |
| Merkle root of a block | `hotstuff/block.rs` | `Merkle`, abstract `MerkleLevels` |
| Message window | `hotstuff/message_window.rs` | `MessageWindow`, abstract `MessageLog` |
| Mempool and transaction intake | `hotstuff/mempool.rs`, `node/client/handler.rs` | `Mempool` |
| Connections between nodes | `node/runner.rs`, `node/peer/`, `network.rs` | `PeerConnections` |
| Console, its node's handler, the replica's inbox | `console.rs`, `message_protocol.rs`, `node/client/`, `hotstuff/replica_sender.rs` | `Console` |
| What the console makes of a typed order | `console.rs` | `OrderEntry` (operators used by `Console`) |
| Ledger, balances, settlement | `state/state.rs`, `state/spot_clearinghouse.rs` | `Ledger`, with the properties about sums in `LedgerTotals` |
| Order book and matching | `state/spot_market.rs`, `state/order.rs` | `SpotMarket` (operators used by `Ledger`) |

The proofs are in modules of their own, which extend the module they are about:
`HotStuffProofs`, `MerkleProofs`, `MessageWindowProofs`, `MempoolProofs`, `PeersProofs`,
`ConsoleProofs`, `LedgerBookProofs` (about `SpotMarket`) and `LedgerProofs`. The modules
`MC...` hold the sets that the instances for TLC are made of.

How they interact: a console asks its node for an account, signs a transaction with
the nonce it gets, and hands it to the node, which gossips it over its connections
and puts it through the replica's inbox into the mempool. A leader pops a block of transactions, proposes
it, and the replicas vote. A replica that sees the chain of certificates complete
applies the block to its ledger and tells its mempool which nonces come next.

### HotStuff

`replica` is a function from replica ids to the fields of `HotStuffReplica` that
are read again: view, what was done in the view, window, block store, generic and
locked certificate, and the sequence of applied blocks. `net` is the set of packets
under way; a packet is removed when it is handled, and one that is never handled is
lost. `votes` is a history of all votes signed. `HandleMessage` is the whole of
`handle_message` (596-706): the synchronisation of the view, the push into the
window, the leader's branch (`LeaderPropose`, `LeaderMissesParent`, `LeaderCollect`)
or the replica's branch (`ReplicaNewView`, `ReplicaProposal`, `ReplicaVote`), and the
messages it sends. `Timeout` is `advance_view` (729-749). A hash does not collide: it
is the list of the views of the blocks from genesis on, which tells blocks apart
because a view has one block (`OneBlockPerView`, checked and proved). A signature is
its signer's id. The payload of a block is whether its transactions are signed well
(`validate_block_transactions`).

The window is a set here; that the deque behaves as one is what `MessageWindow` and
its proof are for. The set loses the number of equal messages. A replica sends each
vote and each new-view once, so there are none to count.

`HotStuffRounds` restricts the environment to reach the views where blocks are
committed: a timer expires only when nothing timely is waiting and only at a replica
that is not ahead. Against that, up to `MaxLate` messages are late for as long as
they like and up to `MaxCrash` replicas stop for good (nothing is persisted, so a
restarted process is not the same replica). A broadcast is written to each peer by a
task of its own (broadcast.rs:20-25), so `Crash` loses any part of what the replica has
sent and was not handled yet (`lost`): a proposal may reach some replicas only. A badly
signed transaction is proposed in the views `BadViews` only. `HotStuffOutage` fixes one
outage: which proposals and votes are lost or late, and who is cut off.

### MessageWindow

`lowest_view` and the vector of vectors, with gaps filled on insertion, stale
messages dropped and pruning that moves the base (33-88). `iter` makes an iterator and
`next` is one turn of its loop (90-120): `outer` and `inner` are what its two slice
iterators have not handed out yet, and while it borrows the window nothing changes it.
`MessageLog` is the abstract specification: for each view the messages pushed, in
order, until the view is pruned.

### Mempool

Per replica: the queues by account and nonce, the two buckets in use, the two
counters, the nonces its ledger expects, the transactions seen, and how much of the
common log of committed blocks it has applied. `Propose` pops a block that is
committed or, at most `MaxOrphans` times, is not. `refused` is chosen at the start from
`Verdicts`: the transactions that the ledger will not execute.

### Ledger and SpotMarket

`balances` are sequences of entries, as in the code, because a transfer debits by
position. An order lives twice: in a level of `book` and in `open_orders` of its
account; the model keeps both copies. `panicked` records that a step ended the
replica's task: an unsigned subtraction below zero (the README runs the dev profile,
which checks overflow), a division by zero, or an `expect` that fails. Each kind of
transaction and each of its outcomes is one action (`LimitRests`, `LimitTrades`,
`LimitNotCovered`, ...); an action includes the settlement of all makers and the
update of all accounts. The matching loops are recursive functions of the number of turns
made (`Matching` over the orders of a level, `Executing` over the levels, `Settling` over
the orders that were used up), the binary searches are the position they find in a
sorted book. The conversions of lots round as the code does.

### Merkle

`compute_merkle_root` (block.rs 93-123) keeps all levels in one vector: a level's
digests overwrite its first half while the second half is still to be read. `Pair` is
one round of the inner loop, `Halve` the rest of the outer one; an index that is not
below the vector's length panics. `MerkleLevels` computes each level in one step into a
vector of its own. The auxiliary variable `level` is the level as it was when its loop
began; it is what the refinement maps. `Tree` and `Root` define the tree over a list and
its root without any loop.

### PeerConnections

Per node: a dialing task for each peer (`connect_to_peer`), the listener with the one
handshake it serves at a time, `peer_connections`, and the readers that the listener
spawns. A socket is named by its dialer, its acceptor and the run of the dialer; an end
of it is closed when nothing in the node refers to it, as Rust drops it. A process may
crash and start again. On a socket closed with data unread, what is on the way may be
lost (`reset`). `HandshakeFails` ends the listener, and with it the process of every
node but `ClientNode`: all nodes bind the client port 8000, one of them gets it, and
`run_node` waits for its listeners only. A message that cannot be written is lost and
its sender does not notice: `send_message` drops the result of `send_data`
(message_protocol.rs:49-50).

### Console and OrderEntry

`pc` is the prompt a console is at, or the answer it waits for; every command of
`run_console` (970-1003) and of a market's prompt (649-921) is an action. What the user
tends to do is one of `Habits`, chosen at the start. `handler` is the node's task for
the connection: it reads a request, pushes it into the replica's inbox when there is
room, and, for a query or a drip, waits for the oneshot `response`. `inbox` is the
channel of `Capacity`, written by the handlers, the readers of the peers (`Peer`: any
number of HotStuff messages, and gossiped transactions that were not seen before), and
the replica itself; `run_replica` is its one reader. After a HotStuff message the replica
may have a vote or a new-view for itself (`ToSelf`: as the next leader, and its own vote
may complete the quorum that makes it enter the next view, replica.rs:538-566), and the
timer gives it a new-view whatever is in the inbox (`advance_view`). `send_to_self` then
waits for room, and `run_replica` does nothing until it is done. The ledger is reduced
to the nonces and to whether a transaction was `decided`. A drip is signed by the node,
with the nonce of the faucet account that the replica reported.

`OrderEntry` has the conversions from typed decimals to lots and ticks (80-128), with
the rounding, the fund check (`Needs`) and, for comparison, what the ledger requires
(`Required`). Typed numbers are integers in tenths of the smallest unit.

## What is checked

The consensus instances have four replicas (`NUM_VALIDATORS=4`), the others two or
three accounts, nodes or consoles. Deadlock is not checked except for `window`: a
bounded model stops at its bounds.

| Run | Properties | Bounds, and why they are enough |
|---|---|---|
| `rounds_late` | `TypeOK`, `QCBacked`, `NoViewUnderflow`, `OneBlockPerView`, `CertifiedValid`, `UniqueQCPerView` | Five views, one late message, a bad payload possible in view 1: a late proposal may arrive when its leader leads again (four views later). Under any interleaving whatever (`Spec`), TLC does not finish beyond a view or two; there all of these are proved. |
| `rounds_crash` | `Agreement`, `CommitsUnlessMissed` | Nine views and one crash at any point, with any part of what was sent lost: two rotations of the leader. No message is late; with late ones `Agreement` is false in longer runs (`outage`). |
| `ledger_book` | `TypeOK`, `BookOrdered`, `CopiesAgree`, `TotalsGrowByTransfersOnly` | Three orders, two prices, funds that do not cover all, an unknown market, transfers, cancels: levels of several orders, pruning, refusals. |
| `ledger_trade` | `BookTotals`, `Conserved`, `PriceTimePriority`, `PanicsOnWorthlessTradeOnly`, `UncoveredByPartialFillOnly` | Four orders of one or three lots, two prices, at the lower of which a lot is worth half a quote lot, ample funds: fills over two levels, residuals that are filled again, trades that round to nothing. No transfers. |
| `mempool` | `TypeOK`, `CountersCover`, `NoneStranded`, `EventuallyExecuted` | Two replicas, two transactions for one nonce of which the ledger may refuse one, a follower; blocks of two; one orphaned block. |
| `window` | `IterComplete`, `ImplementsLog` | Views to 3, five messages: gaps, stale pushes, pruning past the end, an iterator at any moment. |
| `merkle` | `InBounds`, `ComputesLevels`, `RootIsReference`, `RootIdentifiesBlock` | All lists of up to five of three hashes, with repetitions, and lists of different hashes of up to twelve: odd levels at every height. |
| `peers` | `HandshakeFailsByCrashOnly`, `DialsEnd`, `ConnectionsAgree`, `DeadSocketsAreDropped` | Two nodes, one crash with restart, one message in flight in each direction besides the handshake. Connections of different pairs share nothing but the listener's loop. |
| `console` | `TypeOK`, `AnswersInStep`, `InboxShare`, `OrderAsTyped`, `RefusesUncoveredOnly`, `EventuallyAnswered`, `PatientDecided`, `LostToRivalOnly` | Two consoles, five habits (the markets, and transfers, both patient; two consoles that drip; drips with queries while others drip elsewhere; impatient), two transactions and one drip each, the lots and ticks of the deployed market. An inbox of two: the replica meets it full with every mixture of messages, and a transaction and a query of one console fit. |

These runs hold. `PanicsOnWorthlessTradeOnly` says precisely how far the ledger is from
never panicking when every account can pay: only a limit order whose first trade is worth
no quote lot panics, because the average price divides by it (`lots_out / lots_in`,
spot_clearinghouse.rs:548-550). The best level may have no live order, or the lots that
are taken round to nothing at its price.

`LostToRivalOnly` and `UncoveredByPartialFillOnly` are of the same kind: they
name the one way in which a transaction is lost (another with its nonce comes first)
and in which an order loses its cover (it trades in part as it comes in, and gets its
whole lock back, spot_clearinghouse.rs:419).

`CommitsUnlessMissed` names the one way in which the crash of a replica stops the others.
If it crashes while its proposal is written, its own vote and those of two others may
certify the block, and the fourth never gets it: no replica sends a block a second time
(replica.rs:424-433), so the fourth votes for nothing on top of it, and the two others are
no quorum. Every replica that lives on goes from view to view and none commits again.
`EventuallyCommits` alone, which the README's "eventual commit" would be, is violated in
the instance of `rounds_crash` by this.

`InboxShare` is what the code guarantees about the inbox: a console has at most one
transaction and one query in it. It guarantees nothing about the others. Peers may fill
the channel (node/peer/handler.rs:54, 61) while the replica is busy, and the timer
(replica.rs:771-774) does not look at it, so the replica may find its own channel full
and wait for itself for good (`Stuck`). The liveness properties of `Console` except it, and
say that nothing else keeps a question unanswered or a transaction undecided.

`ConnectionsAgree` says that without a crash the nodes do not stay with different
connections. It does not say that both of them read the one they share, because that is
false: when node 0's reader of the socket it accepted ends (node 1 has dropped that
socket as a duplicate) and 0's own dialing task registers after it, the socket that both
have registered then has no reader at 0, and 0 hears nothing of 1.

Three runs state what the README of the repository says and find it violated:

| Run | Claim | What TLC finds |
|---|---|---|
| `outage` | README:107 "Enforces safety (no conflicting commits)" | `locked_qc` (replica.rs:500) and `generic_qc` (472) are overwritten by older certificates of late proposals; conflicting blocks are committed, with no faulty replica. |
| `rounds_logs` | README:131 "ensuring consistency across replicas" | A commit applies only its own block (528); a replica that missed the commit of an ancestor never applies it. |
| `peers_reconnect` | README:56 "with built-in reconnection logic" | Two nodes dial each other at once and each registers the connection that the other drops; both are closed, both readers remove their entry, and nobody dials again (runner.rs:122). No node crashes. |

More differences are visible in the definitions and have no run of their own:

- a market buy the account cannot pay for is reported and then subtracted all the
  same (spot_clearinghouse.rs:608-611), where the other branches return: `MarketBuy`
  panics, and `ledger_trade` gives the accounts enough. The console's fund check does
  not prevent it, since it compares lots with units (`Needs`, `Required`);
- a transfer debits `available_balance` only (state.rs:287), so the sum of totals
  grows by its amount; that nothing else changes the sum is
  `TotalsGrowByTransfersOnly`, and `Conserved` is checked without transfers;
- an order that its own account reduced by a market order is later settled for its
  size before that (spot_market.rs:415): `Conserved` is checked with market orders
  from accounts that have no resting orders;
- `update_after_execution` removes nothing from `account_queues` although
  mempool.rs:44 says executed transactions are removed at once, and it files a
  promoted cancel under `Other` (163) although mempool.rs:51 says cancels come first;
- a level may be kept with no live order (spot_market.rs:292-297);
- a reader that ends removes the entry of its peer whichever socket the entry holds
  by then (listener.rs:14-24);
- the end of the stream counts as an answer to Hello (message_protocol.rs:73), so a
  dead socket may be registered;
- a transaction that was refused and is signed again unchanged is dropped, since
  `seen_transactions` is never cleared (node/client/handler.rs:271).

### Fairness

`FairRoundsSpec`: timely messages are delivered, and a timer that may expire does
(weak fairness of `Expire`). The replica's task (`run_replica`, 751-778) selects between
its channel and its timer for ever, and timeouts grow with failed views until they
exceed the delay. `FairSpec` of `Mempool`: gossip reaches every node, committed blocks
are applied, and every replica leads again. Delivering and leading are written as
`[]<>` of the state in which nothing is left to do, which is what weak fairness comes to
there. `FairSpec` of `PeerConnections`: nodes are started, and each task makes the steps
it can (tokio polls every task that is ready), in the same form, since dialing tasks,
listeners and the readers of closed sockets make finitely many steps; crashes and what
the replicas send are free. `FairSpec` of `Console`: the consoles read what arrives,
handlers and the replica make their steps, and `Commit` is strongly fair, since the
leaders come back to a transaction as long as it is in the mempool. A handler's send into
the inbox is strongly fair, since tokio's channel gives room to those that wait in turn.
Users, peers and the timer do as they like.

## What is proved

Every theorem holds for all values of the constants that satisfy the named assumptions
of the module it is about. Most invariants are not inductive; each part says what was
added and why. Where a proof needs induction over data (a loop, a level of a tree, a
list), it is induction on a set of numbers, with the fact for all smaller numbers as
a set (`LeastNumber`, `Induction`), and every recursive function is first shown to exist.

**`HotStuffProofs`**, for every `N >= 2`, every `MaxView` and every set of payloads. It
begins with lemmas on what each action may add to the system:

- `CertificatesBacked`, `NoEquivocation`, `CertificatesAgree`, `ViewsDoNotWrap` and
  `TypeCorrect` follow from `Invariance`, `Spec => []Inv`.
- They are not inductive one by one. `Inv` adds that a proposal comes from the
  leader of its view, that a replica's blocks and votes are not ahead of it, that
  votes in windows and on the network were signed, that every stored block was
  proposed, and that a certificate other replicas know was released by its maker.
- The argument does not use quorum intersection: `quorum_threshold` gives
  intersecting quorums only for some `N`. It is that every view has one writer. Only
  leader(v) makes a block of view v, once, because it then marks the view as
  proposed; only leader(v+1) makes a certificate of view v, and shows it only in its
  proposal or when it leaves the view. So two certificates of one view agree even
  though a late proposal can make a replica vote twice.
- `CertificatesValid`: no block with a badly signed transaction is certified. A vote
  names its block by the hash only, and the block may be gone when the vote is counted.
  So `VotesVerified`, which is added to `Inv`, says of every vote that all blocks with
  its hash are valid, and that the leader of the block's view has proposed, which
  excludes that a block with that hash is yet to come.
- `RoundsImplement` and `RoundsSafe`: the replicas of `HotStuffRounds` are those of
  `HotStuff`, so all of this holds with any number of late messages and crashes. The
  invariant is that a message that is held back is still on the network.

**`MerkleProofs`**, for lists of every length:

- `NeverPanics`, and `LevelsImplemented`, the refinement of `MerkleLevels`, for every
  digest function. The invariant (`InPlaceInvariant`) says that the widths are even and
  within the vector, that the rest of the level from `i` on is still intact, and that
  the first `i / 2` places hold its digests. That is why the repeated hash always has a
  place: half of an even width is below the width.
- `ReturnsRoot`: what the function returns is `Root` of the list. The invariant is that
  `level` is some level of the tree (`AtLevel`), and that the widths lead to one.
- `RootsTellBlocksApart`: two lists with one root are equal, or they differ in length and
  one of them repeats a hash. Its hypothesis `NoCollisions` says that Sha256 does not collide on the hashes of the
  trees of the lists considered. The proof goes down from the tops of the two trees:
  below equal levels lie equal levels, or the wider one ends with a repeated hash, which
  can only come from padding a level that was odd. That trees of different heights have
  different roots is seen along their first hashes.

**`MessageWindowProofs`**, for every set of messages and all bounds: `TypeCorrect`,
`WindowImplementsLog`, the refinement of `MessageLog`, and `IterVisitsAll`, that an
iterator which returns None has returned every stored message once, those of the lowest
view first. The lemmas say what `push` and `prune_before_view` do to the messages of each
view. For the iterator the invariant `IterInv` says that what it has returned, then
`inner`, then the vectors of `outer` are all the messages of the window, and `Fits` ties
the number of vectors to the views in it.

**`MempoolProofs`**, for any replicas, accounts, nonces and fees: `CountersDoNotWrap`,
`NoTransactionStranded` and `TypeCorrect` from `Invariance`. The invariant keeps for each
mempool that the two counters are at least what they count (`Sound`), and that a queued
transaction whose nonce is the expected one has a key in a bucket (`Reached`). Neither
counter is exact, so the loops of `pop_next_n` and `update_after_execution` are
followed turn by turn, each turn giving back no more than it took out.

**`PeersProofs`**, for any number of nodes: `HandshakesSucceed`, no dialing task panics,
no listener stops and no node ends before a node has crashed. The invariant follows
the one socket that n dials to p: until p has answered it is in p's backlog or being
served, and from then on the answer is the first message on its way to n, whatever p's
replica writes behind it. After a crash a handshake may fail, and the theorem says
nothing.

**`ConsoleProofs`**, for any number of consoles with any habits:

- `InboxShared`, `InStep` and `TypeCorrect` from `Invariance`. The invariant says
  where the one question of a console is: on its connection, with its handler, in the
  inbox or on its way back. Hence a console and its handler have at most two messages in
  the inbox, whatever the peers, the timer and the replica put there.
- `StuckByOthers`: when the replica waits for itself, all places of the channel but two
  for each console hold messages of peers or its own.
- `OrdersAsTyped`: an order is what was typed, less what is not a whole lot, in every
  market.
- `OnlyUncoveredRefused`: the console refuses nothing the ledger would take, but for
  orders worth less than a quote lot. Its hypothesis is that a base lot at one tick is
  worth two quote units or more (ten in the deployed market): with less, rounding may
  make the amount the console compares the larger one.

**`LedgerBookProofs`** and **`LedgerProofs`**, for all accounts, prices, sizes, lot
sizes, transfers and initial funds, with accounts that hold at most one entry of an
asset: `TypeCorrect`, `Ordered` (`BookOrdered`), `Priority` (`PriceTimePriority`) and
`LiveIsOpen` (an order that can be matched stands on its side and is an open order of its
account, with the same fills; an open order is completed for no account), from
`Invariance`.

- The invariant `IInv` says that an account has one entry for an asset, with no negative
  amount; that each side is sorted, that the sides do not cross, that ids grow along a
  level and are below the next id (a new order goes last, and the searches find it), and
  that the counters of a level are not negative; that an order is open at most once and
  not also completed; and that a live order of the book and its open copy are one. The
  order of the book needs the ids, and the copies need that no id is given out twice.
- `LedgerBookProofs` is about one side of the book, whatever holds it. The loops are
  followed turn by turn. An execution leaves a prefix of the levels, whose last may have
  lost its first orders: this gives the order of the book and priority. If a limit order
  is left with an unfilled part, no level it crosses is left: this is why the sides do
  not cross when the rest of it is inserted.

Only model-checked:

- `Agreement`. It does not follow from `Inv`: the run `outage` shows that the replicas of
  `HotStuff` may disagree, so that a proof would rest on how many messages are late and on
  `N`, as the instance of `rounds_crash` does.
- `BookTotals`, `Conserved`, `TotalsGrowByTransfersOnly`, `PanicsOnWorthlessTradeOnly`,
  `UncoveredByPartialFillOnly`, and the part of `CopiesAgree` that `LiveIsOpen` does not
  state (that an open order the book has lost was never filled). They are about sums over
  sets of orders and accounts, which the prover has no facts about, or follow from one: a
  level is removed when its volume is zero. Some hold only as long as the accounts with
  market orders have no resting orders, as in the instances: a cancel subtracts what was
  not filled and does not count the part that met an order of the same account.
- All liveness: fairness and `ENABLED` are out of reach of the prover.

## Not modelled

- The clock values of the pacemaker: only when a timer may expire matters here.
- The width of integers in the ledger. Balances are u128 and funds of the model are
  small; the faucet, which owns `u128::MAX` and overflows when it is paid, is outside.
- Prices and sizes of zero: the console refuses them (`Entered`), the ledger would
  divide by them.
- Back-pressure of the outbound channel and of TCP.
- The error of f64 when the console multiplies a typed number: the product is exact, and
  numbers half way between two units are left out.
- Hash functions, signatures, the encoding of messages: a hash is what it is made from,
  a signature its signer, a message arrives whole.
- What the screens show, and input that ends the console, such as a malformed key.
- Configuration, logging, helpers of the tests.
