------------------------------ MODULE Mempool ------------------------------
(***************************************************************************)
(* The mempools of the replicas (src/src/hotstuff/mempool.rs) between the  *)
(* transactions that the nodes gossip and the blocks that are executed.    *)
(*                                                                         *)
(* Consensus is abstract here: a proposed block is appended to a common    *)
(* log or, up to MaxOrphans times, never committed; each replica applies   *)
(* the log at its own pace.  Of a transaction only the sender, the nonce   *)
(* and the kind matter, and whether the ledger refuses it (an error leaves *)
(* the nonce as it is).  Nothing is ever put into the Liquidation bucket,  *)
(* so it is left out.                                                      *)
(***************************************************************************)
EXTENDS Integers, Sequences, FiniteSets, Functions

CONSTANTS
    Replicas,
    Txs,                        \* transactions that are submitted: [from, nonce, kind]
    Verdicts,                   \* the sets of them that the ledger may answer with an error
    BLOCK_TRANSACTION_LENGTH,
    MaxOrphans                  \* bound on the blocks that are not committed

Kinds == {"Cancel", "Other"}

ASSUME TxsAssumption ==
    /\ \A t \in Txs : t.nonce \in Nat /\ t.kind \in Kinds
    /\ Verdicts \subseteq SUBSET Txs /\ Verdicts # {}
    /\ BLOCK_TRANSACTION_LENGTH \in Nat \ {0} /\ MaxOrphans \in Nat

VARIABLES
    mempool,            \* replica -> PriorityMempool
    expected_nonce,     \* replica -> account -> Nonce, of its ledger
    seen,               \* replica -> seen_transactions of its node
    log,                \* committed blocks
    applied,            \* replica -> how many of them it has applied
    orphans,            \* how many blocks were not committed
    refused             \* the transactions that the ledger answers with an error

vars == <<mempool, expected_nonce, seen, log, applied, orphans, refused>>

Accounts == {t.from : t \in Txs}
Key(t) == <<t.from, t.nonce>>

\* account_queues is the set of its transactions, one for each account and nonce.
new == [length |-> 0, ready |-> 0, queues |-> {}, buckets |-> [kind \in Kinds |-> << >>]]

Init ==
    /\ mempool = [r \in Replicas |-> new]
    /\ expected_nonce = [r \in Replicas |-> [a \in Accounts |-> 0]]
    /\ seen = [r \in Replicas |-> {}]
    /\ log = << >>
    /\ applied = [r \in Replicas |-> 0]
    /\ orphans = 0
    /\ refused \in Verdicts

-----------------------------------------------------------------------------
(* PriorityMempool                                                         *)

Queued(m, key) == {t \in m.queues : Key(t) = key}

\* Mutant: a transaction does not replace the one with its nonce.
insert_beside(m, t, expected) ==
    IF t.nonce < expected THEN m
    ELSE [length  |-> m.length + 1,
          ready   |-> m.ready + (IF t.nonce = expected THEN 1 ELSE 0),
          queues  |-> m.queues \cup {t},
          buckets |-> IF t.nonce = expected
                      THEN [m.buckets EXCEPT ![t.kind] = Append(@, Key(t))] ELSE m.buckets]

\* Mutant: a transaction is ready only in a queue that was empty.
ready_if_first(m, t, expected) ==
    IF t.nonce < expected THEN m
    ELSE LET ready == t.nonce = expected /\ \A u \in m.queues : u.from # t.from
         IN [length  |-> m.length + 1,
             ready   |-> m.ready + (IF ready THEN 1 ELSE 0),
             queues  |-> (m.queues \ Queued(m, Key(t))) \cup {t},
             buckets |-> IF ready THEN [m.buckets EXCEPT ![t.kind] = Append(@, Key(t))]
                         ELSE m.buckets]

\* Mutant: a transaction that replaces another is not counted as ready.
count_new_keys(m, t, expected) ==
    IF t.nonce < expected THEN m
    ELSE [length  |-> m.length + 1,
          ready   |-> m.ready + (IF t.nonce = expected /\ Queued(m, Key(t)) = {} THEN 1 ELSE 0),
          queues  |-> (m.queues \ Queued(m, Key(t))) \cup {t},
          buckets |-> IF t.nonce = expected
                      THEN [m.buckets EXCEPT ![t.kind] = Append(@, Key(t))] ELSE m.buckets]

\* Mutant: a transaction whose turn has not come is dropped.
insert_expected(m, t, expected) ==
    IF t.nonce # expected THEN m
    ELSE [length  |-> m.length + 1,
          ready   |-> m.ready + 1,
          queues  |-> (m.queues \ Queued(m, Key(t))) \cup {t},
          buckets |-> [m.buckets EXCEPT ![t.kind] = Append(@, Key(t))]]

insert(m, t, expected) ==
    IF t.nonce < expected THEN m
    ELSE [length  |-> m.length + 1,
          ready   |-> m.ready + (IF t.nonce = expected THEN 1 ELSE 0),
          queues  |-> (m.queues \ Queued(m, Key(t))) \cup {t},
          buckets |-> IF t.nonce = expected
                      THEN [m.buckets EXCEPT ![t.kind] = Append(@, Key(t))] ELSE m.buckets]

\* How many keys pop_next_n drains from each bucket.
Takes(m, n) ==
    LET cancels == Len(m.buckets["Cancel"])
        others  == Len(m.buckets["Other"])
        fromCancel == IF cancels < n THEN cancels ELSE n
        fromOther  == IF others < n - fromCancel THEN others ELSE n - fromCancel
    IN [kind \in Kinds |-> IF kind = "Cancel" THEN (IF m.ready < n THEN cancels ELSE fromCancel)
                           ELSE (IF m.ready < n THEN others ELSE fromOther)]

\* A key whose transaction is gone is drained and not counted.
remove(acc, key) ==
    IF Queued(acc.m, key) = {} THEN acc
    ELSE [block |-> Append(acc.block, CHOOSE t \in Queued(acc.m, key) : TRUE),
          m     |-> [length |-> acc.m.length - 1, ready |-> acc.m.ready - 1,
                     queues |-> acc.m.queues \ Queued(acc.m, key), buckets |-> acc.m.buckets]]

\* The loop over the drained keys: what it has after each of them.
Removing(m, keys) ==
    LET after[i \in 0 .. Len(keys)] ==
          IF i = 0 THEN [block |-> << >>, m |-> m] ELSE remove(after[i - 1], keys[i])
    IN after

Drained(m, takes) ==
    [length |-> m.length, ready |-> m.ready, queues |-> m.queues,
     buckets |-> [kind \in Kinds |->
                    SubSeq(m.buckets[kind], takes[kind] + 1, Len(m.buckets[kind]))]]

DrainedKeys(m, takes) ==
    SubSeq(m.buckets["Cancel"], 1, takes["Cancel"]) \o SubSeq(m.buckets["Other"], 1, takes["Other"])

\* The block and the mempool that is left.
pop_next_n(m, n) ==
    LET takes == Takes(m, n)
        keys  == DrainedKeys(m, takes)
    IN Removing(Drained(m, takes), keys)[Len(keys)]

make_ready(m, key) ==
    IF Queued(m, key) = {} THEN m
    ELSE [length |-> m.length, ready |-> m.ready + 1, queues |-> m.queues,
          buckets |-> [m.buckets EXCEPT !["Other"] = Append(@, key)]]

\* The loop over account_nonces, and what it has after each of them.
MakingReady(m, account_nonces) ==
    LET after[i \in 0 .. Len(account_nonces)] ==
          IF i = 0 THEN m ELSE make_ready(after[i - 1], account_nonces[i])
    IN after

\* The transactions that the execution made ready, all of them as Other.
update_after_execution(m, account_nonces) ==
    MakingReady(m, account_nonces)[Len(account_nonces)]

execute(acc, t) ==
    IF t \in refused \/ t.nonce # acc.expected[t.from] THEN acc
    ELSE [expected |-> [acc.expected EXCEPT ![t.from] = @ + 1],
          account_nonces |-> Append(acc.account_nonces, <<t.from, t.nonce + 1>>)]

\* The loop over the transactions of the block.
Executing(expected, block) ==
    LET after[i \in 0 .. Len(block)] ==
          IF i = 0 THEN [expected |-> expected, account_nonces |-> << >>]
          ELSE execute(after[i - 1], block[i])
    IN after

\* apply_block as the mempool sees it: the new nonces, and which accounts have
\* reached which next nonce.
apply_block(expected, block) == Executing(expected, block)[Len(block)]

-----------------------------------------------------------------------------
(* Actions                                                                 *)

\* A transaction reaches a node from a client or a peer for the first time, and is
\* handed to the replica.
Sees(r, t) ==
    /\ t \notin seen[r]
    /\ seen' = [seen EXCEPT ![r] = @ \cup {t}]

handle_transaction(r, t) ==
    /\ Sees(r, t)
    /\ mempool' = [mempool EXCEPT ![r] = insert(@, t, expected_nonce[r][t.from])]
    /\ UNCHANGED <<expected_nonce, log, applied, orphans, refused>>

\* The keys in the buckets.
Keys(m) == UNION {Range(m.buckets[kind]) : kind \in Kinds}

\* A leader fills its block.  Empty blocks change nothing here.
Propose(r, committed) ==
    /\ Keys(mempool[r]) # {}
    /\ committed \/ orphans < MaxOrphans
    /\ LET p == pop_next_n(mempool[r], BLOCK_TRANSACTION_LENGTH)
       IN /\ mempool' = [mempool EXCEPT ![r] = p.m]
          /\ log' = IF committed /\ p.block # << >> THEN Append(log, p.block) ELSE log
    /\ orphans' = IF committed THEN orphans ELSE orphans + 1
    /\ UNCHANGED <<expected_nonce, seen, applied, refused>>

\* A replica applies the next committed block.
Applies(r) ==
    /\ applied[r] < Len(log)
    /\ applied' = [applied EXCEPT ![r] = @ + 1]

Commit(r) ==
    /\ Applies(r)
    /\ LET x == apply_block(expected_nonce[r], log[applied[r] + 1])
       IN /\ expected_nonce' = [expected_nonce EXCEPT ![r] = x.expected]
          /\ mempool' = [mempool EXCEPT ![r] = update_after_execution(@, x.account_nonces)]
    /\ UNCHANGED <<seen, log, orphans, refused>>

Next ==
    \E r \in Replicas :
        \/ \E t \in Txs : handle_transaction(r, t)
        \/ \E committed \in BOOLEAN : Propose(r, committed)
        \/ Commit(r)

Spec == Init /\ [][Next]_vars

\* Gossip reaches every node and committed blocks are applied: handle_transaction and
\* Commit are weakly fair, stated for the part of them that holds their guard.  Every
\* replica's turn to lead comes again and again (get_leader_for_view rotates), so it
\* drains its buckets: weak fairness of Propose without computing ENABLED.
FairSpec ==
    /\ Spec
    /\ \A r \in Replicas :
         /\ WF_seen(\E t \in Txs : Sees(r, t))
         /\ WF_applied(Applies(r))
         /\ []<>(Keys(mempool[r]) = {})

-----------------------------------------------------------------------------
(* Properties                                                              *)

TypeOK ==
    /\ \A r \in Replicas :
         /\ mempool[r].queues \subseteq Txs
         /\ \A t, u \in mempool[r].queues : Key(t) = Key(u) => t = u
         /\ Keys(mempool[r]) \subseteq {Key(t) : t \in Txs}
         /\ seen[r] \subseteq Txs /\ applied[r] \in 0 .. Len(log)
         /\ expected_nonce[r] \in [Accounts -> Nat]
    /\ \A i \in DOMAIN log : Range(log[i]) \subseteq Txs
    /\ orphans \in 0 .. MaxOrphans

\* The unsigned counters never wrap, although replaced transactions and keys
\* without a transaction make them drift: length is at least the number of queued
\* transactions and ready_transactions_length at least the number of keys in the
\* buckets, so pop_next_n takes off no more than is there.
CountersCover ==
    \A r \in Replicas :
        /\ mempool[r].length >= Cardinality(mempool[r].queues)
        /\ mempool[r].ready >= Len(mempool[r].buckets["Cancel"]) + Len(mempool[r].buckets["Other"])

\* No transaction is stranded: one whose turn has come according to the replica's
\* ledger is in a bucket, whatever the order in which transactions arrive and
\* blocks of other leaders are executed.
NoneStranded ==
    \A r \in Replicas : \A t \in mempool[r].queues :
        t.nonce = expected_nonce[r][t.from] => Key(t) \in Keys(mempool[r])

\* An account's transactions have no gap in their nonces and none is refused.
Executable(a) ==
    LET mine == {t \in Txs : t.from = a}
    IN mine \cap refused = {} /\ {t.nonce : t \in mine} = 0 .. Cardinality({t.nonce : t \in mine}) - 1

\* One of the transactions for each nonce of such an account is executed by every
\* replica, in whatever order they arrive, replace each other and are proposed, and
\* although a block with some of them is never committed: other mempools have them.
EventuallyExecuted ==
    <>(\A r \in Replicas, a \in Accounts :
          Executable(a) => \A t \in Txs : t.from = a => t.nonce < expected_nonce[r][a])

=============================================================================
