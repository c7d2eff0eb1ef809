------------------------------ MODULE HotStuff ------------------------------
(***************************************************************************)
(* The consensus replica of src/src/hotstuff/: replica.rs with the block,  *)
(* certificate, message, vote-counting and pacemaker code that it calls.   *)
(*                                                                         *)
(* A replica is one tokio task.  It takes one message at a time from its   *)
(* channel (HandleMessage, split below by the branch the handler takes) or *)
(* its view timer expires (Timeout).  Time itself is not modelled: a timer *)
(* may expire at any moment.  The network keeps every message that was     *)
(* sent and not yet received in `net`.  It delivers each at most once, in  *)
(* any order, and may never deliver it: peers are written to by spawned    *)
(* tasks whose errors are dropped.  Replicas follow the code; a crashed    *)
(* replica is one that takes no more steps.                                *)
(***************************************************************************)
EXTENDS Integers, Sequences, FiniteSets

CONSTANTS
    N,          \* number of validators (NUM_VALIDATORS)
    MaxView,    \* bound on the views that timers may start
    Payloads    \* which payloads clients submit: TRUE valid, FALSE badly signed

ASSUME NAssumption == N \in Nat /\ N >= 2
ASSUME MaxViewAssumption == MaxView \in Nat
ASSUME PayloadsAssumption == Payloads \subseteq BOOLEAN /\ Payloads # {}

Replicas == 0 .. (N - 1)
View == Nat

VARIABLES
    replica,    \* the state of each HotStuffReplica
    net,        \* messages sent and not yet received, with their addressee
    votes       \* history: every vote ever signed

vars == <<replica, net, votes>>

-----------------------------------------------------------------------------
(* Blocks and certificates                                                 *)

\* A block hash covers the parent's hash and the view number (and the Merkle
\* root of the payload, which is not modelled).  Hashes do not collide, so a
\* hash is the list of the views of the blocks from genesis: << >> is genesis.
GenesisHash == << >>
BlockHash == Seq(View)

\* QuorumCertificate: the view and block voted for, and who signed.
QC == [view_number : View, block_hash : BlockHash, partial_sigs : SUBSET Replicas]
GenesisQC == [view_number |-> 0, block_hash |-> GenesisHash, partial_sigs |-> {}]

\* Block: the view and the parent are part of the hash.  Of the transactions only
\* one fact matters here: whether each of them passes verify_sender.
Block == [hash : BlockHash, justify : QC, txs_valid : BOOLEAN]
GenesisBlock == [hash |-> GenesisHash, justify |-> GenesisQC, txs_valid |-> TRUE]
ParentHash(h) == SubSeq(h, 1, Len(h) - 1)
ViewOf(h) == IF h = GenesisHash THEN 0 ELSE h[Len(h)]

\* Mutant: every replica must vote.
quorum_of_all == N

quorum_threshold == 2 * ((N - 1) \div 3) + 1

\* Every signature in a certificate was checked against the signer's vote when
\* the certificate was built, so counting the signers is what is left to do.
verify(qc) ==
    \/ qc.view_number = 0 /\ qc.block_hash = GenesisHash
    \/ Cardinality(qc.partial_sigs) >= quorum_threshold

create_leaf(parent, txs_valid, view, justify) ==
    [hash |-> Append(parent.hash, view), justify |-> justify, txs_valid |-> txs_valid]

-----------------------------------------------------------------------------
(* Messages                                                                *)

Message ==
    [type : {"Proposal"}, view : View, sender : Replicas, node : Block]
      \cup [type : {"Vote"}, view : View, sender : Replicas, node : BlockHash]
      \cup [type : {"NewView"}, view : View, sender : Replicas, justify : QC]

Packet == [to : Replicas, msg : Message]
PacketTo(r, m) == [to |-> r, msg |-> m]

get_leader_for_view(v) == v % N

-----------------------------------------------------------------------------
(* Replica state                                                           *)

\* What a MessageWindow keeps of a message.  Proposals are pushed too but
\* nothing reads them back, so they are left out.  The order of the messages of
\* a view matters in one place only: the tally of try_create_qc_for_view counts
\* the first vote of each signer.  `first` marks those.
Entry ==
    [type : {"Vote"}, view : View, sender : Replicas, node : BlockHash, first : BOOLEAN]
      \cup [type : {"NewView"}, view : View, sender : Replicas, justify : QC]

\* pacemaker.last_commited_view always equals locked_qc.view_number: both start
\* at genesis and replica_handle_proposal sets them together.
ReplicaState ==
    [node_id : Replicas,
     curr_view : View,
     generic_qc : QC,
     locked_qc : QC,
     blockstore : SUBSET Block,
     messages : SUBSET Entry,
     lowest_view : View,
     leader_has_proposed : BOOLEAN,
     replica_has_voted : BOOLEAN,
     applied : Seq(BlockHash)]      \* the blocks given to ledger_state.apply_block

new(r) ==
    [node_id |-> r,
     curr_view |-> 0,
     generic_qc |-> GenesisQC,
     locked_qc |-> GenesisQC,
     blockstore |-> {GenesisBlock},
     messages |-> {},
     lowest_view |-> 0,
     leader_has_proposed |-> FALSE,
     replica_has_voted |-> FALSE,
     applied |-> << >>]

Init ==
    /\ replica = [r \in Replicas |-> new(r)]
    /\ net = {}
    /\ votes = {}

-----------------------------------------------------------------------------
(* Methods of a replica.  Each takes the replica's state s and returns the  *)
(* state the method leaves.                                                *)

prune_before_view(s, v) ==
    IF v < s.lowest_view THEN s
    ELSE [s EXCEPT !.messages = {e \in s.messages : e.view >= v},
                   !.lowest_view = v]

VotesIn(s, v) == {e \in s.messages : e.type = "Vote" /\ e.view = v}
NewViewsIn(s, v) == {e \in s.messages : e.type = "NewView" /\ e.view = v}

push(s, m) ==
    IF m.type = "Proposal" \/ m.view < s.lowest_view THEN s
    ELSE LET entry == IF m.type = "NewView" THEN m
                      ELSE [type |-> "Vote", view |-> m.view, sender |-> m.sender,
                            node |-> m.node,
                            first |-> \A e \in VotesIn(s, m.view) : e.sender # m.sender]
         IN [s EXCEPT !.messages = s.messages \cup {entry}]

has_quorum_votes_for_view(s, v) == Cardinality(VotesIn(s, v)) >= quorum_threshold

has_quorum_for_new_view(s, v) == Cardinality(NewViewsIn(s, v)) >= quorum_threshold

\* The certificates of highest view among the NewView messages of the window.
get_highest_qc_from_votes(s) ==
    LET qcs == {e.justify : e \in {x \in s.messages : x.type = "NewView"}}
    IN {q \in qcs : \A x \in qcs : x.view_number <= q.view_number}

SignersOf(s, v, h) ==
    {e.sender : e \in {x \in VotesIn(s, v) : x.first /\ x.node = h}}

\* Mutants: the certificate names the view after the one that was voted in, or
\* the lowest view of the window.
certify_next_view(s, v) ==
    {[view_number |-> v + 1, block_hash |-> h, partial_sigs |-> SignersOf(s, v, h)] :
        h \in {x \in {e.node : e \in VotesIn(s, v)} :
                 Cardinality(SignersOf(s, v, x)) >= quorum_threshold}}
certify_lowest_view(s, v) ==
    {[view_number |-> s.lowest_view, block_hash |-> h, partial_sigs |-> SignersOf(s, v, h)] :
        h \in {x \in {e.node : e \in VotesIn(s, v)} :
                 Cardinality(SignersOf(s, v, x)) >= quorum_threshold}}

\* None or one certificate, as a set.
try_create_qc_for_view(s, v) ==
    {[view_number |-> v, block_hash |-> h, partial_sigs |-> SignersOf(s, v, h)] :
        h \in {x \in {e.node : e \in VotesIn(s, v)} :
                 Cardinality(SignersOf(s, v, x)) >= quorum_threshold}}

BlocksWithHash(s, h) == {b \in s.blockstore : b.hash = h}

insert_block(s, b) ==
    [s EXCEPT !.blockstore = (s.blockstore \ BlocksWithHash(s, b.hash)) \cup {b}]

\* The block a block's certificate is for: none for genesis or if it is missing.
get_justified_block(s, b) ==
    IF b.hash = GenesisHash THEN {} ELSE BlocksWithHash(s, b.justify.block_hash)

is_parent(child, parent) ==
    child.hash # GenesisHash /\ ParentHash(child.hash) = parent.hash

\* Looks at most three parents up, and stops at a block it does not have.
extends_from(s, b, locked_hash) ==
    \E k \in 1 .. 3 :
        /\ k <= Len(b.hash)
        /\ SubSeq(b.hash, 1, Len(b.hash) - k) = locked_hash
        /\ \A j \in 1 .. (k - 1) :
              BlocksWithHash(s, SubSeq(b.hash, 1, Len(b.hash) - j)) # {}

safe_node(s, b) ==
    \/ extends_from(s, b, s.locked_qc.block_hash)
    \/ b.justify.view_number > s.locked_qc.view_number

vote_message(s, b) ==
    [type |-> "Vote", view |-> s.curr_view, sender |-> s.node_id, node |-> b.hash]

\* Mutant: the view is decremented twice.
new_view_off_by_one(s) ==
    [type |-> "NewView", view |-> s.curr_view - 2, sender |-> s.node_id,
     justify |-> s.generic_qc]

create_new_view(s) ==
    [type |-> "NewView", view |-> s.curr_view - 1, sender |-> s.node_id,
     justify |-> s.generic_qc]

\* The only block of a set.
TheBlock(bs) == CHOOSE b \in bs : TRUE

\* Mutant: transactions are not validated.
accepts_any_payload(s, b_star) ==
    /\ get_justified_block(s, b_star) # {}
    /\ safe_node(s, b_star)
    /\ verify(b_star.justify)

\* The conditions under which a proposal is voted for.
accepts(s, b_star) ==
    /\ get_justified_block(s, b_star) # {}
    /\ safe_node(s, b_star)
    /\ verify(b_star.justify)
    /\ b_star.txs_valid

\* Mutant: the ledger is given a block as soon as it is certified.
commits_certified_block(s, b_star) ==
    {b \in get_justified_block(s, b_star) : is_parent(b_star, b)}

\* The block that b* commits, if any: b at the end of the three-chain
\* b* -> b'' -> b' -> b of certificates, each of which is for the parent.
CommittedBlock(s, b_star) ==
    {b \in s.blockstore :
        \E b2 \in get_justified_block(s, b_star) :
        \E b1 \in get_justified_block(s, b2) :
            /\ b \in get_justified_block(s, b1)
            /\ is_parent(b_star, b2) /\ is_parent(b2, b1) /\ is_parent(b1, b)}

\* Accepts a proposal of the current leader: stores b*, votes for it if it is
\* safe and certified, and then moves generic_qc, locked_qc and the ledger along
\* the chain of certificates as far as its blocks are present.  Only b itself
\* is applied, not the blocks below it.  `vote` tells if a vote is returned.
replica_handle_proposal(s0, b_star, sender) ==
    LET s   == insert_block(s0, b_star)
        bs2 == {b \in get_justified_block(s, b_star) : is_parent(b_star, b)}  \* b''
        b2  == TheBlock(bs2)
        bs1 == {b \in get_justified_block(s, b2) : is_parent(b2, b)}          \* b'
        s1  == IF bs2 # {}
               THEN prune_before_view([s EXCEPT !.generic_qc = b_star.justify],
                                      b_star.justify.view_number)
               ELSE s
        s2  == IF bs2 # {} /\ bs1 # {} THEN [s1 EXCEPT !.locked_qc = b2.justify] ELSE s1
        s3  == IF CommittedBlock(s, b_star) = {} THEN s2
               ELSE [s2 EXCEPT !.applied =
                       Append(s2.applied, TheBlock(CommittedBlock(s, b_star)).hash)]
    IN IF sender # get_leader_for_view(s0.curr_view)
       THEN [self |-> s0, vote |-> FALSE]
       ELSE IF accepts(s, b_star) THEN [self |-> s3, vote |-> TRUE]
       ELSE [self |-> s, vote |-> FALSE]

\* The next leader moves to its view as soon as it has voted and holds a quorum
\* of votes.  view_progress is not reset on this path.
OptimisticAdvance(s) ==
    /\ s.node_id = get_leader_for_view(s.curr_view + 1)
    /\ s.replica_has_voted
    /\ has_quorum_votes_for_view(s, s.curr_view)

\* Entering the view of a message from a later view.
sync_view(s, m) ==
    IF m.view <= s.curr_view THEN s
    ELSE [s EXCEPT !.curr_view = m.view,
                   !.leader_has_proposed = FALSE,
                   !.replica_has_voted = FALSE]

-----------------------------------------------------------------------------
(* Actions.  HandleMessage is one step: the handler runs to its end before  *)
(* the task takes the next message.  Its first part is common to all       *)
(* branches: sync_view, the leader's NewView to itself, and push.          *)

Received(p) == push(sync_view(replica[p.to], p.msg), p.msg)

NewViewToSelf(p) ==
    LET s == sync_view(replica[p.to], p.msg)
    IN IF s.curr_view > replica[p.to].curr_view
          /\ get_leader_for_view(s.curr_view) = p.to
       THEN {PacketTo(p.to, create_new_view(s))} ELSE {}

\* Mutant: a leader that has proposed goes on as a leader.
leader_at_every_message(p) == get_leader_for_view(Received(p).curr_view) = p.to

LeaderTurn(p) ==
    /\ get_leader_for_view(Received(p).curr_view) = p.to
    /\ ~Received(p).leader_has_proposed

\* What every branch does to the system: the replica becomes s, the message is
\* consumed, `sent` is handed to the network and `cast` is signed.
Finish(p, s, sent, cast) ==
    /\ replica' = [replica EXCEPT ![p.to] = s]
    /\ net' = (net \ {p}) \cup NewViewToSelf(p) \cup sent
    /\ votes' = votes \cup cast

\* leader_handle_message, a quorum of NewView messages: the certificates the
\* leader may end up with (more than one only if several are highest).
LeaderQCs(s) ==
    LET highest == get_highest_qc_from_votes(s)
        better  == {q \in highest : q.view_number > s.generic_qc.view_number}
    IN IF s.generic_qc.view_number # s.curr_view - 1 /\ better # {}
       THEN better ELSE {s.generic_qc}

WithLeaderQC(s, q) ==
    IF q = s.generic_qc THEN s
    ELSE prune_before_view([s EXCEPT !.generic_qc = q], q.view_number)

\* ... proposes a block on the block of its certificate, broadcasts it, handles
\* it as a replica and sends its vote to the next leader.
LeaderPropose(p) ==
    /\ LeaderTurn(p)
    /\ has_quorum_for_new_view(Received(p), Received(p).curr_view - 1)
    /\ \E q \in LeaderQCs(Received(p)), valid \in Payloads :
         LET s1      == WithLeaderQC(Received(p), q)
             parents == BlocksWithHash(s1, q.block_hash)
             block   == create_leaf(TheBlock(parents), valid, s1.curr_view, q)
             s2      == [insert_block(s1, block) EXCEPT !.leader_has_proposed = TRUE]
             res     == replica_handle_proposal(s2, block, p.to)
             s3      == IF res.vote THEN [res.self EXCEPT !.replica_has_voted = TRUE]
                        ELSE res.self
             prop    == [type |-> "Proposal", view |-> s1.curr_view,
                         sender |-> p.to, node |-> block]
             vote    == vote_message(s2, block)
         IN /\ parents # {}
            /\ Finish(p, s3,
                      {PacketTo(r, prop) : r \in Replicas \ {p.to}}
                        \cup (IF res.vote
                              THEN {PacketTo(get_leader_for_view(s2.curr_view + 1), vote)}
                              ELSE {}),
                      IF res.vote THEN {vote} ELSE {})

\* ... has never seen the block of its certificate: keeps the certificate only.
LeaderMissesParent(p) ==
    /\ LeaderTurn(p)
    /\ has_quorum_for_new_view(Received(p), Received(p).curr_view - 1)
    /\ \E q \in LeaderQCs(Received(p)) :
         /\ BlocksWithHash(Received(p), q.block_hash) = {}
         /\ Finish(p, WithLeaderQC(Received(p), q), {}, {})

\* leader_handle_message without a quorum of NewViews: certifies the previous
\* view's block if it can.  It does not propose.
LeaderCollect(p) ==
    /\ LeaderTurn(p)
    /\ LET s   == Received(p)
           qcs == IF has_quorum_votes_for_view(s, s.curr_view - 1)
                  THEN try_create_qc_for_view(s, s.curr_view - 1) ELSE {}
       IN /\ ~has_quorum_for_new_view(s, s.curr_view - 1)
          /\ \/ qcs = {} /\ Finish(p, s, {}, {})
             \/ \E q \in qcs :
                  Finish(p, prune_before_view([s EXCEPT !.generic_qc = q], q.view_number),
                         {}, {})

\* replica_handle_message on a NewView: pushed to the window, nothing else.
ReplicaNewView(p) ==
    /\ ~LeaderTurn(p)
    /\ p.msg.type = "NewView"
    /\ Finish(p, Received(p), {}, {})

ReplicaProposal(p) ==
    /\ ~LeaderTurn(p)
    /\ p.msg.type = "Proposal"
    /\ LET s    == Received(p)
           res  == replica_handle_proposal(s, p.msg.node, p.msg.sender)
           vote == vote_message(s, p.msg.node)
       IN IF res.vote
          THEN Finish(p, [res.self EXCEPT !.replica_has_voted = TRUE],
                      {PacketTo(get_leader_for_view(s.curr_view + 1), vote)}, {vote})
          ELSE Finish(p, res.self, {}, {})

ReplicaVote(p) ==
    /\ ~LeaderTurn(p)
    /\ p.msg.type = "Vote"
    /\ LET s  == Received(p)
           s1 == [s EXCEPT !.curr_view = s.curr_view + 1, !.replica_has_voted = TRUE]
       IN IF OptimisticAdvance(s)
          THEN Finish(p, s1, {PacketTo(p.to, create_new_view(s1))}, {})
          ELSE Finish(p, s, {}, {})

HandleMessage(p) ==
    \/ LeaderPropose(p)
    \/ LeaderMissesParent(p)
    \/ LeaderCollect(p)
    \/ ReplicaNewView(p)
    \/ ReplicaProposal(p)
    \/ ReplicaVote(p)

\* Mutant: the NewView message goes to the leader of the view that was left.
timeout_to_old_leader(r) ==
    /\ replica[r].curr_view < MaxView
    /\ LET s == [replica[r] EXCEPT !.curr_view = replica[r].curr_view + 1,
                                   !.leader_has_proposed = FALSE,
                                   !.replica_has_voted = FALSE]
       IN /\ replica' = [replica EXCEPT ![r] = s]
          /\ net' = net \cup {PacketTo(get_leader_for_view(s.curr_view - 1), create_new_view(s))}
    /\ UNCHANGED votes

\* The timer of the current view expires: next view, and a NewView message to
\* its leader (advance_view, send_new_view_to_leader).
Timeout(r) ==
    /\ replica[r].curr_view < MaxView
    /\ LET s == [replica[r] EXCEPT !.curr_view = replica[r].curr_view + 1,
                                   !.leader_has_proposed = FALSE,
                                   !.replica_has_voted = FALSE]
       IN /\ replica' = [replica EXCEPT ![r] = s]
          /\ net' = net \cup {PacketTo(get_leader_for_view(s.curr_view), create_new_view(s))}
    /\ UNCHANGED votes

Next ==
    \/ \E p \in net : HandleMessage(p)
    \/ \E r \in Replicas : Timeout(r)

Spec == Init /\ [][Next]_vars

-----------------------------------------------------------------------------
(* Properties                                                              *)

TypeOK ==
    /\ replica \in [Replicas -> ReplicaState]
    /\ \A r \in Replicas : replica[r].node_id = r
    /\ net \subseteq Packet
    /\ votes \subseteq [type : {"Vote"}, view : View, sender : Replicas, node : BlockHash]

\* Every certificate a replica holds, keeps in a block or a message, or has sent.
QCsOf(s) ==
    {s.generic_qc, s.locked_qc}
      \cup {b.justify : b \in s.blockstore}
      \cup {e.justify : e \in {x \in s.messages : x.type = "NewView"}}
QCsSent ==
    {p.msg.justify : p \in {x \in net : x.msg.type = "NewView"}}
      \cup {p.msg.node.justify : p \in {x \in net : x.msg.type = "Proposal"}}
AllQCs == QCsSent \cup UNION {QCsOf(replica[r]) : r \in Replicas}

\* Every block that some replica stored or that is on its way.
AllBlocks ==
    {p.msg.node : p \in {x \in net : x.msg.type = "Proposal"}}
      \cup UNION {replica[r].blockstore : r \in Replicas}

\* A certificate is never invented: it is the genesis certificate or each of a
\* quorum of replicas signed a vote for that block in that view
\* (try_create_qc_for_view is the only place that makes one, and every later
\* copy of it keeps view, block and signatures together).
QCBacked ==
    \A q \in AllQCs :
        \/ q = GenesisQC
        \/ /\ Cardinality(q.partial_sigs) >= quorum_threshold
           /\ \A r \in q.partial_sigs :
                [type |-> "Vote", view |-> q.view_number, sender |-> r,
                 node |-> q.block_hash] \in votes

\* A leader proposes at most one block in a view, whatever the order in which
\* NewView messages, votes and timeouts reach it (view_progress, which the
\* optimistic view change does not reset).
OneBlockPerView ==
    \A b, c \in AllBlocks : ViewOf(b.hash) = ViewOf(c.hash) => b = c

\* A block with a transaction that fails verify_sender is never certified.  Such
\* transactions do reach blocks: the client handler ignores the verdict of its own
\* verify_sender call.
CertifiedValid ==
    \A q \in AllQCs, b \in AllBlocks : q.block_hash = b.hash => b.txs_valid

\* The unsigned subtractions never wrap: curr_view - 1 in leader_handle_message
\* is only computed above view 0, and curr_view - last_commited_view in
\* get_current_timeout is computed with a lock that is not ahead of the view.
NoViewUnderflow ==
    /\ \A p \in net : LeaderTurn(p) => Received(p).curr_view >= 1
    /\ \A r \in Replicas : replica[r].locked_qc.view_number <= replica[r].curr_view

\* Two certificates of one view are for one block, although a replica may sign
\* votes for two blocks in a view: a proposal that is a whole rotation late comes
\* from the leader of the current view and is voted for in the current view.
UniqueQCPerView ==
    \A q1, q2 \in AllQCs :
        q1.view_number = q2.view_number => q1.block_hash = q2.block_hash

Extends(h, g) == Len(g) <= Len(h) /\ SubSeq(h, 1, Len(g)) = g

\* No two replicas, and no one replica at two times, apply blocks of which
\* neither extends the other to the ledger.
Agreement ==
    \A r, q \in Replicas :
        \A i \in 1 .. Len(replica[r].applied), j \in 1 .. Len(replica[q].applied) :
            LET g == replica[r].applied[i]
                h == replica[q].applied[j]
            IN Extends(g, h) \/ Extends(h, g)

=============================================================================
