--------------------------- MODULE HotStuffProofs ---------------------------
(***************************************************************************)
(* The theorems about HotStuff, for every number of replicas and every     *)
(* view bound.                                                             *)
(*                                                                         *)
(* First, what the methods of a replica preserve, what one step of one     *)
(* replica may add to the system, and what every step keeps of types, of   *)
(* the order of views and of the votes behind a certificate.               *)
(*                                                                         *)
(* Then, one writer per view: only leader(v) makes blocks of view v, only  *)
(* leader(v + 1) makes certificates of view v, and it lets go of them only *)
(* when it proposes, or when it has left the view.                         *)
(***************************************************************************)
EXTENDS HotStuffRounds, FiniteSetTheorems, TLAPS

-----------------------------------------------------------------------------
(* What the methods of a replica preserve.                                  *)

\* The leader of a view is a replica.
LEMMA LeaderType ==
    ASSUME NEW v \in Nat
    PROVE  get_leader_for_view(v) \in Replicas
  BY NAssumption, SMT DEF get_leader_for_view, Replicas

\* Consecutive views have different leaders: get_leader_for_view rotates over at
\* least two replicas.
LEMMA NextLeaderDiffers ==
    ASSUME NEW v \in Nat
    PROVE  get_leader_for_view(v + 1) # get_leader_for_view(v)
<1> DEFINE a == v \div N
           b == (v + 1) \div N
<1>1. a \in Int /\ v = N * a + (v % N)
  BY NAssumption
<1>2. b \in Int /\ v + 1 = N * b + ((v + 1) % N)
  BY NAssumption
<1>3. N * (b - a) # 1
  <2>1. CASE b - a <= 0
    BY <1>1, <1>2, <2>1, NAssumption
  <2>2. CASE b - a >= 1
    BY <1>1, <1>2, <2>2, NAssumption
  <2> QED BY <1>1, <1>2, <2>1, <2>2
<1>4. N * (b - a) = N * b - N * a
  BY <1>1, <1>2, NAssumption
<1>5. v % N \in Int /\ (v + 1) % N \in Int /\ N * a \in Int /\ N * b \in Int
  BY <1>1, <1>2, NAssumption
<1> HIDE DEF a, b
<1> QED BY <1>1, <1>2, <1>3, <1>4, <1>5 DEF get_leader_for_view

\* sync_view only moves the view forward, and clears view_progress if it does.
LEMMA SyncView ==
    ASSUME NEW s \in ReplicaState, NEW m \in Message
    PROVE  LET t == sync_view(s, m) IN
           /\ t \in ReplicaState
           /\ t.node_id = s.node_id
           /\ t.curr_view >= s.curr_view /\ t.curr_view >= m.view
           /\ t.curr_view \in {s.curr_view, m.view}
           /\ t.curr_view = s.curr_view => t.leader_has_proposed = s.leader_has_proposed
           /\ t.curr_view # s.curr_view => ~t.leader_has_proposed
           /\ t.generic_qc = s.generic_qc
           /\ t.locked_qc = s.locked_qc
           /\ t.blockstore = s.blockstore
           /\ t.messages = s.messages
<1>1. m.view \in Nat /\ s.curr_view \in Nat
  BY Zenon DEF Message, View, ReplicaState
<1>2. CASE m.view <= s.curr_view
  <2>1. sync_view(s, m) = s
    BY <1>2, Zenon DEF sync_view
  <2> QED BY <1>1, <1>2, <2>1
<1>3. CASE ~(m.view <= s.curr_view)
  <2>1. sync_view(s, m) = [s EXCEPT !.curr_view = m.view,
                                    !.leader_has_proposed = FALSE,
                                    !.replica_has_voted = FALSE]
    BY <1>3, Zenon DEF sync_view
  <2>2. sync_view(s, m) \in ReplicaState
    BY <1>1, <2>1, Zenon DEF ReplicaState, View
  <2>3. sync_view(s, m).curr_view = m.view /\ ~sync_view(s, m).leader_has_proposed
    BY <2>1, Zenon DEF ReplicaState
  <2>4. /\ sync_view(s, m).node_id = s.node_id
        /\ sync_view(s, m).generic_qc = s.generic_qc
        /\ sync_view(s, m).locked_qc = s.locked_qc
        /\ sync_view(s, m).blockstore = s.blockstore
        /\ sync_view(s, m).messages = s.messages
    BY <2>1, Zenon DEF ReplicaState
  <2>5. m.view > s.curr_view
    BY <1>1, <1>3
  <2> QED BY <1>1, <2>2, <2>3, <2>4, <2>5
<1> QED BY <1>2, <1>3, Zenon

\* prune_before_view only drops messages.
LEMMA Prune ==
    ASSUME NEW s \in ReplicaState, NEW v \in View
    PROVE  LET t == prune_before_view(s, v) IN
           /\ t \in ReplicaState
           /\ t.node_id = s.node_id
           /\ t.curr_view = s.curr_view
           /\ t.leader_has_proposed = s.leader_has_proposed
           /\ t.generic_qc = s.generic_qc
           /\ t.locked_qc = s.locked_qc
           /\ t.blockstore = s.blockstore
           /\ t.messages \subseteq s.messages
  BY Zenon DEF prune_before_view, ReplicaState

\* How an entry of the window comes from a message.
EntryOf(e, m) ==
    /\ e.type = m.type /\ e.view = m.view /\ e.sender = m.sender
    /\ m.type = "NewView" => e = m
    /\ m.type = "Vote" => e.node = m.node

\* push adds at most an entry for the message.
LEMMA Push ==
    ASSUME NEW s \in ReplicaState, NEW m \in Message
    PROVE  LET t == push(s, m) IN
           /\ t \in ReplicaState
           /\ t.node_id = s.node_id
           /\ t.curr_view = s.curr_view
           /\ t.leader_has_proposed = s.leader_has_proposed
           /\ t.generic_qc = s.generic_qc
           /\ t.locked_qc = s.locked_qc
           /\ t.blockstore = s.blockstore
           /\ \A e \in t.messages : e \in s.messages \/ EntryOf(e, m)
<1> DEFINE entry == IF m.type = "NewView" THEN m
                    ELSE [type |-> "Vote", view |-> m.view, sender |-> m.sender,
                          node |-> m.node,
                          first |-> \A e \in VotesIn(s, m.view) : e.sender # m.sender]
<1>1. CASE m.type = "Proposal" \/ m.view < s.lowest_view
  BY <1>1, Zenon DEF push
<1>2. CASE ~(m.type = "Proposal" \/ m.view < s.lowest_view)
  <2>1. push(s, m) = [s EXCEPT !.messages = s.messages \cup {entry}]
    BY <1>2, Zenon DEF push
  <2>2. CASE m.type = "NewView"
    <3>1. m \in Entry
      BY <2>2, Zenon DEF Message, Entry
    <3> QED BY <2>1, <2>2, <3>1 DEF ReplicaState, EntryOf
  <2>3. CASE m.type # "NewView"
    <3> DEFINE f == \A e \in VotesIn(s, m.view) : e.sender # m.sender
    <3>1. m \in [type : {"Vote"}, view : View, sender : Replicas, node : BlockHash]
      BY <1>2, <2>3, Zenon DEF Message
    <3>2. f \in BOOLEAN
      BY Zenon
    <3> HIDE DEF f
    <3>3. entry = [type |-> "Vote", view |-> m.view, sender |-> m.sender,
                   node |-> m.node, first |-> f]
      BY <2>3, Zenon DEF f
    <3> HIDE DEF entry
    <3>4. entry \in Entry
      BY <3>1, <3>2, <3>3, Zenon DEF Entry
    <3>5. EntryOf(entry, m)
      BY <3>1, <3>3, Zenon DEF EntryOf
    <3> QED BY <2>1, <3>4, <3>5, ZenonT(60) DEF ReplicaState
  <2> QED BY <2>2, <2>3, Zenon
<1> QED BY <1>1, <1>2, Zenon

\* What the common first part of handle_message does to the replica.
LEMMA ReceivedFacts ==
    ASSUME TypeOK, NEW p \in net
    PROVE  LET o == replica[p.to]
               t == Received(p)
           IN /\ p.to \in Replicas /\ p.msg \in Message
              /\ o \in ReplicaState /\ o.node_id = p.to
              /\ t \in ReplicaState
              /\ t.node_id = p.to
              /\ t.curr_view >= o.curr_view /\ t.curr_view >= p.msg.view
              /\ t.curr_view \in {o.curr_view, p.msg.view}
              /\ t.curr_view = o.curr_view => t.leader_has_proposed = o.leader_has_proposed
              /\ t.curr_view # o.curr_view => ~t.leader_has_proposed
              /\ t.generic_qc = o.generic_qc
              /\ t.locked_qc = o.locked_qc
              /\ t.blockstore = o.blockstore
              /\ \A e \in t.messages : e \in o.messages \/ EntryOf(e, p.msg)
<1>1. p.to \in Replicas /\ p.msg \in Message
  BY Zenon DEF TypeOK, Packet
<1>2. replica[p.to] \in ReplicaState /\ replica[p.to].node_id = p.to
  BY <1>1, Zenon DEF TypeOK
<1> DEFINE u == sync_view(replica[p.to], p.msg)
<1>3. /\ u \in ReplicaState
      /\ u.node_id = p.to
      /\ u.curr_view >= replica[p.to].curr_view /\ u.curr_view >= p.msg.view
      /\ u.curr_view \in {replica[p.to].curr_view, p.msg.view}
      /\ u.curr_view = replica[p.to].curr_view
           => u.leader_has_proposed = replica[p.to].leader_has_proposed
      /\ u.curr_view # replica[p.to].curr_view => ~u.leader_has_proposed
      /\ u.generic_qc = replica[p.to].generic_qc
      /\ u.locked_qc = replica[p.to].locked_qc
      /\ u.blockstore = replica[p.to].blockstore
      /\ u.messages = replica[p.to].messages
  BY <1>1, <1>2, SyncView, Zenon
<1> HIDE DEF u
<1> DEFINE t == push(u, p.msg)
<1>4. /\ t \in ReplicaState
      /\ t.node_id = u.node_id
      /\ t.curr_view = u.curr_view
      /\ t.leader_has_proposed = u.leader_has_proposed
      /\ t.generic_qc = u.generic_qc
      /\ t.locked_qc = u.locked_qc
      /\ t.blockstore = u.blockstore
      /\ \A e \in t.messages : e \in u.messages \/ EntryOf(e, p.msg)
  BY <1>1, <1>3, Push, Zenon
<1>5. Received(p) = t
  BY Zenon DEF Received, t, u
<1> HIDE DEF t
<1> QED BY <1>1, <1>2, <1>3, <1>4, <1>5, Zenon

\* TheBlock picks a member.
LEMMA TheBlockIn ==
    ASSUME NEW bs, bs # {}
    PROVE  TheBlock(bs) \in bs
  BY Zenon DEF TheBlock

\* insert_block adds one block.
LEMMA InsertBlock ==
    ASSUME NEW s \in ReplicaState, NEW b \in Block
    PROVE  LET t == insert_block(s, b) IN
           /\ t \in ReplicaState
           /\ t.node_id = s.node_id
           /\ t.curr_view = s.curr_view
           /\ t.leader_has_proposed = s.leader_has_proposed
           /\ t.generic_qc = s.generic_qc
           /\ t.locked_qc = s.locked_qc
           /\ t.messages = s.messages
           /\ t.blockstore \subseteq s.blockstore \cup {b}
           /\ b \in t.blockstore
  BY Zenon DEF insert_block, BlocksWithHash, ReplicaState

\* replica_handle_proposal changes no view, sends the lock to a certificate of a
\* stored block, and generic_qc to the certificate of the proposal.
LEMMA HandleProposal ==
    ASSUME NEW s0 \in ReplicaState, NEW b_star \in Block, NEW sender \in Replicas
    PROVE  LET res == replica_handle_proposal(s0, b_star, sender)
               t   == res.self
           IN /\ t \in ReplicaState
              /\ t.node_id = s0.node_id
              /\ t.curr_view = s0.curr_view
              /\ t.leader_has_proposed = s0.leader_has_proposed
              /\ t.generic_qc \in {s0.generic_qc, b_star.justify}
              /\ t.locked_qc \in {s0.locked_qc} \cup {b.justify : b \in t.blockstore}
              /\ t.messages \subseteq s0.messages
              /\ t.blockstore \subseteq s0.blockstore \cup {b_star}
              /\ res.vote \in BOOLEAN
              /\ res.vote => b_star.txs_valid
<1> DEFINE s   == insert_block(s0, b_star)
           bs2 == {b \in get_justified_block(s, b_star) : is_parent(b_star, b)}
           b2  == TheBlock(bs2)
           bs1 == {b \in get_justified_block(s, b2) : is_parent(b2, b)}
           g   == [s EXCEPT !.generic_qc = b_star.justify]
           s1  == IF bs2 # {} THEN prune_before_view(g, b_star.justify.view_number) ELSE s
           s2  == IF bs2 # {} /\ bs1 # {} THEN [s1 EXCEPT !.locked_qc = b2.justify] ELSE s1
           cb  == CommittedBlock(s, b_star)
           s3  == IF cb = {} THEN s2
                  ELSE [s2 EXCEPT !.applied = Append(s2.applied, TheBlock(cb).hash)]
           OK(t) == /\ t \in ReplicaState
                    /\ t.node_id = s0.node_id
                    /\ t.curr_view = s0.curr_view
                    /\ t.leader_has_proposed = s0.leader_has_proposed
                    /\ t.generic_qc \in {s0.generic_qc, b_star.justify}
                    /\ t.locked_qc \in {s0.locked_qc} \cup {b.justify : b \in t.blockstore}
                    /\ t.messages \subseteq s0.messages
                    /\ t.blockstore \subseteq s0.blockstore \cup {b_star}
<1>1. s \in ReplicaState /\ OK(s)
  BY InsertBlock, Zenon
<1>2. bs2 \subseteq s.blockstore /\ cb \subseteq s.blockstore
  BY Zenon DEF get_justified_block, BlocksWithHash, CommittedBlock
<1> HIDE DEF s
<1>3. b_star.justify \in QC /\ b_star.justify.view_number \in View
  BY Zenon DEF Block, QC
<1>4. OK(s1) /\ s1.blockstore = s.blockstore
  <2>1. g \in ReplicaState /\ OK(g) /\ g.blockstore = s.blockstore
    BY <1>1, <1>3, Zenon DEF ReplicaState
  <2> HIDE DEF g
  <2>2. OK(prune_before_view(g, b_star.justify.view_number))
        /\ prune_before_view(g, b_star.justify.view_number).blockstore = s.blockstore
    BY <2>1, <1>3, Prune, Zenon
  <2> QED BY <1>1, <2>2, Zenon
<1> HIDE DEF s1
<1>5. OK(s2) /\ s2.blockstore = s.blockstore
  <2>1. CASE bs2 # {} /\ bs1 # {}
    <3>1. b2 \in s.blockstore
      BY <1>2, <2>1, TheBlockIn, Zenon
    <3>2. b2 \in Block /\ b2.justify \in QC
      BY <1>1, <3>1, Zenon DEF ReplicaState, Block
    <3> HIDE DEF b2, bs1, bs2
    <3>3. s2 = [s1 EXCEPT !.locked_qc = b2.justify]
      BY <2>1, Zenon
    <3> QED BY <1>4, <3>1, <3>2, <3>3, Zenon DEF ReplicaState
  <2>2. CASE ~(bs2 # {} /\ bs1 # {})
    BY <1>4, <2>2, Zenon
  <2> QED BY <2>1, <2>2, Zenon
<1> HIDE DEF s2
<1>6. OK(s3)
  <2>1. CASE cb # {}
    <3>1. TheBlock(cb).hash \in BlockHash
      BY <1>1, <1>2, <2>1, TheBlockIn, Zenon DEF ReplicaState, Block
    <3> DEFINE h == TheBlock(cb).hash
    <3> HIDE DEF h
    <3>2. Append(s2.applied, h) \in Seq(BlockHash)
      BY <1>5, <3>1 DEF ReplicaState, h
    <3>3. s3 = [s2 EXCEPT !.applied = Append(s2.applied, h)]
      BY <2>1, Zenon DEF h
    <3> QED BY <1>5, <3>2, <3>3, Zenon DEF ReplicaState
  <2> QED BY <1>5, <2>1, Zenon
<1>7. replica_handle_proposal(s0, b_star, sender)
        = IF sender # get_leader_for_view(s0.curr_view) THEN [self |-> s0, vote |-> FALSE]
          ELSE IF accepts(s, b_star) THEN [self |-> s3, vote |-> TRUE]
          ELSE [self |-> s, vote |-> FALSE]
  BY Zenon DEF replica_handle_proposal, s, s1, s2
<1>8. OK(s0)
  BY Zenon
<1>9. accepts(s, b_star) => b_star.txs_valid
  BY Zenon DEF accepts
<1> HIDE DEF s3
<1> QED BY <1>1, <1>6, <1>7, <1>8, <1>9

-----------------------------------------------------------------------------
(* One step of one replica, in terms of what it may add to the system.      *)

VoteMessage == [type : {"Vote"}, view : View, sender : Replicas, node : BlockHash]

\* The entries that the window of r can draw on in the step.
InWindow(r, heard, e) == e \in replica[r].messages \/ \E p \in heard : EntryOf(e, p.msg)

\* A NewView message that r sends on entering view v.
EntersView(r, s, p) ==
    /\ p.msg.type = "NewView"
    /\ p.msg.justify = replica[r].generic_qc
    /\ \E v \in Nat : /\ replica[r].curr_view < v /\ v <= s.curr_view
                      /\ p.msg.view = v - 1
                      /\ p.to = get_leader_for_view(v)

\* The block that vote v is for: proposed in the step or heard, and verified.
VotesFor(heard, New, v) ==
    \/ \E b \in New : v.node = b.hash /\ b.txs_valid
    \/ \E p \in heard :
         p.msg.type = "Proposal" /\ v.node = p.msg.node.hash /\ p.msg.node.txs_valid

\* r, having heard the packets `heard`, becomes s, sends `sent`, signs `cast`,
\* proposes the blocks `New` and forms the certificates `Fresh`.
StepFacts(r, heard, s, sent, cast, New, Fresh) ==
    LET o == replica[r] IN
    /\ r \in Replicas /\ heard \subseteq net
    /\ \A p \in heard : p.to = r /\ s.curr_view >= p.msg.view
    /\ replica' = [replica EXCEPT ![r] = s]
    /\ net' \subseteq net \cup sent
    /\ votes' = votes \cup cast
    /\ s \in ReplicaState /\ s.node_id = r /\ s.curr_view >= o.curr_view
    /\ s.curr_view = o.curr_view /\ o.leader_has_proposed => s.leader_has_proposed
    /\ s.leader_has_proposed
         => New # {} \/ (s.curr_view = o.curr_view /\ o.leader_has_proposed)
    /\ \A e \in s.messages : InWindow(r, heard, e)
    /\ \A b \in s.blockstore :
         \/ b \in o.blockstore \/ b \in New
         \/ \E p \in heard : p.msg.type = "Proposal" /\ b = p.msg.node
    /\ s.locked_qc \in {o.locked_qc} \cup {b.justify : b \in s.blockstore}
    /\ \/ s.generic_qc = o.generic_qc \/ s.generic_qc \in Fresh
       \/ \E p \in heard : p.msg.type = "Proposal" /\ s.generic_qc = p.msg.node.justify
       \/ \E e \in Entry : /\ InWindow(r, heard, e) /\ e.type = "NewView"
                           /\ s.generic_qc = e.justify
                           /\ get_leader_for_view(s.curr_view) = r
    /\ sent \subseteq Packet
    /\ \A p \in sent : \/ EntersView(r, s, p)
                       \/ p.msg.type = "Vote" /\ p.msg \in cast
                       \/ /\ p.msg.type = "Proposal"
                          /\ p.msg.node \in New /\ p.msg.view = s.curr_view
    /\ cast \subseteq VoteMessage
    /\ \A v \in cast :
         /\ v.view = s.curr_view /\ v.sender = r
         /\ VotesFor(heard, New, v)
    /\ New \cup Fresh # {} => heard # {}
    /\ New \subseteq Block
    /\ \A b \in New :
         /\ \A c \in New : b = c
         /\ get_leader_for_view(s.curr_view) = r /\ s.leader_has_proposed
         /\ ~(s.curr_view = o.curr_view /\ o.leader_has_proposed)
         /\ b.justify = s.generic_qc
         /\ \E par \in o.blockstore : b.hash = Append(par.hash, s.curr_view)
    /\ \A q \in Fresh :
         /\ q = s.generic_qc /\ New = {}
         /\ get_leader_for_view(s.curr_view) = r
         /\ ~(s.curr_view = o.curr_view /\ o.leader_has_proposed)
         /\ q.view_number = s.curr_view - 1
         /\ Cardinality(q.partial_sigs) >= quorum_threshold
         /\ q.partial_sigs # {}
         /\ \A x \in q.partial_sigs : \E e \in Entry :
              /\ InWindow(r, heard, e) /\ e.type = "Vote" /\ e.view = q.view_number
              /\ e.sender = x /\ e.node = q.block_hash

\* A replica that has proposed in its view leads that view.
ProposerLeads ==
    \A r \in Replicas :
        replica[r].leader_has_proposed => get_leader_for_view(replica[r].curr_view) = r

SomeStep(r, heard) ==
    \E s, sent, cast, New, Fresh : StepFacts(r, heard, s, sent, cast, New, Fresh)

\* The NewView message for the view a replica has entered.
LEMMA CreateNewView ==
    ASSUME NEW s \in ReplicaState, s.curr_view >= 1
    PROVE  LET p == PacketTo(get_leader_for_view(s.curr_view), create_new_view(s)) IN
           /\ p \in Packet
           /\ p.to = get_leader_for_view(s.curr_view)
           /\ p.msg.type = "NewView"
           /\ p.msg.view = s.curr_view - 1
           /\ p.msg.justify = s.generic_qc
<1>1. s.curr_view \in Nat /\ s.curr_view - 1 \in View
  BY DEF ReplicaState, View
<1>2. create_new_view(s) \in Message
  BY <1>1, Zenon DEF create_new_view, Message, ReplicaState
<1>3. get_leader_for_view(s.curr_view) \in Replicas
  BY <1>1, LeaderType, Zenon
<1> QED BY <1>2, <1>3, Zenon DEF create_new_view, PacketTo, Packet

\* The NewView message a leader sends itself when it is carried into its view.
LEMMA SelfNewView ==
    ASSUME TypeOK, NEW p \in net, NEW s,
           s.curr_view = Received(p).curr_view \/ s.curr_view = Received(p).curr_view + 1
    PROVE  /\ NewViewToSelf(p) \subseteq Packet
           /\ \A x \in NewViewToSelf(p) : EntersView(p.to, s, x)
<1> DEFINE u == sync_view(replica[p.to], p.msg)
<1>1. p.to \in Replicas /\ p.msg \in Message /\ replica[p.to] \in ReplicaState
  BY Zenon DEF TypeOK, Packet
<1>2. u \in ReplicaState /\ u.generic_qc = replica[p.to].generic_qc /\ u.node_id = replica[p.to].node_id
  BY <1>1, SyncView, Zenon
<1>3. Received(p).curr_view = u.curr_view
  BY <1>1, <1>2, Push, Zenon DEF Received
<1>4. u.curr_view \in Nat /\ replica[p.to].curr_view \in Nat
  BY <1>1, <1>2, Zenon DEF ReplicaState, View
<1>5. SUFFICES ASSUME NEW x \in NewViewToSelf(p)
               PROVE  x \in Packet /\ EntersView(p.to, s, x)
  BY Zenon
<1>6. /\ u.curr_view > replica[p.to].curr_view
      /\ x = PacketTo(get_leader_for_view(u.curr_view), create_new_view(u))
  BY Zenon DEF NewViewToSelf
<1> HIDE DEF u
<1>7. /\ x \in Packet
      /\ x.to = get_leader_for_view(u.curr_view)
      /\ x.msg.type = "NewView"
      /\ x.msg.view = u.curr_view - 1
      /\ x.msg.justify = u.generic_qc
  BY <1>2, <1>4, <1>6, CreateNewView
<1> QED BY <1>2, <1>3, <1>4, <1>6, <1>7 DEF EntersView

\* Moving to another view changes the view and view_progress only.
LEMMA MoveView ==
    ASSUME NEW s \in ReplicaState, NEW v \in View, NEW voted \in BOOLEAN
    PROVE  LET t == [s EXCEPT !.curr_view = v, !.replica_has_voted = voted]
               u == [s EXCEPT !.curr_view = v, !.leader_has_proposed = FALSE,
                              !.replica_has_voted = voted]
           IN /\ t \in ReplicaState /\ t.node_id = s.node_id /\ t.curr_view = v
              /\ t.leader_has_proposed = s.leader_has_proposed
              /\ t.generic_qc = s.generic_qc /\ t.locked_qc = s.locked_qc
              /\ t.blockstore = s.blockstore /\ t.messages = s.messages
              /\ u \in ReplicaState /\ u.node_id = s.node_id /\ u.curr_view = v
              /\ ~u.leader_has_proposed
              /\ u.generic_qc = s.generic_qc /\ u.locked_qc = s.locked_qc
              /\ u.blockstore = s.blockstore /\ u.messages = s.messages
  BY Zenon DEF ReplicaState

\* Timeout is a step of one replica that hears nothing.
LEMMA TimeoutStep ==
    ASSUME TypeOK, NEW r \in Replicas, Timeout(r)
    PROVE  SomeStep(r, {})
<1> DEFINE o == replica[r]
           s == [o EXCEPT !.curr_view = o.curr_view + 1,
                          !.leader_has_proposed = FALSE,
                          !.replica_has_voted = FALSE]
           pkt == PacketTo(get_leader_for_view(s.curr_view), create_new_view(s))
<1>1. o \in ReplicaState /\ o.node_id = r /\ o.curr_view \in Nat
  BY Zenon DEF TypeOK, ReplicaState, View
<1>2. /\ s \in ReplicaState /\ s.node_id = r
      /\ s.curr_view = o.curr_view + 1
      /\ ~s.leader_has_proposed
      /\ s.generic_qc = o.generic_qc /\ s.locked_qc = o.locked_qc
      /\ s.blockstore = o.blockstore /\ s.messages = o.messages
  <2>1. o.curr_view + 1 \in View
    BY <1>1 DEF View
  <2> QED BY <1>1, <2>1, MoveView, ZenonT(40)
<1>3. /\ replica' = [replica EXCEPT ![r] = s]
      /\ net' = net \cup {pkt}
      /\ votes' = votes \cup {}
  BY Zenon DEF Timeout
<1> HIDE DEF s
<1>4. pkt \in Packet /\ EntersView(r, s, pkt)
  <2>1. /\ pkt \in Packet
        /\ pkt.to = get_leader_for_view(s.curr_view)
        /\ pkt.msg.type = "NewView"
        /\ pkt.msg.view = s.curr_view - 1
        /\ pkt.msg.justify = s.generic_qc
    BY <1>1, <1>2, CreateNewView
  <2> HIDE DEF pkt
  <2> QED BY <1>1, <1>2, <2>1 DEF EntersView
<1> HIDE DEF pkt
<1>5. s.curr_view >= o.curr_view /\ s.curr_view # o.curr_view
  BY <1>1, <1>2
<1>6. StepFacts(r, {}, s, {pkt}, {}, {}, {})
  BY <1>2, <1>3, <1>4, <1>5, Zenon DEF StepFacts, InWindow
<1> QED BY <1>6, Zenon DEF SomeStep

\* replica_handle_message on a NewView is a step of the addressee.
LEMMA ReplicaNewViewStep ==
    ASSUME TypeOK, NEW p \in net, ReplicaNewView(p)
    PROVE  SomeStep(p.to, {p})
<1> DEFINE s == Received(p)
<1>1. Finish(p, s, {}, {})
  BY Zenon DEF ReplicaNewView
<1>2. /\ NewViewToSelf(p) \subseteq Packet
      /\ \A x \in NewViewToSelf(p) : EntersView(p.to, s, x)
  BY SelfNewView, Zenon
<1>3. StepFacts(p.to, {p}, s, NewViewToSelf(p), {}, {}, {})
  BY <1>1, <1>2, ReceivedFacts, Zenon DEF StepFacts, InWindow, Finish
<1> QED BY <1>3, Zenon DEF SomeStep

\* replica_handle_vote is a step of the addressee.  ProposerLeads is needed because
\* the optimistic view change does not reset view_progress.
LEMMA ReplicaVoteStep ==
    ASSUME TypeOK, ProposerLeads, NEW p \in net, ReplicaVote(p)
    PROVE  SomeStep(p.to, {p})
<1> DEFINE t == Received(p)
           s == [t EXCEPT !.curr_view = t.curr_view + 1, !.replica_has_voted = TRUE]
           pkt == PacketTo(p.to, create_new_view(s))
<1>1. CASE OptimisticAdvance(t)
  <2>1. Finish(p, s, {pkt}, {}) /\ ~LeaderTurn(p)
    BY <1>1, Zenon DEF ReplicaVote
  <2>2. t \in ReplicaState /\ t.node_id = p.to /\ t.curr_view \in Nat
    BY ReceivedFacts, Zenon DEF ReplicaState, View
  <2>3. /\ s \in ReplicaState /\ s.node_id = p.to
        /\ s.curr_view = t.curr_view + 1
        /\ s.leader_has_proposed = t.leader_has_proposed
        /\ s.generic_qc = t.generic_qc /\ s.locked_qc = t.locked_qc
        /\ s.blockstore = t.blockstore /\ s.messages = t.messages
    <3>1. t.curr_view + 1 \in View
      BY <2>2 DEF View
    <3> QED BY <2>2, <3>1, MoveView, Zenon
  <2>4. p.to = get_leader_for_view(t.curr_view + 1)
    BY <1>1, <2>2, Zenon DEF OptimisticAdvance
  <2>5. get_leader_for_view(t.curr_view) # p.to
    BY <2>2, <2>4, NextLeaderDiffers, Zenon
  <2>6. ~s.leader_has_proposed
    <3>1. CASE t.curr_view = replica[p.to].curr_view
      BY <2>3, <2>5, <3>1, ReceivedFacts, ZenonT(40) DEF ProposerLeads
    <3>2. CASE t.curr_view # replica[p.to].curr_view
      BY <2>3, <3>2, ReceivedFacts, Zenon
    <3> QED BY <3>1, <3>2, Zenon
  <2> HIDE DEF s
  <2>7. /\ NewViewToSelf(p) \subseteq Packet
        /\ \A x \in NewViewToSelf(p) : EntersView(p.to, s, x)
    BY <2>3, SelfNewView, Zenon
  <2>8. /\ replica[p.to].curr_view \in Nat
        /\ s.curr_view > replica[p.to].curr_view
        /\ s.curr_view >= p.msg.view
        /\ p.msg.view \in Nat
    BY <2>2, <2>3, ReceivedFacts, SMTT(40) DEF ReplicaState, View, Message
  <2>9. pkt \in Packet /\ EntersView(p.to, s, pkt)
    <3>1. /\ pkt \in Packet
          /\ pkt.to = get_leader_for_view(s.curr_view)
          /\ pkt.msg.type = "NewView"
          /\ pkt.msg.view = s.curr_view - 1
          /\ pkt.msg.justify = s.generic_qc
      BY <2>2, <2>3, <2>4, CreateNewView
    <3> HIDE DEF pkt
    <3>2. s.curr_view \in Nat
      BY <2>2, <2>3
    <3> QED BY <2>3, <2>8, <3>1, <3>2, ReceivedFacts DEF EntersView
  <2> HIDE DEF pkt
  <2>10. StepFacts(p.to, {p}, s, NewViewToSelf(p) \cup {pkt}, {}, {}, {})
    <3>1. s.curr_view # replica[p.to].curr_view /\ s.curr_view >= replica[p.to].curr_view
      BY <2>2, <2>3, <2>8
    <3> HIDE DEF t
    <3> QED BY <2>1, <2>3, <2>6, <2>7, <2>8, <2>9, <3>1, ReceivedFacts
           , Zenon DEF StepFacts, InWindow, Finish, t
  <2> QED BY <2>10, Zenon DEF SomeStep
<1>2. CASE ~OptimisticAdvance(t)
  <2>1. Finish(p, t, {}, {})
    BY <1>2, Zenon DEF ReplicaVote
  <2>2. /\ NewViewToSelf(p) \subseteq Packet
        /\ \A x \in NewViewToSelf(p) : EntersView(p.to, t, x)
    BY SelfNewView, Zenon
  <2>3. StepFacts(p.to, {p}, t, NewViewToSelf(p), {}, {}, {})
    BY <2>1, <2>2, ReceivedFacts, Zenon DEF StepFacts, InWindow, Finish
  <2> QED BY <2>3, Zenon DEF SomeStep
<1> QED BY <1>1, <1>2, Zenon

\* replica_handle_proposal is a step of the addressee.
LEMMA ReplicaProposalStep ==
    ASSUME TypeOK, NEW p \in net, ReplicaProposal(p)
    PROVE  SomeStep(p.to, {p})
<1> DEFINE t == Received(p)
           res == replica_handle_proposal(t, p.msg.node, p.msg.sender)
           vote == vote_message(t, p.msg.node)
           pkt == PacketTo(get_leader_for_view(t.curr_view + 1), vote)
           s == [res.self EXCEPT !.replica_has_voted = TRUE]
<1>1. t \in ReplicaState /\ t.node_id = p.to /\ t.curr_view \in Nat /\ p.msg \in Message
  BY ReceivedFacts, Zenon DEF ReplicaState, View
<1>2. p.msg.type = "Proposal" /\ p.msg.node \in Block /\ p.msg.sender \in Replicas
  <2>1. p.msg.type = "Proposal"
    BY Zenon DEF ReplicaProposal
  <2> QED BY <1>1, <2>1, Zenon DEF Message
<1> DEFINE OK(u) == /\ u \in ReplicaState
                    /\ u.node_id = t.node_id
                    /\ u.curr_view = t.curr_view
                    /\ u.leader_has_proposed = t.leader_has_proposed
                    /\ u.generic_qc \in {t.generic_qc, p.msg.node.justify}
                    /\ u.locked_qc \in {t.locked_qc} \cup {b.justify : b \in u.blockstore}
                    /\ u.messages \subseteq t.messages
                    /\ u.blockstore \subseteq t.blockstore \cup {p.msg.node}
<1>3. OK(res.self) /\ (res.vote => p.msg.node.txs_valid)
  BY <1>1, <1>2, HandleProposal, ZenonT(40)
<1>4. CASE res.vote
  <2>1. Finish(p, s, {pkt}, {vote})
    BY <1>4, Zenon DEF ReplicaProposal
  <2>2. OK(s)
    <3> HIDE DEF res, t
    <3> QED BY <1>3, Zenon DEF ReplicaState
  <2>3. vote \in VoteMessage /\ vote.view = t.curr_view /\ vote.sender = p.to
    BY <1>1, <1>2, Zenon DEF vote_message, VoteMessage, ReplicaState, Block
  <2>4. pkt \in Packet /\ pkt.msg = vote /\ pkt.msg.type = "Vote"
    <3>1. get_leader_for_view(t.curr_view + 1) \in Replicas
      BY <1>1, LeaderType
    <3> QED BY <2>3, <3>1, Zenon DEF PacketTo, Packet, Message, VoteMessage
  <2>5. /\ NewViewToSelf(p) \subseteq Packet
        /\ \A x \in NewViewToSelf(p) : EntersView(p.to, s, x)
    BY <2>2, SelfNewView, Zenon
  <2>6. VotesFor({p}, {}, vote)
    BY <1>2, <1>3, <1>4, Zenon DEF VotesFor, vote_message
  <2> HIDE DEF s, pkt, vote, t
  <2>7. StepFacts(p.to, {p}, s, NewViewToSelf(p) \cup {pkt}, {vote}, {}, {})
    BY <1>1, <1>2, <2>1, <2>2, <2>3, <2>4, <2>5, <2>6, ReceivedFacts
      , Zenon DEF StepFacts, InWindow, Finish, t
  <2> QED BY <2>7, Zenon DEF SomeStep
<1>5. CASE ~res.vote
  <2>1. Finish(p, res.self, {}, {})
    BY <1>5, Zenon DEF ReplicaProposal
  <2>2. /\ NewViewToSelf(p) \subseteq Packet
        /\ \A x \in NewViewToSelf(p) : EntersView(p.to, res.self, x)
    BY <1>3, SelfNewView, Zenon
  <2> HIDE DEF res, t
  <2>3. StepFacts(p.to, {p}, res.self, NewViewToSelf(p), {}, {}, {})
    BY <1>1, <1>2, <1>3, <2>1, <2>2, ReceivedFacts, Zenon DEF StepFacts, InWindow, Finish, t
  <2> QED BY <2>3, Zenon DEF SomeStep
<1> QED BY <1>4, <1>5, Zenon

\* A quorum is not empty.
LEMMA QuorumPositive ==
    quorum_threshold \in Nat /\ quorum_threshold >= 1
  BY NAssumption, SMT DEF quorum_threshold

\* A certificate that is formed names signers of votes in the window.
LEMMA TryCreate ==
    ASSUME NEW s \in ReplicaState, NEW v, NEW q \in try_create_qc_for_view(s, v)
    PROVE  /\ q \in QC
           /\ q.view_number = v
           /\ Cardinality(q.partial_sigs) >= quorum_threshold
           /\ q.partial_sigs # {}
           /\ \A x \in q.partial_sigs : \E e \in s.messages :
                /\ e \in Entry /\ e.type = "Vote" /\ e.view = v
                /\ e.sender = x /\ e.node = q.block_hash
<1>1. PICK h \in {e.node : e \in VotesIn(s, v)} :
          /\ Cardinality(SignersOf(s, v, h)) >= quorum_threshold
          /\ q = [view_number |-> v, block_hash |-> h, partial_sigs |-> SignersOf(s, v, h)]
  BY Zenon DEF try_create_qc_for_view
<1>2. \A x \in SignersOf(s, v, h) : \E e \in s.messages :
          /\ e \in Entry /\ e.type = "Vote" /\ e.view = v
          /\ e.sender = x /\ e.node = h
  BY Zenon DEF SignersOf, VotesIn, ReplicaState
<1>3. SignersOf(s, v, h) \subseteq Replicas
  BY <1>2, Zenon DEF Entry
<1>4. h \in BlockHash /\ v \in View
  BY Zenon DEF VotesIn, ReplicaState, Entry
<1>5. SignersOf(s, v, h) # {}
  BY <1>1, QuorumPositive, FS_EmptySet
<1> QED BY <1>1, <1>2, <1>3, <1>4, <1>5, Zenon DEF QC

\* leader_handle_message without a quorum of NewViews is a step of the addressee.
LEMMA LeaderCollectStep ==
    ASSUME TypeOK, NEW p \in net, LeaderCollect(p)
    PROVE  SomeStep(p.to, {p})
<1> DEFINE t == Received(p)
<1>1. t \in ReplicaState /\ t.node_id = p.to /\ t.curr_view \in Nat
  BY ReceivedFacts, Zenon DEF ReplicaState, View
<1>2. get_leader_for_view(t.curr_view) = p.to /\ ~t.leader_has_proposed
  BY Zenon DEF LeaderCollect, LeaderTurn
<1>3. CASE Finish(p, t, {}, {})
  <2>1. /\ NewViewToSelf(p) \subseteq Packet
        /\ \A x \in NewViewToSelf(p) : EntersView(p.to, t, x)
    BY SelfNewView, Zenon
  <2>2. StepFacts(p.to, {p}, t, NewViewToSelf(p), {}, {}, {})
    BY <1>3, <2>1, ReceivedFacts, Zenon DEF StepFacts, InWindow, Finish
  <2> QED BY <2>2, Zenon DEF SomeStep
<1>4. ASSUME NEW q \in try_create_qc_for_view(t, t.curr_view - 1),
             Finish(p, prune_before_view([t EXCEPT !.generic_qc = q], q.view_number), {}, {})
      PROVE  SomeStep(p.to, {p})
  <2> DEFINE g == [t EXCEPT !.generic_qc = q]
             s == prune_before_view(g, q.view_number)
  <2>1. /\ q \in QC /\ q.view_number \in View
        /\ q.view_number = t.curr_view - 1
        /\ Cardinality(q.partial_sigs) >= quorum_threshold
        /\ q.partial_sigs # {}
        /\ \A x \in q.partial_sigs : \E e \in t.messages :
             /\ e \in Entry /\ e.type = "Vote" /\ e.view = q.view_number
             /\ e.sender = x /\ e.node = q.block_hash
    BY <1>1, TryCreate DEF QC
  <2>2. /\ g \in ReplicaState /\ g.generic_qc = q /\ g.node_id = t.node_id
        /\ g.curr_view = t.curr_view /\ g.leader_has_proposed = t.leader_has_proposed
        /\ g.locked_qc = t.locked_qc /\ g.blockstore = t.blockstore
        /\ g.messages = t.messages
    <3> HIDE DEF t
    <3> QED BY <1>1, <2>1, Zenon DEF ReplicaState
  <2> HIDE DEF g
  <2>3. /\ s \in ReplicaState /\ s.generic_qc = q /\ s.node_id = t.node_id
        /\ s.curr_view = t.curr_view /\ s.leader_has_proposed = t.leader_has_proposed
        /\ s.locked_qc = t.locked_qc /\ s.blockstore = t.blockstore
        /\ s.messages \subseteq t.messages
    BY <2>1, <2>2, Prune, ZenonT(40)
  <2>4. Finish(p, s, {}, {})
    BY <1>4, Zenon DEF g
  <2>5. /\ NewViewToSelf(p) \subseteq Packet
        /\ \A x \in NewViewToSelf(p) : EntersView(p.to, s, x)
    BY <2>3, SelfNewView, Zenon
  <2>6. /\ p.to \in Replicas /\ replica[p.to] \in ReplicaState
        /\ t.curr_view >= replica[p.to].curr_view /\ t.curr_view >= p.msg.view
        /\ t.curr_view = replica[p.to].curr_view
             => t.leader_has_proposed = replica[p.to].leader_has_proposed
        /\ t.locked_qc = replica[p.to].locked_qc
        /\ t.blockstore = replica[p.to].blockstore
        /\ \A e \in t.messages : InWindow(p.to, {p}, e)
    BY ReceivedFacts, Zenon DEF InWindow
  <2> HIDE DEF s, t
  <2>7. /\ replica' = [replica EXCEPT ![p.to] = s]
        /\ net' \subseteq net \cup NewViewToSelf(p)
        /\ votes' = votes \cup {}
    BY <2>4, Zenon DEF Finish
  <2>8. \A e \in s.messages : InWindow(p.to, {p}, e)
    BY <2>3, <2>6, Zenon
  <2>9. /\ q = s.generic_qc
        /\ get_leader_for_view(s.curr_view) = p.to
        /\ ~(s.curr_view = replica[p.to].curr_view /\ replica[p.to].leader_has_proposed)
        /\ q.view_number = s.curr_view - 1
    BY <1>2, <2>1, <2>3, <2>6, Zenon
  <2>10. \A x \in q.partial_sigs : \E e \in Entry :
           /\ InWindow(p.to, {p}, e) /\ e.type = "Vote" /\ e.view = q.view_number
           /\ e.sender = x /\ e.node = q.block_hash
    BY <2>1, <2>6, Zenon
  <2>11. /\ s \in ReplicaState /\ s.node_id = p.to /\ ~s.leader_has_proposed
         /\ s.curr_view >= replica[p.to].curr_view /\ s.curr_view >= p.msg.view
         /\ s.locked_qc = replica[p.to].locked_qc
         /\ s.blockstore = replica[p.to].blockstore
    BY <1>1, <1>2, <2>3, <2>6, Zenon
  <2>12. /\ s.locked_qc \in {replica[p.to].locked_qc} \cup {b.justify : b \in s.blockstore}
         /\ {p} \subseteq net /\ {} \subseteq VoteMessage /\ {} \subseteq Block
         /\ {} \cup {q} # {} => {p} # {}
         /\ \A x \in {p} : x.to = p.to /\ s.curr_view >= x.msg.view
    BY <2>11, Zenon
  <2> DEFINE Formed(y) ==
           /\ y = s.generic_qc /\ {} = {}
           /\ get_leader_for_view(s.curr_view) = p.to
           /\ ~(s.curr_view = replica[p.to].curr_view /\ replica[p.to].leader_has_proposed)
           /\ y.view_number = s.curr_view - 1
           /\ Cardinality(y.partial_sigs) >= quorum_threshold
           /\ y.partial_sigs # {}
           /\ \A x \in y.partial_sigs : \E e \in Entry :
                /\ InWindow(p.to, {p}, e) /\ e.type = "Vote" /\ e.view = y.view_number
                /\ e.sender = x /\ e.node = y.block_hash
  <2>13. \A y \in {q} : Formed(y)
    <3>1. Formed(q)
      BY <2>1, <2>9, <2>10, Zenon
    <3> HIDE DEF Formed
    <3> QED BY <3>1, Zenon
  <2>14. s.generic_qc \in {q}
    BY <2>9, Zenon
  <2>15. StepFacts(p.to, {p}, s, NewViewToSelf(p), {}, {}, {q})
    BY <2>5, <2>6, <2>7, <2>8, <2>9, <2>11, <2>12, <2>13, <2>14, Zenon DEF StepFacts
  <2> QED BY <2>15, Zenon DEF SomeStep
<1> QED BY <1>3, <1>4, Zenon DEF LeaderCollect

\* The certificate a leader proposes with is its own or one it was sent.
LEMMA LeaderQC ==
    ASSUME NEW t \in ReplicaState, NEW q \in LeaderQCs(t)
    PROVE  LET s == WithLeaderQC(t, q) IN
           /\ q \in QC
           /\ \/ q = t.generic_qc
              \/ \E e \in t.messages : e \in Entry /\ e.type = "NewView" /\ q = e.justify
           /\ s \in ReplicaState /\ s.generic_qc = q /\ s.node_id = t.node_id
           /\ s.curr_view = t.curr_view /\ s.leader_has_proposed = t.leader_has_proposed
           /\ s.locked_qc = t.locked_qc /\ s.blockstore = t.blockstore
           /\ s.messages \subseteq t.messages
<1>1. \/ q = t.generic_qc
      \/ \E e \in t.messages : e \in Entry /\ e.type = "NewView" /\ q = e.justify
  BY Zenon DEF LeaderQCs, get_highest_qc_from_votes, ReplicaState
<1>2. q \in QC /\ q.view_number \in View
  BY <1>1, Zenon DEF ReplicaState, Entry, QC
<1>3. CASE q = t.generic_qc
  BY <1>1, <1>2, <1>3, Zenon DEF WithLeaderQC
<1>4. CASE q # t.generic_qc
  <2> DEFINE g == [t EXCEPT !.generic_qc = q]
  <2>1. /\ g \in ReplicaState /\ g.generic_qc = q /\ g.node_id = t.node_id
        /\ g.curr_view = t.curr_view /\ g.leader_has_proposed = t.leader_has_proposed
        /\ g.locked_qc = t.locked_qc /\ g.blockstore = t.blockstore
        /\ g.messages = t.messages
    BY <1>2, Zenon DEF ReplicaState
  <2>2. WithLeaderQC(t, q) = prune_before_view(g, q.view_number)
    BY <1>4, Zenon DEF WithLeaderQC
  <2> HIDE DEF g
  <2> QED BY <1>1, <1>2, <2>1, <2>2, Prune
<1> QED BY <1>3, <1>4, Zenon

\* leader_handle_message without the parent block is a step of the addressee.
LEMMA LeaderMissesParentStep ==
    ASSUME TypeOK, NEW p \in net, LeaderMissesParent(p)
    PROVE  SomeStep(p.to, {p})
<1> DEFINE t == Received(p)
<1>1. PICK q \in LeaderQCs(t) : Finish(p, WithLeaderQC(t, q), {}, {})
  BY Zenon DEF LeaderMissesParent
<1> DEFINE s == WithLeaderQC(t, q)
<1>2. t \in ReplicaState /\ t.node_id = p.to
  BY ReceivedFacts, Zenon
<1>3. get_leader_for_view(t.curr_view) = p.to
  BY Zenon DEF LeaderMissesParent, LeaderTurn
<1>4. /\ \/ q = t.generic_qc
         \/ \E e \in t.messages : e \in Entry /\ e.type = "NewView" /\ q = e.justify
      /\ s \in ReplicaState /\ s.generic_qc = q /\ s.node_id = t.node_id
      /\ s.curr_view = t.curr_view /\ s.leader_has_proposed = t.leader_has_proposed
      /\ s.locked_qc = t.locked_qc /\ s.blockstore = t.blockstore
      /\ s.messages \subseteq t.messages
  BY <1>2, LeaderQC, Zenon
<1>5. /\ NewViewToSelf(p) \subseteq Packet
      /\ \A x \in NewViewToSelf(p) : EntersView(p.to, s, x)
  BY <1>4, SelfNewView, Zenon
<1> HIDE DEF s, t
<1>6. StepFacts(p.to, {p}, s, NewViewToSelf(p), {}, {}, {})
  BY <1>1, <1>2, <1>3, <1>4, <1>5, ReceivedFacts, Zenon DEF StepFacts, InWindow, Finish, s, t
<1> QED BY <1>6, Zenon DEF SomeStep

\* leader_handle_message that proposes is a step of the addressee.
LEMMA LeaderProposeStep ==
    ASSUME TypeOK, NEW p \in net, LeaderPropose(p)
    PROVE  SomeStep(p.to, {p})
<1> DEFINE t == Received(p)
<1>1. PICK q \in LeaderQCs(t), valid \in Payloads :
         LET s1      == WithLeaderQC(t, q)
             parents == BlocksWithHash(s1, q.block_hash)
             block   == create_leaf(TheBlock(parents), valid, s1.curr_view, q)
             s2      == [insert_block(s1, block) EXCEPT !.leader_has_proposed = TRUE]
             res     == replica_handle_proposal(s2, block, p.to)
             s3      == IF res.vote THEN [res.self EXCEPT !.replica_has_voted = TRUE]
                        ELSE res.self
             prop    == [type |-> "Proposal", view |-> s1.curr_view,
                         sender |-> p.to, node |-> block]
             vote    == vote_message(s2, block)
         IN /\ parents # {}
            /\ Finish(p, s3,
                      {PacketTo(r, prop) : r \in Replicas \ {p.to}}
                        \cup (IF res.vote
                              THEN {PacketTo(get_leader_for_view(s2.curr_view + 1), vote)}
                              ELSE {}),
                      IF res.vote THEN {vote} ELSE {})
  BY Zenon DEF LeaderPropose
<1> DEFINE s1      == WithLeaderQC(t, q)
           parents == BlocksWithHash(s1, q.block_hash)
           block   == create_leaf(TheBlock(parents), valid, s1.curr_view, q)
           ins     == insert_block(s1, block)
           s2      == [ins EXCEPT !.leader_has_proposed = TRUE]
           res     == replica_handle_proposal(s2, block, p.to)
           s3      == IF res.vote THEN [res.self EXCEPT !.replica_has_voted = TRUE]
                      ELSE res.self
           prop    == [type |-> "Proposal", view |-> s1.curr_view,
                       sender |-> p.to, node |-> block]
           vote    == vote_message(s2, block)
           cast    == IF res.vote THEN {vote} ELSE {}
           sent    == {PacketTo(r, prop) : r \in Replicas \ {p.to}}
                        \cup (IF res.vote
                              THEN {PacketTo(get_leader_for_view(s2.curr_view + 1), vote)}
                              ELSE {})
<1>2. t \in ReplicaState /\ t.node_id = p.to /\ t.curr_view \in Nat /\ p.to \in Replicas
  BY ReceivedFacts, Zenon DEF ReplicaState, View
<1>3. get_leader_for_view(t.curr_view) = p.to /\ ~t.leader_has_proposed
  BY Zenon DEF LeaderPropose, LeaderTurn
<1>4. /\ q \in QC
      /\ \/ q = t.generic_qc
         \/ \E e \in t.messages : e \in Entry /\ e.type = "NewView" /\ q = e.justify
      /\ s1 \in ReplicaState /\ s1.generic_qc = q /\ s1.node_id = t.node_id
      /\ s1.curr_view = t.curr_view
      /\ s1.locked_qc = t.locked_qc /\ s1.blockstore = t.blockstore
      /\ s1.messages \subseteq t.messages
  BY <1>2, LeaderQC, Zenon
<1>5. parents # {} /\ Finish(p, s3, sent, cast)
  BY <1>1, Zenon
<1> HIDE DEF s1, t
<1>6. TheBlock(parents) \in t.blockstore
  BY <1>4, <1>5, TheBlockIn, Zenon DEF BlocksWithHash
<1>7. TheBlock(parents) \in Block
  BY <1>2, <1>6, Zenon DEF ReplicaState
<1>8. /\ block \in Block
      /\ block.justify = q
      /\ block.hash = Append(TheBlock(parents).hash, t.curr_view)
  <2> DEFINE par == TheBlock(parents)
  <2>1. par.hash \in Seq(View)
    BY <1>7, Zenon DEF Block, BlockHash
  <2>2. valid \in BOOLEAN
    BY PayloadsAssumption, Zenon
  <2> HIDE DEF par
  <2>3. Append(par.hash, t.curr_view) \in BlockHash
    BY <1>2, <2>1 DEF BlockHash, View
  <2>4. block = [hash |-> Append(par.hash, t.curr_view), justify |-> q, txs_valid |-> valid]
    BY <1>4, Zenon DEF create_leaf, par
  <2> QED BY <1>4, <2>2, <2>3, <2>4 DEF Block, par
<1> HIDE DEF block
<1>9. /\ ins \in ReplicaState /\ ins.node_id = p.to /\ ins.curr_view = t.curr_view
      /\ ins.generic_qc = q /\ ins.locked_qc = t.locked_qc
      /\ ins.messages \subseteq t.messages
      /\ ins.blockstore \subseteq t.blockstore \cup {block}
  BY <1>2, <1>4, <1>8, InsertBlock, Zenon
<1> HIDE DEF ins
<1>10. /\ s2 \in ReplicaState /\ s2.node_id = p.to /\ s2.curr_view = t.curr_view
       /\ s2.leader_has_proposed
       /\ s2.generic_qc = q /\ s2.locked_qc = t.locked_qc
       /\ s2.messages \subseteq t.messages
       /\ s2.blockstore \subseteq t.blockstore \cup {block}
  BY <1>9, Zenon DEF ReplicaState
<1> HIDE DEF s2
<1> DEFINE OK(u) == /\ u \in ReplicaState
                    /\ u.node_id = p.to /\ u.curr_view = t.curr_view
                    /\ u.leader_has_proposed
                    /\ u.generic_qc = q
                    /\ u.locked_qc \in {t.locked_qc} \cup {b.justify : b \in u.blockstore}
                    /\ u.messages \subseteq t.messages
                    /\ u.blockstore \subseteq t.blockstore \cup {block}
<1>11. OK(res.self) /\ res.vote \in BOOLEAN /\ (res.vote => block.txs_valid)
  BY <1>2, <1>8, <1>10, HandleProposal
<1> HIDE DEF res
<1>12. OK(s3)
  <2>1. OK([res.self EXCEPT !.replica_has_voted = TRUE])
    BY <1>11, Zenon DEF ReplicaState
  <2> QED BY <1>11, <2>1, Zenon
<1> HIDE DEF s3
<1>13. vote \in VoteMessage /\ vote.view = t.curr_view /\ vote.sender = p.to
  BY <1>2, <1>8, <1>10, Zenon DEF vote_message, VoteMessage, ReplicaState, Block
<1>14. \A x \in sent :
          /\ x \in Packet
          /\ \/ x.msg.type = "Vote" /\ x.msg \in cast
             \/ /\ x.msg.type = "Proposal"
                /\ x.msg.node = block /\ x.msg.view = t.curr_view
  <2>1. prop \in Message /\ prop.type = "Proposal" /\ prop.node = block /\ prop.view = t.curr_view
    BY <1>2, <1>4, <1>8, Zenon DEF Message, View
  <2> HIDE DEF prop
  <2>2. \A r \in Replicas : PacketTo(r, prop) \in Packet /\ PacketTo(r, prop).msg = prop
    BY <2>1, Zenon DEF PacketTo, Packet
  <2>3. s2.curr_view + 1 \in Nat
    BY <1>2, <1>10
  <2>4. vote \in Message /\ vote.type = "Vote"
    BY <1>13, Zenon DEF Message, VoteMessage
  <2> DEFINE vp == PacketTo(get_leader_for_view(s2.curr_view + 1), vote)
  <2> HIDE DEF vote
  <2>5. vp \in Packet /\ vp.msg = vote
    BY <2>3, <2>4, LeaderType, Zenon DEF PacketTo, Packet
  <2> HIDE DEF vp
  <2>6. sent = {PacketTo(r, prop) : r \in Replicas \ {p.to}} \cup (IF res.vote THEN {vp} ELSE {})
    BY Zenon DEF vp
  <2> HIDE DEF sent
  <2> QED BY <2>1, <2>2, <2>4, <2>5, <2>6, Zenon
<1>15. /\ NewViewToSelf(p) \subseteq Packet
       /\ \A x \in NewViewToSelf(p) : EntersView(p.to, s3, x)
  BY <1>12, SelfNewView, Zenon DEF t
<1>16. /\ cast \subseteq VoteMessage
       /\ \A v \in cast : /\ v.view = t.curr_view /\ v.sender = p.to
                          /\ VotesFor({p}, {block}, v)
  <2>1. vote.node = block.hash
    BY Zenon DEF vote_message
  <2>2. res.vote => VotesFor({p}, {block}, vote)
    BY <1>11, <2>1, Zenon DEF VotesFor
  <2> HIDE DEF vote
  <2> QED BY <1>13, <2>2, Zenon
<1> HIDE DEF sent, cast
<1>17. StepFacts(p.to, {p}, s3, NewViewToSelf(p) \cup sent, cast, {block}, {})
  BY <1>2, <1>3, <1>4, <1>5, <1>6, <1>8, <1>12, <1>14, <1>15, <1>16, ReceivedFacts, ZenonT(60)
     DEF StepFacts, InWindow, Finish, t
<1> QED BY <1>17, Zenon DEF SomeStep

-----------------------------------------------------------------------------
(* The first part of the inductive invariant of HotStuff: types, proposers, *)
(* the order of views, and the votes behind a certificate.                 *)

\* A certificate of an earlier view than v, or of genesis.
Older(q, v) == q.view_number = 0 \/ q.view_number < v

\* No replica holds a certificate or a message of its own future, and messages go
\* to the leader they are meant for.
PacketOrder(p) ==
    /\ p.msg.type = "NewView" => /\ p.to = get_leader_for_view(p.msg.view + 1)
                                 /\ p.msg.justify.view_number <= p.msg.view
    /\ p.msg.type # "NewView" => p.msg.view >= 1
    /\ p.msg.type = "Proposal" => Older(p.msg.node.justify, p.msg.view)

StateOrder(r, s) ==
    /\ Older(s.generic_qc, s.curr_view) /\ Older(s.locked_qc, s.curr_view)
    /\ \A b \in s.blockstore : Older(b.justify, s.curr_view)
    /\ \A e \in s.messages :
         /\ e.view <= s.curr_view
         /\ e.type = "NewView" => /\ r = get_leader_for_view(e.view + 1)
                                  /\ e.justify.view_number <= e.view
         /\ e.type = "Vote" => e.view >= 1

ViewOrder ==
    /\ \A p \in net : PacketOrder(p)
    /\ \A r \in Replicas : StateOrder(r, replica[r])

\* Every step of the system is a step of one replica.
LEMMA NextStep ==
    ASSUME TypeOK, ProposerLeads, Next
    PROVE  \E r \in Replicas, heard \in SUBSET net :
             /\ SomeStep(r, heard)
<1>1. CASE \E r \in Replicas : Timeout(r)
  BY <1>1, TimeoutStep, Zenon
<1>2. ASSUME NEW p \in net, HandleMessage(p)
      PROVE  SomeStep(p.to, {p})
  BY Zenon, <1>2, LeaderProposeStep, LeaderMissesParentStep, LeaderCollectStep,
     ReplicaNewViewStep, ReplicaProposalStep, ReplicaVoteStep DEF HandleMessage
<1>3. \A p \in net : p.to \in Replicas /\ {p} \in SUBSET net
  BY Zenon DEF TypeOK, Packet
<1> QED BY <1>1, <1>2, <1>3, Zenon DEF Next

\* Type correctness is kept by every step.
LEMMA TypeStep ==
    ASSUME TypeOK, NEW r, NEW heard, NEW s, NEW sent, NEW cast, NEW New, NEW Fresh,
           StepFacts(r, heard, s, sent, cast, New, Fresh)
    PROVE  TypeOK'
<1>1. replica' \in [Replicas -> ReplicaState] /\ \A x \in Replicas : replica'[x].node_id = x
  BY Zenon DEF TypeOK, StepFacts
<1>2. net' \subseteq Packet
  BY Zenon DEF TypeOK, StepFacts
<1>3. votes' \subseteq VoteMessage
  BY Zenon DEF TypeOK, StepFacts, VoteMessage
<1> QED BY <1>1, <1>2, <1>3, Zenon DEF TypeOK, VoteMessage

\* Only the leader of a view proposes in it, on every path into the view.
LEMMA ProposerStep ==
    ASSUME TypeOK, ProposerLeads,
           NEW r, NEW heard, NEW s, NEW sent, NEW cast, NEW New, NEW Fresh,
           StepFacts(r, heard, s, sent, cast, New, Fresh)
    PROVE  ProposerLeads'
<1> SUFFICES ASSUME NEW x \in Replicas, replica'[x].leader_has_proposed
             PROVE  get_leader_for_view(replica'[x].curr_view) = x
  BY Zenon DEF ProposerLeads, get_leader_for_view
<1>1. CASE x # r
  BY <1>1, Zenon DEF TypeOK, StepFacts, ProposerLeads
<1>2. CASE x = r
  <2>1. replica'[x] = s
    BY <1>2, Zenon DEF TypeOK, StepFacts
  <2> QED BY <1>2, <2>1 DEF StepFacts, ProposerLeads
<1> QED BY <1>1, <1>2, Zenon

\* Nobody proposes or certifies in view 0: its leader hears nothing in it.
LEMMA NoWorkInViewZero ==
    ASSUME TypeOK, ViewOrder,
           NEW r, NEW heard, NEW s, NEW sent, NEW cast, NEW New, NEW Fresh,
           StepFacts(r, heard, s, sent, cast, New, Fresh), New \cup Fresh # {}
    PROVE  s.curr_view >= 1
<1>1. s.curr_view \in Nat
  BY Zenon DEF StepFacts, ReplicaState, View
<1> SUFFICES ASSUME s.curr_view = 0 PROVE FALSE
  BY <1>1
<1>2. PICK p \in heard : p \in net /\ p.to = r /\ p.msg.view <= 0
  BY Zenon DEF StepFacts
<1>3. p.msg.view \in Nat
  BY <1>2, Zenon DEF TypeOK, Packet, Message, View
<1>4. p.msg.view = 0 /\ p.msg.type = "NewView" /\ r = get_leader_for_view(0 + 1)
  BY <1>2, <1>3 DEF ViewOrder, PacketOrder
<1>5. get_leader_for_view(0) = r
  BY Zenon DEF StepFacts
<1> QED BY <1>4, <1>5, NextLeaderDiffers, Zenon

\* The order of views is kept by every step.
LEMMA OrderStep ==
    ASSUME TypeOK, ViewOrder,
           NEW r, NEW heard, NEW s, NEW sent, NEW cast, NEW New, NEW Fresh,
           StepFacts(r, heard, s, sent, cast, New, Fresh)
    PROVE  ViewOrder'
<1> DEFINE o == replica[r]
<1>1. /\ r \in Replicas /\ o \in ReplicaState /\ s \in ReplicaState
      /\ o.curr_view \in Nat /\ s.curr_view \in Nat /\ s.curr_view >= o.curr_view
  BY Zenon DEF TypeOK, StepFacts, ReplicaState, View
<1>2. \A q \in QC : q.view_number \in Nat
  BY Zenon DEF QC, View
<1>3. \A e \in Entry : e.view \in Nat /\ (e.type = "NewView" => e.justify \in QC)
  BY Zenon DEF Entry, View
<1>4. \A p \in net : p \in Packet /\ p.msg \in Message /\ p.msg.view \in Nat
  BY Zenon DEF TypeOK, Packet, Message, View
<1>5. \A e \in Entry : InWindow(r, heard, e) =>
         /\ e.view <= s.curr_view
         /\ e.type = "NewView" => /\ r = get_leader_for_view(e.view + 1)
                                  /\ e.justify.view_number <= e.view
         /\ e.type = "Vote" => e.view >= 1
  <2> SUFFICES ASSUME NEW e \in Entry, InWindow(r, heard, e)
               PROVE  /\ e.view <= s.curr_view
                      /\ e.type = "NewView" => /\ r = get_leader_for_view(e.view + 1)
                                               /\ e.justify.view_number <= e.view
                      /\ e.type = "Vote" => e.view >= 1
    BY Zenon
  <2>1. CASE e \in o.messages
    BY <1>1, <1>3, <2>1 DEF ViewOrder, StateOrder
  <2>2. CASE \E p \in heard : EntryOf(e, p.msg)
    <3>1. PICK p \in heard : EntryOf(e, p.msg)
      BY <2>2, Zenon
    <3>2. p \in net /\ p.to = r /\ s.curr_view >= p.msg.view
      BY Zenon DEF StepFacts
    <3> QED BY <3>1, <3>2, Zenon DEF EntryOf, ViewOrder, PacketOrder
  <2> QED BY <2>1, <2>2, Zenon DEF InWindow
<1>6. New \cup Fresh # {} => s.curr_view >= 1
  BY NoWorkInViewZero, Zenon
<1>7. Older(s.generic_qc, s.curr_view)
  <2> DEFINE g == s.generic_qc
  <2>1. g \in QC /\ o.generic_qc \in QC
    BY <1>1, Zenon DEF ReplicaState
  <2>2. CASE g = o.generic_qc
    BY <1>1, <1>2, <2>1, <2>2, SMTT(40) DEF ViewOrder, StateOrder, Older
  <2>3. CASE g \in Fresh
    BY <1>1, <1>2, <2>1, <2>3 DEF StepFacts, Older
  <2>4. CASE \E p \in heard : p.msg.type = "Proposal" /\ g = p.msg.node.justify
    <3>1. PICK p \in heard : p.msg.type = "Proposal" /\ g = p.msg.node.justify
      BY <2>4, Zenon
    <3>2. p \in net /\ s.curr_view >= p.msg.view
      BY Zenon DEF StepFacts
    <3>3. Older(g, p.msg.view)
      BY <3>1, <3>2, Zenon DEF ViewOrder, PacketOrder
    <3> QED BY <1>1, <1>2, <1>4, <2>1, <3>2, <3>3, SMTT(40) DEF Older
  <2>5. CASE \E e \in Entry : /\ InWindow(r, heard, e) /\ e.type = "NewView"
                              /\ g = e.justify /\ get_leader_for_view(s.curr_view) = r
    <3>1. PICK e \in Entry : /\ InWindow(r, heard, e) /\ e.type = "NewView"
                             /\ g = e.justify /\ get_leader_for_view(s.curr_view) = r
      BY <2>5, Zenon
    <3>2. e.view <= s.curr_view /\ r = get_leader_for_view(e.view + 1) /\ g.view_number <= e.view
      BY <1>5, <3>1, Zenon
    <3>3. e.view # s.curr_view
      BY <1>1, <3>1, <3>2, NextLeaderDiffers, Zenon
    <3> QED BY <1>1, <1>2, <1>3, <2>1, <3>2, <3>3 DEF Older
  <2> QED BY <2>2, <2>3, <2>4, <2>5, Zenon DEF StepFacts
<1>8. \A b \in s.blockstore : Older(b.justify, s.curr_view)
  <2> SUFFICES ASSUME NEW b \in s.blockstore PROVE Older(b.justify, s.curr_view)
    BY Zenon
  <2>1. b \in Block /\ b.justify \in QC
    BY <1>1, Zenon DEF ReplicaState, Block
  <2>2. CASE b \in o.blockstore
    BY <1>1, <1>2, <2>1, <2>2 DEF ViewOrder, StateOrder, Older
  <2>3. CASE b \in New
    BY <1>7, <2>3, Zenon DEF StepFacts
  <2>4. CASE \E p \in heard : p.msg.type = "Proposal" /\ b = p.msg.node
    <3>1. PICK p \in heard : p.msg.type = "Proposal" /\ b = p.msg.node
      BY <2>4, Zenon
    <3>2. p \in net /\ s.curr_view >= p.msg.view
      BY Zenon DEF StepFacts
    <3>3. Older(b.justify, p.msg.view)
      BY <3>1, <3>2, Zenon DEF ViewOrder, PacketOrder
    <3> QED BY <1>1, <1>2, <1>4, <2>1, <3>2, <3>3 DEF Older
  <2> QED BY <2>2, <2>3, <2>4, Zenon DEF StepFacts
<1>9. Older(s.locked_qc, s.curr_view)
  <2>1. s.locked_qc \in QC /\ o.locked_qc \in QC /\ Older(o.locked_qc, o.curr_view)
    BY <1>1, Zenon DEF ReplicaState, ViewOrder, StateOrder
  <2>2. Older(o.locked_qc, s.curr_view)
    BY <1>1, <1>2, <2>1 DEF Older
  <2> QED BY <1>8, <2>2, Zenon DEF StepFacts
<1>10. StateOrder(r, s)
  <2>1. \A e \in s.messages : e \in Entry /\ InWindow(r, heard, e)
    BY <1>1, Zenon DEF StepFacts, ReplicaState
  <2> QED BY <1>5, <1>7, <1>8, <1>9, <2>1, Zenon DEF StateOrder
<1>11. \A p \in sent : PacketOrder(p)
  <2> SUFFICES ASSUME NEW p \in sent PROVE PacketOrder(p)
    BY Zenon
  <2>1. CASE EntersView(r, s, p)
    <3>1. PICK v \in Nat : /\ o.curr_view < v /\ v <= s.curr_view
                           /\ p.msg.view = v - 1 /\ p.to = get_leader_for_view(v)
      BY <2>1, Zenon DEF EntersView
    <3>2. p.msg.type = "NewView" /\ p.msg.justify = o.generic_qc
      BY <2>1, Zenon DEF EntersView
    <3>3. o.generic_qc \in QC /\ Older(o.generic_qc, o.curr_view)
      BY <1>1, Zenon DEF ReplicaState, ViewOrder, StateOrder
    <3>4. p.msg.view + 1 = v /\ o.generic_qc.view_number <= v - 1
      BY <1>1, <1>2, <3>1, <3>3 DEF Older
    <3> QED BY <3>1, <3>2, <3>4, Zenon DEF PacketOrder
  <2>2. CASE p.msg.type = "Vote" /\ p.msg \in cast
    <3>1. p.msg.view = s.curr_view /\ (New # {} \/ \E x \in heard : x.msg.type = "Proposal")
      BY <2>2, Zenon DEF StepFacts, VotesFor
    <3>2. CASE New # {}
      BY <1>6, <2>2, <3>1, <3>2, Zenon DEF PacketOrder
    <3>3. CASE \E x \in heard : x.msg.type = "Proposal"
      <4>1. PICK x \in heard : x.msg.type = "Proposal"
        BY <3>3, Zenon
      <4>2. x \in net /\ s.curr_view >= x.msg.view
        BY Zenon DEF StepFacts
      <4>3. x.msg.view >= 1
        BY <4>1, <4>2, Zenon DEF ViewOrder, PacketOrder
      <4>4. s.curr_view >= 1
        BY <1>1, <1>4, <4>2, <4>3
      <4> QED BY <2>2, <3>1, <4>4, Zenon DEF PacketOrder
    <3> QED BY <3>1, <3>2, <3>3, Zenon
  <2>3. CASE p.msg.type = "Proposal" /\ p.msg.node \in New /\ p.msg.view = s.curr_view
    BY <1>6, <1>7, <2>3, Zenon DEF StepFacts, PacketOrder
  <2> QED BY <2>1, <2>2, <2>3, Zenon DEF StepFacts
<1>12. \A p \in net' : PacketOrder(p)
  BY <1>11, Zenon DEF StepFacts, ViewOrder
<1>13. \A x \in Replicas : StateOrder(x, replica'[x])
  BY <1>1, <1>10, Zenon DEF StepFacts, ViewOrder, TypeOK
<1> QED BY <1>12, <1>13, Zenon DEF ViewOrder, PacketOrder, StateOrder, Older, get_leader_for_view

-----------------------------------------------------------------------------
(* Certificates and blocks, wherever they are.                              *)

\* Keeps leaves out generic_qc, the only place where a leader puts a certificate
\* it has just formed.
Keeps(s, q) ==
    \/ q = s.locked_qc
    \/ \E b \in s.blockstore : q = b.justify
    \/ \E e \in s.messages : e.type = "NewView" /\ q = e.justify
Sent(q) ==
    \E p \in net : \/ p.msg.type = "NewView" /\ q = p.msg.justify
                   \/ p.msg.type = "Proposal" /\ q = p.msg.node.justify
Somewhere(q) ==
    \/ Sent(q)
    \/ \E r \in Replicas : q = replica[r].generic_qc \/ Keeps(replica[r], q)

\* Somewhere is membership in AllQCs.
LEMMA SomewhereIsAllQCs ==
    \A q : q \in AllQCs <=> Somewhere(q)
  BY DEF AllQCs, QCsSent, QCsOf, Somewhere, Sent, Keeps

\* Where a certificate that a replica holds or sends after a step comes from.
LEMMA QCOrigin ==
    ASSUME TypeOK,
           NEW r, NEW heard, NEW s, NEW sent, NEW cast, NEW New, NEW Fresh,
           StepFacts(r, heard, s, sent, cast, New, Fresh), NEW q
    PROVE  /\ q = s.generic_qc =>
                q = replica[r].generic_qc \/ q \in Fresh \/ Sent(q) \/ Keeps(replica[r], q)
           /\ Keeps(s, q) => Keeps(replica[r], q) \/ Sent(q) \/ (New # {} /\ q = s.generic_qc)
           /\ Sent(q)' => \/ Sent(q) \/ (New # {} /\ q = s.generic_qc)
                          \/ q = replica[r].generic_qc /\ replica[r].curr_view < s.curr_view
<1> DEFINE o == replica[r]
<1>1. \A e \in Entry : InWindow(r, heard, e) /\ e.type = "NewView"
                         => Keeps(o, e.justify) \/ Sent(e.justify)
  <2> SUFFICES ASSUME NEW e \in Entry, InWindow(r, heard, e), e.type = "NewView"
               PROVE  Keeps(o, e.justify) \/ Sent(e.justify)
    BY Zenon
  <2>1. CASE e \in o.messages
    BY <2>1, Zenon DEF Keeps
  <2>2. CASE \E p \in heard : EntryOf(e, p.msg)
    BY <2>2 DEF StepFacts, EntryOf, Sent
  <2> QED BY <2>1, <2>2, Zenon DEF InWindow
<1>2. \A p \in heard : p.msg.type = "Proposal" => Sent(p.msg.node.justify)
  BY ZenonT(40) DEF StepFacts, Sent
<1>3. q = s.generic_qc => q = o.generic_qc \/ q \in Fresh \/ Sent(q) \/ Keeps(o, q)
  BY <1>1, <1>2 DEF StepFacts
<1>4. \A b \in s.blockstore :
         Keeps(o, b.justify) \/ Sent(b.justify) \/ (New # {} /\ b.justify = s.generic_qc)
  <2> SUFFICES ASSUME NEW b \in s.blockstore
               PROVE  Keeps(o, b.justify) \/ Sent(b.justify)
                        \/ (New # {} /\ b.justify = s.generic_qc)
    BY Zenon
  <2>1. CASE b \in o.blockstore
    BY <2>1, Zenon DEF Keeps
  <2>2. CASE b \in New
    BY <2>2, Zenon DEF StepFacts
  <2>3. CASE \E p \in heard : p.msg.type = "Proposal" /\ b = p.msg.node
    BY <1>2, <2>3, Zenon
  <2> QED BY <2>1, <2>2, <2>3, Zenon DEF StepFacts
<1>5. Keeps(s, q) => Keeps(o, q) \/ Sent(q) \/ (New # {} /\ q = s.generic_qc)
  <2>1. CASE q = s.locked_qc
    <3>1. q = o.locked_qc \/ \E b \in s.blockstore : q = b.justify
      BY <2>1, Zenon DEF StepFacts
    <3> QED BY <1>4, <3>1, Zenon DEF Keeps
  <2>2. CASE \E b \in s.blockstore : q = b.justify
    BY <1>4, <2>2, Zenon
  <2>3. CASE \E e \in s.messages : e.type = "NewView" /\ q = e.justify
    <3>1. \A e \in s.messages : e \in Entry /\ InWindow(r, heard, e)
      BY Zenon DEF StepFacts, ReplicaState
    <3> QED BY <1>1, <2>3, <3>1, Zenon
  <2> QED BY <2>1, <2>2, <2>3, Zenon DEF Keeps
<1>6. Sent(q)' => \/ Sent(q) \/ (New # {} /\ q = s.generic_qc)
                  \/ q = o.generic_qc /\ o.curr_view < s.curr_view
  <2> SUFFICES ASSUME NEW p \in net',
                      \/ p.msg.type = "NewView" /\ q = p.msg.justify
                      \/ p.msg.type = "Proposal" /\ q = p.msg.node.justify
               PROVE  \/ Sent(q) \/ (New # {} /\ q = s.generic_qc)
                      \/ q = o.generic_qc /\ o.curr_view < s.curr_view
    BY Zenon DEF Sent
  <2>1. CASE p \in net
    BY <2>1, Zenon DEF Sent
  <2>2. CASE p \in sent
    <3>1. CASE EntersView(r, s, p)
      <4>1. p.msg.type = "NewView" /\ p.msg.justify = o.generic_qc
        BY <3>1, Zenon DEF EntersView
      <4>2. o.curr_view \in Nat /\ s.curr_view \in Nat
        BY Zenon DEF TypeOK, StepFacts, ReplicaState, View
      <4>3. o.curr_view < s.curr_view
        BY <3>1, <4>2 DEF EntersView
      <4> QED BY <4>1, <4>3, Zenon
    <3>2. CASE p.msg.type = "Proposal" /\ p.msg.node \in New
      BY <3>2, Zenon DEF StepFacts
    <3> QED BY <2>2, <3>1, <3>2, Zenon DEF StepFacts
  <2> QED BY <2>1, <2>2, Zenon DEF StepFacts
<1> QED BY <1>3, <1>5, <1>6, Zenon

\* A certificate is an old one or one that was formed in the step.
LEMMA QCsAfter ==
    ASSUME TypeOK,
           NEW r, NEW heard, NEW s, NEW sent, NEW cast, NEW New, NEW Fresh,
           StepFacts(r, heard, s, sent, cast, New, Fresh), NEW q, Somewhere(q)'
    PROVE  Somewhere(q) \/ q \in Fresh
<1>1. r \in Replicas /\ replica'[r] = s /\ \A x \in Replicas : x # r => replica'[x] = replica[x]
  BY Zenon DEF StepFacts, TypeOK
<1>2. q = s.generic_qc => Somewhere(q) \/ q \in Fresh
  BY <1>1, QCOrigin, Zenon DEF Somewhere
<1>3. Keeps(s, q) => Somewhere(q) \/ q \in Fresh
  BY <1>1, <1>2, QCOrigin, Zenon DEF Somewhere
<1>4. Sent(q)' => Somewhere(q) \/ q \in Fresh
  BY <1>1, <1>2, QCOrigin, Zenon DEF Somewhere
<1>5. Sent(q)' \/ \E x \in Replicas : q = replica'[x].generic_qc \/ Keeps(replica'[x], q)
  BY Zenon DEF Somewhere, Keeps
<1>6. ASSUME NEW x \in Replicas, q = replica'[x].generic_qc \/ Keeps(replica'[x], q)
      PROVE  Somewhere(q) \/ q \in Fresh
  BY <1>1, <1>2, <1>3, <1>6, Zenon DEF Somewhere
<1> QED BY <1>4, <1>5, <1>6, Zenon

\* Votes on their way and votes in a window were signed.
VotesSigned ==
    /\ \A p \in net : p.msg.type = "Vote" => p.msg \in votes
    /\ \A r \in Replicas : \A e \in replica[r].messages :
         e.type = "Vote" => [type |-> "Vote", view |-> e.view, sender |-> e.sender,
                             node |-> e.node] \in votes

\* VotesSigned and QCBacked are kept by every step.
LEMMA BackedStep ==
    ASSUME TypeOK, VotesSigned, QCBacked,
           NEW r, NEW heard, NEW s, NEW sent, NEW cast, NEW New, NEW Fresh,
           StepFacts(r, heard, s, sent, cast, New, Fresh)
    PROVE  VotesSigned' /\ QCBacked'
<1> DEFINE Signed(v, x, h) == [type |-> "Vote", view |-> v, sender |-> x, node |-> h]
<1>1. r \in Replicas /\ replica'[r] = s /\ \A x \in Replicas : x # r => replica'[x] = replica[x]
  BY Zenon DEF StepFacts, TypeOK
<1>2. votes \subseteq votes'
  BY Zenon DEF StepFacts
<1>3. \A e \in Entry : InWindow(r, heard, e) /\ e.type = "Vote"
                         => Signed(e.view, e.sender, e.node) \in votes
  <2> SUFFICES ASSUME NEW e \in Entry, InWindow(r, heard, e), e.type = "Vote"
               PROVE  Signed(e.view, e.sender, e.node) \in votes
    BY Zenon
  <2>1. CASE e \in replica[r].messages
    BY <1>1, <2>1, Zenon DEF VotesSigned
  <2>2. CASE \E p \in heard : EntryOf(e, p.msg)
    <3>1. PICK p \in heard : EntryOf(e, p.msg)
      BY <2>2, Zenon
    <3>2. p \in net /\ p.msg.type = "Vote" /\ p.msg \in Message
      BY <3>1, Zenon DEF StepFacts, EntryOf, TypeOK, Packet
    <3>3. p.msg \in VoteMessage
      BY <3>2, Zenon DEF Message, VoteMessage
    <3>4. p.msg = Signed(e.view, e.sender, e.node)
      BY <3>1, <3>2, <3>3, Zenon DEF EntryOf, VoteMessage
    <3> QED BY <3>2, <3>4, Zenon DEF VotesSigned
  <2> QED BY <2>1, <2>2, Zenon DEF InWindow
<1>4. VotesSigned'
  <2>1. \A p \in net' : p.msg.type = "Vote" => p.msg \in votes'
    <3> SUFFICES ASSUME NEW p \in net', p.msg.type = "Vote" PROVE p.msg \in votes'
      BY Zenon
    <3>1. CASE p \in net
      BY <1>2, <3>1, Zenon DEF VotesSigned
    <3>2. CASE p \in sent
      BY <3>2, Zenon DEF StepFacts, EntersView
    <3> QED BY <3>1, <3>2, Zenon DEF StepFacts
  <2>2. \A e \in s.messages : e.type = "Vote" => Signed(e.view, e.sender, e.node) \in votes'
    BY <1>2, <1>3, Zenon DEF StepFacts, ReplicaState
  <2>3. \A x \in Replicas : \A e \in replica'[x].messages :
           e.type = "Vote" => Signed(e.view, e.sender, e.node) \in votes'
    BY <1>1, <1>2, <2>2, Zenon DEF VotesSigned
  <2> QED BY <2>1, <2>3, Zenon DEF VotesSigned
<1>5. QCBacked'
  <2> SUFFICES ASSUME NEW q, Somewhere(q)', q # GenesisQC
               PROVE  /\ Cardinality(q.partial_sigs) >= quorum_threshold
                      /\ \A x \in q.partial_sigs :
                           Signed(q.view_number, x, q.block_hash) \in votes'
    <3>1. \A q : (q \in AllQCs <=> Somewhere(q))'
      BY DEF AllQCs, QCsSent, QCsOf, Somewhere, Sent, Keeps
    <3> QED BY <3>1, ZenonT(40) DEF QCBacked, quorum_threshold, GenesisQC
  <2>1. CASE Somewhere(q)
    BY <1>2, <2>1, SomewhereIsAllQCs, Zenon DEF QCBacked
  <2>2. CASE q \in Fresh
    <3>1. /\ Cardinality(q.partial_sigs) >= quorum_threshold
          /\ \A x \in q.partial_sigs : \E e \in Entry :
               /\ InWindow(r, heard, e) /\ e.type = "Vote" /\ e.view = q.view_number
               /\ e.sender = x /\ e.node = q.block_hash
      BY <2>2, Zenon DEF StepFacts
    <3> QED BY <1>2, <1>3, <3>1, Zenon
  <2> QED BY <2>1, <2>2, QCsAfter, Zenon
<1> QED BY <1>4, <1>5, Zenon

-----------------------------------------------------------------------------
(* One writer per view                                                     *)

\* The replica has led view v for the last time.
Done(r, v) ==
    \/ replica[r].curr_view > v
    \/ replica[r].curr_view = v /\ replica[r].leader_has_proposed

\* A replica that is done with a view stays so.
LEMMA DoneStep ==
    ASSUME TypeOK,
           NEW r, NEW heard, NEW s, NEW sent, NEW cast, NEW New, NEW Fresh,
           StepFacts(r, heard, s, sent, cast, New, Fresh),
           NEW x \in Replicas, NEW v \in Nat, Done(x, v)
    PROVE  Done(x, v)'
<1>1. CASE x # r
  <2>1. replica'[x] = replica[x]
    BY <1>1, Zenon DEF StepFacts, TypeOK
  <2> QED BY <2>1, Zenon DEF Done
<1>2. CASE x = r
  <2>1. replica'[x] = s
    BY <1>2, Zenon DEF StepFacts, TypeOK
  <2>2. /\ replica[x].curr_view \in Nat /\ s.curr_view \in Nat
        /\ s.curr_view >= replica[x].curr_view
        /\ s.curr_view = replica[x].curr_view /\ replica[x].leader_has_proposed
             => s.leader_has_proposed
    BY <1>2, Zenon DEF StepFacts, TypeOK, ReplicaState, View
  <2>3. CASE replica[x].curr_view > v
    BY <2>1, <2>2, <2>3 DEF Done
  <2>4. CASE replica[x].curr_view = v /\ replica[x].leader_has_proposed
    <3>1. CASE s.curr_view = v
      BY <2>1, <2>2, <2>4, <3>1, Zenon DEF Done
    <3>2. CASE s.curr_view > v
      BY <2>1, <3>2, Zenon DEF Done
    <3> QED BY <2>2, <2>4, <3>1, <3>2
  <2> QED BY <2>3, <2>4, Zenon DEF Done
<1> QED BY <1>1, <1>2, Zenon

\* The leader of a block's view is done with that view.
BlocksProposed ==
    \A b \in AllBlocks :
        /\ b.hash = GenesisHash => b = GenesisBlock
        /\ b.hash # GenesisHash =>
             ViewOf(b.hash) >= 1 /\ Done(get_leader_for_view(ViewOf(b.hash)), ViewOf(b.hash))

\* Blocks anywhere are well formed.
LEMMA BlockTypes ==
    ASSUME TypeOK, NEW b \in AllBlocks
    PROVE  b \in Block /\ ViewOf(b.hash) \in Nat
<1>1. b \in Block
  BY DEF TypeOK, AllBlocks, Packet, Message, ReplicaState
<1>2. b.hash \in Seq(Nat)
  BY <1>1, Zenon DEF Block, BlockHash, View
<1>3. CASE b.hash = GenesisHash
  BY <1>1, <1>3, Zenon DEF ViewOf
<1>4. CASE b.hash # GenesisHash
  BY <1>1, <1>2, <1>4 DEF ViewOf, GenesisHash
<1> QED BY <1>3, <1>4, Zenon

\* A block is an old one or one that was proposed in the step.
LEMMA BlocksAfter ==
    ASSUME TypeOK,
           NEW r, NEW heard, NEW s, NEW sent, NEW cast, NEW New, NEW Fresh,
           StepFacts(r, heard, s, sent, cast, New, Fresh)
    PROVE  \A b \in AllBlocks' : b \in AllBlocks \/ b \in New
<1>1. r \in Replicas /\ replica'[r] = s /\ \A x \in Replicas : x # r => replica'[x] = replica[x]
  BY ZenonT(40) DEF StepFacts, TypeOK
<1>2. \A b \in s.blockstore : b \in AllBlocks \/ b \in New
  BY <1>1 DEF StepFacts, AllBlocks
<1>3. \A p \in net' : p.msg.type = "Proposal" => p.msg.node \in AllBlocks \/ p.msg.node \in New
  <2> SUFFICES ASSUME NEW p \in net', p.msg.type = "Proposal"
               PROVE  p.msg.node \in AllBlocks \/ p.msg.node \in New
    BY Zenon
  <2>1. CASE p \in net
    BY <2>1, Zenon DEF AllBlocks
  <2>2. CASE p \in sent
    BY <2>2, Zenon DEF StepFacts, EntersView
  <2> QED BY <2>1, <2>2, Zenon DEF StepFacts
<1>4. \A b \in AllBlocks' : b \in AllBlocks \/ b \in New
  <2> SUFFICES ASSUME NEW b \in AllBlocks' PROVE b \in AllBlocks \/ b \in New
    BY Zenon
  <2>1. CASE \E p \in net' : p.msg.type = "Proposal" /\ b = p.msg.node
    BY <1>3, <2>1, Zenon
  <2>2. CASE \E x \in Replicas : b \in replica'[x].blockstore
    <3>1. PICK x \in Replicas : b \in replica'[x].blockstore
      BY <2>2, Zenon
    <3>2. CASE x = r
      BY <1>1, <1>2, <3>1, <3>2, Zenon
    <3>3. CASE x # r
      BY <1>1, <3>1, <3>3, Zenon DEF AllBlocks
    <3> QED BY <3>2, <3>3, Zenon
  <2> QED BY <2>1, <2>2, Zenon DEF AllBlocks
<1> QED BY <1>4, Zenon

\* A block that is proposed in a step is the first of its view.
LEMMA NewBlock ==
    ASSUME TypeOK, ViewOrder,
           NEW r, NEW heard, NEW s, NEW sent, NEW cast, NEW New, NEW Fresh,
           StepFacts(r, heard, s, sent, cast, New, Fresh),
           NEW b \in New
    PROVE  /\ b.hash # GenesisHash /\ ViewOf(b.hash) = s.curr_view
           /\ s.curr_view \in Nat /\ s.curr_view >= 1
           /\ get_leader_for_view(s.curr_view) = r
           /\ s.leader_has_proposed
           /\ ~Done(r, s.curr_view)
<1>1. r \in Replicas
  BY Zenon DEF StepFacts
<1>2. PICK par \in replica[r].blockstore : b.hash = Append(par.hash, s.curr_view)
  BY Zenon DEF StepFacts
<1>3. par.hash \in Seq(Nat) /\ s.curr_view \in Nat
  BY <1>1 DEF StepFacts, TypeOK, ReplicaState, Block, BlockHash, View
<1>4. b.hash # GenesisHash /\ ViewOf(b.hash) = s.curr_view
  <2> DEFINE h == par.hash
  <2>1. /\ Append(h, s.curr_view) # << >>
        /\ Append(h, s.curr_view)[Len(Append(h, s.curr_view))] = s.curr_view
    BY <1>3, SMTT(40)
  <2> QED BY <1>2, <2>1, Zenon DEF ViewOf, GenesisHash
<1>5. s.curr_view >= 1
  BY NoWorkInViewZero, Zenon
<1>6. /\ get_leader_for_view(s.curr_view) = r /\ s.leader_has_proposed
      /\ ~(s.curr_view = replica[r].curr_view /\ replica[r].leader_has_proposed)
      /\ s.curr_view >= replica[r].curr_view
  BY Zenon DEF StepFacts
<1>7. replica[r].curr_view \in Nat
  BY <1>1, Zenon DEF TypeOK, ReplicaState, View
<1>8. ~Done(r, s.curr_view)
  BY <1>3, <1>6, <1>7 DEF Done
<1> QED BY <1>3, <1>4, <1>5, <1>6, <1>8, Zenon

\* OneBlockPerView is kept by every step.
LEMMA BlocksStep ==
    ASSUME TypeOK, TypeOK', ViewOrder, BlocksProposed, OneBlockPerView,
           NEW r, NEW heard, NEW s, NEW sent, NEW cast, NEW New, NEW Fresh,
           StepFacts(r, heard, s, sent, cast, New, Fresh)
    PROVE  BlocksProposed' /\ OneBlockPerView'
<1>1. r \in Replicas /\ replica'[r] = s /\ \A x \in Replicas : x # r => replica'[x] = replica[x]
  BY ZenonT(40) DEF StepFacts, TypeOK
<1>2. \A b \in AllBlocks' : b \in AllBlocks \/ b \in New
  BY BlocksAfter, Zenon
<1>3. ASSUME NEW b \in New
      PROVE  /\ b.hash # GenesisHash /\ ViewOf(b.hash) = s.curr_view
             /\ s.curr_view \in Nat /\ s.curr_view >= 1
             /\ get_leader_for_view(s.curr_view) = r
             /\ s.leader_has_proposed
             /\ ~Done(r, s.curr_view)
  BY <1>3, NewBlock, Zenon
<1>4. BlocksProposed'
  <2> SUFFICES ASSUME NEW b \in AllBlocks'
               PROVE  /\ b.hash = GenesisHash => b = GenesisBlock
                      /\ b.hash # GenesisHash =>
                           /\ ViewOf(b.hash) >= 1
                           /\ Done(get_leader_for_view(ViewOf(b.hash)), ViewOf(b.hash))'
    BY Zenon DEF BlocksProposed, Done, ViewOf, GenesisHash, GenesisBlock, GenesisQC, get_leader_for_view
  <2>1. CASE b \in AllBlocks
    <3>1. ViewOf(b.hash) \in Nat
      BY <2>1, BlockTypes, Zenon
    <3>2. get_leader_for_view(ViewOf(b.hash)) \in Replicas
      BY <3>1, LeaderType, Zenon
    <3> QED BY <2>1, <3>1, <3>2, DoneStep, Zenon DEF BlocksProposed
  <2>2. CASE b \in New
    <3>1. Done(r, s.curr_view)'
      BY <1>1, <1>3, <2>2, Zenon DEF Done
    <3> QED BY <1>3, <2>2, <3>1, Zenon
  <2> QED BY <1>2, <2>1, <2>2, Zenon
<1>5. ASSUME NEW b \in New, NEW c \in AllBlocks
      PROVE  ViewOf(b.hash) # ViewOf(c.hash)
  <2>1. CASE c.hash = GenesisHash
    BY <1>3, <1>5, <2>1 DEF ViewOf
  <2>2. CASE c.hash # GenesisHash
    BY <1>3, <1>5, <2>2, Zenon DEF BlocksProposed
  <2> QED BY <2>1, <2>2, Zenon
<1>6. OneBlockPerView'
  <2> SUFFICES ASSUME NEW b \in AllBlocks', NEW c \in AllBlocks', ViewOf(b.hash) = ViewOf(c.hash)
               PROVE  b = c
    BY Zenon DEF OneBlockPerView, ViewOf, GenesisHash
  <2>1. CASE b \in New /\ c \in New
    BY <2>1, Zenon DEF StepFacts
  <2>2. CASE b \in AllBlocks /\ c \in AllBlocks
    BY <2>2, Zenon DEF OneBlockPerView
  <2> QED BY <1>2, <1>5, <2>1, <2>2, Zenon
<1> QED BY <1>4, <1>6, Zenon

\* q is somewhere else than in the generic_qc of the one replica that can form it.
Released(q) ==
    LET L == get_leader_for_view(q.view_number + 1) IN
    \/ Sent(q) \/ Keeps(replica[L], q)
    \/ \E x \in Replicas \ {L} : q = replica[x].generic_qc \/ Keeps(replica[x], q)

CertsReleased ==
    \A q \in QC : q.view_number > 0 /\ Released(q)
                    => Done(get_leader_for_view(q.view_number + 1), q.view_number + 1)

\* Certificates anywhere are well formed.
LEMMA SomewhereTypes ==
    ASSUME TypeOK, NEW q, Somewhere(q)
    PROVE  q \in QC
<1>1. Sent(q) => q \in QC
  BY Zenon DEF TypeOK, Sent, Packet, Message, Block
<1>2. ASSUME NEW x \in Replicas, q = replica[x].generic_qc \/ Keeps(replica[x], q)
      PROVE  q \in QC
  <2>1. replica[x] \in ReplicaState
    BY Zenon DEF TypeOK
  <2> QED BY <1>2, <2>1, Zenon DEF Keeps, ReplicaState, Block, Entry
<1> QED BY <1>1, <1>2, Zenon DEF Somewhere

\* CertsReleased is kept by every step.
LEMMA ReleasedStep ==
    ASSUME TypeOK, ViewOrder, ViewOrder', CertsReleased,
           NEW r, NEW heard, NEW s, NEW sent, NEW cast, NEW New, NEW Fresh,
           StepFacts(r, heard, s, sent, cast, New, Fresh)
    PROVE  CertsReleased'
<1> SUFFICES ASSUME NEW q \in QC, q.view_number > 0, Released(q)'
             PROVE  Done(get_leader_for_view(q.view_number + 1), q.view_number + 1)'
  BY Zenon DEF CertsReleased, Released, get_leader_for_view, Done, QC, BlockHash, View, Replicas
<1> DEFINE v == q.view_number + 1
           L == get_leader_for_view(v)
           o == replica[r]
<1>1. v \in Nat /\ L \in Replicas
  <2>1. v \in Nat
    BY DEF QC, View
  <2> QED BY <2>1, LeaderType, Zenon
<1>2. r \in Replicas /\ replica'[r] = s /\ \A x \in Replicas : x # r => replica'[x] = replica[x]
  BY Zenon DEF StepFacts, TypeOK
<1>3. /\ o.curr_view \in Nat /\ s.curr_view \in Nat /\ s.curr_view >= o.curr_view
      /\ q.view_number \in Nat
  BY <1>2, Zenon DEF StepFacts, TypeOK, ReplicaState, QC, View
<1>4. Released(q) => Done(L, v)'
  BY <1>1, DoneStep, Zenon DEF CertsReleased
<1>5. L # r /\ q = o.generic_qc => Released(q)
  BY <1>2, Zenon DEF Released
<1>6. Keeps(o, q) => Released(q)
  BY <1>2, Zenon DEF Released
<1>7. Sent(q) => Released(q)
  BY Zenon DEF Released
<1>8. L # r /\ q = s.generic_qc => Released(q)
  <2> SUFFICES ASSUME L # r, q = s.generic_qc, q \in Fresh PROVE FALSE
    BY <1>5, <1>6, <1>7, QCOrigin, Zenon
  <2>1. q.view_number = s.curr_view - 1 /\ get_leader_for_view(s.curr_view) = r
    BY Zenon DEF StepFacts
  <2>2. v = s.curr_view
    BY <1>3, <2>1
  <2> QED BY <2>1, <2>2, Zenon
<1>9. L = r /\ New # {} /\ q = s.generic_qc => Done(L, v)'
  <2> SUFFICES ASSUME L = r, New # {}, q = s.generic_qc PROVE Done(L, v)'
    BY Zenon
  <2>1. s.leader_has_proposed
    BY Zenon DEF StepFacts
  <2>2. StateOrder(r, replica[r])'
    BY <1>2, Zenon DEF ViewOrder
  <2>3. Older(q, s.curr_view)
    BY <1>2, <2>2, Zenon DEF StateOrder, Older
  <2>4. v <= s.curr_view
    BY <1>3, <2>3 DEF Older
  <2>5. s.curr_view > v \/ s.curr_view = v
    BY <1>1, <1>3, <2>4
  <2> HIDE DEF v
  <2>6. replica'[L] = s
    BY <1>2, Zenon
  <2> HIDE DEF L
  <2> QED BY <2>1, <2>5, <2>6, Zenon DEF Done
<1>10. L = r /\ q = o.generic_qc /\ o.curr_view < s.curr_view => Done(L, v)'
  <2> SUFFICES ASSUME L = r, q = o.generic_qc, o.curr_view < s.curr_view PROVE Done(L, v)'
    BY Zenon
  <2>1. Older(q, o.curr_view)
    BY <1>2, Zenon DEF ViewOrder, StateOrder
  <2>2. s.curr_view > v
    BY <1>3, <2>1 DEF Older
  <2> HIDE DEF v
  <2>3. replica'[L] = s
    BY <1>2, Zenon
  <2> HIDE DEF L
  <2> QED BY <2>2, <2>3, Zenon DEF Done
<1> HIDE DEF v, L
<1>11. Sent(q)' => Done(L, v)'
  <2>1. CASE Sent(q)
    BY <1>4, <1>7, <2>1, Zenon
  <2>2. CASE New # {} /\ q = s.generic_qc
    BY <1>4, <1>8, <1>9, <2>2, Zenon
  <2>3. CASE q = o.generic_qc /\ o.curr_view < s.curr_view
    BY <1>4, <1>5, <1>10, <2>3, Zenon
  <2> QED BY <2>1, <2>2, <2>3, QCOrigin, Zenon
<1>12. Keeps(s, q) => Done(L, v)'
  BY <1>4, <1>6, <1>7, <1>8, <1>9, QCOrigin, SMTT(40)
<1>13. ASSUME NEW x \in Replicas, Keeps(replica'[x], q) PROVE Done(L, v)'
  <2>1. CASE x = r
    BY <1>2, <1>12, <1>13, <2>1, Zenon
  <2>2. CASE x # r
    <3>1. Keeps(replica[x], q)
      BY <1>2, <1>13, <2>2, Zenon
    <3>2. Released(q)
      BY <3>1, Zenon DEF Released
    <3> QED BY <1>4, <3>2, Zenon
  <2> QED BY <2>1, <2>2, Zenon
<1>14. ASSUME NEW x \in Replicas, x # L, q = replica'[x].generic_qc PROVE Done(L, v)'
  <2>1. CASE x = r
    BY <1>2, <1>4, <1>8, <1>14, <2>1, Zenon
  <2>2. CASE x # r
    <3>1. q = replica[x].generic_qc
      BY <1>2, <1>14, <2>2, Zenon
    <3>2. Released(q)
      BY <1>14, <3>1, Zenon DEF Released, L, v
    <3> QED BY <1>4, <3>2, Zenon
  <2> QED BY <2>1, <2>2, Zenon
<1>15. \/ Sent(q)' \/ Keeps(replica'[L], q)
       \/ \E x \in Replicas \ {L} : q = replica'[x].generic_qc \/ Keeps(replica'[x], q)
  BY Zenon DEF Released, L, v, Keeps, get_leader_for_view
<1>16. Done(L, v)'
  BY <1>1, <1>11, <1>13, <1>14, <1>15, Zenon
<1> QED BY <1>16, Zenon DEF L, v

\* UniqueQCPerView is kept by every step.
LEMMA UniqueStep ==
    ASSUME TypeOK, TypeOK', ViewOrder, CertsReleased', UniqueQCPerView,
           NEW r, NEW heard, NEW s, NEW sent, NEW cast, NEW New, NEW Fresh,
           StepFacts(r, heard, s, sent, cast, New, Fresh)
    PROVE  UniqueQCPerView'
<1>1. r \in Replicas /\ replica'[r] = s /\ \A x \in Replicas : x # r => replica'[x] = replica[x]
  BY ZenonT(40) DEF StepFacts, TypeOK
<1>2. ASSUME NEW f \in Fresh, NEW q, Somewhere(q)', q.view_number = f.view_number
      PROVE  q = f
  <2>1. /\ f = s.generic_qc /\ New = {} /\ get_leader_for_view(s.curr_view) = r
        /\ f.view_number = s.curr_view - 1
        /\ ~s.leader_has_proposed
    BY <1>2, Zenon DEF StepFacts
  <2>2. f \in QC /\ f.view_number \in Nat /\ s.curr_view \in Nat
    BY <2>1, Zenon DEF StepFacts, ReplicaState, QC, View
  <2>3. f.view_number + 1 = s.curr_view
    BY <2>1, <2>2
  <2>4. f.view_number > 0
    <3>1. PICK x \in f.partial_sigs : TRUE
      BY <1>2, Zenon DEF StepFacts
    <3>2. PICK e \in Entry : InWindow(r, heard, e) /\ e.type = "Vote" /\ e.view = f.view_number
      BY <1>2, <3>1, ZenonT(40) DEF StepFacts
    <3>3. e.view >= 1
      <4>1. CASE e \in replica[r].messages
        BY <1>1, <3>2, <4>1, Zenon DEF ViewOrder, StateOrder
      <4>2. CASE \E p \in heard : EntryOf(e, p.msg)
        BY <3>2, <4>2, Zenon DEF StepFacts, EntryOf, ViewOrder, PacketOrder
      <4> QED BY <3>2, <4>1, <4>2, Zenon DEF InWindow
    <3> QED BY <2>2, <3>2, <3>3
  <2>5. q \in QC
    <3>1. Somewhere(q) \/ q \in Fresh
      BY <1>2, QCsAfter, Zenon
    <3>2. q \in Fresh => q = s.generic_qc
      BY Zenon DEF StepFacts
    <3> QED BY <2>1, <2>2, <3>1, <3>2, SomewhereTypes, Zenon
  <2>6. SUFFICES ASSUME q # f PROVE FALSE
    BY Zenon
  <2>7. q.view_number + 1 = s.curr_view /\ get_leader_for_view(q.view_number + 1) = r
    BY <1>2, <2>1, <2>3, Zenon
  <2>8. \/ Sent(q)'
        \/ \E x \in Replicas : q = replica'[x].generic_qc \/ Keeps(replica'[x], q)
    BY <1>2, Zenon DEF Somewhere, Keeps
  <2>9. q # replica'[r].generic_qc
    BY <1>1, <2>1, <2>6, Zenon
  <2>10. \/ Sent(q)' \/ Keeps(replica'[r], q)
         \/ \E x \in Replicas \ {r} : q = replica'[x].generic_qc \/ Keeps(replica'[x], q)
    BY <2>8, <2>9, Zenon
  <2>11. Released(q)'
    BY <2>7, <2>10, Zenon DEF Released, Keeps, get_leader_for_view
  <2>12. Done(r, s.curr_view)'
    <3>1. q.view_number > 0
      BY <1>2, <2>4, Zenon
    <3>2. Done(get_leader_for_view(q.view_number + 1), q.view_number + 1)'
      BY <2>5, <2>11, <3>1, Zenon DEF CertsReleased, QC, BlockHash, View, Replicas
    <3> QED BY <2>7, <3>2, Zenon
  <2>13. s.curr_view > s.curr_view \/ s.leader_has_proposed
    BY <1>1, <2>12, Zenon DEF Done
  <2> QED BY <2>1, <2>2, <2>13
<1>3. \A q : (q \in AllQCs <=> Somewhere(q))'
  BY DEF AllQCs, QCsSent, QCsOf, Somewhere, Sent, Keeps
<1> SUFFICES ASSUME NEW q1, NEW q2, Somewhere(q1)', Somewhere(q2)',
                    q1.view_number = q2.view_number
             PROVE  q1.block_hash = q2.block_hash
  BY <1>3, Zenon DEF UniqueQCPerView
<1>4. CASE q1 \in Fresh
  BY <1>2, <1>4, Zenon
<1>5. CASE q2 \in Fresh
  BY <1>2, <1>5, Zenon
<1>6. CASE Somewhere(q1) /\ Somewhere(q2)
  BY <1>6, SomewhereIsAllQCs, Zenon DEF UniqueQCPerView
<1> QED BY <1>4, <1>5, <1>6, QCsAfter, Zenon

-----------------------------------------------------------------------------
(* The theorems.                                                            *)

Inv ==
    /\ TypeOK /\ ProposerLeads /\ ViewOrder
    /\ VotesSigned /\ QCBacked
    /\ BlocksProposed /\ OneBlockPerView
    /\ CertsReleased /\ UniqueQCPerView

\* The initial state satisfies the invariant.
LEMMA InitInv ==
    ASSUME Init
    PROVE  Inv
<1>1. GenesisQC \in QC /\ GenesisBlock \in Block /\ GenesisBlock.justify = GenesisQC
      /\ GenesisQC.view_number = 0
  BY DEF GenesisQC, GenesisBlock, QC, Block, BlockHash, GenesisHash, View
<1>2. \A r \in Replicas :
        /\ replica[r] \in ReplicaState /\ replica[r].node_id = r
        /\ replica[r].curr_view = 0 /\ ~replica[r].leader_has_proposed
        /\ replica[r].generic_qc = GenesisQC /\ replica[r].locked_qc = GenesisQC
        /\ replica[r].blockstore = {GenesisBlock} /\ replica[r].messages = {}
  <2> SUFFICES ASSUME NEW r \in Replicas
               PROVE  /\ new(r) \in ReplicaState /\ new(r).node_id = r
                      /\ new(r).curr_view = 0 /\ ~new(r).leader_has_proposed
                      /\ new(r).generic_qc = GenesisQC /\ new(r).locked_qc = GenesisQC
                      /\ new(r).blockstore = {GenesisBlock} /\ new(r).messages = {}
    BY Zenon DEF Init
  <2>1. 0 \in View /\ << >> \in Seq(BlockHash)
    BY DEF View
  <2> QED BY <1>1, <2>1, Zenon DEF new, ReplicaState
<1>3. net = {} /\ votes = {}
  BY Zenon DEF Init
<1>4. TypeOK
  <2>1. replica = [r \in Replicas |-> replica[r]]
    BY Zenon DEF Init
  <2> QED BY <1>2, <1>3, <2>1, Zenon DEF TypeOK
<1>5. ProposerLeads /\ ViewOrder /\ VotesSigned
  BY <1>1, <1>2, <1>3, ZenonT(40) DEF ProposerLeads, ViewOrder, StateOrder, Older, VotesSigned
<1>6. \A q : Somewhere(q) => q = GenesisQC
  BY <1>1, <1>2, <1>3 DEF Somewhere, Sent, Keeps
<1>7. QCBacked /\ UniqueQCPerView
  BY <1>6, SomewhereIsAllQCs, Zenon DEF QCBacked, UniqueQCPerView
<1>8. \A b \in AllBlocks : b = GenesisBlock
  BY <1>2, <1>3 DEF AllBlocks
<1>9. BlocksProposed /\ OneBlockPerView
  <2>1. GenesisBlock.hash = GenesisHash
    BY Zenon DEF GenesisBlock
  <2> QED BY <1>8, <2>1, Zenon DEF BlocksProposed, OneBlockPerView
<1>10. CertsReleased
  <2> SUFFICES ASSUME NEW q \in QC, q.view_number > 0, Released(q) PROVE FALSE
    BY Zenon DEF CertsReleased
  <2>1. get_leader_for_view(q.view_number + 1) \in Replicas
    <3>1. q.view_number + 1 \in Nat
      BY DEF QC, View
    <3> QED BY <3>1, LeaderType, Zenon
  <2>2. Somewhere(q)
    BY <2>1, Zenon DEF Released, Somewhere
  <2> QED BY <1>1, <1>6, <2>2
<1> QED BY <1>4, <1>5, <1>7, <1>9, <1>10, Zenon DEF Inv

\* Every step preserves the invariant.
LEMMA NextInv ==
    ASSUME Inv, [Next]_vars
    PROVE  Inv'
<1>1. CASE Next
  <2>1. PICK r \in Replicas, heard \in SUBSET net : SomeStep(r, heard)
    BY <1>1, NextStep, Zenon DEF Inv
  <2>2. PICK s, sent, cast, New, Fresh : StepFacts(r, heard, s, sent, cast, New, Fresh)
    BY <2>1, Zenon DEF SomeStep
  <2>3. TypeOK' /\ ProposerLeads' /\ ViewOrder'
    BY <2>2, TypeStep, ProposerStep, OrderStep, Zenon DEF Inv
  <2>4. VotesSigned' /\ QCBacked'
    BY <2>2, BackedStep, Zenon DEF Inv
  <2>5. BlocksProposed' /\ OneBlockPerView'
    BY <2>2, <2>3, BlocksStep, Zenon DEF Inv
  <2>6. CertsReleased'
    BY <2>2, <2>3, ReleasedStep, Zenon DEF Inv
  <2>7. UniqueQCPerView'
    BY <2>2, <2>3, <2>6, UniqueStep, Zenon DEF Inv
  <2> QED BY <2>3, <2>4, <2>5, <2>6, <2>7, Zenon DEF Inv
<1>2. CASE UNCHANGED vars
  <2>1. replica' = replica /\ net' = net /\ votes' = votes
    BY <1>2, Zenon DEF vars
  <2>2. TypeOK' /\ ProposerLeads' /\ ViewOrder' /\ VotesSigned'
    BY <2>1, Zenon DEF Inv, TypeOK, ProposerLeads, ViewOrder, VotesSigned
  <2>3. AllQCs' = AllQCs /\ AllBlocks' = AllBlocks
    BY <2>1, Zenon DEF AllQCs, QCsSent, QCsOf, AllBlocks
  <2>4. QCBacked' /\ UniqueQCPerView' /\ OneBlockPerView'
    BY <2>1, <2>3, Zenon DEF Inv, QCBacked, UniqueQCPerView, OneBlockPerView
  <2>5. BlocksProposed'
    BY <2>1, <2>3, Zenon DEF Inv, BlocksProposed, Done
  <2>6. CertsReleased'
    BY <2>1, Zenon DEF Inv, CertsReleased, Released, Sent, Keeps, Done
  <2> QED BY <2>2, <2>4, <2>5, <2>6, Zenon DEF Inv
<1> QED BY <1>1, <1>2, Zenon

\* The conjunction is an invariant of the replicas, for every N >= 2.
THEOREM Invariance == Spec => []Inv
  BY InitInv, NextInv, PTL DEF Spec

\* Type correctness: every method leaves a well-formed replica and sends
\* well-formed messages.
THEOREM TypeCorrect == Spec => []TypeOK
<1>1. Inv => TypeOK
  BY Zenon DEF Inv
<1> QED BY <1>1, Invariance, PTL

\* A certificate that exists anywhere was signed by the quorum it names.
THEOREM CertificatesBacked == Spec => []QCBacked
<1>1. Inv => QCBacked
  BY Zenon DEF Inv
<1> QED BY <1>1, Invariance, PTL

\* A leader never proposes two blocks in a view, whatever order messages and
\* timeouts reach it in.
THEOREM NoEquivocation == Spec => []OneBlockPerView
<1>1. Inv => OneBlockPerView
  BY Zenon DEF Inv
<1> QED BY <1>1, Invariance, PTL

\* Two certificates of a view certify one block, although replicas may vote
\* twice in a view: try_create_qc_for_view has one writer per view.
THEOREM CertificatesAgree == Spec => []UniqueQCPerView
<1>1. Inv => UniqueQCPerView
  BY Zenon DEF Inv
<1> QED BY <1>1, Invariance, PTL

\* The unsigned subtractions on views never wrap.
THEOREM ViewsDoNotWrap == Spec => []NoViewUnderflow
<1>1. ASSUME Inv PROVE NoViewUnderflow
  <2>1. TypeOK /\ ViewOrder
    BY <1>1, Zenon DEF Inv
  <2>2. ASSUME NEW p \in net, LeaderTurn(p) PROVE Received(p).curr_view >= 1
    <3>1. /\ p.to \in Replicas /\ p.msg \in Message
          /\ Received(p) \in ReplicaState /\ Received(p).curr_view >= p.msg.view
      BY <2>1, ReceivedFacts, Zenon
    <3>2. Received(p).curr_view \in Nat /\ p.msg.view \in Nat
      BY <3>1, Zenon DEF ReplicaState, Message, View
    <3>3. get_leader_for_view(Received(p).curr_view) = p.to
      BY <2>2, Zenon DEF LeaderTurn
    <3> SUFFICES ASSUME Received(p).curr_view = 0 PROVE FALSE
      BY <3>2
    <3>4. p.msg.view = 0
      BY <3>1, <3>2
    <3>5. p.to = get_leader_for_view(0 + 1)
      BY <2>1, <3>4, SMTT(40) DEF ViewOrder, PacketOrder
    <3> QED BY <3>3, <3>5, NextLeaderDiffers
  <2>3. ASSUME NEW r \in Replicas PROVE replica[r].locked_qc.view_number <= replica[r].curr_view
    <3>1. replica[r].locked_qc.view_number \in Nat /\ replica[r].curr_view \in Nat
      BY <2>1, Zenon DEF TypeOK, ReplicaState, QC, View
    <3> QED BY <2>1, <3>1 DEF ViewOrder, StateOrder, Older
  <2> QED BY <2>2, <2>3, Zenon DEF NoViewUnderflow
<1> QED BY <1>1, Invariance, PTL

-----------------------------------------------------------------------------
(* Blocks with a transaction that fails verify_sender are proposed, and    *)
(* may even be somebody's parent candidate, but are never certified.  A    *)
(* vote names a block by its hash only, and the block may be gone from     *)
(* every store and the network when the vote is counted, so the invariant  *)
(* speaks of every block that is, or may yet be made, with that hash.      *)

\* The blocks that votes name have been proposed, and verified.
VotesVerified ==
    \A v \in votes :
        /\ v.node # GenesisHash =>
             /\ ViewOf(v.node) \in Nat
             /\ Done(get_leader_for_view(ViewOf(v.node)), ViewOf(v.node))
        /\ \A b \in AllBlocks : b.hash = v.node => b.txs_valid

\* VotesVerified is kept by every step.
LEMMA VerifiedStep ==
    ASSUME TypeOK, ViewOrder, BlocksProposed, BlocksProposed', OneBlockPerView, VotesVerified,
           NEW r, NEW heard, NEW s, NEW sent, NEW cast, NEW New, NEW Fresh,
           StepFacts(r, heard, s, sent, cast, New, Fresh)
    PROVE  VotesVerified'
<1>1. /\ r \in Replicas /\ replica'[r] = s /\ votes' = votes \cup cast
      /\ \A b, c \in New : b = c
  BY Zenon DEF StepFacts, TypeOK
<1>2. \A b \in AllBlocks' : b \in AllBlocks \/ b \in New
  BY BlocksAfter, Zenon
<1>3. ASSUME NEW b \in New
      PROVE  /\ b.hash # GenesisHash /\ ViewOf(b.hash) \in Nat
             /\ ~Done(get_leader_for_view(ViewOf(b.hash)), ViewOf(b.hash))
             /\ Done(get_leader_for_view(ViewOf(b.hash)), ViewOf(b.hash))'
  <2>1. /\ b.hash # GenesisHash /\ ViewOf(b.hash) = s.curr_view
        /\ s.curr_view \in Nat /\ get_leader_for_view(s.curr_view) = r
        /\ s.leader_has_proposed /\ ~Done(r, s.curr_view)
    BY <1>3, NewBlock
  <2>2. Done(r, s.curr_view)'
    BY <1>1, <2>1, Zenon DEF Done
  <2> QED BY <2>1, <2>2, Zenon
<1>4. ASSUME NEW v \in votes'
      PROVE  /\ v.node # GenesisHash =>
                  /\ ViewOf(v.node) \in Nat
                  /\ Done(get_leader_for_view(ViewOf(v.node)), ViewOf(v.node))'
             /\ \A b \in AllBlocks' : b.hash = v.node => b.txs_valid
  <2>1. CASE v \in votes
    <3>1. v.node # GenesisHash => ViewOf(v.node) \in Nat
      BY <2>1, Zenon DEF VotesVerified
    <3>2. v.node # GenesisHash => get_leader_for_view(ViewOf(v.node)) \in Replicas
      BY <3>1, LeaderType, Zenon
    <3>3. v.node # GenesisHash => Done(get_leader_for_view(ViewOf(v.node)), ViewOf(v.node))'
      BY <2>1, <3>1, <3>2, DoneStep, Zenon DEF VotesVerified
    <3>4. \A b \in New : b.hash # v.node
      BY <1>3, <2>1, Zenon DEF VotesVerified
    <3> QED BY <1>2, <2>1, <3>1, <3>3, <3>4, Zenon DEF VotesVerified
  <2>2. CASE v \in cast
    <3>1. CASE \E b \in New : v.node = b.hash /\ b.txs_valid
      <4>1. PICK c \in New : v.node = c.hash /\ c.txs_valid
        BY <3>1, Zenon
      <4>2. \A b \in AllBlocks : b.hash # c.hash
        BY <1>3, Zenon DEF BlocksProposed
      <4> QED BY <1>1, <1>2, <1>3, <4>1, <4>2, Zenon
    <3>2. CASE \E p \in heard : /\ p.msg.type = "Proposal" /\ v.node = p.msg.node.hash
                               /\ p.msg.node.txs_valid
      <4>1. PICK c \in AllBlocks : v.node = c.hash /\ c.txs_valid
        BY <3>2, Zenon DEF StepFacts, AllBlocks
      <4>2. ViewOf(c.hash) \in Nat
        BY BlockTypes, Zenon
      <4>3. get_leader_for_view(ViewOf(c.hash)) \in Replicas
        BY <4>2, LeaderType, Zenon
      <4>4. c.hash # GenesisHash => Done(get_leader_for_view(ViewOf(c.hash)), ViewOf(c.hash))
        BY Zenon DEF BlocksProposed
      <4>5. c.hash # GenesisHash => Done(get_leader_for_view(ViewOf(c.hash)), ViewOf(c.hash))'
        BY <4>2, <4>3, <4>4, DoneStep, Zenon
      <4>6. \A b \in New : b.hash # c.hash
        BY <1>3, <4>4, Zenon
      <4>7. \A b \in AllBlocks : b.hash = c.hash => b = c
        BY Zenon DEF OneBlockPerView
      <4> QED BY <1>2, <4>1, <4>2, <4>5, <4>6, <4>7, Zenon
    <3> QED BY <2>2, <3>1, <3>2, Zenon DEF StepFacts, VotesFor
  <2> QED BY <1>1, <2>1, <2>2, Zenon
<1> QED BY <1>4, Zenon DEF VotesVerified, ViewOf, GenesisHash, Done, get_leader_for_view

\* A block with a transaction that fails verify_sender is never certified, for any
\* number of replicas and whatever happens to the block after the vote.
THEOREM CertificatesValid == Spec => []CertifiedValid
<1>1. Init => VotesVerified
  BY Zenon DEF Init, VotesVerified
<1>2. ASSUME Inv, Inv', VotesVerified, [Next]_vars PROVE VotesVerified'
  <2>1. CASE Next
    <3>1. PICK r \in Replicas, heard \in SUBSET net : SomeStep(r, heard)
      BY <1>2, <2>1, NextStep, Zenon DEF Inv
    <3>2. PICK s, sent, cast, New, Fresh : StepFacts(r, heard, s, sent, cast, New, Fresh)
      BY <3>1, Zenon DEF SomeStep
    <3> QED BY <1>2, <3>2, VerifiedStep, Zenon DEF Inv
  <2>2. CASE UNCHANGED vars
    <3>1. replica' = replica /\ votes' = votes /\ AllBlocks' = AllBlocks
      BY <2>2, Zenon DEF vars, AllBlocks
    <3> QED BY <1>2, <3>1, Zenon DEF VotesVerified, Done
  <2> QED BY <1>2, <2>1, <2>2, Zenon
<1>3. ASSUME Inv, VotesVerified PROVE CertifiedValid
  <2> SUFFICES ASSUME NEW q \in AllQCs, NEW b \in AllBlocks, q.block_hash = b.hash
               PROVE  b.txs_valid
    BY Zenon DEF CertifiedValid
  <2>1. CASE q = GenesisQC
    BY <1>3, <2>1 DEF Inv, BlocksProposed, GenesisQC, GenesisBlock
  <2>2. CASE q # GenesisQC
    <3>1. q.partial_sigs # {}
      BY <1>3, <2>2, QuorumPositive, FS_EmptySet DEF Inv, QCBacked
    <3>2. PICK x \in q.partial_sigs : TRUE
      BY <3>1, Zenon
    <3>3. [type |-> "Vote", view |-> q.view_number, sender |-> x, node |-> q.block_hash] \in votes
      BY <1>3, <2>2, <3>2, Zenon DEF Inv, QCBacked
    <3> QED BY <1>3, <3>3, Zenon DEF VotesVerified
  <2> QED BY <2>1, <2>2, Zenon
<1> QED BY <1>1, <1>2, <1>3, Invariance, PTL DEF Spec

-----------------------------------------------------------------------------
(* Late messages and crashes                                               *)

\* Handling a message takes no other message from the network,
LEMMA OthersStay ==
    ASSUME NEW p, HandleMessage(p) PROVE net \ {p} \subseteq net'
<1>1. ASSUME NEW s, NEW sent, NEW cast, Finish(p, s, sent, cast) PROVE net \ {p} \subseteq net'
  BY <1>1, Zenon DEF Finish
<1>2. CASE LeaderPropose(p)
  BY <1>2, ZenonT(40) DEF LeaderPropose, Finish
<1>3. CASE LeaderMissesParent(p)
  BY <1>1, <1>3, Zenon DEF LeaderMissesParent
<1>4. CASE LeaderCollect(p)
  BY <1>1, <1>4, Zenon DEF LeaderCollect
<1>5. CASE ReplicaNewView(p)
  BY <1>1, <1>5, Zenon DEF ReplicaNewView
<1>6. CASE ReplicaProposal(p)
  BY <1>1, <1>6, Zenon DEF ReplicaProposal
<1>7. CASE ReplicaVote(p)
  BY <1>1, <1>7, Zenon DEF ReplicaVote
<1>. QED BY <1>2, <1>3, <1>4, <1>5, <1>6, <1>7, Zenon DEF HandleMessage

\* and a timer that expires takes none.
LEMMA AllStay ==
    ASSUME NEW r, Timeout(r) PROVE net \subseteq net'
  BY Zenon DEF Timeout

\* A message that is held back is still on the network.
LateOnNet == late \subseteq net

\* A step of HotStuffRounds is a step of the replicas or of the environment.
LEMMA RoundsStep ==
    ASSUME LateOnNet, [RoundsNext]_allVars PROVE [Next]_vars /\ LateOnNet'
<1>1. CASE Deliver
  <2>1. PICK p \in Timely : HandleMessage(p)
    BY <1>1, Zenon DEF Deliver
  <2>2. p \in net /\ p \notin late /\ late' = late
    BY <1>1, Zenon DEF Deliver, Timely, environment
  <2>3. net \ {p} \subseteq net'
    BY <2>1, OthersStay, Zenon
  <2>. QED BY <2>1, <2>2, <2>3, Zenon DEF Next, LateOnNet
<1>2. CASE HoldBack
  <2>1. PICK p \in Timely : late' = late \cup {p}
    BY <1>2, Zenon DEF HoldBack
  <2>2. vars' = vars /\ net' = net
    BY <1>2, Zenon DEF HoldBack, vars
  <2>. QED BY <2>1, <2>2, Zenon DEF LateOnNet, Timely
<1>3. CASE DeliverLate
  <2>1. PICK p \in late : HandleMessage(p) /\ late' = late \ {p}
    BY <1>3, Zenon DEF DeliverLate
  <2>2. net \ {p} \subseteq net'
    BY <2>1, OthersStay, Zenon
  <2>. QED BY <2>1, <2>2, Zenon DEF Next, LateOnNet
<1>4. CASE Expire
  <2>1. PICK r \in Live : Timeout(r)
    BY <1>4, Zenon DEF Expire
  <2>2. r \in Replicas /\ late' = late /\ net \subseteq net'
    BY <1>4, <2>1, AllStay, Zenon DEF Expire, environment, Live
  <2>. QED BY <2>1, <2>2, Zenon DEF Next, LateOnNet
<1>5. CASE Crash
  BY <1>5, Zenon DEF Crash, LateOnNet, vars
<1>6. CASE UNCHANGED allVars
  BY <1>6, Zenon DEF allVars, LateOnNet, environment, vars
<1>. QED BY <1>1, <1>2, <1>3, <1>4, <1>5, <1>6, Zenon DEF RoundsNext

\* The replicas of HotStuffRounds are those of HotStuff, so that all theorems above hold
\* of them: holding messages back and crashing changes no replica, and a late message is
\* one that was sent, delivered once.
THEOREM RoundsImplement == RoundsSpec => Spec
<1>1. RoundsInit => Init /\ LateOnNet
  BY Zenon DEF RoundsInit, LateOnNet
<1>. QED BY <1>1, RoundsStep, PTL DEF RoundsSpec, Spec

\* What was proved of the replicas, with messages late by any number of views and any
\* number of crashes.
THEOREM RoundsSafe ==
    RoundsSpec => [](/\ TypeOK /\ QCBacked /\ OneBlockPerView
                     /\ UniqueQCPerView /\ NoViewUnderflow /\ CertifiedValid)
  BY RoundsImplement, TypeCorrect, CertificatesBacked, NoEquivocation, CertificatesAgree,
     ViewsDoNotWrap, CertificatesValid, PTL

=============================================================================
