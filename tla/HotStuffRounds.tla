--------------------------- MODULE HotStuffRounds ---------------------------
(***************************************************************************)
(* The replicas of HotStuff under a mostly timely network, which reaches   *)
(* the later views where blocks are committed.  A view timer expires only  *)
(* when no message is waiting and only at a replica that is not ahead of   *)
(* the others: timeouts longer than the message delay.  Against that the   *)
(* environment may hold back up to MaxLate messages, each for as long as it *)
(* likes (a broadcast is written to each peer by a spawned task that may be *)
(* scheduled late: broadcast.rs:20-25), and crash up to MaxCrash replicas.  *)
(* What a replica has sent and its tasks have not written yet is lost with  *)
(* it, so that a crash may leave a broadcast with some of its addressees    *)
(* only.  Nothing is persisted, so a crashed replica does not return.       *)
(***************************************************************************)
EXTENDS HotStuff

CONSTANTS
    MaxLate,    \* how many messages may be held back
    MaxCrash,   \* how many replicas may crash
    BadViews    \* views whose leader may have a badly signed transaction in its mempool

ASSUME BudgetAssumption == MaxLate \in Nat /\ MaxCrash \in Nat /\ BadViews \subseteq Nat

VARIABLES
    late,       \* messages held back and not delivered yet
    lateCount,  \* how many messages have been held back
    crashed,    \* replicas that take no more steps
    lost        \* messages that went down with their sender

environment == <<late, lateCount, crashed, lost>>
allVars == <<vars, environment>>

RoundsInit == Init /\ late = {} /\ lateCount = 0 /\ crashed = {} /\ lost = {}

Live == Replicas \ crashed

\* The messages that are delivered before any timer expires.
Timely == {p \in net \ (late \cup lost) : p.to \in Live}

\* Blocks with a badly signed transaction are proposed in the views BadViews only.
PayloadOfView ==
    \A p \in net' \ net :
        p.msg.type = "Proposal" => p.msg.node.txs_valid \/ p.msg.view \in BadViews

Deliver ==
    /\ \E p \in Timely : HandleMessage(p)
    /\ PayloadOfView
    /\ UNCHANGED environment

HoldBack ==
    /\ lateCount < MaxLate
    /\ \E p \in Timely : late' = late \cup {p}
    /\ lateCount' = lateCount + 1
    /\ UNCHANGED <<vars, crashed, lost>>

DeliverLate ==
    /\ \E p \in late :
         /\ p \notin lost
         /\ p.to \in Live
         /\ HandleMessage(p)
         /\ late' = late \ {p}
    /\ PayloadOfView
    /\ UNCHANGED <<lateCount, crashed, lost>>

Expire ==
    /\ Timely = {}
    /\ \E r \in Live :
         /\ \A q \in Live : replica[r].curr_view <= replica[q].curr_view
         /\ Timeout(r)
    /\ UNCHANGED environment

Crash ==
    /\ Cardinality(crashed) < MaxCrash
    /\ \E r \in Live :
         /\ crashed' = crashed \cup {r}
         /\ \E unwritten \in SUBSET {p \in net : p.msg.sender = r} :
               lost' = lost \cup unwritten
    /\ UNCHANGED <<vars, late, lateCount>>

RoundsNext == Deliver \/ HoldBack \/ DeliverLate \/ Expire \/ Crash

RoundsSpec == RoundsInit /\ [][RoundsNext]_allVars

\* Messages that are not held back are delivered and a timer that may expire does:
\* tokio polls every task that is ready again and again.  The first conjunct is
\* weak fairness of Deliver, which is enabled exactly as long as a timely message
\* waits (the handler has a branch for each), written so that ENABLED need not be
\* computed.  Holding messages back, delivering those and crashing are the
\* environment's choice and not fair.
FairRoundsSpec == RoundsSpec /\ []<>(Timely = {}) /\ WF_allVars(Expire)

-----------------------------------------------------------------------------

\* Of two replicas, one has applied the blocks that the other has applied, in the
\* same order, and maybe more (src/README.md: "ensuring consistency across
\* replicas").  A replica that has missed a block of the chain skips it, so the code
\* does not do this.
LogsAgree ==
    \A r, q \in Replicas : \A i \in 1 .. Len(replica[r].applied) :
        i <= Len(replica[q].applied) => replica[r].applied[i] = replica[q].applied[i]

\* Every replica that does not crash applies a block other than genesis
\* (src/README.md: "eventual commit under partial synchrony").  The code does not do
\* this: see MissesVotedFor.
EventuallyCommits ==
    <>(\A r \in Live : \E i \in 1 .. Len(replica[r].applied) :
          replica[r].applied[i] # GenesisHash)

\* A block that a quorum has voted for went down with its proposer before it reached
\* a replica that lives on.  No replica sends a block a second time, so that this one
\* never votes for a block on top of it (replica.rs:424-433), and with another one
\* crashed the votes that are left need not make a quorum.
MissesVotedFor ==
    \E p \in lost :
        /\ p.msg.type = "Proposal"
        /\ p.to \in Live
        /\ Cardinality({v.sender : v \in {x \in votes : x.node = p.msg.node.hash}})
              >= quorum_threshold

\* That is the only way a crash stops the others: every replica that does not crash
\* applies a block other than genesis, although the crashed one neither proposes in
\* its views nor certifies the block of the view before, and whatever part of its
\* votes, NewView messages and proposals is lost with it, unless a block with a
\* quorum of votes has not reached every replica.
CommitsUnlessMissed == EventuallyCommits \/ <>MissesVotedFor

=============================================================================
