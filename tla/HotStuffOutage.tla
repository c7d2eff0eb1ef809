--------------------------- MODULE HotStuffOutage ---------------------------
(***************************************************************************)
(* The replicas of HotStuff under one outage: some broadcasts are lost,    *)
(* the proposals of some views reach their receivers only in a later view, *)
(* and one replica is cut off from some view on.  All other messages are   *)
(* delivered before a timer expires.                                       *)
(***************************************************************************)
EXTENDS HotStuff

CONSTANTS
    LostProposals,  \* views whose proposal reaches nobody
    LostVotes,      \* views whose votes reach nobody
    LateProposals,  \* views whose proposal is late
    ReleaseView,    \* the view a receiver has reached when the late ones arrive
    CutOff,         \* a replica ...
    CutOffView      \* ... and the first view whose messages it neither sends nor gets

Lost(p) ==
    \/ p.msg.type = "Proposal" /\ p.msg.view \in LostProposals
    \/ p.msg.type = "Vote" /\ p.msg.view \in LostVotes
    \/ p.msg.view >= CutOffView /\ CutOff \in {p.to, p.msg.sender} /\ p.to # p.msg.sender

Held(p) ==
    /\ p.msg.type = "Proposal"
    /\ p.msg.view \in LateProposals
    /\ replica[p.to].curr_view < ReleaseView

Timely == {p \in net : ~Lost(p) /\ ~Held(p)}

Deliver == \E p \in Timely : HandleMessage(p)

Expire ==
    /\ Timely = {}
    /\ \E r \in Replicas :
         /\ \A q \in Replicas : replica[r].curr_view <= replica[q].curr_view
         /\ Timeout(r)

OutageSpec == Init /\ [][Deliver \/ Expire]_vars

=============================================================================
