----------------------------- MODULE MessageLog -----------------------------
(***************************************************************************)
(* What the replica expects of its MessageWindow: the messages of every    *)
(* view from the lowest one on, in the order in which they were pushed.    *)
(* HotStuff keeps its messages this way, as a set with a lowest view.      *)
(***************************************************************************)
EXTENDS Naturals, Sequences

CONSTANTS Message, MaxView      \* a message has a field view

VARIABLES by_view, lowest

Init == by_view = [v \in 0 .. MaxView |-> << >>] /\ lowest = 0

Push(m) ==
    /\ m.view >= lowest
    /\ by_view' = [by_view EXCEPT ![m.view] = Append(@, m)]
    /\ UNCHANGED lowest

Prune(view) ==
    /\ view > lowest
    /\ by_view' = [v \in 0 .. MaxView |-> IF v < view THEN << >> ELSE by_view[v]]
    /\ lowest' = view

Next == \/ \E m \in Message : Push(m)
        \/ \E view \in 0 .. MaxView : Prune(view)

Spec == Init /\ [][Next]_<<by_view, lowest>>

=============================================================================
