---------------------------- MODULE MessageWindow ----------------------------
(***************************************************************************)
(* The window of recent messages (src/src/hotstuff/message_window.rs): a   *)
(* vector of vectors, of which the first is for lowest_view, and its       *)
(* iterator.  Indices are those of the code, one less than in TLA+.        *)
(*                                                                         *)
(* A MessageWindowIter borrows the window, so that nothing is pushed or    *)
(* pruned while there is one.  Its two slice iterators are the parts of    *)
(* the slices that they have not handed out yet; `next` takes an inner that *)
(* is None and one that is used up in the same way.                        *)
(***************************************************************************)
EXTENDS Integers, Sequences, SequencesExt

CONSTANTS
    Message, MaxView,
    MaxMessages         \* bound on the messages pushed

ASSUME WindowAssumption ==
    MaxView \in Nat /\ MaxMessages \in Nat /\ \A m \in Message : m.view \in 0 .. MaxView

VARIABLES
    messages, lowest_view,
    pushed,             \* how many messages were pushed, for the bound
    outer, inner,       \* the vectors, and the messages of one, that are still to come
    visited,            \* what `next` has returned since the iterator was made
    phase               \* "none" without an iterator, "borrowed", or "ended" by a None

window == <<messages, lowest_view, pushed>>
iterator == <<outer, inner, visited, phase>>
vars == <<window, iterator>>

Init ==
    /\ messages = << >> /\ lowest_view = 0 /\ pushed = 0
    /\ outer = << >> /\ inner = << >> /\ visited = << >> /\ phase = "none"

\* The window is changed only when no iterator borrows it.  One that has ended is gone.
Unborrowed ==
    /\ phase # "borrowed" /\ phase' = "none"
    /\ outer' = << >> /\ inner' = << >> /\ visited' = << >>

\* Mutant: gaps are not filled up.
insert_at_end(m) ==
    LET index == m.view - lowest_view
    IN IF index < Len(messages)
       THEN [messages EXCEPT ![index + 1] = Append(@, m)]
       ELSE Append(messages, <<m>>)

\* The vector with m in it.  Missing vectors up to the one before are added first.
Inserted(m) ==
    LET index == m.view - lowest_view
        gap   == [i \in 1 .. index - Len(messages) |-> << >>]
    IN IF index < Len(messages)
       THEN [messages EXCEPT ![index + 1] = Append(@, m)]
       ELSE Append(messages \o gap, <<m>>)

push(m) ==
    /\ Unborrowed
    /\ pushed < MaxMessages
    /\ m.view >= lowest_view
    /\ messages' = Inserted(m)
    /\ pushed' = pushed + 1
    /\ UNCHANGED lowest_view

\* A message of a view before the window is refused.
push_stale(m) ==
    /\ Unborrowed
    /\ pushed < MaxMessages
    /\ m.view < lowest_view
    /\ pushed' = pushed + 1
    /\ UNCHANGED <<messages, lowest_view>>

\* What drain(0..to_remove) leaves.  The drain is only reached with a range that is
\* within the vector, or it would panic.
Drained(view) == SubSeq(messages, view - lowest_view + 1, Len(messages))

prune_before_view(view) ==
    /\ Unborrowed
    /\ view >= lowest_view
    /\ messages' = IF view > lowest_view + Len(messages) THEN << >> ELSE Drained(view)
    /\ lowest_view' = view
    /\ UNCHANGED pushed

\* An index equal to the length passes the test and finds nothing.
get_messages_for_view(view) ==
    IF view < lowest_view \/ view > lowest_view + Len(messages)
       \/ view - lowest_view >= Len(messages)
    THEN << >> ELSE messages[view - lowest_view + 1]

\* The iterator starts with the first vector, if there is one, as its inner one.
iter ==
    /\ phase # "borrowed"
    /\ phase' = "borrowed"
    /\ inner' = IF messages = << >> THEN << >> ELSE Head(messages)
    /\ outer' = IF messages = << >> THEN << >> ELSE Tail(messages)
    /\ visited' = << >>
    /\ UNCHANGED window

\* Mutant: the iterator ends at an empty vector.
next_until_gap ==
    /\ phase = "borrowed"
    /\ \/ /\ inner # << >>
          /\ visited' = Append(visited, Head(inner))
          /\ inner' = Tail(inner)
          /\ UNCHANGED <<outer, phase>>
       \/ /\ inner = << >> /\ outer # << >>
          /\ inner' = Head(outer)
          /\ outer' = Tail(outer)
          /\ phase' = IF Head(outer) = << >> THEN "ended" ELSE phase
          /\ UNCHANGED visited
       \/ /\ inner = << >> /\ outer = << >>
          /\ phase' = "ended"
          /\ UNCHANGED <<outer, inner, visited>>
    /\ UNCHANGED window

\* One turn of the loop of `next`: it returns the next message of the inner vector, or
\* goes on to the next vector, or returns None when there is none.
next ==
    /\ phase = "borrowed"
    /\ \/ /\ inner # << >>
          /\ visited' = Append(visited, Head(inner))
          /\ inner' = Tail(inner)
          /\ UNCHANGED <<outer, phase>>
       \/ /\ inner = << >> /\ outer # << >>
          /\ inner' = Head(outer)
          /\ outer' = Tail(outer)
          /\ UNCHANGED <<visited, phase>>
       \/ /\ inner = << >> /\ outer = << >>
          /\ phase' = "ended"
          /\ UNCHANGED <<outer, inner, visited>>
    /\ UNCHANGED window

Next == \/ \E m \in Message : push(m) \/ push_stale(m)
        \/ \E view \in 0 .. MaxView : prune_before_view(view)
        \/ iter
        \/ next

Spec == Init /\ [][Next]_vars

-----------------------------------------------------------------------------
(* Properties                                                              *)

TypeOK ==
    /\ messages \in Seq(Seq(Message)) /\ lowest_view \in 0 .. MaxView
    /\ pushed \in 0 .. MaxMessages
    /\ outer \in Seq(Seq(Message)) /\ inner \in Seq(Message) /\ visited \in Seq(Message)
    /\ phase \in {"none", "borrowed", "ended"}

\* What get_messages_for_view returns is the abstract log.
Log == INSTANCE MessageLog WITH
         by_view <- [v \in 0 .. MaxView |-> get_messages_for_view(v)],
         lowest <- lowest_view

\* The window implements the log: over any order of pushes, gaps between views and
\* prunings, each view's messages are those that were pushed for it, in order.
ImplementsLog == Log!Spec

\* When `next` returns None the iterator has returned all that the views hold, lowest
\* view first: it goes on over the empty vectors of gaps, and a NewView certificate or
\* a vote is neither missed nor seen twice.
IterComplete ==
    phase = "ended" =>
        visited = FlattenSeq([i \in 1 .. MaxView + 1 |-> get_messages_for_view(i - 1)])

=============================================================================
