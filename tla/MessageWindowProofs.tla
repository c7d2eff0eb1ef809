------------------------ MODULE MessageWindowProofs ------------------------
(***************************************************************************)
(* The window implements the message log and its iterator visits all of it, *)
(* for any messages and bounds.                                            *)
(***************************************************************************)
EXTENDS MessageWindow, SequenceTheorems, NaturalsInduction, WellFoundedInduction, TLAPS

\* The window as the log sees it.
View(vectors, low, v) ==
    IF v < low \/ v - low >= Len(vectors) THEN << >> ELSE vectors[v - low + 1]

ByView == [v \in 0 .. MaxView |-> get_messages_for_view(v)]

\* The second test of get_messages_for_view is implied by the third.
LEMMA GetIsView ==
    ASSUME TypeOK, NEW v \in 0 .. MaxView
    PROVE  get_messages_for_view(v) = View(messages, lowest_view, v)
BY WindowAssumption DEF TypeOK, get_messages_for_view, View

\* The messages of a view after a push: the new one is at the end of its view, and
\* no other view is disturbed by the vectors added for a gap.
LEMMA InsertedView ==
    ASSUME TypeOK, NEW m \in Message, m.view >= lowest_view, NEW v \in 0 .. MaxView
    PROVE  /\ Inserted(m) \in Seq(Seq(Message))
           /\ View(Inserted(m), lowest_view, v)
                = IF v = m.view THEN Append(View(messages, lowest_view, v), m)
                  ELSE View(messages, lowest_view, v)
<1> DEFINE index == m.view - lowest_view
           gap == [i \in 1 .. index - Len(messages) |-> << >>]
           Vec == Seq(Message)
<1>1. messages \in Seq(Vec) /\ Len(messages) \in Nat /\ lowest_view \in Nat
      /\ m.view \in Nat /\ index \in Nat
  BY WindowAssumption DEF TypeOK
<1>2. CASE index < Len(messages)
  <2> DEFINE vec == Append(messages[index + 1], m)
  <2>1. Inserted(m) = [messages EXCEPT ![index + 1] = vec]
    BY <1>2, Zenon DEF Inserted
  <2>2. index + 1 \in 1 .. Len(messages)
    BY <1>1, <1>2, SMTT(40)
  <2>3. messages[index + 1] \in Vec
    BY <1>1, <2>2, ElementOfSeq, Zenon
  <2>4. vec \in Vec
    BY <2>3
  <2>5. index + 1 = m.view - lowest_view + 1
    BY Zenon
  <2> HIDE DEF Vec, vec, index
  <2>6. /\ Inserted(m) \in Seq(Vec)
        /\ Len(Inserted(m)) = Len(messages)
        /\ \A j \in 1 .. Len(messages) :
             Inserted(m)[j] = IF j = index + 1 THEN vec ELSE messages[j]
    BY <1>1, <2>1, <2>2, <2>4, ExceptSeq, SMTT(40)
  <2>7. View(Inserted(m), lowest_view, v)
          = IF v = m.view THEN vec ELSE View(messages, lowest_view, v)
    <3>1. CASE v < lowest_view \/ v - lowest_view >= Len(messages)
      BY <1>1, <1>2, <2>5, <2>6, <3>1, SMTT(40) DEF View
    <3>2. CASE ~(v < lowest_view \/ v - lowest_view >= Len(messages))
      <4>1. /\ v - lowest_view + 1 \in 1 .. Len(messages)
            /\ v - lowest_view + 1 = index + 1 <=> v = m.view
        BY <1>1, <2>5, <3>2, SMTT(40)
      <4>2. View(Inserted(m), lowest_view, v) = Inserted(m)[v - lowest_view + 1]
        BY <2>6, <3>2, Zenon DEF View
      <4>3. View(messages, lowest_view, v) = messages[v - lowest_view + 1]
        BY <3>2, Zenon DEF View
      <4>. QED BY <2>6, <4>1, <4>2, <4>3, Zenon
    <3>. QED BY <3>1, <3>2, Zenon
  <2>8. v = m.view => vec = Append(View(messages, lowest_view, v), m)
    <3>1. SUFFICES ASSUME v = m.view
                   PROVE  vec = Append(View(messages, lowest_view, v), m)
      BY Zenon
    <3>2. ~(v < lowest_view \/ v - lowest_view >= Len(messages))
      BY <1>1, <1>2, <3>1 DEF index
    <3>3. View(messages, lowest_view, v) = messages[v - lowest_view + 1]
      BY <3>2, Zenon DEF View
    <3>4. v - lowest_view + 1 = index + 1
      BY <3>1, Zenon DEF index
    <3>. QED BY <3>3, <3>4, Zenon DEF vec
  <2>. QED BY <2>6, <2>7, <2>8, Zenon DEF Vec
<1>3. CASE ~(index < Len(messages))
  <2>0. << >> \in Vec /\ <<m>> \in Vec
    OBVIOUS
  <2>1. Inserted(m) = Append(messages \o gap, <<m>>)
    BY <1>3, Zenon DEF Inserted
  <2>2. index - Len(messages) \in Nat
    BY <1>1, <1>3
  <2>3. /\ gap \in Seq(Vec)
        /\ Len(gap) = index - Len(messages)
        /\ \A i \in 1 .. index - Len(messages) : gap[i] = << >>
    <3> HIDE DEF Vec, index
    <3>. QED BY <2>0, <2>2
  <2>4. index = m.view - lowest_view
    BY Zenon
  <2> HIDE DEF Vec, gap, index
  <2>5. /\ messages \o gap \in Seq(Vec)
        /\ Len(messages \o gap) = index
        /\ \A i \in 1 .. index :
             (messages \o gap)[i] = IF i <= Len(messages) THEN messages[i] ELSE << >>
    <3>1. Len(messages) + Len(gap) = index
      BY <1>1, <2>2, <2>3
    <3>2. /\ messages \o gap \in Seq(Vec)
          /\ Len(messages \o gap) = index
          /\ \A i \in 1 .. index : (messages \o gap)[i]
               = IF i <= Len(messages) THEN messages[i] ELSE gap[i - Len(messages)]
      BY <1>1, <2>3, <3>1, ConcatProperties, Zenon
    <3>3. \A i \in 1 .. index : ~(i <= Len(messages)) => gap[i - Len(messages)] = << >>
      <4>1. \A i \in 1 .. index :
              ~(i <= Len(messages)) => i - Len(messages) \in 1 .. index - Len(messages)
        BY <1>1
      <4>. QED BY <2>3, <4>1, Zenon
    <3>. QED BY <3>2, <3>3, Zenon
  <2>6. /\ Inserted(m) \in Seq(Vec)
        /\ Len(Inserted(m)) = index + 1
        /\ Inserted(m)[index + 1] = <<m>>
        /\ \A i \in 1 .. index :
             Inserted(m)[i] = IF i <= Len(messages) THEN messages[i] ELSE << >>
    <3> DEFINE w == messages \o gap
    <3>1. w \in Seq(Vec) /\ Len(w) = index /\ Inserted(m) = Append(w, <<m>>)
      BY <2>1, <2>5, Zenon
    <3> HIDE DEF w
    <3>2. /\ Append(w, <<m>>) \in Seq(Vec)
          /\ Len(Append(w, <<m>>)) = Len(w) + 1
          /\ Append(w, <<m>>)[Len(w) + 1] = <<m>>
          /\ \A i \in 1 .. Len(w) : Append(w, <<m>>)[i] = w[i]
      BY <2>0, <3>1
    <3>. QED BY <1>1, <2>5, <3>1, <3>2, Zenon DEF w
  <2>7. CASE v = m.view
    <3>1. View(Inserted(m), lowest_view, v) = <<m>>
      BY <1>1, <2>4, <2>6, <2>7, SMTT(40) DEF View
    <3>2. View(messages, lowest_view, v) = << >>
      BY <1>1, <1>3, <2>4, <2>7 DEF View
    <3>. QED BY <2>6, <2>7, <3>1, <3>2, SMTT(40) DEF Vec
  <2>8. CASE v # m.view
    <3>1. View(Inserted(m), lowest_view, v) = View(messages, lowest_view, v)
      <4>1. CASE v < lowest_view
        BY <4>1, Zenon DEF View
      <4>2. CASE v > m.view
        <5>1. v - lowest_view >= Len(Inserted(m)) /\ v - lowest_view >= Len(messages)
          BY <1>1, <1>3, <2>4, <2>6, <4>2, SMTT(40)
        <5>. QED BY <5>1, Zenon DEF View
      <4>3. CASE ~(v < lowest_view \/ v > m.view)
        <5>1. v - lowest_view + 1 \in 1 .. index
          BY <1>1, <2>4, <2>8, <4>3, SMTT(40)
        <5>2. View(Inserted(m), lowest_view, v) = Inserted(m)[v - lowest_view + 1]
          BY <1>1, <2>6, <4>3, <5>1, SMTT(40) DEF View
        <5>. QED BY <1>1, <2>6, <4>3, <5>1, <5>2, SMTT(40) DEF View
      <4>. QED BY <4>1, <4>2, <4>3, Zenon
    <3>. QED BY <2>6, <2>8, <3>1, Zenon DEF Vec
  <2>. QED BY <2>7, <2>8, Zenon
<1>. QED BY <1>2, <1>3, Zenon

\* The messages of a view after a pruning: none before the view, all of them from
\* it on.  The range that is drained lies within the vector.
LEMMA PrunedView ==
    ASSUME TypeOK, NEW view \in 0 .. MaxView, prune_before_view(view), NEW v \in 0 .. MaxView
    PROVE  /\ messages' \in Seq(Seq(Message))
           /\ View(messages', view, v)
                = IF v < view THEN << >> ELSE View(messages, lowest_view, v)
<1>1. messages \in Seq(Seq(Message)) /\ lowest_view \in Nat /\ view >= lowest_view
  BY WindowAssumption DEF TypeOK, prune_before_view
<1>2. CASE view > lowest_view + Len(messages)
  BY <1>1, <1>2, WindowAssumption DEF prune_before_view, View
<1>3. CASE ~(view > lowest_view + Len(messages))
  <2>1. messages' = SubSeq(messages, view - lowest_view + 1, Len(messages))
    BY <1>3, Zenon DEF prune_before_view, Drained
  <2>2. /\ messages' \in Seq(Seq(Message))
        /\ Len(messages') = Len(messages) - (view - lowest_view)
        /\ \A i \in 1 .. Len(messages') : messages'[i] = messages[view - lowest_view + i]
    <3> DEFINE Vec == Seq(Message)
               first == view - lowest_view + 1
    <3>1. first \in Nat /\ first >= 1 /\ first <= Len(messages) + 1 /\ Len(messages) \in Nat
      BY <1>1, <1>3
    <3>2. \A i \in first .. Len(messages) : messages[i] \in Vec
      <4> HIDE DEF Vec, first
      <4>. QED BY <1>1, <3>1, ElementOfSeq DEF Vec
    <3>3. messages' = SubSeq(messages, first, Len(messages))
      BY <2>1, Zenon
    <3>4. first = view - lowest_view + 1
      BY Zenon
    <3> HIDE DEF Vec, first
    <3>5. /\ messages' \in Seq(Vec)
          /\ Len(messages') = Len(messages) - first + 1
          /\ \A i \in 1 .. Len(messages) - first + 1 : messages'[i] = messages[first + i - 1]
      BY <3>1, <3>2, <3>3, SubSeqProperties, SMTT(40)
    <3>6. \A i \in 1 .. Len(messages') : first + i - 1 = view - lowest_view + i
      BY <1>1, <3>1, <3>4, <3>5, SMTT(40)
    <3>. QED BY <1>1, <3>1, <3>4, <3>5, <3>6, SMTT(40) DEF Vec
  <2>. QED BY <1>1, <1>3, <2>2, WindowAssumption, SMTT(40) DEF View
<1>. QED BY <1>2, <1>3, Zenon

\* A turn of the iterator, and the making of one, hand out parts of what there is.
LEMMA IteratorTypes ==
    ASSUME TypeOK, iter \/ next
    PROVE  /\ outer' \in Seq(Seq(Message)) /\ inner' \in Seq(Message)
           /\ visited' \in Seq(Message) /\ phase' \in {"borrowed", "ended"}
<1> DEFINE Vec == Seq(Message)
<1>1. /\ messages \in Seq(Vec) /\ outer \in Seq(Vec) /\ inner \in Vec
      /\ visited \in Vec /\ << >> \in Vec
  BY EmptySeq, Zenon DEF TypeOK
<1>2. << >> \in Seq(Vec)
  BY EmptySeq, Zenon
<1>3. \A s \in Seq(Vec) : s # << >> => Head(s) \in Vec /\ Tail(s) \in Seq(Vec)
  <2> HIDE DEF Vec
  <2>. QED BY HeadTailProperties, Zenon
<1>4. inner # << >> => Head(inner) \in Message /\ Tail(inner) \in Vec
  BY <1>1, HeadTailProperties, Zenon
<1>5. CASE iter
  <2>1. CASE messages = << >>
    BY <1>1, <1>2, <1>5, <2>1, Zenon DEF iter
  <2>2. CASE messages # << >>
    BY <1>1, <1>3, <1>5, <2>2, Zenon DEF iter
  <2>. QED BY <2>1, <2>2, Zenon
<1>6. CASE next
  <2>1. CASE inner # << >>
    <3>1. Append(visited, Head(inner)) \in Vec
      BY <1>1, <1>4, <2>1, AppendProperties, Zenon
    <3>. QED BY <1>1, <1>4, <1>6, <2>1, <3>1, Zenon DEF next
  <2>2. CASE inner = << >> /\ outer # << >>
    BY <1>1, <1>3, <1>6, <2>2, Zenon DEF next
  <2>3. CASE inner = << >> /\ outer = << >>
    BY <1>1, <1>6, <2>3, Zenon DEF next
  <2>. QED BY <2>1, <2>2, <2>3, Zenon
<1>. QED BY <1>5, <1>6, Zenon

\* The window never leaves its type, whatever is pushed and pruned: what
\* get_messages_for_view and the iterator hand out are messages.
THEOREM TypeCorrect == Spec => []TypeOK
<1>1. Init => TypeOK
  BY WindowAssumption DEF Init, TypeOK
<1>2. TypeOK /\ [Next]_vars => TypeOK'
  <2> SUFFICES ASSUME TypeOK, [Next]_vars PROVE TypeOK'
    BY Zenon
  <2>0. << >> \in Seq(Message) /\ << >> \in Seq(Seq(Message))
    BY EmptySeq, Zenon
  <2>1. ASSUME NEW m \in Message, push(m) PROVE TypeOK'
    <3>1. m.view \in 0 .. MaxView
      BY WindowAssumption, Zenon
    <3>2. messages' \in Seq(Seq(Message))
      BY <2>1, <3>1, InsertedView, Zenon DEF push
    <3>3. pushed' \in 0 .. MaxMessages
      BY <2>1, WindowAssumption DEF push, TypeOK
    <3>. QED BY <2>0, <2>1, <3>2, <3>3, Zenon DEF push, Unborrowed, TypeOK
  <2>2. ASSUME NEW m \in Message, push_stale(m) PROVE TypeOK'
    <3>1. pushed' \in 0 .. MaxMessages
      BY <2>2, WindowAssumption DEF push_stale, TypeOK
    <3>. QED BY <2>0, <2>2, <3>1, Zenon DEF push_stale, Unborrowed, TypeOK
  <2>3. ASSUME NEW view \in 0 .. MaxView, prune_before_view(view) PROVE TypeOK'
    <3>1. messages' \in Seq(Seq(Message))
      BY <2>3, PrunedView, Zenon
    <3>. QED BY <2>0, <2>3, <3>1, Zenon DEF prune_before_view, Unborrowed, TypeOK
  <2>4. CASE iter \/ next
    <3>1. UNCHANGED window
      BY <2>4, Zenon DEF iter, next
    <3>. QED BY <2>4, <3>1, IteratorTypes, Zenon DEF TypeOK, window
  <2>5. CASE UNCHANGED vars
    BY <2>5, Zenon DEF vars, window, iterator, TypeOK
  <2>. QED BY <2>1, <2>2, <2>3, <2>4, <2>5, Zenon DEF Next
<1>. QED BY <1>1, <1>2, PTL DEF Spec

\* Every step of the window is a step of the log or leaves it as it was: push appends
\* to the message's view, prune_before_view forgets the views before, and a message
\* that comes too late changes nothing, nor does an iterator.
THEOREM WindowImplementsLog == Spec => ImplementsLog
<1>1. Init => Log!Init
  BY WindowAssumption DEF Init, Log!Init, get_messages_for_view
<1>2. TypeOK /\ TypeOK' /\ [Next]_vars => [Log!Next]_<<ByView, lowest_view>>
  <2> SUFFICES ASSUME TypeOK, TypeOK', [Next]_vars
               PROVE  [Log!Next]_<<ByView, lowest_view>>
    BY Zenon
  <2>0. /\ ByView = [v \in 0 .. MaxView |-> View(messages, lowest_view, v)]
        /\ ByView' = [v \in 0 .. MaxView |-> View(messages', lowest_view', v)]
    <3>1. \A v \in 0 .. MaxView : get_messages_for_view(v) = View(messages, lowest_view, v)
      BY GetIsView, Zenon
    <3>2. \A v \in 0 .. MaxView :
            get_messages_for_view(v)' = View(messages', lowest_view', v)
      BY WindowAssumption DEF TypeOK, get_messages_for_view, View
    <3>. QED BY <3>1, <3>2, Zenon DEF ByView
  <2>1. ASSUME NEW m \in Message, push(m) PROVE Log!Push(m)
    <3>1. m.view \in 0 .. MaxView /\ m.view >= lowest_view
      BY <2>1, WindowAssumption, Zenon DEF push
    <3>2. \A v \in 0 .. MaxView :
            View(messages', lowest_view', v)
              = IF v = m.view THEN Append(View(messages, lowest_view, v), m)
                ELSE View(messages, lowest_view, v)
      BY <2>1, <3>1, InsertedView, Zenon DEF push
    <3>3. ByView' = [ByView EXCEPT ![m.view] = Append(@, m)]
      BY <2>0, <3>1, <3>2, Zenon
    <3>. QED BY <2>1, <3>1, <3>3, Zenon DEF push, Log!Push, ByView
  <2>2. ASSUME NEW m \in Message, push_stale(m) PROVE UNCHANGED <<ByView, lowest_view>>
    BY <2>0, <2>2, Zenon DEF push_stale
  <2>3. ASSUME NEW view \in 0 .. MaxView, prune_before_view(view)
        PROVE  Log!Prune(view) \/ UNCHANGED <<ByView, lowest_view>>
    <3>1. lowest_view' = view /\ view >= lowest_view /\ lowest_view \in Nat
      BY <2>3 DEF prune_before_view, TypeOK
    <3>2. \A v \in 0 .. MaxView :
            View(messages', view, v) = IF v < view THEN << >> ELSE View(messages, lowest_view, v)
      BY <2>3, PrunedView, Zenon
    <3>3. ByView' = [v \in 0 .. MaxView |-> IF v < view THEN << >> ELSE ByView[v]]
      BY <2>0, <3>1, <3>2, Zenon
    <3>4. CASE view = lowest_view
      <4>1. \A v \in 0 .. MaxView : v < view => View(messages, lowest_view, v) = << >>
        BY <3>4, Zenon DEF View
      <4>. QED BY <2>0, <3>1, <3>3, <3>4, <4>1, Zenon
    <3>5. CASE view > lowest_view
      BY <3>1, <3>3, <3>5, Zenon DEF Log!Prune, ByView
    <3>. QED BY <3>1, <3>4, <3>5, WindowAssumption, SMTT(40)
  <2>4. CASE iter \/ next \/ UNCHANGED vars
    <3>1. UNCHANGED window
      BY <2>4, Zenon DEF iter, next, vars
    <3>. QED BY <2>0, <3>1, Zenon DEF window
  <2>. QED BY <2>1, <2>2, <2>3, <2>4, Zenon DEF Next, Log!Next
<1>. QED BY <1>1, <1>2, TypeCorrect, PTL DEF Spec, ImplementsLog, Log!Spec, ByView

-----------------------------------------------------------------------------
(* The iterator                                                            *)

\* A set of numbers that is not empty has a least element.
LEMMA LeastNumber ==
    ASSUME NEW T, T \subseteq Nat, T # {}
    PROVE  \E n \in T : \A m \in T : n <= m
<1> DEFINE R == {ss \in Nat \X Nat : ss[1] < ss[2]}
<1>1. IsWellFoundedOn(R, Nat)
  BY NatLessThanWellFounded, Zenon DEF OpToRel
<1>2. \A x, y \in Nat : ~(<<y, x>> \in R) => x <= y
  OBVIOUS
<1> HIDE DEF R
<1>3. \E x \in T : \A y \in T : ~(<<y, x>> \in R)
  BY <1>1, WFMin, Zenon
<1>. QED BY <1>2, <1>3, Zenon

\* Induction from 1 to a bound, for the set of the numbers that have the property.
LEMMA UpTo ==
    ASSUME NEW b \in Nat, NEW S, 1 \in S, \A n \in 1 .. b - 1 : n \in S => n + 1 \in S
    PROVE  \A n \in 1 .. b : n \in S
<1> SUFFICES ASSUME (1 .. b) \ S # {} PROVE FALSE
  BY Zenon
<1>1. PICK n \in (1 .. b) \ S : \A m \in (1 .. b) \ S : n <= m
  <2>1. (1 .. b) \ S \subseteq Nat
    OBVIOUS
  <2>. QED BY <2>1, LeastNumber, Zenon
<1>2. n # 1 => n - 1 \in 1 .. b - 1 /\ n - 1 \in 1 .. b /\ ~(n <= n - 1) /\ n - 1 + 1 = n
  BY <1>1
<1>3. n # 1
  BY <1>1, Zenon
<1>4. n - 1 \in S
  BY <1>1, <1>2, <1>3, Zenon
<1>. QED BY <1>1, <1>2, <1>3, <1>4, Zenon

\* f[i] is the first i sequences of s, one after the other.
FirstVectors(s, f) == f = [i \in 1 .. Len(s) |-> IF i = 1 THEN s[i] ELSE f[i - 1] \o s[i]]

\* The flattened sequence is what its recursive definition says: such a function exists.
LEMMA Flattened ==
    ASSUME NEW s \in Seq(Seq(Message)), Len(s) > 0
    PROVE  \E f : FirstVectors(s, f) /\ FlattenSeq(s) = f[Len(s)]
<1> DEFINE Loop(f, n) == f = [i \in 1 .. n |-> IF i = 1 THEN s[i] ELSE f[i - 1] \o s[i]]
           S == {n \in Nat : \E f : Loop(f, n)}
<1>0. Len(s) \in Nat /\ Len(s) # 0
  OBVIOUS
<1>1. 1 \in S
  <2>1. Loop([i \in 1 .. 1 |-> s[i]], 1)
    OBVIOUS
  <2>. QED BY <2>1, Zenon
<1>2. ASSUME NEW n \in 1 .. Len(s) - 1, n \in S PROVE n + 1 \in S
  <2>1. n \in Nat /\ n + 1 \in Nat
    OBVIOUS
  <2>2. PICK g : Loop(g, n)
    BY <1>2, Zenon
  <2> DEFINE h == [i \in 1 .. n + 1 |-> IF i = 1 THEN s[i] ELSE g[i - 1] \o s[i]]
  <2>3. \A i \in 1 .. n : h[i] = g[i]
    <3>1. \A i \in 1 .. n : i \in 1 .. n + 1
      BY <2>1
    <3>2. \A i \in 1 .. n : g[i] = IF i = 1 THEN s[i] ELSE g[i - 1] \o s[i]
      BY <2>2, Zenon
    <3>. QED BY <3>1, <3>2, Zenon
  <2>4. \A i \in 1 .. n + 1 : i # 1 => i - 1 \in 1 .. n
    BY <2>1
  <2>5. Loop(h, n + 1)
    BY <2>3, <2>4, Zenon
  <2> HIDE DEF h, Loop
  <2>. QED BY <2>1, <2>5, Zenon
<1> HIDE DEF S
<1>3. Len(s) \in S
  <2>1. Len(s) \in 1 .. Len(s)
    BY <1>0
  <2>. QED BY <1>0, <1>1, <1>2, <2>1, UpTo, Zenon
<1>4. \E f : Loop(f, Len(s))
  BY <1>3, Zenon DEF S
<1>. QED BY <1>0, <1>4, Zenon DEF FlattenSeq, FirstVectors

\* The prefixes are sequences of messages, one longer than the other.
LEMMA PrefixSteps ==
    ASSUME NEW s \in Seq(Seq(Message)), Len(s) > 0, NEW f, FirstVectors(s, f)
    PROVE  /\ f[1] = s[1]
           /\ \A i \in 1 .. Len(s) - 1 : f[i + 1] = f[i] \o s[i + 1]
           /\ \A i \in 1 .. Len(s) : f[i] \in Seq(Message)
<1> DEFINE Vec == Seq(Message)
           S == {i \in Nat : i \in 1 .. Len(s) => f[i] \in Vec}
<1>0. Len(s) \in Nat /\ 1 \in 1 .. Len(s) /\ 1 \in Nat
  OBVIOUS
<1>1. \A i \in 1 .. Len(s) : s[i] \in Vec
  <2> HIDE DEF Vec
  <2>. QED BY ElementOfSeq, Zenon DEF Vec
<1>2. \A i \in 1 .. Len(s) : f[i] = IF i = 1 THEN s[i] ELSE f[i - 1] \o s[i]
  BY Zenon DEF FirstVectors
<1>3. f[1] = s[1]
  BY <1>0, <1>2, Zenon
<1>4. \A i \in 1 .. Len(s) - 1 : f[i + 1] = f[i] \o s[i + 1]
  <2> SUFFICES ASSUME NEW i \in 1 .. Len(s) - 1 PROVE f[i + 1] = f[i] \o s[i + 1]
    BY Zenon
  <2> DEFINE k == i + 1
  <2>1. k \in 1 .. Len(s) /\ k # 1 /\ k - 1 = i
    BY <1>0
  <2> HIDE DEF k
  <2>2. f[k] = f[i] \o s[k]
    BY <1>2, <2>1, Zenon
  <2>. QED BY <2>2, Zenon DEF k
<1>5. \A i \in 1 .. Len(s) : i \in S
  <2>1. 1 \in S
    BY <1>0, <1>1, <1>3, Zenon
  <2>2. ASSUME NEW n \in 1 .. Len(s) - 1, n \in S PROVE n + 1 \in S
    <3>1. n \in 1 .. Len(s) /\ n + 1 \in 1 .. Len(s) /\ n + 1 \in Nat
      BY <1>0
    <3>2. f[n] \in Vec /\ s[n + 1] \in Vec
      BY <1>1, <2>2, <3>1, Zenon
    <3>3. f[n] \o s[n + 1] \in Vec
      BY <3>2
    <3>. QED BY <1>4, <3>1, <3>3, Zenon
  <2> HIDE DEF S
  <2>. QED BY <1>0, <2>1, <2>2, UpTo, Zenon
<1>. QED BY <1>3, <1>4, <1>5, Zenon

\* Empty sequences before and after a sequence of sequences add nothing to it.
LEMMA PaddingAddsNothing ==
    ASSUME NEW s \in Seq(Seq(Message)), NEW low \in Nat, NEW width \in Nat, width > 0,
           low + Len(s) <= width
    PROVE  FlattenSeq(s)
             = FlattenSeq([i \in 1 .. width |-> View(s, low, i - 1)])
<1> DEFINE p == [i \in 1 .. width |-> View(s, low, i - 1)]
           n == Len(s)
<1>0. n \in Nat
  OBVIOUS
<1>1. \A i \in 1 .. width : /\ (i <= low \/ i > low + n) => p[i] = << >>
                            /\ ~(i <= low \/ i > low + n) => p[i] = s[i - low] /\ i - low \in 1 .. n
  BY <1>0 DEF View
<1>2. p \in Seq(Seq(Message)) /\ Len(p) = width
  <2> DEFINE Vec == Seq(Message)
  <2>1. << >> \in Vec
    OBVIOUS
  <2> HIDE DEF Vec, p
  <2>2. \A i \in 1 .. n : s[i] \in Vec
    BY ElementOfSeq, Zenon DEF Vec
  <2>3. \A i \in 1 .. width : p[i] \in Vec
    BY <1>1, <2>1, <2>2, Zenon
  <2>4. p = [i \in 1 .. width |-> p[i]]
    BY Zenon DEF p
  <2>5. p \in [1 .. width -> Vec]
    BY <2>3, <2>4, Zenon
  <2>6. p \in Seq(Vec) /\ Len(p) = width
    BY <2>5
  <2>. QED BY <2>6, Zenon DEF Vec
<1>9. low + n <= width
  BY Zenon
<1> HIDE DEF p, n
<1>3. PICK f : FirstVectors(p, f) /\ FlattenSeq(p) = f[width]
  BY <1>2, Flattened, Zenon
<1>4. /\ f[1] = p[1]
      /\ \A i \in 1 .. width - 1 : f[i + 1] = f[i] \o p[i + 1]
      /\ \A i \in 1 .. width : f[i] \in Seq(Message)
  BY <1>2, <1>3, PrefixSteps, Zenon
<1>5. \A x \in Seq(Message) : << >> \o x = x /\ x \o << >> = x
  BY ConcatEmptySeq, Zenon
<1>6. << >> \in Seq(Message) /\ 1 \in 1 .. width /\ 1 \in Nat /\ width \in 1 .. width
  OBVIOUS
<1>7. CASE n = 0
  <2> DEFINE S == {i \in Nat : f[i] = << >>}
  <2>1. s = << >> /\ FlattenSeq(s) = << >>
    BY <1>7 DEF FlattenSeq, n
  <2>2. \A i \in 1 .. width : p[i] = << >>
    BY <1>1, <1>7
  <2>3. 1 \in S
    BY <1>4, <1>6, <2>2, Zenon
  <2>4. ASSUME NEW i \in 1 .. width - 1, i \in S PROVE i + 1 \in S
    <3>1. i + 1 \in Nat /\ i + 1 \in 1 .. width
      OBVIOUS
    <3>. QED BY <1>4, <1>5, <1>6, <2>2, <2>4, <3>1, Zenon
  <2>5. \A i \in 1 .. width : i \in S
    <3> HIDE DEF S
    <3>. QED BY <2>3, <2>4, UpTo, Zenon
  <2>6. f[width] = << >>
    BY <1>6, <2>5, Zenon
  <2>. QED BY <1>3, <2>1, <2>6, Zenon DEF p
<1>8. CASE n # 0
  <2>0. n > 0
    BY <1>0, <1>8
  <2>1. PICK g : FirstVectors(s, g) /\ FlattenSeq(s) = g[n]
    BY <2>0, Flattened, Zenon DEF n
  <2>2. /\ g[1] = s[1]
        /\ \A i \in 1 .. n - 1 : g[i + 1] = g[i] \o s[i + 1]
        /\ \A i \in 1 .. n : g[i] \in Seq(Message)
    BY <2>0, <2>1, PrefixSteps, Zenon DEF n
  <2> DEFINE At(i) == IF i <= low THEN << >> ELSE IF i <= low + n THEN g[i - low] ELSE g[n]
             S == {i \in Nat : f[i] = At(i)}
  <2>3. 1 \in S
    <3>1. CASE 1 <= low
      BY <1>1, <1>4, <1>6, <3>1, Zenon
    <3>2. CASE ~(1 <= low)
      <4>1. low = 0 /\ ~(1 <= low \/ 1 > low + n) /\ 1 - low = 1 /\ 1 <= low + n
        BY <1>0, <1>8, <3>2, SMTT(40)
      <4>. QED BY <1>1, <1>4, <1>6, <2>2, <3>2, <4>1, Zenon
    <3>. QED BY <3>1, <3>2, Zenon
  <2>4. ASSUME NEW i \in 1 .. width - 1, i \in S PROVE i + 1 \in S
    <3> DEFINE k == i + 1
    <3>0. k \in Nat /\ k \in 1 .. width /\ i \in Nat
      OBVIOUS
    <3>1. f[k] = f[i] \o p[k] /\ f[i] = At(i)
      BY <1>4, <2>4, Zenon
    <3>2. CASE k <= low
      <4>1. i <= low /\ k <= low
        BY <3>2
      <4> HIDE DEF k
      <4>2. p[k] = << >> /\ f[i] = << >> /\ At(k) = << >>
        BY <1>1, <3>0, <3>1, <4>1, Zenon
      <4>3. k \in S
        BY <1>5, <1>6, <3>0, <3>1, <4>2, Zenon
      <4>. QED BY <4>3, Zenon DEF k
    <3>3. CASE k = low + 1
      <4>1. i <= low /\ ~(k <= low) /\ k <= low + n /\ k - low = 1 /\ ~(k <= low \/ k > low + n) /\ 1 \in 1 .. n
        BY <1>0, <1>8, <3>3, SMTT(40)
      <4> HIDE DEF k
      <4>2. p[k] = s[1] /\ f[i] = << >> /\ At(k) = s[1] /\ s[1] \in Seq(Message)
        BY <1>1, <2>2, <3>0, <3>1, <4>1, Zenon
      <4>3. k \in S
        BY <1>5, <3>0, <3>1, <4>2, Zenon
      <4>. QED BY <4>3, Zenon DEF k
    <3>4. CASE k > low + 1 /\ k <= low + n
      <4> DEFINE j == i - low
      <4>1. /\ ~(i <= low) /\ i <= low + n /\ ~(k <= low) /\ k <= low + n /\ ~(k <= low \/ k > low + n)
            /\ k - low = j + 1 /\ j \in 1 .. n - 1
        BY <1>0, <3>4, SMTT(40)
      <4>2. At(i) = g[j]
        BY <4>1, Zenon
      <4> HIDE DEF k, j
      <4>3. p[k] = s[j + 1] /\ f[i] = g[j] /\ At(k) = g[j + 1]
        BY <1>1, <3>0, <3>1, <4>1, <4>2, Zenon
      <4>4. k \in S
        BY <2>2, <3>0, <3>1, <4>1, <4>3, Zenon
      <4>. QED BY <4>4, Zenon DEF k
    <3>5. CASE k > low + n
      <4>1. ~(k <= low) /\ ~(k <= low + n) /\ ~(i <= low) /\ (i <= low + n => i - low = n) /\ n \in 1 .. n
        BY <1>0, <1>8, <3>5, SMTT(40)
      <4>2. At(i) = g[n]
        BY <4>1, Zenon
      <4> HIDE DEF k
      <4>3. p[k] = << >> /\ f[i] = g[n] /\ At(k) = g[n] /\ g[n] \in Seq(Message)
        BY <1>1, <2>2, <3>0, <3>1, <3>5, <4>1, <4>2, Zenon
      <4>4. k \in S
        BY <1>5, <3>0, <3>1, <4>3, Zenon
      <4>. QED BY <4>4, Zenon DEF k
    <3>. QED BY <1>0, <3>2, <3>3, <3>4, <3>5, SMTT(40)
  <2>5. \A i \in 1 .. width : i \in S
    <3> HIDE DEF S
    <3>. QED BY <2>3, <2>4, UpTo, Zenon
  <2>6. f[width] = At(width)
    BY <1>6, <2>5, Zenon
  <2>7. ~(width <= low) /\ (width <= low + n => width - low = n)
    BY <1>0, <1>8, <1>9, SMTT(40)
  <2>8. f[width] = g[n]
    BY <2>6, <2>7, Zenon
  <2>. QED BY <1>3, <2>1, <2>8, Zenon DEF p
<1>. QED BY <1>7, <1>8, Zenon

\* Concatenation of messages is associative.
LEMMA MessagesAssociative ==
    \A r, s, t \in Seq(Message) : (r \o s) \o t = r \o (s \o t)
<1> DEFINE Vec == Seq(Message)
<1> SUFFICES ASSUME NEW r \in Vec, NEW s \in Vec, NEW t \in Vec
             PROVE  (r \o s) \o t = r \o (s \o t)
  BY Zenon
<1>. QED BY ConcatAssociative, SMTT(30)

\* The head of a sequence may as well be the last of those before it.
LEMMA HeadMoves ==
    ASSUME NEW v \in Seq(Message), NEW s \in Seq(Message), s # << >>
    PROVE  Append(v, Head(s)) \o Tail(s) = v \o s
<1>1. Head(s) \in Message /\ Tail(s) \in Seq(Message)
  BY HeadTailProperties, Zenon
<1>2. PICK h \in Seq(Message) : h = <<Head(s)>>
  <2>1. <<Head(s)>> \in Seq(Message)
    BY <1>1, SMTT(30)
  <2>. QED BY <2>1, Zenon
<1>3. Append(v, Head(s)) = v \o h
  BY <1>1, <1>2, AppendIsConcat, Zenon
<1>4. s = h \o Tail(s)
  BY <1>1, <1>2
<1>5. PICK rest \in Seq(Message) : rest = Tail(s)
  BY <1>1, Zenon
<1>6. (v \o h) \o rest = v \o (h \o rest)
  BY MessagesAssociative, SMTT(30)
<1>. QED BY <1>3, <1>4, <1>5, <1>6, Zenon

\* Flattening takes the vectors one by one from the front, as the iterator does.
LEMMA FlattenCons ==
    ASSUME NEW s \in Seq(Seq(Message)), s # << >>
    PROVE  FlattenSeq(s) = Head(s) \o FlattenSeq(Tail(s)) /\ FlattenSeq(s) \in Seq(Message)
           /\ FlattenSeq(Tail(s)) \in Seq(Message) /\ Head(s) \in Seq(Message)
<1> DEFINE Vec == Seq(Message)
           t == Tail(s)
           n == Len(s)
<1>0. n \in Nat /\ n > 0 /\ Head(s) = s[1]
  OBVIOUS
<1>1. /\ Head(s) \in Vec /\ t \in Seq(Vec) /\ Len(t) = n - 1
      /\ \A i \in 1 .. Len(t) : t[i] = s[i + 1]
  <2> HIDE DEF Vec
  <2>. QED BY HeadTailProperties, Zenon DEF Vec
<1> HIDE DEF t
<1>2. PICK f : FirstVectors(s, f) /\ FlattenSeq(s) = f[n]
  BY <1>0, Flattened, Zenon
<1>3. /\ f[1] = s[1]
      /\ \A i \in 1 .. n - 1 : f[i + 1] = f[i] \o s[i + 1]
      /\ \A i \in 1 .. n : f[i] \in Vec
  BY <1>0, <1>2, PrefixSteps, Zenon
<1>4. n \in 1 .. n
  BY <1>0
<1>5. FlattenSeq(s) \in Vec
  BY <1>2, <1>3, <1>4, Zenon
<1>6. CASE n = 1
  <2>1. Len(t) = 0
    BY <1>1, <1>6
  <2>2. t = << >>
    BY <1>1, <2>1, EmptySeq, Zenon
  <2>3. FlattenSeq(t) = << >>
    BY <2>1, <2>2, Zenon DEF FlattenSeq
  <2>4. Head(s) \o << >> = Head(s) /\ << >> \in Vec
    BY <1>1, ConcatEmptySeq, EmptySeq, Zenon
  <2>. QED BY <1>0, <1>1, <1>2, <1>3, <1>5, <1>6, <2>3, <2>4, Zenon DEF t
<1>7. CASE n # 1
  <2>0. Len(t) \in Nat /\ Len(t) > 0 /\ n - 1 \in Nat /\ Len(t) \in 1 .. Len(t)
    BY <1>0, <1>1, <1>7
  <2>1. PICK g : FirstVectors(t, g) /\ FlattenSeq(t) = g[Len(t)]
    BY <1>1, <2>0, Flattened, Zenon
  <2>2. /\ g[1] = t[1]
        /\ \A i \in 1 .. Len(t) - 1 : g[i + 1] = g[i] \o t[i + 1]
        /\ \A i \in 1 .. Len(t) : g[i] \in Vec
    BY <1>1, <2>0, <2>1, PrefixSteps, Zenon
  <2> DEFINE S == {i \in Nat : f[i + 1] = Head(s) \o g[i]}
  <2>3. 1 \in S
    <3>1. 1 \in 1 .. n - 1 /\ 1 \in 1 .. Len(t) /\ 1 \in Nat
      BY <1>0, <1>1, <1>7
    <3>. QED BY <1>0, <1>1, <1>3, <2>2, <3>1, Zenon
  <2>4. ASSUME NEW i \in 1 .. Len(t) - 1, i \in S PROVE i + 1 \in S
    <3>1. /\ i + 1 \in 1 .. n - 1 /\ i + 1 \in 1 .. Len(t) /\ i \in 1 .. Len(t)
          /\ i + 1 \in Nat
      BY <1>0, <1>1, <2>0
    <3>2. f[(i + 1) + 1] = f[i + 1] \o s[(i + 1) + 1]
      BY <1>3, <3>1, Zenon
    <3>3. f[i + 1] = Head(s) \o g[i] /\ s[(i + 1) + 1] = t[i + 1]
      BY <1>1, <2>4, <3>1, Zenon
    <3>4. g[i] \in Vec /\ t[i + 1] \in Vec
      <4>1. t[i + 1] \in Vec
        <5> HIDE DEF Vec
        <5>. QED BY <1>1, <3>1, ElementOfSeq, Zenon
      <4>. QED BY <2>2, <3>1, <4>1, Zenon
    <3>5. (Head(s) \o g[i]) \o t[i + 1] = Head(s) \o (g[i] \o t[i + 1])
      BY <1>1, <3>4, MessagesAssociative, ZenonT(60)
    <3>6. g[i + 1] = g[i] \o t[i + 1]
      BY <2>2, Zenon
    <3>. QED BY <3>1, <3>2, <3>3, <3>5, <3>6, Zenon
  <2>5. Len(t) \in S
    <3> HIDE DEF S
    <3>. QED BY <2>0, <2>3, <2>4, UpTo, Zenon
  <2>6. Len(t) + 1 = n
    BY <1>0, <1>1
  <2>7. f[n] = Head(s) \o g[Len(t)]
    BY <2>5, <2>6, Zenon
  <2>. QED BY <1>1, <1>2, <1>5, <2>0, <2>1, <2>2, <2>7, Zenon DEF t
<1>. QED BY <1>6, <1>7, Zenon

\* What the iterator has returned and what is still to come are the window.
IterInv ==
    /\ phase = "borrowed" => (visited \o inner) \o FlattenSeq(outer) = FlattenSeq(messages)
    /\ phase = "ended" => visited = FlattenSeq(messages)

\* No vectors hold no messages, and flattened vectors are messages.
LEMMA FlattenType ==
    /\ FlattenSeq(<< >>) = << >>
    /\ \A s \in Seq(Seq(Message)) : FlattenSeq(s) \in Seq(Message)
<1>1. Len(<< >>) = 0 /\ << >> \in Seq(Message)
  BY EmptySeq, Zenon
<1>2. FlattenSeq(<< >>) = << >>
  BY <1>1, Zenon DEF FlattenSeq
<1>. QED BY <1>1, <1>2, FlattenCons, Zenon

\* An iterator that was just made has the whole window to come.
LEMMA IterStarts ==
    ASSUME TypeOK, iter
    PROVE  IterInv'
<1> DEFINE Vec == Seq(Message)
<1>1. messages \in Seq(Vec) /\ << >> \in Vec
  BY EmptySeq, Zenon DEF TypeOK
<1>2. phase' = "borrowed" /\ visited' = << >> /\ messages' = messages
  BY Zenon DEF iter, window
<1>3. (<< >> \o inner') \o FlattenSeq(outer') = FlattenSeq(messages)
  <2>1. CASE messages = << >>
    <3>1. inner' = << >> /\ outer' = << >>
      BY <2>1, Zenon DEF iter
    <3>2. (<< >> \o << >>) \o << >> = << >>
      BY <1>1, ConcatEmptySeq, Zenon
    <3>. QED BY <2>1, <3>1, <3>2, FlattenType, Zenon
  <2>2. CASE messages # << >>
    <3>1. inner' = Head(messages) /\ outer' = Tail(messages)
      BY <2>2, Zenon DEF iter
    <3>2. /\ Head(messages) \in Vec
          /\ FlattenSeq(messages) = Head(messages) \o FlattenSeq(Tail(messages))
      BY <1>1, <2>2, FlattenCons, Zenon
    <3>3. << >> \o Head(messages) = Head(messages)
      BY <3>2, ConcatEmptySeq, Zenon
    <3>. QED BY <3>1, <3>2, <3>3, Zenon
  <2>. QED BY <2>1, <2>2, Zenon
<1>. QED BY <1>2, <1>3, Zenon DEF IterInv

\* A turn of the loop moves a message to those returned, or the front vector to the
\* inner one, or there is nothing more to come.
LEMMA IterAdvances ==
    ASSUME TypeOK, IterInv, next
    PROVE  IterInv'
<1> DEFINE Vec == Seq(Message)
<1>1. /\ messages \in Seq(Vec) /\ outer \in Seq(Vec) /\ inner \in Vec
      /\ visited \in Vec /\ << >> \in Vec
  BY EmptySeq, Zenon DEF TypeOK
<1>2. /\ (visited \o inner) \o FlattenSeq(outer) = FlattenSeq(messages)
      /\ messages' = messages
  BY Zenon DEF next, window, IterInv
<1>3. CASE inner # << >>
  <2>1. /\ visited' = Append(visited, Head(inner)) /\ inner' = Tail(inner)
        /\ outer' = outer /\ phase' = "borrowed"
    BY <1>3, Zenon DEF next
  <2>2. visited' \o inner' = visited \o inner
    BY <1>1, <1>3, <2>1, HeadMoves, Zenon
  <2>. QED BY <1>2, <2>1, <2>2, Zenon DEF IterInv
<1>4. CASE inner = << >> /\ outer # << >>
  <2>1. /\ visited' = visited /\ inner' = Head(outer)
        /\ outer' = Tail(outer) /\ phase' = "borrowed"
    BY <1>4, Zenon DEF next
  <2>2. /\ FlattenSeq(outer) = Head(outer) \o FlattenSeq(Tail(outer))
        /\ Head(outer) \in Vec /\ FlattenSeq(Tail(outer)) \in Vec
    BY <1>1, <1>4, FlattenCons, Zenon
  <2>3. visited \o << >> = visited
    BY <1>1, ConcatEmptySeq, Zenon
  <2>4. (visited \o Head(outer)) \o FlattenSeq(Tail(outer))
          = visited \o (Head(outer) \o FlattenSeq(Tail(outer)))
    BY <1>1, <2>2, MessagesAssociative, ZenonT(60)
  <2>5. (visited' \o inner') \o FlattenSeq(outer') = FlattenSeq(messages)
    BY <1>2, <1>4, <2>1, <2>2, <2>3, <2>4, Zenon
  <2>. QED BY <1>2, <2>1, <2>5, Zenon DEF IterInv
<1>5. CASE inner = << >> /\ outer = << >>
  <2>1. visited' = visited /\ phase' = "ended"
    BY <1>5, Zenon DEF next
  <2>2. visited \o << >> = visited
    BY <1>1, ConcatEmptySeq, Zenon
  <2>3. visited = FlattenSeq(messages)
    BY <1>2, <1>5, <2>2, FlattenType, Zenon
  <2>. QED BY <1>2, <2>1, <2>3, Zenon DEF IterInv
<1>. QED BY <1>3, <1>4, <1>5, Zenon

\* The vectors of the window are for views that there are.
Fits == lowest_view + Len(messages) <= MaxView + 1

\* A message of a view beyond the window makes it as long as the view requires.
LEMMA InsertedFits ==
    ASSUME TypeOK, Fits, NEW m \in Message, m.view >= lowest_view
    PROVE  lowest_view + Len(Inserted(m)) <= MaxView + 1
<1> DEFINE index == m.view - lowest_view
           gap == [i \in 1 .. index - Len(messages) |-> << >>]
           Vec == Seq(Message)
<1>1. messages \in Seq(Vec) /\ Len(messages) \in Nat /\ lowest_view \in Nat
      /\ m.view \in Nat /\ m.view <= MaxView /\ MaxView \in Nat /\ index \in Nat
      /\ lowest_view + index = m.view /\ lowest_view + Len(messages) <= MaxView + 1
  BY WindowAssumption DEF TypeOK, Fits
<1>2. CASE index < Len(messages)
  <2> DEFINE vec == Append(messages[index + 1], m)
  <2>1. Inserted(m) = [messages EXCEPT ![index + 1] = vec]
    BY <1>2, Zenon DEF Inserted
  <2> HIDE DEF vec, index
  <2>2. Len(Inserted(m)) = Len(messages)
    BY <1>1, <2>1, SMTT(40)
  <2>. QED BY <1>1, <2>2, Zenon
<1>3. CASE ~(index < Len(messages))
  <2>1. Inserted(m) = Append(messages \o gap, <<m>>)
    BY <1>3, Zenon DEF Inserted
  <2>2. index - Len(messages) \in Nat /\ << >> \in Vec /\ <<m>> \in Vec
    BY <1>1, <1>3
  <2> HIDE DEF Vec, index
  <2>3. gap \in Seq(Vec) /\ Len(gap) = index - Len(messages)
    BY <2>2
  <2> HIDE DEF gap
  <2>4. messages \o gap \in Seq(Vec) /\ Len(messages \o gap) = index
    <3>1. Len(messages \o gap) = Len(messages) + Len(gap) /\ messages \o gap \in Seq(Vec)
      BY <1>1, <2>3, ConcatProperties, Zenon
    <3>. QED BY <1>1, <2>3, <3>1, SMTT(40)
  <2> DEFINE w == messages \o gap
  <2> HIDE DEF w
  <2>5. w \in Seq(Vec) /\ Len(w) = index /\ Inserted(m) = Append(w, <<m>>)
    BY <2>1, <2>4, Zenon DEF w
  <2>6. Len(Append(w, <<m>>)) = Len(w) + 1
    BY <2>2, <2>5, AppendProperties, Zenon
  <2>7. Len(Inserted(m)) = index + 1
    BY <2>5, <2>6, Zenon
  <2>. QED BY <1>1, <2>7
<1>. QED BY <1>2, <1>3, Zenon

\* When `next` has returned None it has returned what the views hold, lowest view first:
\* the vectors that fill gaps are passed over, and nothing is missed or returned twice.
THEOREM IterVisitsAll == Spec => []IterComplete
<1>1. Init => Fits
  BY WindowAssumption DEF Init, Fits
<1>2. TypeOK /\ Fits /\ [Next]_vars => Fits'
  <2> SUFFICES ASSUME TypeOK, Fits, [Next]_vars PROVE Fits'
    BY Zenon
  <2>1. ASSUME NEW m \in Message, push(m) PROVE Fits'
    BY <2>1, InsertedFits, Zenon DEF push, Fits
  <2>2. ASSUME NEW m \in Message, push_stale(m) PROVE Fits'
    BY <2>2, Zenon DEF push_stale, Fits
  <2>3. ASSUME NEW view \in 0 .. MaxView, prune_before_view(view) PROVE Fits'
    <3>1. messages \in Seq(Seq(Message)) /\ lowest_view \in Nat /\ view >= lowest_view
          /\ lowest_view' = view /\ MaxView \in Nat
      BY <2>3, WindowAssumption DEF TypeOK, prune_before_view
    <3>2. CASE view > lowest_view + Len(messages)
      BY <2>3, <3>1, <3>2 DEF prune_before_view, Fits
    <3>3. CASE ~(view > lowest_view + Len(messages))
      <4> DEFINE Vec == Seq(Message)
                 first == view - lowest_view + 1
      <4>1. messages' = SubSeq(messages, first, Len(messages))
        BY <2>3, <3>3, Zenon DEF prune_before_view, Drained
      <4>2. first \in Nat /\ first >= 1 /\ first <= Len(messages) + 1 /\ Len(messages) \in Nat
            /\ lowest_view + first = view + 1
        BY <3>1, <3>3, SMTT(40)
      <4>3. \A i \in first .. Len(messages) : messages[i] \in Vec
        <5> HIDE DEF Vec, first
        <5>. QED BY <3>1, <4>2, ElementOfSeq, SMTT(40) DEF Vec
      <4> HIDE DEF Vec, first
      <4>4. Len(messages') = Len(messages) - first + 1
        BY <4>1, <4>2, <4>3, SubSeqProperties, SMTT(40)
      <4>. QED BY <3>1, <4>2, <4>4, SMTT(40) DEF Fits
    <3>. QED BY <3>2, <3>3, Zenon
  <2>4. CASE iter \/ next \/ UNCHANGED vars
    BY <2>4, Zenon DEF iter, next, vars, window, Fits
  <2>. QED BY <2>1, <2>2, <2>3, <2>4, Zenon DEF Next
<1>3. Init => IterInv
  BY Zenon DEF Init, IterInv
<1>4. TypeOK /\ IterInv /\ [Next]_vars => IterInv'
  <2> SUFFICES ASSUME TypeOK, IterInv, [Next]_vars PROVE IterInv'
    BY Zenon
  <2>1. CASE phase' = "none"
    BY <2>1, Zenon DEF IterInv
  <2>2. CASE UNCHANGED vars
    BY <2>2, Zenon DEF vars, window, iterator, IterInv
  <2>3. phase' = "none" \/ iter \/ next \/ UNCHANGED vars
    BY Zenon DEF Next, push, push_stale, prune_before_view, Unborrowed
  <2>. QED BY <2>1, <2>2, <2>3, IterStarts, IterAdvances, Zenon
<1>5. TypeOK /\ Fits /\ IterInv => IterComplete
  <2> SUFFICES ASSUME TypeOK, Fits, IterInv, phase = "ended" PROVE IterComplete
    BY Zenon DEF IterComplete
  <2> DEFINE width == MaxView + 1
  <2>1. /\ messages \in Seq(Seq(Message)) /\ lowest_view \in Nat
        /\ width \in Nat /\ width > 0 /\ lowest_view + Len(messages) <= width
        /\ \A i \in 1 .. width : i - 1 \in 0 .. MaxView
    BY WindowAssumption DEF TypeOK, Fits
  <2> HIDE DEF width
  <2>2. [i \in 1 .. width |-> View(messages, lowest_view, i - 1)]
          = [i \in 1 .. width |-> get_messages_for_view(i - 1)]
    <3>1. \A i \in 1 .. width : get_messages_for_view(i - 1) = View(messages, lowest_view, i - 1)
      BY <2>1, GetIsView, Zenon
    <3>. QED BY <3>1, Zenon
  <2>3. FlattenSeq(messages)
          = FlattenSeq([i \in 1 .. width |-> View(messages, lowest_view, i - 1)])
    BY <2>1, PaddingAddsNothing, Zenon
  <2>. QED BY <2>2, <2>3, Zenon DEF IterComplete, IterInv, width
<1>. QED BY <1>1, <1>2, <1>3, <1>4, <1>5, TypeCorrect, PTL DEF Spec

=============================================================================
