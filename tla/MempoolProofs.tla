--------------------------- MODULE MempoolProofs ----------------------------
(***************************************************************************)
(* The mempools of any replicas, for any transactions, verdicts of the      *)
(* ledger and length of blocks: no counter wraps and nothing is stranded.   *)
(***************************************************************************)
EXTENDS Mempool, FiniteSetTheorems, SequenceTheorems, TLAPS

-----------------------------------------------------------------------------
(* Induction, and the loops                                                *)

\* A set of numbers that is not empty has a least element.
LEMMA LeastNumber ==
    ASSUME NEW T, T \subseteq Nat, T # {}
    PROVE  \E n \in T : \A m \in T : n <= m
<1> DEFINE R == {ss \in Nat \X Nat : ss[1] < ss[2]}
<1>1. IsWellFoundedOn(R, Nat)
  BY NatLessThanWellFounded, Zenon DEF OpToRel
<1>2. \A x, y \in Nat : ~(<<y, x>> \in R) => x <= y
  OBVIOUS
<1> HIDE DEF R
<1>3. \E x \in T : \A y \in T : ~(<<y, x>> \in R)
  BY <1>1, WFMin, Zenon
<1>. QED BY <1>2, <1>3, Zenon

\* Induction, for the set of the numbers that have the property.
LEMMA Induction ==
    ASSUME NEW S, 0 \in S, \A n \in Nat : n \in S => n + 1 \in S
    PROVE  Nat \subseteq S
<1> SUFFICES ASSUME Nat \ S # {} PROVE FALSE
  BY Zenon
<1>1. PICK n \in Nat \ S : \A m \in Nat \ S : n <= m
  BY LeastNumber, Zenon
<1>2. n # 0 /\ n - 1 \in Nat
  BY <1>1
<1>3. n - 1 \in S
  BY <1>1, <1>2
<1>. QED BY <1>1, <1>2, <1>3

\* The loop of pop_next_n is what its definition says: such a function exists.
LEMMA RemovingLoop ==
    ASSUME NEW m, NEW keys, Len(keys) \in Nat
    PROVE  Removing(m, keys) =
             [i \in 0 .. Len(keys) |-> IF i = 0 THEN [block |-> << >>, m |-> m]
                                       ELSE remove(Removing(m, keys)[i - 1], keys[i])]
<1> DEFINE start == [block |-> << >>, m |-> m]
           Loop(f, n) == f = [i \in 0 .. n |-> IF i = 0 THEN start ELSE remove(f[i - 1], keys[i])]
           S == {n \in Nat : \E f : Loop(f, n)}
<1> HIDE DEF start
<1>1. 0 \in S
  <2>1. Loop([i \in 0 .. 0 |-> start], 0)
    OBVIOUS
  <2>. QED BY <2>1, Zenon
<1>2. ASSUME NEW n \in Nat, n \in S PROVE n + 1 \in S
  <2>1. PICK g : Loop(g, n)
    BY <1>2, Zenon
  <2> DEFINE h == [i \in 0 .. n + 1 |-> IF i = 0 THEN start ELSE remove(g[i - 1], keys[i])]
  <2>2. \A i \in 0 .. n : h[i] = g[i]
    BY <2>1
  <2>3. \A i \in 0 .. n + 1 : i # 0 => i - 1 \in 0 .. n
    OBVIOUS
  <2>4. Loop(h, n + 1)
    BY <2>2, <2>3, Zenon
  <2> HIDE DEF h, Loop
  <2>5. \E f : Loop(f, n + 1)
    BY <2>4, Zenon
  <2>. QED BY <2>5
<1> HIDE DEF S
<1>3. Len(keys) \in S
  BY <1>1, <1>2, Induction, Zenon
<1>4. \E f : Loop(f, Len(keys))
  BY <1>3, Zenon DEF S
<1>. QED BY <1>4, Zenon DEF Removing, start

\* The loop of update_after_execution is what its definition says.
LEMMA MakingReadyLoop ==
    ASSUME NEW m, NEW account_nonces, Len(account_nonces) \in Nat
    PROVE  MakingReady(m, account_nonces) =
             [i \in 0 .. Len(account_nonces) |->
                IF i = 0 THEN m ELSE make_ready(MakingReady(m, account_nonces)[i - 1], account_nonces[i])]
<1> DEFINE Loop(f, n) ==
             f = [i \in 0 .. n |-> IF i = 0 THEN m ELSE make_ready(f[i - 1], account_nonces[i])]
           S == {n \in Nat : \E f : Loop(f, n)}
<1>1. 0 \in S
  <2>1. Loop([i \in 0 .. 0 |-> m], 0)
    OBVIOUS
  <2>. QED BY <2>1, Zenon
<1>2. ASSUME NEW n \in Nat, n \in S PROVE n + 1 \in S
  <2>1. PICK g : Loop(g, n)
    BY <1>2, Zenon
  <2> DEFINE h == [i \in 0 .. n + 1 |-> IF i = 0 THEN m ELSE make_ready(g[i - 1], account_nonces[i])]
  <2>2. \A i \in 0 .. n : h[i] = g[i]
    BY <2>1
  <2>3. \A i \in 0 .. n + 1 : i # 0 => i - 1 \in 0 .. n
    OBVIOUS
  <2>4. Loop(h, n + 1)
    BY <2>2, <2>3, Zenon
  <2> HIDE DEF h, Loop
  <2>5. \E f : Loop(f, n + 1)
    BY <2>4, Zenon
  <2>. QED BY <2>5
<1> HIDE DEF S
<1>3. Len(account_nonces) \in S
  BY <1>1, <1>2, Induction, Zenon
<1>4. \E f : Loop(f, Len(account_nonces))
  BY <1>3, Zenon DEF S
<1>. QED BY <1>4, Zenon DEF MakingReady

\* The loop of apply_block is what its definition says.
LEMMA ExecutingLoop ==
    ASSUME NEW expected, NEW block, Len(block) \in Nat
    PROVE  Executing(expected, block) =
             [i \in 0 .. Len(block) |->
                IF i = 0 THEN [expected |-> expected, account_nonces |-> << >>]
                ELSE execute(Executing(expected, block)[i - 1], block[i])]
<1> DEFINE start == [expected |-> expected, account_nonces |-> << >>]
           Loop(f, n) == f = [i \in 0 .. n |-> IF i = 0 THEN start ELSE execute(f[i - 1], block[i])]
           S == {n \in Nat : \E f : Loop(f, n)}
<1> HIDE DEF start
<1>1. 0 \in S
  <2>1. Loop([i \in 0 .. 0 |-> start], 0)
    OBVIOUS
  <2>. QED BY <2>1, Zenon
<1>2. ASSUME NEW n \in Nat, n \in S PROVE n + 1 \in S
  <2>1. PICK g : Loop(g, n)
    BY <1>2, Zenon
  <2> DEFINE h == [i \in 0 .. n + 1 |-> IF i = 0 THEN start ELSE execute(g[i - 1], block[i])]
  <2>2. \A i \in 0 .. n : h[i] = g[i]
    BY <2>1
  <2>3. \A i \in 0 .. n + 1 : i # 0 => i - 1 \in 0 .. n
    OBVIOUS
  <2>4. Loop(h, n + 1)
    BY <2>2, <2>3, Zenon
  <2> HIDE DEF h, Loop
  <2>5. \E f : Loop(f, n + 1)
    BY <2>4, Zenon
  <2>. QED BY <2>5
<1> HIDE DEF S
<1>3. Len(block) \in S
  BY <1>1, <1>2, Induction, Zenon
<1>4. \E f : Loop(f, Len(block))
  BY <1>3, Zenon DEF S
<1>. QED BY <1>4, Zenon DEF Executing, start

-----------------------------------------------------------------------------
(* pop_next_n                                                              *)

KeysOfTxs == {Key(t) : t \in Txs}
Mempools == [length : Int, ready : Int, queues : SUBSET Txs, buckets : [Kinds -> Seq(KeysOfTxs)]]
OnePerKey(queues) == \A t, u \in queues : Key(t) = Key(u) => t = u
CoversQueues(m) == IsFiniteSet(m.queues) /\ m.length >= Cardinality(m.queues)
CoversBuckets(m) == m.ready >= Len(m.buckets["Cancel"]) + Len(m.buckets["Other"])

\* The loop from drained mempool d, after i keys: what it has taken is gone, and it has
\* taken off ready no more than there were keys.
Popping(d, keys, i, acc) ==
    /\ acc.m \in Mempools /\ acc.block \in Seq(Txs)
    /\ acc.m.buckets = d.buckets /\ acc.m.queues \subseteq d.queues
    /\ CoversQueues(acc.m)
    /\ acc.m.ready >= d.ready - i
    /\ \A j \in 1 .. i : Queued(acc.m, keys[j]) = {}

\* One key.
LEMMA RemoveStep ==
    ASSUME NEW d \in Mempools, OnePerKey(d.queues), NEW keys, Len(keys) \in Nat,
           NEW i \in Nat, i < Len(keys), NEW acc, Popping(d, keys, i, acc)
    PROVE  Popping(d, keys, i + 1, remove(acc, keys[i + 1]))
<1> DEFINE key == keys[i + 1]
           q == Queued(acc.m, key)
<1>1. /\ acc.m \in Mempools /\ acc.block \in Seq(Txs)
      /\ acc.m.buckets = d.buckets /\ acc.m.queues \subseteq d.queues
      /\ CoversQueues(acc.m)
      /\ acc.m.ready >= d.ready - i
      /\ \A j \in 1 .. i : Queued(acc.m, keys[j]) = {}
  BY Zenon DEF Popping
<1>2. /\ acc.m.length \in Int /\ acc.m.ready \in Int /\ acc.m.queues \subseteq Txs
      /\ acc.m.buckets \in [Kinds -> Seq(KeysOfTxs)] /\ d.ready \in Int
  BY <1>1, Zenon DEF Mempools
<1>3. \A j \in 1 .. i + 1 : j \in 1 .. i \/ j = i + 1
  OBVIOUS
<1>4. CASE q = {}
  <2>1. remove(acc, key) = acc
    BY <1>4, Zenon DEF remove
  <2>2. acc.m.ready >= d.ready - (i + 1)
    BY <1>1, <1>2
  <2>3. \A j \in 1 .. i + 1 : Queued(acc.m, keys[j]) = {}
    BY <1>1, <1>3, <1>4, Zenon
  <2>. QED BY <1>1, <2>1, <2>2, <2>3, Zenon DEF Popping
<1>5. CASE q # {}
  <2>1. PICK t : t = CHOOSE x \in q : TRUE
    BY Zenon
  <2>2. t \in q /\ t \in acc.m.queues /\ t \in Txs /\ Key(t) = key
    BY <1>2, <1>5, <2>1, Zenon DEF Queued
  <2>3. q = {t}
    BY <1>1, <2>2, Zenon DEF Queued, OnePerKey
  <2> DEFINE m == [length |-> acc.m.length - 1, ready |-> acc.m.ready - 1,
                   queues |-> acc.m.queues \ q, buckets |-> acc.m.buckets]
  <2>4. remove(acc, key) = [block |-> Append(acc.block, t), m |-> m]
    BY <1>5, <2>1, Zenon DEF remove
  <2>5. /\ m.queues = acc.m.queues \ {t} /\ m.length = acc.m.length - 1
        /\ m.ready = acc.m.ready - 1 /\ m.buckets = acc.m.buckets /\ m \in Mempools
    BY <1>2, <2>3, SMTT(40) DEF Mempools
  <2> HIDE DEF m, q
  <2>6. CoversQueues(m)
    <3>1. /\ IsFiniteSet(acc.m.queues) /\ Cardinality(acc.m.queues) \in Nat
          /\ acc.m.length >= Cardinality(acc.m.queues)
      BY <1>1, FS_CardinalityType, Zenon DEF CoversQueues
    <3>2. IsFiniteSet(acc.m.queues \ {t})
          /\ Cardinality(acc.m.queues \ {t}) = Cardinality(acc.m.queues) - 1
      BY <2>2, <3>1, FS_RemoveElement, Zenon
    <3>. QED BY <1>2, <2>5, <3>1, <3>2 DEF CoversQueues
  <2>7. Append(acc.block, t) \in Seq(Txs)
    BY <1>1, <2>2
  <2>8. m.ready >= d.ready - (i + 1)
    BY <1>1, <1>2, <2>5, SMTT(40)
  <2>9. \A j \in 1 .. i + 1 : Queued(m, keys[j]) = {}
    BY <1>1, <1>3, <2>3, <2>5, Zenon DEF Queued, q
  <2>10. /\ remove(acc, key).block = Append(acc.block, t) /\ remove(acc, key).m = m
    BY <2>4
  <2>. QED BY <1>1, <2>5, <2>6, <2>7, <2>8, <2>9, <2>10, Zenon DEF Popping
<1>. QED BY <1>4, <1>5, Zenon

\* All keys.
LEMMA RemovingAll ==
    ASSUME NEW d \in Mempools, OnePerKey(d.queues), CoversQueues(d), NEW keys, Len(keys) \in Nat
    PROVE  Popping(d, keys, Len(keys), Removing(d, keys)[Len(keys)])
<1> DEFINE f == Removing(d, keys)
           S == {n \in Nat : n <= Len(keys) => Popping(d, keys, n, f[n])}
<1>1. f = [i \in 0 .. Len(keys) |-> IF i = 0 THEN [block |-> << >>, m |-> d]
                                     ELSE remove(f[i - 1], keys[i])]
  BY RemovingLoop
<1> HIDE DEF f
<1>2. 0 \in S
  <2>1. f[0] = [block |-> << >>, m |-> d]
    BY <1>1
  <2>2. f[0].m = d /\ f[0].block = << >>
    BY <2>1
  <2>3. d.ready >= d.ready - 0 /\ << >> \in Seq(Txs) /\ 1 .. 0 = {}
    BY DEF Mempools
  <2>4. Popping(d, keys, 0, f[0])
    BY <2>2, <2>3, Zenon DEF Popping
  <2>. QED BY <2>4, Zenon
<1>3. ASSUME NEW n \in Nat, n \in S PROVE n + 1 \in S
  <2>1. CASE n < Len(keys)
    <3>1. f[n + 1] = remove(f[n], keys[n + 1])
      <4>1. n + 1 \in 0 .. Len(keys) /\ n + 1 # 0 /\ (n + 1) - 1 = n
        BY <2>1
      <4>. QED BY <1>1, <4>1, Zenon
    <3>2. Popping(d, keys, n, f[n])
      BY <1>3, <2>1
    <3>3. Popping(d, keys, n + 1, f[n + 1])
      BY <2>1, <3>1, <3>2, RemoveStep, Zenon
    <3>. QED BY <3>3
  <2>2. CASE ~(n < Len(keys))
    BY <2>2
  <2>. QED BY <2>1, <2>2, Zenon
<1>4. Len(keys) \in S
  <2> HIDE DEF S
  <2>. QED BY <1>2, <1>3, Induction, Zenon
<1>. QED BY <1>4 DEF f

\* A mempool whose counters cover what it has.
Sound(m) == m \in Mempools /\ OnePerKey(m.queues) /\ CoversQueues(m) /\ CoversBuckets(m)

\* No more is taken from a bucket than there is.
LEMMA TakesBounds ==
    ASSUME NEW m \in Mempools, NEW n \in Nat, NEW kind \in Kinds
    PROVE  Takes(m, n)[kind] \in 0 .. Len(m.buckets[kind])
<1>1. Len(m.buckets["Cancel"]) \in Nat /\ Len(m.buckets["Other"]) \in Nat
  BY DEF Mempools, Kinds
<1>. QED BY <1>1 DEF Takes, Kinds

\* A bucket is its first part, which is drained, and the rest.
LEMMA SplitBucket ==
    ASSUME NEW S, NEW s \in Seq(S), NEW k \in 0 .. Len(s)
    PROVE  /\ SubSeq(s, 1, k) \in Seq(S) /\ Len(SubSeq(s, 1, k)) = k
           /\ SubSeq(s, k + 1, Len(s)) \in Seq(S) /\ Len(SubSeq(s, k + 1, Len(s))) = Len(s) - k
           /\ \A i \in 1 .. k : SubSeq(s, 1, k)[i] = s[i]
           /\ \A i \in 1 .. Len(s) : i > k =>
                i - k \in 1 .. Len(s) - k /\ SubSeq(s, k + 1, Len(s))[i - k] = s[i]
<1>1. Len(s) \in Nat /\ k \in Nat /\ k <= Len(s)
  OBVIOUS
<1>2. SubSeq(s, 1, k) \in Seq(S) /\ Len(SubSeq(s, 1, k)) = k
      /\ \A i \in 1 .. k : SubSeq(s, 1, k)[i] = s[i]
  BY <1>1
<1>3. SubSeq(s, k + 1, Len(s)) \in Seq(S) /\ Len(SubSeq(s, k + 1, Len(s))) = Len(s) - k
      /\ \A i \in 1 .. Len(s) - k : SubSeq(s, k + 1, Len(s))[i] = s[i + k]
  BY <1>1
<1>. QED BY <1>1, <1>2, <1>3

\* The elements of a sequence.
LEMMA RangeMember ==
    ASSUME NEW S, NEW s \in Seq(S), NEW i \in 1 .. Len(s)
    PROVE  s[i] \in Range(s)
BY DEF Range

\* What pop_next_n leaves is sound, and has every key that still has a transaction.
LEMMA PopStep ==
    ASSUME NEW m, Sound(m), NEW n \in Nat
    PROVE  /\ Sound(pop_next_n(m, n).m)
           /\ pop_next_n(m, n).block \in Seq(Txs)
           /\ pop_next_n(m, n).m.queues \subseteq m.queues
           /\ \A t \in pop_next_n(m, n).m.queues : Key(t) \in Keys(m) => Key(t) \in Keys(pop_next_n(m, n).m)
<1> DEFINE takes == Takes(m, n)
           d == Drained(m, takes)
           keys == DrainedKeys(m, takes)
           p == Removing(d, keys)[Len(keys)]
           C == m.buckets["Cancel"]
           O == m.buckets["Other"]
           tC == takes["Cancel"]
           tO == takes["Other"]
<1>1. /\ m \in Mempools /\ OnePerKey(m.queues) /\ CoversQueues(m) /\ CoversBuckets(m)
  BY Zenon DEF Sound
<1>2. /\ m.length \in Int /\ m.ready \in Int /\ m.queues \in SUBSET Txs
      /\ m.buckets \in [Kinds -> Seq(KeysOfTxs)]
  BY <1>1, Zenon DEF Mempools
<1>3. C \in Seq(KeysOfTxs) /\ O \in Seq(KeysOfTxs)
  BY <1>2, Zenon DEF Kinds
<1>4. tC \in 0 .. Len(C) /\ tO \in 0 .. Len(O)
  BY <1>1, TakesBounds, Zenon DEF Kinds
<1>5. pop_next_n(m, n) = p
  BY Zenon DEF pop_next_n
<1>6. /\ d.length = m.length /\ d.ready = m.ready /\ d.queues = m.queues
      /\ d.buckets = [kind \in Kinds |-> SubSeq(m.buckets[kind], takes[kind] + 1, Len(m.buckets[kind]))]
      /\ d \in [length : {m.length}, ready : {m.ready}, queues : {m.queues}, buckets : {d.buckets}]
  BY Zenon DEF Drained
<1>7. d.buckets["Cancel"] = SubSeq(C, tC + 1, Len(C)) /\ d.buckets["Other"] = SubSeq(O, tO + 1, Len(O))
  BY <1>6, Zenon DEF Kinds
<1>8. keys = SubSeq(C, 1, tC) \o SubSeq(O, 1, tO)
  BY Zenon DEF DrainedKeys
<1> HIDE DEF takes, d, keys, p, C, O, tC, tO
<1>9. /\ d.buckets["Cancel"] \in Seq(KeysOfTxs) /\ Len(d.buckets["Cancel"]) = Len(C) - tC
      /\ d.buckets["Other"] \in Seq(KeysOfTxs) /\ Len(d.buckets["Other"]) = Len(O) - tO
  BY <1>3, <1>4, <1>7, SplitBucket
<1>10. d.buckets \in [Kinds -> Seq(KeysOfTxs)]
  BY <1>6, <1>9, Zenon DEF Kinds
<1>11. d \in Mempools
  BY <1>2, <1>6, <1>10, Zenon DEF Mempools
<1>12. /\ Len(keys) = tC + tO /\ Len(keys) \in Nat
       /\ \A i \in 1 .. tC : keys[i] = C[i]
       /\ \A i \in 1 .. tO : keys[tC + i] = O[i]
  <2>1. /\ SubSeq(C, 1, tC) \in Seq(KeysOfTxs) /\ Len(SubSeq(C, 1, tC)) = tC
        /\ \A i \in 1 .. tC : SubSeq(C, 1, tC)[i] = C[i]
    BY <1>3, <1>4, SplitBucket, ZenonT(40)
  <2>2. /\ SubSeq(O, 1, tO) \in Seq(KeysOfTxs) /\ Len(SubSeq(O, 1, tO)) = tO
        /\ \A i \in 1 .. tO : SubSeq(O, 1, tO)[i] = O[i]
    BY <1>3, <1>4, SplitBucket, ZenonT(40)
  <2>3. /\ Len(keys) = tC + tO
        /\ \A i \in 1 .. tC : keys[i] = SubSeq(C, 1, tC)[i]
        /\ \A i \in 1 .. tO : keys[tC + i] = SubSeq(O, 1, tO)[i]
    <3>1. PICK c, o \in Seq(KeysOfTxs) : c = SubSeq(C, 1, tC) /\ o = SubSeq(O, 1, tO)
      BY <2>1, <2>2, Zenon
    <3>2. keys = c \o o /\ Len(c) = tC /\ Len(o) = tO
      BY <1>8, <2>1, <2>2, <3>1, Zenon
    <3>3. /\ Len(c \o o) = Len(c) + Len(o)
          /\ \A i \in 1 .. Len(c) : (c \o o)[i] = c[i]
          /\ \A i \in 1 .. Len(o) : (c \o o)[Len(c) + i] = o[i]
      OBVIOUS
    <3>. QED BY <3>1, <3>2, <3>3, Zenon
  <2>4. tC + tO \in Nat
    BY <1>4
  <2>. QED BY <2>1, <2>2, <2>3, <2>4, Zenon
<1>13. OnePerKey(d.queues) /\ CoversQueues(d)
  BY <1>1, <1>6, Zenon DEF CoversQueues
<1>14. Popping(d, keys, Len(keys), p)
  BY <1>11, <1>12, <1>13, RemovingAll, Zenon DEF p
<1>15. /\ p.m \in Mempools /\ p.block \in Seq(Txs)
       /\ p.m.buckets = d.buckets /\ p.m.queues \subseteq m.queues
       /\ CoversQueues(p.m)
       /\ p.m.ready >= m.ready - Len(keys)
       /\ \A j \in 1 .. Len(keys) : Queued(p.m, keys[j]) = {}
  BY <1>6, <1>14, Zenon DEF Popping
<1>16. CoversBuckets(p.m)
  <2>1. m.ready >= Len(C) + Len(O) /\ p.m.ready \in Int /\ Len(C) \in Nat /\ Len(O) \in Nat
    <3>1. m.ready >= Len(C) + Len(O)
      BY <1>1, Zenon DEF CoversBuckets, C, O
    <3>2. p.m.ready \in Int
      BY <1>15, Zenon DEF Mempools
    <3>. QED BY <1>3, <3>1, <3>2
  <2>2. p.m.ready >= (Len(C) - tC) + (Len(O) - tO)
    BY <1>2, <1>4, <1>12, <1>15, <2>1
  <2>. QED BY <1>9, <1>15, <2>2, Zenon DEF CoversBuckets
<1>17. OnePerKey(p.m.queues)
  BY <1>1, <1>15, Zenon DEF OnePerKey
<1>18. ASSUME NEW t \in p.m.queues, Key(t) \in Keys(m) PROVE Key(t) \in Keys(p.m)
  <2>1. t \in Queued(p.m, Key(t))
    BY Zenon DEF Queued
  <2>2. PICK kind \in Kinds : Key(t) \in Range(m.buckets[kind])
    BY <1>18, Zenon DEF Keys
  <2>3. CASE kind = "Cancel"
    <3>1. PICK i \in 1 .. Len(C) : Key(t) = C[i]
      BY <1>3, <2>2, <2>3 DEF Range, C
    <3>2. i > tC
      <4> SUFFICES ASSUME i <= tC PROVE FALSE
        BY <1>4
      <4>1. i \in 1 .. tC /\ i \in 1 .. Len(keys)
        BY <1>4, <1>12, <3>1
      <4>. QED BY <1>12, <1>15, <2>1, <3>1, <4>1, Zenon
    <3>3. /\ i - tC \in 1 .. Len(C) - tC
          /\ SubSeq(C, tC + 1, Len(C))[i - tC] = C[i]
      BY <1>3, <1>4, <3>1, <3>2, SplitBucket, Zenon
    <3>4. Key(t) \in Range(p.m.buckets["Cancel"])
      <4>1. i - tC \in 1 .. Len(d.buckets["Cancel"]) /\ d.buckets["Cancel"][i - tC] = Key(t)
        BY <1>7, <1>9, <3>1, <3>3, Zenon
      <4>2. Key(t) \in Range(d.buckets["Cancel"])
        BY <1>9, <4>1, RangeMember, Zenon
      <4>. QED BY <1>15, <4>2, Zenon
    <3>. QED BY <3>4, Zenon DEF Keys, Kinds
  <2>4. CASE kind = "Other"
    <3>1. PICK i \in 1 .. Len(O) : Key(t) = O[i]
      BY <1>3, <2>2, <2>4 DEF Range, O
    <3>2. i > tO
      <4> SUFFICES ASSUME i <= tO PROVE FALSE
        BY <1>4
      <4>1. i \in 1 .. tO /\ tC + i \in 1 .. Len(keys)
        BY <1>4, <1>12, <3>1
      <4>. QED BY <1>12, <1>15, <2>1, <3>1, <4>1, Zenon
    <3>3. /\ i - tO \in 1 .. Len(O) - tO
          /\ SubSeq(O, tO + 1, Len(O))[i - tO] = O[i]
      BY <1>3, <1>4, <3>1, <3>2, SplitBucket, Zenon
    <3>4. Key(t) \in Range(p.m.buckets["Other"])
      <4>1. i - tO \in 1 .. Len(d.buckets["Other"]) /\ d.buckets["Other"][i - tO] = Key(t)
        BY <1>7, <1>9, <3>1, <3>3, Zenon
      <4>2. Key(t) \in Range(d.buckets["Other"])
        BY <1>9, <4>1, RangeMember, Zenon
      <4>. QED BY <1>15, <4>2, Zenon
    <3>. QED BY <3>4, Zenon DEF Keys, Kinds
  <2>. QED BY <2>3, <2>4, Zenon DEF Kinds
<1>. QED BY <1>5, <1>15, <1>16, <1>17, <1>18, Zenon DEF Sound

-----------------------------------------------------------------------------
(* update_after_execution and apply_block                                  *)

\* b is m with a key at the end of one of its buckets.
LEMMA KeysAppend ==
    ASSUME NEW m, NEW b, m.buckets \in [Kinds -> Seq(KeysOfTxs)], NEW kind \in Kinds,
           NEW key \in KeysOfTxs, b.buckets \in [Kinds -> Seq(KeysOfTxs)],
           b.buckets[kind] = Append(m.buckets[kind], key),
           \A k \in Kinds : k # kind => b.buckets[k] = m.buckets[k]
    PROVE  /\ Keys(m) \cup {key} \subseteq Keys(b)
           /\ Len(b.buckets["Cancel"]) + Len(b.buckets["Other"])
                = Len(m.buckets["Cancel"]) + Len(m.buckets["Other"]) + 1
<1> DEFINE s == m.buckets[kind]
<1>1. s \in Seq(KeysOfTxs)
  BY Zenon
<1>2. /\ Append(s, key) \in Seq(KeysOfTxs) /\ Len(Append(s, key)) = Len(s) + 1
      /\ \A i \in 1 .. Len(s) : Append(s, key)[i] = s[i]
      /\ Append(s, key)[Len(s) + 1] = key
  BY <1>1, AppendProperties
<1>3. b.buckets[kind] = Append(s, key)
  BY Zenon
<1>4. Range(s) \cup {key} \subseteq Range(Append(s, key))
  <2>1. \A i \in 1 .. Len(s) + 1 : Append(s, key)[i] \in Range(Append(s, key))
    BY <1>2, RangeMember, Zenon
  <2>2. key \in Range(Append(s, key))
    <3>1. Len(s) + 1 \in 1 .. Len(s) + 1
      BY <1>1
    <3>. QED BY <1>2, <2>1, <3>1, Zenon
  <2>3. ASSUME NEW k \in Range(s) PROVE k \in Range(Append(s, key))
    <3>1. PICK i \in 1 .. Len(s) : k = s[i]
      BY <1>1 DEF Range
    <3>2. i \in 1 .. Len(s) + 1
      BY <1>1
    <3>. QED BY <1>2, <2>1, <3>1, <3>2, Zenon
  <2>. QED BY <2>2, <2>3, Zenon
<1> HIDE DEF s
<1>5. Keys(m) \cup {key} \subseteq Keys(b)
  <2>1. key \in Keys(b)
    BY <1>3, <1>4, Zenon DEF Keys
  <2>2. ASSUME NEW k \in Kinds, NEW x \in Range(m.buckets[k]) PROVE x \in Range(b.buckets[k])
    BY <1>3, <1>4, Zenon DEF s
  <2>3. Keys(m) \subseteq Keys(b)
    BY <2>2, Zenon DEF Keys
  <2>. QED BY <2>1, <2>3, Zenon
<1>6. Len(b.buckets["Cancel"]) + Len(b.buckets["Other"])
        = Len(m.buckets["Cancel"]) + Len(m.buckets["Other"]) + 1
  <2>1. "Cancel" \in Kinds /\ "Other" \in Kinds /\ "Cancel" # "Other"
    BY Zenon DEF Kinds
  <2>2. Len(m.buckets["Cancel"]) \in Nat /\ Len(m.buckets["Other"]) \in Nat
    BY <2>1
  <2>3. kind = "Cancel" \/ kind = "Other"
    BY Zenon DEF Kinds
  <2>4. CASE kind = "Cancel"
    <3>1. b.buckets["Other"] = m.buckets["Other"]
      BY <2>1, <2>4, Zenon
    <3>2. Len(b.buckets["Cancel"]) = Len(m.buckets["Cancel"]) + 1
      BY <1>2, <1>3, <2>4, Zenon DEF s
    <3>3. \A x, y \in Nat : (x + 1) + y = x + y + 1
      OBVIOUS
    <3>. QED BY <2>2, <3>1, <3>2, <3>3, ZenonT(40)
  <2>5. CASE kind = "Other"
    <3>1. b.buckets["Cancel"] = m.buckets["Cancel"]
      BY <2>1, <2>5, Zenon
    <3>2. Len(b.buckets["Other"]) = Len(m.buckets["Other"]) + 1
      BY <1>2, <1>3, <2>5, Zenon DEF s
    <3>3. \A x, y \in Nat : x + (y + 1) = x + y + 1
      OBVIOUS
    <3>4. Len(b.buckets["Cancel"]) + Len(b.buckets["Other"])
            = Len(m.buckets["Cancel"]) + (Len(m.buckets["Other"]) + 1)
      BY <3>1, <3>2, Zenon
    <3>. QED BY <2>2, <3>3, <3>4, Zenon
  <2>. QED BY <2>3, <2>4, <2>5, Zenon
<1>. QED BY <1>5, <1>6, Zenon

\* The loop after i keys: those that have a transaction are in the buckets.
Readying(m, keys, i, acc) ==
    /\ acc \in Mempools /\ acc.queues = m.queues /\ acc.length = m.length
    /\ CoversBuckets(acc)
    /\ Keys(m) \subseteq Keys(acc)
    /\ \A j \in 1 .. i : Queued(m, keys[j]) # {} => keys[j] \in Keys(acc)

\* One key.
LEMMA ReadyStep ==
    ASSUME NEW m, NEW keys, NEW i \in Nat, NEW acc, Readying(m, keys, i, acc)
    PROVE  Readying(m, keys, i + 1, make_ready(acc, keys[i + 1]))
<1> DEFINE key == keys[i + 1]
           b == make_ready(acc, key)
<1>1. /\ acc \in Mempools /\ acc.queues = m.queues /\ acc.length = m.length
      /\ CoversBuckets(acc)
      /\ Keys(m) \subseteq Keys(acc)
      /\ \A j \in 1 .. i : Queued(m, keys[j]) # {} => keys[j] \in Keys(acc)
  BY Zenon DEF Readying
<1>2. \A j \in 1 .. i + 1 : j \in 1 .. i \/ j = i + 1
  OBVIOUS
<1>3. Queued(acc, key) = Queued(m, key)
  BY <1>1, Zenon DEF Queued
<1>4. CASE Queued(acc, key) = {}
  <2>1. b = acc
    BY <1>4, Zenon DEF make_ready
  <2> HIDE DEF b
  <2>2. \A j \in 1 .. i + 1 : Queued(m, keys[j]) # {} => keys[j] \in Keys(acc)
    BY <1>1, <1>2, <1>3, <1>4, Zenon
  <2>3. Readying(m, keys, i + 1, acc)
    BY <1>1, <2>2, Zenon DEF Readying
  <2>. QED BY <2>1, <2>3, Zenon DEF b
<1>5. CASE Queued(acc, key) # {}
  <2>1. /\ acc.length \in Int /\ acc.ready \in Int /\ acc.queues \in SUBSET Txs
        /\ acc.buckets \in [Kinds -> Seq(KeysOfTxs)]
    BY <1>1, Zenon DEF Mempools
  <2>2. key \in KeysOfTxs
    BY <1>5, <2>1, Zenon DEF Queued, KeysOfTxs
  <2>3. b = [length |-> acc.length, ready |-> acc.ready + 1, queues |-> acc.queues,
             buckets |-> [acc.buckets EXCEPT !["Other"] = Append(@, key)]]
    BY <1>5, Zenon DEF make_ready
  <2> HIDE DEF b, key
  <2>4. /\ b.length = acc.length /\ b.ready = acc.ready + 1 /\ b.queues = acc.queues
        /\ b.buckets = [acc.buckets EXCEPT !["Other"] = Append(@, key)]
    BY <2>3, Zenon
  <2>5. "Other" \in Kinds
    BY Zenon DEF Kinds
  <2>6. /\ b.buckets \in [Kinds -> Seq(KeysOfTxs)]
        /\ Keys(acc) \cup {key} \subseteq Keys(b)
        /\ Len(b.buckets["Cancel"]) + Len(b.buckets["Other"])
             = Len(acc.buckets["Cancel"]) + Len(acc.buckets["Other"]) + 1
    <3>1. /\ b.buckets \in [Kinds -> Seq(KeysOfTxs)]
          /\ b.buckets["Other"] = Append(acc.buckets["Other"], key)
          /\ \A k \in Kinds : k # "Other" => b.buckets[k] = acc.buckets[k]
      BY <2>1, <2>2, <2>4, <2>5
    <3>2. /\ Keys(acc) \cup {key} \subseteq Keys(b)
          /\ Len(b.buckets["Cancel"]) + Len(b.buckets["Other"])
               = Len(acc.buckets["Cancel"]) + Len(acc.buckets["Other"]) + 1
      BY <2>1, <2>2, <2>5, <3>1, KeysAppend, Zenon
    <3>. QED BY <3>1, <3>2, Zenon
  <2>7. b \in Mempools
    BY <2>1, <2>3, <2>4, <2>6 DEF Mempools
  <2>8. CoversBuckets(b)
    <3>1. Len(acc.buckets["Cancel"]) \in Nat /\ Len(acc.buckets["Other"]) \in Nat
      BY <2>1 DEF Kinds
    <3>2. acc.ready >= Len(acc.buckets["Cancel"]) + Len(acc.buckets["Other"])
      BY <1>1, Zenon DEF CoversBuckets
    <3>3. acc.ready + 1 >= Len(acc.buckets["Cancel"]) + Len(acc.buckets["Other"]) + 1
      <4>1. \A r \in Int : \A x, y \in Nat : r >= x + y => r + 1 >= x + y + 1
        OBVIOUS
      <4>. QED BY <2>1, <3>1, <3>2, <4>1, Zenon
    <3>. QED BY <2>4, <2>6, <3>3, Zenon DEF CoversBuckets
  <2>9. \A j \in 1 .. i + 1 : Queued(m, keys[j]) # {} => keys[j] \in Keys(b)
    BY <1>1, <1>2, <2>6, Zenon DEF key
  <2>10. Readying(m, keys, i + 1, b)
    BY <1>1, <2>4, <2>6, <2>7, <2>8, <2>9, Zenon DEF Readying
  <2>. QED BY <2>10, Zenon DEF b, key
<1>. QED BY <1>4, <1>5, Zenon

\* update_after_execution leaves the queues, and makes ready what the nonces call for.
LEMMA UpdateStep ==
    ASSUME NEW m \in Mempools, CoversBuckets(m), NEW keys, Len(keys) \in Nat
    PROVE  Readying(m, keys, Len(keys), update_after_execution(m, keys))
<1> DEFINE f == MakingReady(m, keys)
           S == {n \in Nat : n <= Len(keys) => Readying(m, keys, n, f[n])}
<1>1. f = [i \in 0 .. Len(keys) |-> IF i = 0 THEN m ELSE make_ready(f[i - 1], keys[i])]
  BY MakingReadyLoop
<1> HIDE DEF f
<1>2. 0 \in S
  <2>1. f[0] = m /\ 1 .. 0 = {}
    BY <1>1
  <2>2. Readying(m, keys, 0, f[0])
    BY <2>1, Zenon DEF Readying
  <2>. QED BY <2>2, Zenon
<1>3. ASSUME NEW n \in Nat, n \in S PROVE n + 1 \in S
  <2>1. CASE n < Len(keys)
    <3>1. f[n + 1] = make_ready(f[n], keys[n + 1])
      <4>1. n + 1 \in 0 .. Len(keys) /\ n + 1 # 0 /\ (n + 1) - 1 = n
        BY <2>1
      <4>. QED BY <1>1, <4>1, Zenon
    <3>2. Readying(m, keys, n, f[n])
      BY <1>3, <2>1
    <3>3. Readying(m, keys, n + 1, f[n + 1])
      BY <3>1, <3>2, ReadyStep, Zenon
    <3>. QED BY <3>3
  <2>2. CASE ~(n < Len(keys))
    BY <2>2
  <2>. QED BY <2>1, <2>2, Zenon
<1>4. Len(keys) \in S
  <2> HIDE DEF S
  <2>. QED BY <1>2, <1>3, Induction, Zenon
<1>. QED BY <1>4 DEF f, update_after_execution

\* The loop of apply_block: an account whose nonce has moved is in account_nonces
\* with the nonce that it has now.
Executed(expected, acc) ==
    /\ acc.expected \in [Accounts -> Nat] /\ acc.account_nonces \in Seq(Accounts \X Nat)
    /\ \A a \in Accounts : acc.expected[a] = expected[a]
                           \/ <<a, acc.expected[a]>> \in Range(acc.account_nonces)

\* One transaction.
LEMMA ExecuteStep ==
    ASSUME NEW expected, NEW acc, Executed(expected, acc), NEW t \in Txs
    PROVE  Executed(expected, execute(acc, t))
<1>1. CASE t \in refused \/ t.nonce # acc.expected[t.from]
  <2>1. execute(acc, t) = acc
    BY <1>1, Zenon DEF execute
  <2>. QED BY <2>1, Zenon
<1>2. CASE ~(t \in refused \/ t.nonce # acc.expected[t.from])
  <2> DEFINE pair == <<t.from, t.nonce + 1>>
             e == [acc.expected EXCEPT ![t.from] = @ + 1]
             s == acc.account_nonces
  <2>1. execute(acc, t) = [expected |-> e, account_nonces |-> Append(s, pair)]
    BY <1>2, Zenon DEF execute
  <2>2. execute(acc, t).expected = e /\ execute(acc, t).account_nonces = Append(s, pair)
    BY <2>1
  <2>3. t.from \in Accounts /\ t.nonce \in Nat /\ acc.expected \in [Accounts -> Nat]
        /\ s \in Seq(Accounts \X Nat)
    BY TxsAssumption, Zenon DEF Accounts, Executed
  <2>4. e \in [Accounts -> Nat] /\ e[t.from] = t.nonce + 1
        /\ \A a \in Accounts \ {t.from} : e[a] = acc.expected[a]
    BY <1>2, <2>3
  <2>5. pair \in Accounts \X Nat
    BY <2>3
  <2> HIDE DEF pair, s, e
  <2>6. /\ Append(s, pair) \in Seq(Accounts \X Nat) /\ Len(Append(s, pair)) = Len(s) + 1
        /\ \A i \in 1 .. Len(s) : Append(s, pair)[i] = s[i]
        /\ Append(s, pair)[Len(s) + 1] = pair /\ Len(s) \in Nat
    BY <2>3, <2>5, AppendProperties, LenProperties
  <2>7. \A i \in 1 .. Len(s) + 1 : Append(s, pair)[i] \in Range(Append(s, pair))
    BY <2>6, RangeMember, Zenon
  <2>8. pair \in Range(Append(s, pair))
    BY <2>6, <2>7
  <2>9. ASSUME NEW x \in Range(s) PROVE x \in Range(Append(s, pair))
    <3>1. PICK i \in 1 .. Len(s) : x = s[i]
      BY <2>3 DEF Range
    <3>. QED BY <2>6, <2>7, <3>1
  <2>10. ASSUME NEW a \in Accounts
         PROVE  e[a] = expected[a] \/ <<a, e[a]>> \in Range(Append(s, pair))
    <3>1. CASE a = t.from
      BY <2>4, <2>8, <3>1, Zenon DEF pair
    <3>2. CASE a # t.from
      BY <2>4, <2>9, <3>2, Zenon DEF Executed, s
    <3>. QED BY <3>1, <3>2, Zenon
  <2>. QED BY <2>2, <2>4, <2>6, <2>10, Zenon DEF Executed
<1>. QED BY <1>1, <1>2, Zenon

\* The whole block.
LEMMA ApplyStep ==
    ASSUME NEW expected \in [Accounts -> Nat], NEW block \in Seq(Txs)
    PROVE  Executed(expected, apply_block(expected, block))
<1> DEFINE f == Executing(expected, block)
           S == {n \in Nat : n <= Len(block) => Executed(expected, f[n])}
<1>1. Len(block) \in Nat /\ \A i \in 1 .. Len(block) : block[i] \in Txs
  OBVIOUS
<1>2. f = [i \in 0 .. Len(block) |-> IF i = 0 THEN [expected |-> expected, account_nonces |-> << >>]
                                      ELSE execute(f[i - 1], block[i])]
  BY <1>1, ExecutingLoop, ZenonT(40)
<1> HIDE DEF f
<1>3. 0 \in S
  <2>1. f[0] = [expected |-> expected, account_nonces |-> << >>]
    BY <1>1, <1>2
  <2>2. f[0].expected = expected /\ f[0].account_nonces = << >>
    BY <2>1
  <2>3. Executed(expected, f[0])
    BY <2>2 DEF Executed
  <2>. QED BY <2>3, Zenon
<1>4. ASSUME NEW n \in Nat, n \in S PROVE n + 1 \in S
  <2>1. CASE n < Len(block)
    <3>1. f[n + 1] = execute(f[n], block[n + 1]) /\ block[n + 1] \in Txs
      <4>1. n + 1 \in 0 .. Len(block) /\ n + 1 # 0 /\ (n + 1) - 1 = n /\ n + 1 \in 1 .. Len(block)
        BY <1>1, <2>1
      <4>. QED BY <1>1, <1>2, <4>1, Zenon
    <3>2. Executed(expected, f[n])
      BY <1>1, <1>4, <2>1
    <3>3. Executed(expected, f[n + 1])
      BY <3>1, <3>2, ExecuteStep, Zenon
    <3>. QED BY <3>3
  <2>2. CASE ~(n < Len(block))
    BY <1>1, <2>2
  <2>. QED BY <2>1, <2>2, Zenon
<1>5. Len(block) \in S
  <2> HIDE DEF S
  <2>. QED BY <1>1, <1>3, <1>4, Induction, Zenon
<1>. QED BY <1>1, <1>5 DEF f, apply_block

-----------------------------------------------------------------------------
(* The invariant                                                           *)

\* A transaction whose turn has come is in a bucket.
Reached(m, expected) ==
    \A t \in m.queues : t.nonce = expected[t.from] => Key(t) \in Keys(m)

\* TypeOK, CountersCover and NoneStranded, with what the loops need: a mempool is
\* finite, and the log has only transactions that were submitted.
IInv ==
    /\ DOMAIN mempool = Replicas /\ \A r \in Replicas : Sound(mempool[r])
    /\ expected_nonce \in [Replicas -> [Accounts -> Nat]]
    /\ \A r \in Replicas : Reached(mempool[r], expected_nonce[r])
    /\ seen \in [Replicas -> SUBSET Txs]
    /\ log \in Seq(Seq(Txs))
    /\ applied \in [Replicas -> Nat] /\ \A r \in Replicas : applied[r] <= Len(log)
    /\ orphans \in Nat /\ orphans <= MaxOrphans

\* insert keeps the mempool sound, and files t under its nonce or under ready.
LEMMA InsertStep ==
    ASSUME NEW m, Sound(m), NEW t \in Txs, NEW expected \in [Accounts -> Nat], Reached(m, expected)
    PROVE  /\ Sound(insert(m, t, expected[t.from]))
           /\ Reached(insert(m, t, expected[t.from]), expected)
<1> DEFINE e == expected[t.from]
           b == insert(m, t, e)
           q == (m.queues \ Queued(m, Key(t))) \cup {t}
<1>1. t.from \in Accounts /\ t.nonce \in Nat /\ t.kind \in Kinds /\ e \in Nat /\ Key(t) \in KeysOfTxs
  BY TxsAssumption, Zenon DEF Accounts, KeysOfTxs
<1>2. /\ m \in Mempools /\ OnePerKey(m.queues) /\ CoversQueues(m) /\ CoversBuckets(m)
  BY Zenon DEF Sound
<1>3. /\ m.length \in Int /\ m.ready \in Int /\ m.queues \in SUBSET Txs
      /\ m.buckets \in [Kinds -> Seq(KeysOfTxs)]
  BY <1>2, Zenon DEF Mempools
<1>4. CASE t.nonce < e
  BY <1>4, Zenon DEF insert
<1>5. CASE ~(t.nonce < e)
  <2>1. b = [length  |-> m.length + 1,
             ready   |-> m.ready + (IF t.nonce = e THEN 1 ELSE 0),
             queues  |-> q,
             buckets |-> IF t.nonce = e THEN [m.buckets EXCEPT ![t.kind] = Append(@, Key(t))]
                         ELSE m.buckets]
    BY <1>5, Zenon DEF insert
  <2> HIDE DEF b
  <2>2. /\ b.length = m.length + 1 /\ b.ready = m.ready + (IF t.nonce = e THEN 1 ELSE 0)
        /\ b.queues = q
        /\ b.buckets = IF t.nonce = e THEN [m.buckets EXCEPT ![t.kind] = Append(@, Key(t))]
                       ELSE m.buckets
    BY <2>1, Zenon
  <2>3. q \in SUBSET Txs /\ OnePerKey(q)
    BY <1>2, <1>3, Zenon DEF OnePerKey, Queued
  <2>4. IsFiniteSet(q) /\ Cardinality(q) <= m.length + 1
    <3> DEFINE q0 == m.queues \ Queued(m, Key(t))
    <3>1. IsFiniteSet(m.queues) /\ Cardinality(m.queues) \in Nat /\ m.length >= Cardinality(m.queues)
      BY <1>2, FS_CardinalityType, Zenon DEF CoversQueues
    <3>2. q0 \subseteq m.queues
      BY Zenon
    <3>3. IsFiniteSet(q0) /\ Cardinality(q0) <= Cardinality(m.queues) /\ Cardinality(q0) \in Nat
      BY <3>1, <3>2, FS_Subset, FS_CardinalityType, Zenon
    <3>4. /\ IsFiniteSet(q0 \cup {t})
          /\ Cardinality(q0 \cup {t}) = Cardinality(q0) \/ Cardinality(q0 \cup {t}) = Cardinality(q0) + 1
      BY <3>3, FS_AddElement, Zenon
    <3>5. \A x, y \in Nat : \A l \in Int : x <= y /\ l >= y => x <= l + 1 /\ x + 1 <= l + 1
      OBVIOUS
    <3>. QED BY <1>3, <3>1, <3>3, <3>4, <3>5, Zenon
  <2>5. CoversQueues(b)
    <3>1. Cardinality(q) \in Nat
      BY <2>4, FS_CardinalityType, Zenon
    <3>2. \A x \in Nat : \A l \in Int : x <= l + 1 => l + 1 >= x
      BY Zenon
    <3>. QED BY <1>3, <2>2, <2>4, <3>1, <3>2, Zenon DEF CoversQueues
  <2> HIDE DEF q, e
  <2>6. CASE t.nonce = e
    <3>1. b.ready = m.ready + 1 /\ b.buckets = [m.buckets EXCEPT ![t.kind] = Append(@, Key(t))]
      BY <2>2, <2>6, Zenon
    <3>2. /\ b.buckets \in [Kinds -> Seq(KeysOfTxs)]
          /\ Keys(m) \cup {Key(t)} \subseteq Keys(b)
          /\ Len(b.buckets["Cancel"]) + Len(b.buckets["Other"])
               = Len(m.buckets["Cancel"]) + Len(m.buckets["Other"]) + 1
      <4>1. PICK kind \in Kinds, key \in KeysOfTxs : kind = t.kind /\ key = Key(t)
        BY <1>1, Zenon
      <4>2. /\ b.buckets \in [Kinds -> Seq(KeysOfTxs)]
            /\ b.buckets[kind] = Append(m.buckets[kind], key)
            /\ \A k \in Kinds : k # kind => b.buckets[k] = m.buckets[k]
        BY <1>3, <3>1, <4>1
      <4>3. /\ b.buckets \in [Kinds -> Seq(KeysOfTxs)]
            /\ Keys(m) \cup {key} \subseteq Keys(b)
            /\ Len(b.buckets["Cancel"]) + Len(b.buckets["Other"])
                 = Len(m.buckets["Cancel"]) + Len(m.buckets["Other"]) + 1
        <5>1. /\ Keys(m) \cup {key} \subseteq Keys(b)
              /\ Len(b.buckets["Cancel"]) + Len(b.buckets["Other"])
                   = Len(m.buckets["Cancel"]) + Len(m.buckets["Other"]) + 1
          BY <1>3, <4>2, KeysAppend, ZenonT(40)
        <5>. QED BY <4>2, <5>1, Zenon
      <4>. QED BY <4>1, <4>3, Zenon
    <3>3. b \in Mempools
      BY <1>3, <2>1, <2>2, <2>3, <3>1, <3>2, SMTT(40) DEF Mempools
    <3>4. CoversBuckets(b)
      <4>1. Len(m.buckets["Cancel"]) \in Nat /\ Len(m.buckets["Other"]) \in Nat
        BY <1>3 DEF Kinds
      <4>2. m.ready >= Len(m.buckets["Cancel"]) + Len(m.buckets["Other"])
        BY <1>2, Zenon DEF CoversBuckets
      <4>3. \A r \in Int : \A x, y \in Nat : r >= x + y => r + 1 >= x + y + 1
        OBVIOUS
      <4>4. m.ready + 1 >= Len(m.buckets["Cancel"]) + Len(m.buckets["Other"]) + 1
        BY <1>3, <4>1, <4>2, <4>3, Zenon
      <4>. QED BY <3>1, <3>2, <4>4, Zenon DEF CoversBuckets
    <3>5. Reached(b, expected)
      BY <2>2, <3>2, Zenon DEF Reached, q
    <3>. QED BY <2>2, <2>3, <2>5, <3>3, <3>4, <3>5, Zenon DEF Sound, b, e
  <2>7. CASE t.nonce # e
    <3>1. b.ready = m.ready /\ b.buckets = m.buckets
      BY <1>3, <2>2, <2>7, SMTT(40)
    <3>2. b \in Mempools
      BY <1>3, <2>1, <2>2, <2>3, <3>1, SMTT(40) DEF Mempools
    <3>3. CoversBuckets(b) /\ Keys(b) = Keys(m)
      BY <1>2, <3>1, Zenon DEF CoversBuckets, Keys
    <3>4. Reached(b, expected)
      BY <2>2, <2>7, <3>3, Zenon DEF Reached, q, e
    <3>. QED BY <2>2, <2>3, <2>5, <3>2, <3>3, <3>4, Zenon DEF Sound, b, e
  <2>. QED BY <2>6, <2>7, Zenon
<1>. QED BY <1>4, <1>5, Zenon

\* The mempool after a block: its keys are those that the new nonces call for.
LEMMA CommitMempool ==
    ASSUME NEW m, Sound(m), NEW expected \in [Accounts -> Nat], Reached(m, expected),
           NEW block \in Seq(Txs)
    PROVE  LET x == apply_block(expected, block)
               b == update_after_execution(m, x.account_nonces)
           IN x.expected \in [Accounts -> Nat] /\ Sound(b) /\ Reached(b, x.expected)
<1> DEFINE x == apply_block(expected, block)
           s == x.account_nonces
           b == update_after_execution(m, s)
<1>1. Executed(expected, x)
  BY ApplyStep, Zenon
<1> HIDE DEF x
<1>2. /\ x.expected \in [Accounts -> Nat] /\ s \in Seq(Accounts \X Nat)
      /\ \A a \in Accounts : x.expected[a] = expected[a] \/ <<a, x.expected[a]>> \in Range(s)
  BY <1>1, Zenon DEF Executed
<1> HIDE DEF s
<1>3. Len(s) \in Nat
  BY <1>2
<1>4. /\ m \in Mempools /\ OnePerKey(m.queues) /\ CoversQueues(m) /\ CoversBuckets(m)
  BY Zenon DEF Sound
<1>5. Readying(m, s, Len(s), b)
  BY <1>3, <1>4, UpdateStep, Zenon
<1> HIDE DEF b
<1>6. /\ b \in Mempools /\ b.queues = m.queues /\ b.length = m.length
      /\ CoversBuckets(b)
      /\ Keys(m) \subseteq Keys(b)
      /\ \A j \in 1 .. Len(s) : Queued(m, s[j]) # {} => s[j] \in Keys(b)
  BY <1>5, Zenon DEF Readying
<1>7. Sound(b)
  BY <1>4, <1>6, Zenon DEF Sound, CoversQueues
<1>8. Reached(b, x.expected)
  <2> SUFFICES ASSUME NEW t \in m.queues, t.nonce = x.expected[t.from]
               PROVE  Key(t) \in Keys(b)
    BY <1>6, Zenon DEF Reached
  <2>1. t \in Txs /\ t.from \in Accounts
    BY <1>4, Zenon DEF Mempools, Accounts
  <2>2. CASE x.expected[t.from] = expected[t.from]
    BY <1>6, <2>2, Zenon DEF Reached
  <2>3. CASE <<t.from, x.expected[t.from]>> \in Range(s)
    <3>1. Key(t) \in Range(s)
      BY <2>3, Zenon DEF Key
    <3>2. PICK j \in 1 .. Len(s) : Key(t) = s[j]
      BY <1>2, <3>1 DEF Range
    <3>3. t \in Queued(m, s[j])
      BY <3>2, Zenon DEF Queued
    <3>. QED BY <1>6, <3>2, <3>3, Zenon
  <2>. QED BY <1>2, <2>1, <2>2, <2>3, Zenon
<1>. QED BY <1>2, <1>7, <1>8, Zenon DEF x, s, b

\* The first state.
LEMMA InitStep == Init => IInv
<1> SUFFICES ASSUME Init PROVE IInv
  BY Zenon
<1>1. DOMAIN mempool = Replicas /\ \A r \in Replicas : mempool[r] = new
  BY Zenon DEF Init
<1>2. /\ new.length = 0 /\ new.ready = 0 /\ new.queues = {}
      /\ new.buckets = [kind \in Kinds |-> << >>]
  BY Zenon DEF new
<1>3. new \in Mempools
  BY DEF new, Mempools
<1>4. IsFiniteSet({}) /\ Cardinality({}) = 0
  BY FS_EmptySet, Zenon
<1>5. CoversQueues(new) /\ OnePerKey(new.queues)
  BY <1>2, <1>4 DEF CoversQueues, OnePerKey
<1>6. CoversBuckets(new)
  <2>1. new.buckets["Cancel"] = << >> /\ new.buckets["Other"] = << >>
    BY <1>2, Zenon DEF Kinds
  <2>2. 0 >= Len(<< >>) + Len(<< >>)
    OBVIOUS
  <2>. QED BY <1>2, <2>1, <2>2, Zenon DEF CoversBuckets
<1>7. Sound(new) /\ \A e : Reached(new, e)
  BY <1>2, <1>3, <1>5, <1>6, Zenon DEF Sound, Reached
<1>8. /\ expected_nonce \in [Replicas -> [Accounts -> Nat]] /\ seen \in [Replicas -> SUBSET Txs]
      /\ applied \in [Replicas -> Nat] /\ \A r \in Replicas : applied[r] <= Len(log)
      /\ log \in Seq(Seq(Txs)) /\ orphans \in Nat /\ orphans <= MaxOrphans
  BY TxsAssumption DEF Init
<1>9. \A r \in Replicas : Sound(mempool[r]) /\ Reached(mempool[r], expected_nonce[r])
  BY <1>1, <1>7, Zenon
<1>. QED BY <1>1, <1>8, <1>9, Zenon DEF IInv

-----------------------------------------------------------------------------
(* Steps                                                                   *)

\* The invariant for every replica once replica r has another mempool and other nonces.
LEMMA OneReplica ==
    ASSUME IInv, NEW r \in Replicas, NEW b, NEW e \in [Accounts -> Nat], Sound(b), Reached(b, e),
           mempool' = [mempool EXCEPT ![r] = b],
           expected_nonce' = [expected_nonce EXCEPT ![r] = e]
    PROVE  /\ DOMAIN mempool' = Replicas /\ \A s \in Replicas : Sound(mempool'[s])
           /\ expected_nonce' \in [Replicas -> [Accounts -> Nat]]
           /\ \A s \in Replicas : Reached(mempool'[s], expected_nonce'[s])
<1>1. /\ DOMAIN mempool = Replicas /\ \A s \in Replicas : Sound(mempool[s])
      /\ expected_nonce \in [Replicas -> [Accounts -> Nat]]
      /\ \A s \in Replicas : Reached(mempool[s], expected_nonce[s])
  BY Zenon DEF IInv
<1>2. /\ DOMAIN mempool' = Replicas /\ mempool'[r] = b
      /\ \A s \in Replicas \ {r} : mempool'[s] = mempool[s]
  BY <1>1, Zenon
<1>3. /\ expected_nonce' \in [Replicas -> [Accounts -> Nat]] /\ expected_nonce'[r] = e
      /\ \A s \in Replicas \ {r} : expected_nonce'[s] = expected_nonce[s]
  BY <1>1, Zenon
<1>. QED BY <1>1, <1>2, <1>3, Zenon

\* A transaction is handed to replica r.
LEMMA HandleTransaction ==
    ASSUME IInv, NEW r \in Replicas, NEW t \in Txs, handle_transaction(r, t)
    PROVE  IInv'
<1> DEFINE b == insert(mempool[r], t, expected_nonce[r][t.from])
<1>1. /\ DOMAIN mempool = Replicas /\ expected_nonce \in [Replicas -> [Accounts -> Nat]]
      /\ Sound(mempool[r]) /\ Reached(mempool[r], expected_nonce[r])
  BY Zenon DEF IInv
<1>2. /\ mempool' = [mempool EXCEPT ![r] = b]
      /\ UNCHANGED <<expected_nonce, log, applied, orphans, refused>>
      /\ seen' = [seen EXCEPT ![r] = @ \cup {t}]
  BY <1>1, Zenon DEF handle_transaction, Sees
<1>3. expected_nonce[r] \in [Accounts -> Nat]
  BY <1>1, Zenon
<1>4. Sound(b) /\ Reached(b, expected_nonce[r])
  BY <1>1, <1>3, InsertStep, Zenon
<1> HIDE DEF b
<1>5. expected_nonce' = [expected_nonce EXCEPT ![r] = expected_nonce[r]]
  BY <1>1, <1>2, Zenon
<1>6. /\ DOMAIN mempool' = Replicas /\ \A s \in Replicas : Sound(mempool'[s])
      /\ expected_nonce' \in [Replicas -> [Accounts -> Nat]]
      /\ \A s \in Replicas : Reached(mempool'[s], expected_nonce'[s])
  BY <1>2, <1>3, <1>4, <1>5, OneReplica, Zenon
<1>7. seen' \in [Replicas -> SUBSET Txs]
  BY <1>2, Zenon DEF IInv
<1>8. log' = log /\ applied' = applied /\ orphans' = orphans
  BY <1>2, Zenon
<1>. QED BY <1>6, <1>7, <1>8, Zenon DEF IInv

\* Replica r fills a block.
LEMMA ProposeStep ==
    ASSUME IInv, NEW r \in Replicas, NEW committed \in BOOLEAN, Propose(r, committed)
    PROVE  IInv'
<1> DEFINE p == pop_next_n(mempool[r], BLOCK_TRANSACTION_LENGTH)
<1>1. /\ DOMAIN mempool = Replicas /\ expected_nonce \in [Replicas -> [Accounts -> Nat]]
      /\ Sound(mempool[r]) /\ Reached(mempool[r], expected_nonce[r])
      /\ log \in Seq(Seq(Txs)) /\ orphans \in Nat /\ orphans <= MaxOrphans
      /\ applied \in [Replicas -> Nat] /\ \A s \in Replicas : applied[s] <= Len(log)
  BY Zenon DEF IInv
<1>2. BLOCK_TRANSACTION_LENGTH \in Nat /\ MaxOrphans \in Nat
  BY TxsAssumption, Zenon
<1>3. /\ Sound(p.m) /\ p.block \in Seq(Txs) /\ p.m.queues \subseteq mempool[r].queues
      /\ \A t \in p.m.queues : Key(t) \in Keys(mempool[r]) => Key(t) \in Keys(p.m)
  BY <1>1, <1>2, PopStep, Zenon
<1>4. Reached(p.m, expected_nonce[r])
  BY <1>1, <1>3, Zenon DEF Reached
<1>5. /\ mempool' = [mempool EXCEPT ![r] = p.m]
      /\ log' = log \/ log' = Append(log, p.block)
      /\ committed \/ orphans < MaxOrphans
      /\ orphans' = IF committed THEN orphans ELSE orphans + 1
      /\ UNCHANGED <<expected_nonce, seen, applied, refused>>
  BY Zenon DEF Propose
<1> HIDE DEF p
<1>6. expected_nonce[r] \in [Accounts -> Nat] /\ expected_nonce' = [expected_nonce EXCEPT ![r] = expected_nonce[r]]
  BY <1>1, <1>5, Zenon
<1>7. /\ DOMAIN mempool' = Replicas /\ \A s \in Replicas : Sound(mempool'[s])
      /\ expected_nonce' \in [Replicas -> [Accounts -> Nat]]
      /\ \A s \in Replicas : Reached(mempool'[s], expected_nonce'[s])
  BY <1>3, <1>4, <1>5, <1>6, OneReplica, Zenon
<1>8. log' \in Seq(Seq(Txs)) /\ Len(log') \in Nat /\ Len(log') >= Len(log)
  <2>1. /\ Append(log, p.block) \in Seq(Seq(Txs)) /\ Len(Append(log, p.block)) = Len(log) + 1
        /\ Len(log) \in Nat
    BY <1>1, <1>3, AppendProperties
  <2>2. CASE log' = log
    BY <1>1, <2>1, <2>2
  <2>3. CASE log' = Append(log, p.block)
    <3>1. Len(log') = Len(log) + 1
      BY <2>1, <2>3, Zenon
    <3>. QED BY <2>1, <2>3, <3>1
  <2>. QED BY <1>5, <2>2, <2>3, Zenon
<1>9. \A s \in Replicas : applied'[s] <= Len(log')
  BY <1>1, <1>5, <1>8
<1>10. orphans' \in Nat /\ orphans' <= MaxOrphans
  BY <1>1, <1>2, <1>5
<1>11. applied' = applied /\ seen' = seen /\ seen \in [Replicas -> SUBSET Txs]
  BY <1>5, Zenon DEF IInv
<1>. QED BY <1>1, <1>7, <1>8, <1>9, <1>10, <1>11, Zenon DEF IInv

\* Replica r applies the next block.
LEMMA CommitStep ==
    ASSUME IInv, NEW r \in Replicas, Commit(r)
    PROVE  IInv'
<1> DEFINE block == log[applied[r] + 1]
           x == apply_block(expected_nonce[r], block)
           b == update_after_execution(mempool[r], x.account_nonces)
<1>1. /\ DOMAIN mempool = Replicas /\ expected_nonce \in [Replicas -> [Accounts -> Nat]]
      /\ Sound(mempool[r]) /\ Reached(mempool[r], expected_nonce[r])
      /\ log \in Seq(Seq(Txs)) /\ applied \in [Replicas -> Nat]
      /\ \A s \in Replicas : applied[s] <= Len(log)
  BY Zenon DEF IInv
<1>2. /\ applied[r] < Len(log) /\ applied' = [applied EXCEPT ![r] = @ + 1]
      /\ expected_nonce' = [expected_nonce EXCEPT ![r] = x.expected]
      /\ UNCHANGED <<seen, log, orphans, refused>>
  BY Zenon DEF Commit, Applies
<1>3. mempool' = [mempool EXCEPT ![r] = b]
  BY <1>1, Zenon DEF Commit
<1>4. block \in Seq(Txs)
  BY <1>1, <1>2
<1>5. expected_nonce[r] \in [Accounts -> Nat]
  BY <1>1, Zenon
<1> HIDE DEF block
<1>6. x.expected \in [Accounts -> Nat] /\ Sound(b) /\ Reached(b, x.expected)
  BY <1>1, <1>4, <1>5, CommitMempool, Zenon
<1> HIDE DEF x, b
<1>7. /\ DOMAIN mempool' = Replicas /\ \A s \in Replicas : Sound(mempool'[s])
      /\ expected_nonce' \in [Replicas -> [Accounts -> Nat]]
      /\ \A s \in Replicas : Reached(mempool'[s], expected_nonce'[s])
  BY <1>2, <1>3, <1>6, OneReplica, Zenon
<1>8. /\ applied' \in [Replicas -> Nat] /\ \A s \in Replicas : applied'[s] <= Len(log)
  BY <1>1, <1>2
<1>9. log' = log /\ seen' = seen /\ orphans' = orphans
  BY <1>2, Zenon
<1>. QED BY <1>7, <1>8, <1>9, Zenon DEF IInv

\* The invariant, whatever arrives where and in whatever order, whoever leads, and
\* however far behind a replica is.
THEOREM Invariance == Spec => []IInv
<1>1. IInv /\ [Next]_vars => IInv'
  <2> SUFFICES ASSUME IInv, [Next]_vars PROVE IInv'
    BY Zenon
  <2>1. CASE UNCHANGED vars
    BY <2>1, Zenon DEF vars, IInv
  <2>2. CASE Next
    <3>1. PICK r \in Replicas : \/ \E t \in Txs : handle_transaction(r, t)
                                \/ \E committed \in BOOLEAN : Propose(r, committed)
                                \/ Commit(r)
      BY <2>2, Zenon DEF Next
    <3>. QED BY <3>1, HandleTransaction, ProposeStep, CommitStep, Zenon
  <2>. QED BY <2>1, <2>2, Zenon
<1>. QED BY <1>1, InitStep, PTL DEF Spec

\* ready_transactions_length and length of PriorityMempool never wrap: they are at least
\* the keys in the buckets and the queued transactions, although a replaced transaction
\* and a key without one make them drift.
THEOREM CountersDoNotWrap == Spec => []CountersCover
<1>1. IInv => CountersCover
  BY Zenon DEF IInv, CountersCover, Sound, CoversQueues, CoversBuckets
<1>. QED BY <1>1, Invariance, PTL

\* A queued transaction whose turn has come is in a bucket: pop_next_n drains a key and
\* removes its transaction together, and update_after_execution adds the key of every
\* account whose nonce the block has moved.
THEOREM NoTransactionStranded == Spec => []NoneStranded
<1>1. IInv => NoneStranded
  BY Zenon DEF IInv, NoneStranded, Reached
<1>. QED BY <1>1, Invariance, PTL

\* The types of the replicas' mempools, nonces and log.
THEOREM TypeCorrect == Spec => []TypeOK
<1>1. IInv => TypeOK
  <2> SUFFICES ASSUME IInv PROVE TypeOK
    BY Zenon
  <2>1. ASSUME NEW r \in Replicas
        PROVE  /\ mempool[r].queues \subseteq Txs
               /\ \A t, u \in mempool[r].queues : Key(t) = Key(u) => t = u
               /\ Keys(mempool[r]) \subseteq {Key(t) : t \in Txs}
    <3>1. mempool[r] \in Mempools /\ OnePerKey(mempool[r].queues)
      BY Zenon DEF IInv, Sound
    <3>2. ASSUME NEW kind \in Kinds PROVE Range(mempool[r].buckets[kind]) \subseteq KeysOfTxs
      <4>1. mempool[r].buckets[kind] \in Seq(KeysOfTxs)
        BY <3>1, Zenon DEF Mempools
      <4>. QED BY <4>1 DEF Range
    <3>3. Keys(mempool[r]) \subseteq KeysOfTxs
      BY <3>2, Zenon DEF Keys
    <3>4. mempool[r].queues \subseteq Txs
      BY <3>1, Zenon DEF Mempools
    <3>. QED BY <3>1, <3>3, <3>4, Zenon DEF OnePerKey, KeysOfTxs
  <2>2. ASSUME NEW r \in Replicas
        PROVE  seen[r] \subseteq Txs /\ applied[r] \in 0 .. Len(log) /\ expected_nonce[r] \in [Accounts -> Nat]
    BY DEF IInv
  <2>3. ASSUME NEW i \in DOMAIN log PROVE Range(log[i]) \subseteq Txs
    <3>1. log[i] \in Seq(Txs)
      BY DEF IInv
    <3>. QED BY <3>1 DEF Range
  <2>4. orphans \in 0 .. MaxOrphans
    BY TxsAssumption DEF IInv
  <2>. QED BY <2>1, <2>2, <2>3, <2>4, Zenon DEF TypeOK
<1>. QED BY <1>1, Invariance, PTL

=============================================================================
