---------------------------- MODULE MerkleProofs ----------------------------
(***************************************************************************)
(* compute_merkle_root never indexes out of bounds, computes the levels of  *)
(* a Merkle tree and returns its root, for lists of any length; and the     *)
(* root tells lists apart that can be blocks, if no hashes collide.        *)
(***************************************************************************)
EXTENDS Merkle, SequenceTheorems, NaturalsInduction, WellFoundedInduction, TLAPS

\* The width of a level is even, and the vector is at least as long.
Widths ==
    /\ list \in Lists
    /\ pc \in {"begin", "pairs", "done"}
    /\ pc = "begin" => /\ size = Len(list) /\ len = size /\ i = 0
                       /\ hashes = Vec(list) /\ level = Vec(list) /\ root = Zero
    /\ pc = "pairs" =>
         /\ size \in Nat /\ len \in Nat /\ i \in Nat
         /\ len >= 1 /\ len <= size /\ (len > 1 => len % 2 = 0)
         /\ i <= len /\ i % 2 = 0 /\ (len = 1 => i = 0)
         /\ hashes = [k \in 0 .. size - 1 |-> hashes[k]]
         /\ level = [k \in 0 .. len - 1 |-> level[k]]

\* Within a level, what was not read yet is as it was, and what was written are the
\* digests of what was read.
InPlace ==
    pc = "pairs" =>
        /\ \A k \in i .. len - 1 : hashes[k] = level[k]
        /\ \A k \in 0 .. (i \div 2) - 1 : hashes[k] = Digest(level[2 * k], level[2 * k + 1])

IInv == Widths /\ InPlace

\* The halves of an even number, and what is even two further on.
LEMMA Halves ==
    ASSUME NEW n \in Nat, n % 2 = 0
    PROVE  /\ (n + 1) \div 2 = n \div 2 /\ n \div 2 \in Nat /\ 2 * (n \div 2) = n
           /\ (n + 2) % 2 = 0 /\ (n + 2) \div 2 = (n \div 2) + 1
OBVIOUS

\* A number that is not even is followed by one that is.
LEMMA OddOrEven ==
    ASSUME NEW n \in Nat
    PROVE  n % 2 \in {0, 1} /\ (n % 2 = 1 => (n + 1) % 2 = 0)
OBVIOUS

\* A list of hashes as a vector.
LEMMA VecType ==
    ASSUME NEW s \in Lists
    PROVE  Len(s) \in Nat /\ Vec(s) = [k \in 0 .. Len(s) - 1 |-> Vec(s)[k]]
BY ListsAssumption DEF Vec

\* The vector begins as the list.
LEMMA InitInv == Init => IInv
BY Zenon DEF Init, IInv, Widths, InPlace

\* The push makes the width of the first level even.
LEMMA PushInv == IInv /\ Push => IInv'
<1> SUFFICES ASSUME IInv, Push PROVE IInv'
  BY Zenon
<1>1. /\ size \in Nat /\ size > 1 /\ list \in Lists /\ i = 0
      /\ size = Len(list)
  BY VecType, Zenon DEF IInv, Widths, Push
<1>2. size' \in Nat /\ size' > 1 /\ size' % 2 = 0
  <2>1. size % 2 \in {0, 1} /\ (size % 2 = 1 => (size + 1) % 2 = 0)
    BY <1>1, OddOrEven, Zenon
  <2>2. CASE size % 2 = 1
    BY <1>1, <2>1, <2>2 DEF Push
  <2>3. CASE size % 2 = 0
    <3>1. size' = size
      BY <2>3 DEF Push
    <3> QED
      BY <1>1, <2>3, <3>1, Zenon
  <2> QED
    BY <2>1, <2>2, <2>3, Zenon
<1>3. hashes' = [k \in 0 .. size' - 1 |-> hashes'[k]]
  BY Zenon DEF Push
<1>4. Widths'
  <2>1. /\ pc' = "pairs" /\ len' = size' /\ level' = hashes' /\ i' = 0
        /\ list' = list
    BY <1>1, Zenon DEF Push
  <2>2. /\ len' >= 1 /\ len' <= size' /\ (len' > 1 => len' % 2 = 0)
        /\ i' <= len' /\ i' % 2 = 0 /\ (len' = 1 => i' = 0)
    <3>1. i' % 2 = 0
      BY <2>1
    <3>2. len' % 2 = 0
      BY <1>2, <2>1, Zenon
    <3>3. len' \in Nat /\ len' > 1 /\ size' = len'
      BY <1>2, <2>1, Zenon
    <3>4. len' >= 1 /\ len' <= size' /\ i' <= len'
      BY <2>1, <3>3
    <3> QED
      BY <2>1, <3>1, <3>2, <3>4, Zenon
  <2> QED
    BY <1>1, <1>2, <1>3, <2>1, <2>2, Zenon DEF Widths
<1>5. InPlace'
  BY <1>1 DEF InPlace, Push
<1> QED
  BY <1>4, <1>5, Zenon DEF IInv

\* A pair is within the vector, and its digest does not overwrite what is to be read.
LEMMA PairInv == IInv /\ Pair => IInv' /\ i + 1 < size
<1> SUFFICES ASSUME IInv, Pair PROVE IInv' /\ i + 1 < size
  BY Zenon
<1>1. /\ pc = "pairs" /\ size \in Nat /\ len \in Nat /\ i \in Nat
      /\ len > 1 /\ len <= size /\ len % 2 = 0 /\ i < len /\ i % 2 = 0
  BY Zenon DEF IInv, Widths, Pair
<1>2. i + 1 < len /\ i + 1 < size
  BY <1>1
<1>3. /\ hashes' = [hashes EXCEPT ![i \div 2] = Digest(hashes[i], hashes[i + 1])]
      /\ i' = i + 2
      /\ UNCHANGED <<list, size, len, pc, root, level>>
  BY <1>2, Zenon DEF Pair
<1>4. /\ i \div 2 \in Nat /\ 2 * (i \div 2) = i /\ i' % 2 = 0
      /\ i' \div 2 = (i \div 2) + 1 /\ i' \in Nat /\ i' <= len
  BY <1>1, <1>2, <1>3, Halves
<1>5. hashes = [k \in 0 .. size - 1 |-> hashes[k]]
  BY <1>1, Zenon DEF IInv, Widths
<1>6. hashes' = [k \in 0 .. size - 1 |-> hashes'[k]]
  BY <1>3, <1>5, Zenon
<1>7. Widths'
  BY <1>1, <1>3, <1>4, <1>6 DEF IInv, Widths
<1>8. \A k \in 0 .. size - 1 : k # i \div 2 => hashes'[k] = hashes[k]
  BY <1>3, <1>5, Zenon
<1>9. hashes'[i \div 2] = Digest(hashes[i], hashes[i + 1])
  <2> DEFINE half == i \div 2
  <2>1. half \in Nat /\ 2 * half = i
    BY <1>4, Zenon
  <2> HIDE DEF half
  <2>2. half \in 0 .. size - 1
    BY <2>1, <1>1, <1>2
  <2>3. hashes' = [hashes EXCEPT ![half] = Digest(hashes[i], hashes[i + 1])]
    BY <1>3, Zenon DEF half
  <2>4. hashes'[half] = Digest(hashes[i], hashes[i + 1])
    BY <2>2, <2>3, <1>5, Zenon
  <2> QED
    BY <2>4, Zenon DEF half
<1>10. /\ \A k \in i .. len - 1 : hashes[k] = level[k]
       /\ \A k \in 0 .. (i \div 2) - 1 : hashes[k] = Digest(level[2 * k], level[2 * k + 1])
  BY <1>1, Zenon DEF IInv, InPlace
<1>11. ASSUME NEW k \in i' .. len - 1 PROVE hashes'[k] = level[k]
  BY <1>1, <1>3, <1>4, <1>8, <1>10
<1>12. ASSUME NEW k \in 0 .. (i' \div 2) - 1
       PROVE  hashes'[k] = Digest(level[2 * k], level[2 * k + 1])
  <2>1. CASE k = i \div 2
    <3>1. hashes[i] = level[i] /\ hashes[i + 1] = level[i + 1]
      BY <1>1, <1>2, <1>10
    <3> QED
      BY <2>1, <3>1, <1>4, <1>9, Zenon
  <2>2. CASE k # i \div 2
    <3>1. k \in 0 .. (i \div 2) - 1 /\ k \in 0 .. size - 1
      <4> DEFINE half == i \div 2
      <4>1. half \in Nat /\ 2 * half = i /\ k \in 0 .. (half + 1) - 1 /\ k # half
        BY <2>2, <1>4, Zenon
      <4> HIDE DEF half
      <4>2. k \in 0 .. half - 1 /\ k \in 0 .. size - 1
        BY <4>1, <1>1
      <4> QED
        BY <4>2, Zenon DEF half
    <3> QED
      BY <2>2, <3>1, <1>8, <1>10, Zenon
  <2> QED
    BY <2>1, <2>2, Zenon
<1>13. InPlace'
  BY <1>3, <1>11, <1>12, Zenon DEF InPlace
<1> QED
  BY <1>2, <1>7, <1>13, Zenon DEF IInv

\* The digests of an even level.
Written == [k \in 0 .. (len \div 2) - 1 |-> Digest(level[2 * k], level[2 * k + 1])]

\* At the end of a level its digests are at the front of the vector, and there is room
\* for the repeated hash behind them.
LEMMA LevelDone ==
    ASSUME IInv, pc = "pairs", len > 1, i >= len
    PROVE  /\ size \in Nat /\ len \in Nat
           /\ (len + 1) \div 2 = len \div 2 /\ len \div 2 \in Nat
           /\ len \div 2 >= 1 /\ len \div 2 < size
           /\ hashes = [k \in 0 .. size - 1 |-> hashes[k]]
           /\ \A k \in 0 .. (len \div 2) - 1 : hashes[k] = Written[k]
<1>1. /\ size \in Nat /\ len \in Nat /\ i = len /\ len <= size /\ len % 2 = 0
      /\ hashes = [k \in 0 .. size - 1 |-> hashes[k]]
  BY DEF IInv, Widths
<1> DEFINE half == len \div 2
<1>2. (len + 1) \div 2 = half /\ half \in Nat /\ 2 * half = len
  BY <1>1, Halves, Zenon
<1>3. \A k \in 0 .. half - 1 : hashes[k] = Digest(level[2 * k], level[2 * k + 1])
  BY <1>1, Zenon DEF IInv, InPlace
<1>4. \A k \in 0 .. half - 1 : hashes[k] = Written[k]
  BY <1>3, Zenon DEF Written
<1> HIDE DEF half
<1>5. half >= 1 /\ half < size
  <2>1. half \in Nat /\ 2 * half = len /\ len > 1 /\ len <= size /\ size \in Nat
    BY <1>1, <1>2, Zenon
  <2>2. half >= 1 /\ half < len
    BY <2>1
  <2> QED
    BY <2>1, <2>2
<1> QED
  BY <1>1, <1>2, <1>4, <1>5, Zenon DEF half

\* The next level is even again, or the root.
LEMMA HalveInv ==
    ASSUME IInv, Halve
    PROVE  /\ IInv'
           /\ len' = Levels!Even(len \div 2)
           /\ level' = Levels!Repeated(Levels!Digests(level, len), len \div 2)
           /\ UNCHANGED <<list, pc, root>>
<1> DEFINE half == len \div 2
           odd  == half % 2 = 1 /\ half > 1
<1>1. /\ size \in Nat /\ (len + 1) \div 2 = half /\ half \in Nat
      /\ half >= 1 /\ half < size
      /\ hashes = [k \in 0 .. size - 1 |-> hashes[k]]
      /\ \A k \in 0 .. half - 1 : hashes[k] = Written[k]
  BY LevelDone, Zenon DEF Halve
<1>2. /\ hashes' = IF odd THEN [hashes EXCEPT ![half] = hashes[half - 1]] ELSE hashes
      /\ len' = IF odd THEN half + 1 ELSE half
      /\ level' = [k \in 0 .. len' - 1 |-> hashes'[k]]
      /\ i' = 0 /\ pc = "pairs"
      /\ UNCHANGED <<list, size, pc, root>>
  <2>1. ~(odd /\ half >= size)
    BY <1>1
  <2> QED
    BY <1>1, <2>1, Zenon DEF Halve
<1>3. len' = Levels!Even(half)
  BY <1>2, Zenon DEF Levels!Even, Levels!Odd
<1>4. /\ len' \in Nat /\ len' >= 1 /\ len' <= size
      /\ hashes' = [k \in 0 .. size - 1 |-> hashes'[k]]
      /\ \A k \in 0 .. len' - 1 :
           hashes'[k] = IF k < half THEN Written[k] ELSE Written[half - 1]
  <2> HIDE DEF half
  <2>1. CASE odd
    <3>1. len' = half + 1 /\ hashes' = [hashes EXCEPT ![half] = hashes[half - 1]]
      BY <1>2, <2>1, Zenon
    <3>2. half \in 0 .. size - 1 /\ half - 1 \in 0 .. half - 1
      BY <1>1
    <3>3. hashes' = [k \in 0 .. size - 1 |-> IF k = half THEN hashes[half - 1] ELSE hashes[k]]
      BY <1>1, <3>1, Zenon
    <3> HIDE DEF odd
    <3>4. ASSUME NEW k \in 0 .. len' - 1
          PROVE  hashes'[k] = IF k < half THEN Written[k] ELSE Written[half - 1]
      <4>1. k \in 0 .. size - 1 /\ (k = half \/ k \in 0 .. half - 1)
        BY <1>1, <3>1
      <4>2. CASE k = half
        <5>1. ~(k < half) /\ hashes'[k] = hashes[half - 1]
          BY <4>1, <4>2, <3>3, <1>1
        <5> QED
          BY <5>1, <1>1, <3>2, Zenon
      <4>3. CASE k \in 0 .. half - 1
        <5>1. k < half /\ k # half
          BY <4>3, <1>1
        <5>2. hashes'[k] = hashes[k]
          BY <5>1, <4>1, <3>3, Zenon
        <5> QED
          BY <5>1, <5>2, <4>3, <1>1, Zenon
      <4> QED
        BY <4>1, <4>2, <4>3, Zenon
    <3>5. len' \in Nat /\ len' >= 1 /\ len' <= size
      BY <1>1, <3>1
    <3>6. hashes' = [k \in 0 .. size - 1 |-> hashes'[k]]
      BY <3>3, Zenon
    <3> QED
      BY <3>4, <3>5, <3>6, Zenon
  <2>2. CASE ~odd
    <3>1. len' = half /\ hashes' = hashes
      BY <1>2, <2>2, Zenon
    <3> HIDE DEF odd
    <3>2. len' \in Nat /\ len' >= 1 /\ len' <= size
      BY <1>1, <3>1
    <3>3. ASSUME NEW k \in 0 .. len' - 1
          PROVE  hashes'[k] = IF k < half THEN Written[k] ELSE Written[half - 1]
      <4>1. k < half /\ k \in 0 .. half - 1
        BY <1>1, <3>1
      <4> QED
        BY <4>1, <1>1, <3>1, Zenon
    <3> QED
      BY <1>1, <3>1, <3>2, <3>3, Zenon
  <2> QED
    BY <2>1, <2>2, Zenon
<1>5. level' = [k \in 0 .. len' - 1 |-> IF k < half THEN Written[k] ELSE Written[half - 1]]
  BY <1>2, <1>4, Zenon
<1>6. level' = Levels!Repeated(Levels!Digests(level, len), half)
  BY <1>3, <1>5, Zenon DEF Levels!Repeated, Levels!Digests, Written
<1>7. len' > 1 => len' % 2 = 0
  <2> HIDE DEF half
  <2>1. half % 2 \in {0, 1} /\ (half % 2 = 1 => (half + 1) % 2 = 0)
    BY <1>1, OddOrEven, Zenon
  <2>2. CASE odd
    BY <1>2, <2>1, <2>2, Zenon
  <2>3. CASE ~odd
    BY <1>1, <1>2, <2>1, <2>3, Zenon
  <2> QED
    BY <2>2, <2>3, Zenon
<1>8. Widths'
  <2>1. /\ i' \in Nat /\ i' <= len' /\ i' % 2 = 0
    BY <1>2, <1>4
  <2>2. level' = [k \in 0 .. len' - 1 |-> level'[k]]
    BY <1>5, Zenon
  <2>3. list' \in Lists
    BY <1>2, Zenon DEF IInv, Widths
  <2> QED
    BY <1>1, <1>2, <1>4, <1>7, <2>1, <2>2, <2>3, Zenon DEF Widths
<1>9. InPlace'
  <2>1. \A k \in 0 .. len' - 1 : hashes'[k] = level'[k]
    BY <1>2
  <2> QED
    BY <2>1, <1>2 DEF InPlace
<1> QED
  BY <1>2, <1>3, <1>6, <1>8, <1>9, Zenon DEF IInv

\* IInv is inductive.
LEMMA StepInv == IInv /\ [Next]_vars => IInv'
<1> SUFFICES ASSUME IInv, [Next]_vars PROVE IInv'
  BY Zenon
<1>1. CASE Return
  BY <1>1, Zenon DEF Return, IInv, Widths, InPlace
<1>2. CASE Push
  BY <1>2, PushInv, Zenon
<1>3. CASE Pair
  BY <1>3, PairInv, Zenon
<1>4. CASE Halve
  BY <1>4, HalveInv, Zenon
<1>5. CASE Finish
  BY <1>5, Zenon DEF Finish, IInv, Widths, InPlace
<1>6. CASE UNCHANGED vars
  BY <1>6, Zenon DEF vars, IInv, Widths, InPlace
<1> QED
  BY <1>1, <1>2, <1>3, <1>4, <1>5, <1>6, Zenon DEF Next

\* The computation keeps to IInv.
THEOREM InPlaceInvariant == Spec => []IInv
BY InitInv, StepInv, PTL DEF Spec

\* compute_merkle_root panics for no list: every index, that of the repeated hash
\* included, is within the vector.
THEOREM NeverPanics == Spec => []InBounds
<1>1. IInv => InBounds
  BY Zenon DEF IInv, Widths, InBounds
<1> QED
  BY <1>1, InPlaceInvariant, PTL

\* The vector begins as the lowest level.
LEMMA InitLevels == Init => Levels!LevelsInit
BY Zenon DEF Init, Levels!LevelsInit, Vec, Levels!Vector

\* A step on the vector computes the next level, or none.
LEMMA StepLevels == IInv /\ [Next]_vars => [Levels!LevelsNext]_(Levels!levels)
<1> SUFFICES ASSUME IInv, [Next]_vars PROVE [Levels!LevelsNext]_(Levels!levels)
  BY Zenon
<1>1. CASE Return
  <2>1. Levels!Trivial
    BY <1>1, Zenon DEF Return, Levels!Trivial, IInv, Widths
  <2> QED
    BY <2>1, Zenon DEF Levels!LevelsNext
<1>2. CASE Push
  <2>1. /\ pc = "begin" /\ pc' = "pairs" /\ size \in Nat /\ len = size /\ size > 1
        /\ level = hashes
    BY <1>2, VecType, Zenon DEF Push, IInv, Widths
  <2>2. size' = Levels!Even(len)
    BY <1>2, <2>1, Zenon DEF Push, Levels!Even, Levels!Odd
  <2>3. len' = size' /\ level' = Levels!Repeated(level, len) /\ UNCHANGED <<list, root>>
    BY <1>2, <2>1, <2>2, Zenon DEF Push, Levels!Repeated
  <2>4. Levels!Bottom
    BY <2>1, <2>2, <2>3, Zenon DEF Levels!Bottom
  <2> QED
    BY <2>4, Zenon DEF Levels!LevelsNext
<1>3. CASE Pair
  BY <1>3, PairInv, Zenon DEF Pair, Levels!levels
<1>4. CASE Halve
  <2>1. /\ len' = Levels!Even(len \div 2)
        /\ level' = Levels!Repeated(Levels!Digests(level, len), len \div 2)
        /\ UNCHANGED <<list, pc, root>>
    BY <1>4, HalveInv, Zenon
  <2>2. pc = "pairs" /\ len > 1
    BY <1>4, Zenon DEF Halve
  <2>3. Levels!Up
    BY <2>1, <2>2, Zenon DEF Levels!Up
  <2> QED
    BY <2>3, Zenon DEF Levels!LevelsNext
<1>5. CASE Finish
  <2>1. /\ pc = "pairs" /\ pc' = "done" /\ len = 1 /\ i = 0
    BY <1>5 DEF Finish, IInv, Widths
  <2>2. hashes[0] = level[0]
    BY <2>1 DEF IInv, InPlace
  <2>3. Levels!Top
    BY <1>5, <2>1, <2>2, Zenon DEF Finish, Levels!Top
  <2> QED
    BY <2>3, Zenon DEF Levels!LevelsNext
<1>6. CASE UNCHANGED vars
  BY <1>6, Zenon DEF vars, Levels!levels
<1> QED
  BY <1>1, <1>2, <1>3, <1>4, <1>5, <1>6, Zenon DEF Next

\* The loops that work in place implement the definition of the levels, for lists of
\* any length and any digest.
THEOREM LevelsImplemented == Spec => ComputesLevels
<1>1. Spec => [][Levels!LevelsNext]_(Levels!levels)
  BY InPlaceInvariant, StepLevels, PTL DEF Spec
<1>2. Spec => Levels!LevelsInit
  BY InitLevels, Zenon DEF Spec
<1> QED
  BY <1>1, <1>2, Zenon DEF ComputesLevels, Levels!LevelsSpec

-----------------------------------------------------------------------------
(* The tree over a list                                                    *)

\* A set of numbers that is not empty has a least element.
LEMMA LeastNumber ==
    ASSUME NEW T, T \subseteq Nat, T # {}
    PROVE  \E n \in T : \A m \in T : n <= m
<1> DEFINE R == {ss \in Nat \X Nat : ss[1] < ss[2]}
<1>1. IsWellFoundedOn(R, Nat)
  BY NatLessThanWellFounded, Zenon DEF OpToRel
<1>2. \A x, y \in Nat : ~(<<y, x>> \in R) => x <= y
  OBVIOUS
<1> HIDE DEF R
<1>3. \E x \in T : \A y \in T : ~(<<y, x>> \in R)
  BY <1>1, WFMin, Zenon
<1>. QED BY <1>2, <1>3, Zenon

\* Induction up to a bound, for the set of the numbers that have the property.
LEMMA Induction ==
    ASSUME NEW b \in Nat, NEW S, 0 \in S, \A n \in 0 .. b - 1 : n \in S => n + 1 \in S
    PROVE  \A n \in 0 .. b : n \in S
<1> SUFFICES ASSUME (0 .. b) \ S # {} PROVE FALSE
  BY Zenon
<1>1. PICK n \in (0 .. b) \ S : \A m \in (0 .. b) \ S : n <= m
  <2>1. (0 .. b) \ S \subseteq Nat
    OBVIOUS
  <2>. QED BY <2>1, LeastNumber, Zenon
<1>2. n # 0 => n - 1 \in 0 .. b - 1 /\ n - 1 \in 0 .. b /\ ~(n <= n - 1) /\ n - 1 + 1 = n
  BY <1>1
<1>3. n # 0
  BY <1>1, Zenon
<1>4. n - 1 \in S
  BY <1>1, <1>2, <1>3, Zenon
<1>. QED BY <1>1, <1>2, <1>3, <1>4, Zenon

\* Induction from a bound down.
LEMMA Descent ==
    ASSUME NEW b \in Nat, NEW S, b \in S, \A n \in 0 .. b - 1 : n + 1 \in S => n \in S
    PROVE  \A n \in 0 .. b : n \in S
<1> DEFINE D == {n \in Nat : b - n \in S}
<1>1. 0 \in D
  <2>1. b - 0 = b /\ 0 \in Nat
    OBVIOUS
  <2>. QED BY <2>1, Zenon
<1>2. ASSUME NEW n \in 0 .. b - 1, n \in D PROVE n + 1 \in D
  <2> DEFINE k == b - (n + 1)
  <2>1. k \in 0 .. b - 1 /\ k + 1 = b - n /\ n + 1 \in Nat
    OBVIOUS
  <2>2. b - n \in S
    BY <1>2, Zenon
  <2> HIDE DEF k
  <2>3. k \in S
    BY <2>1, <2>2, Zenon
  <2>. QED BY <2>1, <2>3, Zenon DEF k
<1>3. \A n \in 0 .. b : n \in D
  <2> HIDE DEF D
  <2>. QED BY <1>1, <1>2, Induction, Zenon
<1> SUFFICES ASSUME NEW n \in 0 .. b PROVE n \in S
  BY Zenon
<1> DEFINE k == b - n
<1>4. k \in 0 .. b /\ b - k = n
  OBVIOUS
<1> HIDE DEF k
<1>. QED BY <1>3, <1>4, Zenon

\* The tree is what its recursive definition says: such a function exists.
LEMMA TreeLoop ==
    ASSUME NEW s, Len(s) \in Nat
    PROVE  Tree(s) = [h \in 0 .. Len(s) |->
                        IF h = 0 THEN [width |-> Len(s), at |-> Vec(s)] ELSE Above(Tree(s)[h - 1])]
<1> DEFINE leaves == [width |-> Len(s), at |-> Vec(s)]
           Loop(f, n) == f = [h \in 0 .. n |-> IF h = 0 THEN leaves ELSE Above(f[h - 1])]
           S == {n \in Nat : \E f : Loop(f, n)}
<1> HIDE DEF leaves
<1>1. 0 \in S
  <2>1. Loop([h \in 0 .. 0 |-> leaves], 0)
    OBVIOUS
  <2>. QED BY <2>1, Zenon
<1>2. ASSUME NEW n \in 0 .. Len(s) - 1, n \in S PROVE n + 1 \in S
  <2>1. n \in Nat /\ n + 1 \in Nat
    OBVIOUS
  <2>2. PICK g : Loop(g, n)
    BY <1>2, Zenon
  <2> DEFINE f == [h \in 0 .. n + 1 |-> IF h = 0 THEN leaves ELSE Above(g[h - 1])]
  <2>3. \A h \in 0 .. n : f[h] = g[h]
    <3>1. \A h \in 0 .. n : h \in 0 .. n + 1
      BY <2>1
    <3>2. \A h \in 0 .. n : g[h] = IF h = 0 THEN leaves ELSE Above(g[h - 1])
      BY <2>2, Zenon
    <3>. QED BY <3>1, <3>2, Zenon
  <2>4. \A h \in 0 .. n + 1 : h # 0 => h - 1 \in 0 .. n
    BY <2>1
  <2>5. Loop(f, n + 1)
    BY <2>3, <2>4, Zenon
  <2> HIDE DEF f, Loop
  <2>. QED BY <2>1, <2>5, Zenon
<1> HIDE DEF S
<1>3. Len(s) \in S
  <2>1. Len(s) \in 0 .. Len(s)
    OBVIOUS
  <2>. QED BY <1>1, <1>2, <2>1, Induction, Zenon
<1>4. \E f : Loop(f, Len(s))
  BY <1>3, Zenon DEF S
<1>. QED BY <1>4, Zenon DEF Tree, leaves

\* The tree from level to level.
LEMMA TreeSteps ==
    ASSUME NEW s, Len(s) \in Nat
    PROVE  /\ Tree(s)[0] = [width |-> Len(s), at |-> Vec(s)]
           /\ \A h \in 0 .. Len(s) - 1 : Tree(s)[h + 1] = Above(Tree(s)[h])
<1>1. \A h \in 0 .. Len(s) : Tree(s)[h]
        = IF h = 0 THEN [width |-> Len(s), at |-> Vec(s)] ELSE Above(Tree(s)[h - 1])
  BY TreeLoop, Zenon
<1>2. 0 \in 0 .. Len(s)
  OBVIOUS
<1>3. ASSUME NEW h \in 0 .. Len(s) - 1 PROVE Tree(s)[h + 1] = Above(Tree(s)[h])
  <2> DEFINE k == h + 1
  <2>1. k \in 0 .. Len(s) /\ k # 0 /\ k - 1 = h
    OBVIOUS
  <2> HIDE DEF k
  <2>2. Tree(s)[k] = Above(Tree(s)[h])
    BY <1>1, <2>1, Zenon
  <2>. QED BY <2>2, Zenon DEF k
<1>. QED BY <1>1, <1>2, <1>3, Zenon

\* A level of a tree, and the right one of the two hashes that are digested.
IsLevel(t) == t.width \in Nat /\ t.at = [k \in 0 .. t.width - 1 |-> t.at[k]]
Right(t, k) == IF 2 * k + 1 < t.width THEN t.at[2 * k + 1] ELSE t.at[2 * k]

\* A level above another one is about half as wide.
IsAbove(t, u) ==
    /\ IsLevel(u) /\ u.width = (t.width + 1) \div 2 /\ u.width >= 1 /\ u.width < t.width
    /\ \A k \in 0 .. u.width - 1 : /\ u.at[k] = Digest(t.at[2 * k], Right(t, k))
                                   /\ 2 * k \in 0 .. t.width - 1

\* So Above makes one.
LEMMA AboveLevel ==
    ASSUME NEW t, IsLevel(t), t.width > 1
    PROVE  IsAbove(t, Above(t))
<1> DEFINE n == (t.width + 1) \div 2
           at == [k \in 0 .. n - 1 |-> Digest(t.at[2 * k], Right(t, k))]
<1>1. t.width \in Nat /\ ~(t.width <= 1)
  BY DEF IsLevel
<1>2. n \in Nat /\ n >= 1 /\ n < t.width /\ \A k \in 0 .. n - 1 : 2 * k \in 0 .. t.width - 1
  BY <1>1
<1>3. Above(t) = [width |-> n, at |-> at]
  BY <1>1, Zenon DEF Above, Right
<1>4. at = [k \in 0 .. n - 1 |-> at[k]] /\ \A k \in 0 .. n - 1 : at[k] = Digest(t.at[2 * k], Right(t, k))
  BY Zenon
<1>5. n = (t.width + 1) \div 2
  BY Zenon
<1> HIDE DEF n, at
<1>6. Above(t).width = n /\ Above(t).at = at
  BY <1>3
<1>. QED BY <1>2, <1>4, <1>5, <1>6, Zenon DEF IsAbove, IsLevel

\* The levels of the tree of s get narrower by one at least until there is one hash left.
Narrows(s, h) ==
    /\ IsLevel(Tree(s)[h]) /\ Tree(s)[h].width >= 1
    /\ Tree(s)[h].width = 1 \/ Tree(s)[h].width <= Len(s) - h

\* And each of them is a level.
LEMMA TreeShape ==
    ASSUME NEW s, Len(s) \in Nat, Len(s) >= 1
    PROVE  \A h \in 0 .. Len(s) : Narrows(s, h)
<1> DEFINE S == {h \in Nat : Narrows(s, h)}
<1>1. 0 \in S
  <2> DEFINE leaves == [width |-> Len(s), at |-> Vec(s)]
  <2>1. Tree(s)[0] = leaves
    BY TreeSteps, Zenon
  <2>2. leaves.width = Len(s) /\ leaves.at = Vec(s)
    BY Zenon
  <2>3. Vec(s) = [k \in 0 .. Len(s) - 1 |-> Vec(s)[k]]
    BY Zenon DEF Vec
  <2>4. IsLevel(leaves)
    BY <2>2, <2>3, Zenon DEF IsLevel
  <2> HIDE DEF leaves
  <2>5. Len(s) <= Len(s) - 0 /\ 0 \in Nat
    OBVIOUS
  <2>. QED BY <2>1, <2>2, <2>4, <2>5, Zenon DEF Narrows
<1>2. ASSUME NEW h \in 0 .. Len(s) - 1, h \in S PROVE h + 1 \in S
  <2> DEFINE k == h + 1
             t == Tree(s)[h]
             u == Tree(s)[k]
  <2>1. u = Above(t)
    BY TreeSteps, Zenon
  <2>2. IsLevel(t) /\ t.width >= 1 /\ (t.width = 1 \/ t.width <= Len(s) - h)
    BY <1>2, Zenon DEF Narrows
  <2>3. k \in Nat /\ k = h + 1
    OBVIOUS
  <2> HIDE DEF k, t, u
  <2>4. IsLevel(u) /\ u.width >= 1 /\ (u.width = 1 \/ u.width <= Len(s) - k)
    <3>1. CASE t.width <= 1
      <4>1. u = t
        BY <2>1, <3>1, Zenon DEF Above
      <4>2. t.width = 1
        BY <2>2, <3>1 DEF IsLevel
      <4>. QED BY <2>2, <4>1, <4>2, Zenon
    <3>2. CASE ~(t.width <= 1)
      <4>1. t.width > 1 /\ t.width \in Nat
        BY <2>2, <3>2 DEF IsLevel
      <4>2. IsAbove(t, u)
        BY <2>1, <2>2, <4>1, AboveLevel, Zenon
      <4>3. IsLevel(u) /\ u.width >= 1 /\ u.width < t.width /\ u.width \in Nat
        BY <4>2, Zenon DEF IsAbove, IsLevel
      <4>4. u.width <= Len(s) - k
        BY <2>2, <2>3, <4>1, <4>3
      <4>. QED BY <4>3, <4>4, Zenon
    <3>. QED BY <3>1, <3>2, Zenon
  <2>5. k \in S
    BY <2>3, <2>4, Zenon DEF Narrows, u
  <2>. QED BY <2>5, Zenon DEF k
<1>3. \A h \in 0 .. Len(s) : h \in S
  <2> HIDE DEF S
  <2>. QED BY <1>1, <1>2, Induction, Zenon
<1>. QED BY <1>3, Zenon

\* Once a level has one hash, that is the root.
LEMMA RootAtTop ==
    ASSUME NEW s, Len(s) \in Nat, Len(s) >= 1, NEW a \in 0 .. Len(s), Tree(s)[a].width = 1
    PROVE  Root(s) = Tree(s)[a].at[0]
<1> DEFINE b == Len(s) - a
           S == {n \in Nat : Tree(s)[a + n] = Tree(s)[a]}
<1>1. b \in Nat /\ a + b = Len(s) /\ a + 0 = a /\ 0 \in Nat
  OBVIOUS
<1>2. 0 \in S
  BY <1>1, Zenon
<1>3. ASSUME NEW n \in 0 .. b - 1, n \in S PROVE n + 1 \in S
  <2> DEFINE h == a + n
  <2>1. h \in 0 .. Len(s) - 1 /\ n + 1 \in Nat /\ a + (n + 1) = h + 1
    BY <1>1
  <2>2. Tree(s)[h] = Tree(s)[a]
    BY <1>3, Zenon
  <2>3. Tree(s)[a].width <= 1
    OBVIOUS
  <2> HIDE DEF h
  <2>4. Tree(s)[h + 1] = Above(Tree(s)[h])
    BY <2>1, TreeSteps, Zenon
  <2>5. Above(Tree(s)[h]) = Tree(s)[h]
    BY <2>2, <2>3, Zenon DEF Above
  <2>. QED BY <2>1, <2>2, <2>4, <2>5, Zenon
<1>4. b \in S
  <2> HIDE DEF S, b
  <2>1. b \in 0 .. b
    BY <1>1
  <2>. QED BY <1>1, <1>2, <1>3, <2>1, Induction, Zenon
<1>5. s # << >>
  OBVIOUS
<1> HIDE DEF b
<1>. QED BY <1>1, <1>4, <1>5, Zenon DEF Root

\* Even widths, and what is repeated.
LEMMA EvenWidths ==
    ASSUME NEW w \in Nat, w >= 1
    PROVE  /\ Levels!Even(w) \in Nat
           /\ w > 1 => /\ Levels!Even(w) > 1 /\ Levels!Even(w) \div 2 = (w + 1) \div 2
                       /\ \A k \in 0 .. (w + 1) \div 2 - 1 :
                            /\ 2 * k < w /\ 2 * k \in 0 .. Levels!Even(w) - 1
                            /\ 2 * k + 1 \in 0 .. Levels!Even(w) - 1
                            /\ ~(2 * k + 1 < w) => w - 1 = 2 * k
           /\ w = 1 => Levels!Even(w) = 1
BY DEF Levels!Even, Levels!Odd

\* The level that is computed is the level h of the tree, with the last hash repeated.
AtLevel(h) ==
    /\ len = Levels!Even(Tree(list)[h].width)
    /\ level = Levels!Repeated(Tree(list)[h].at, Tree(list)[h].width)

\* The levels are those of the tree, and what is returned is its root.
RInv ==
    /\ pc = "pairs" => Len(list) > 1 /\ \E h \in 0 .. Len(list) : AtLevel(h)
    /\ pc = "done" => root = Root(list)

\* The digests of a level of the tree are the next level of the tree.
LEMMA NextLevel ==
    ASSUME Len(list) \in Nat, Len(list) > 1, NEW h \in 0 .. Len(list), AtLevel(h), len > 1
    PROVE  /\ h + 1 \in 0 .. Len(list)
           /\ len \div 2 = Tree(list)[h + 1].width
           /\ Levels!Digests(level, len) = Tree(list)[h + 1].at
<1> DEFINE t == Tree(list)[h]
           u == Tree(list)[h + 1]
           w == t.width
<1>1. IsLevel(t) /\ w \in Nat /\ w >= 1 /\ (w = 1 \/ w <= Len(list) - h)
  <2>1. Narrows(list, h)
    BY TreeShape
  <2>. QED BY <2>1, Zenon DEF Narrows, IsLevel
<1>2. len = Levels!Even(w) /\ level = Levels!Repeated(t.at, w)
  BY Zenon DEF AtLevel
<1> HIDE DEF t, w
<1>3. w > 1
  BY <1>1, <1>2, EvenWidths
<1>4. h \in 0 .. Len(list) - 1 /\ h + 1 \in 0 .. Len(list)
  BY <1>1, <1>3
<1>5. u = Above(t)
  BY <1>4, TreeSteps, Zenon DEF t
<1> HIDE DEF u
<1>6. IsAbove(t, u)
  BY <1>1, <1>3, <1>5, AboveLevel, Zenon DEF w
<1> DEFINE n == (w + 1) \div 2
<1> HIDE DEF n
<1>7. /\ u.width = n /\ u.at = [k \in 0 .. n - 1 |-> u.at[k]]
      /\ \A k \in 0 .. n - 1 : u.at[k] = Digest(t.at[2 * k], Right(t, k))
  BY <1>6, Zenon DEF IsAbove, IsLevel, n, w
<1>8. /\ len \div 2 = n
      /\ \A k \in 0 .. n - 1 : /\ 2 * k < w /\ 2 * k \in 0 .. len - 1 /\ 2 * k + 1 \in 0 .. len - 1
                               /\ ~(2 * k + 1 < w) => w - 1 = 2 * k
  BY <1>1, <1>2, <1>3, EvenWidths, Zenon DEF n
<1>9. \A k \in 0 .. len - 1 : level[k] = IF k < w THEN t.at[k] ELSE t.at[w - 1]
  BY <1>2, Zenon DEF Levels!Repeated
<1>10. \A k \in 0 .. n - 1 : level[2 * k] = t.at[2 * k] /\ level[2 * k + 1] = Right(t, k)
  <2> SUFFICES ASSUME NEW k \in 0 .. n - 1
               PROVE  level[2 * k] = t.at[2 * k] /\ level[2 * k + 1] = Right(t, k)
    BY Zenon
  <2> DEFINE l == 2 * k
             r == 2 * k + 1
  <2> HIDE DEF l, r
  <2>1. l < w /\ l \in 0 .. len - 1 /\ r \in 0 .. len - 1 /\ (~(r < w) => w - 1 = l)
    BY <1>8, Zenon DEF l, r
  <2>2. level[l] = t.at[l] /\ level[r] = IF r < w THEN t.at[r] ELSE t.at[l]
    BY <1>9, <2>1, Zenon
  <2>. QED BY <2>2, Zenon DEF Right, l, r, w
<1>11. Levels!Digests(level, len) = [k \in 0 .. n - 1 |-> u.at[k]]
  <2>1. \A k \in 0 .. n - 1 : Digest(level[2 * k], level[2 * k + 1]) = u.at[k]
    BY <1>7, <1>10, Zenon
  <2>. QED BY <1>8, <2>1, Zenon DEF Levels!Digests
<1>. QED BY <1>4, <1>7, <1>8, <1>11, Zenon DEF u

\* A step keeps to the tree.
LEMMA StepRoot == IInv /\ IInv' /\ RInv /\ [Next]_vars => RInv'
<1> SUFFICES ASSUME IInv, IInv', RInv, [Next]_vars PROVE RInv'
  BY Zenon
<1>0. [Levels!LevelsNext]_(Levels!levels)
  BY StepLevels, Zenon
<1>1. /\ list \in Lists /\ Len(list) \in Nat /\ pc \in {"begin", "pairs", "done"}
      /\ pc' \in {"begin", "pairs", "done"}
      /\ pc = "begin" => len = Len(list) /\ level = Vec(list)
      /\ Tree(list)[0] = [width |-> Len(list), at |-> Vec(list)]
  BY VecType, TreeSteps, Zenon DEF IInv, Widths
<1>2. Tree(list)[0].width = Len(list) /\ Tree(list)[0].at = Vec(list) /\ 0 \in 0 .. Len(list)
  BY <1>1
<1>3. CASE Levels!Trivial
  <2>1. /\ pc = "begin" /\ pc' = "done" /\ list' = list /\ len <= 1
        /\ root' = IF len = 0 THEN Zero ELSE level[0]
    BY <1>1, <1>3, Zenon DEF Levels!Trivial
  <2>2. CASE len = 0
    <3>1. list = << >>
      BY <1>1, <2>1, <2>2, ListsAssumption
    <3>2. root' = Zero /\ Root(list) = Zero
      BY <2>1, <2>2, <3>1, Zenon DEF Root
    <3>. QED BY <2>1, <3>2, Zenon DEF RInv
  <2>3. CASE len # 0
    <3>1. Len(list) = 1 /\ Len(list) >= 1 /\ Tree(list)[0].width = 1 /\ root' = Vec(list)[0]
      BY <1>1, <1>2, <2>1, <2>3
    <3>2. Root(list) = Tree(list)[0].at[0]
      BY <1>1, <1>2, <3>1, RootAtTop, Zenon
    <3>3. root' = Root(list)
      BY <1>2, <3>1, <3>2, Zenon
    <3>. QED BY <2>1, <3>3, Zenon DEF RInv
  <2>. QED BY <2>2, <2>3, Zenon
<1>4. CASE Levels!Bottom
  <2>1. /\ pc = "begin" /\ pc' = "pairs" /\ list' = list /\ len > 1
        /\ level' = Levels!Repeated(level, len) /\ len' = Levels!Even(len)
    BY <1>1, <1>4, Zenon DEF Levels!Bottom
  <2>2. AtLevel(0)' /\ Len(list) > 1
    BY <1>1, <1>2, <2>1, Zenon DEF AtLevel
  <2>3. pc' # "done" /\ Len(list') > 1
    BY <2>1, <2>2, Zenon
  <2>. QED BY <1>2, <2>1, <2>2, <2>3, Zenon DEF RInv
<1>5. CASE Levels!Up
  <2>1. /\ pc = "pairs" /\ pc' = "pairs" /\ list' = list /\ len > 1
        /\ level' = Levels!Repeated(Levels!Digests(level, len), len \div 2)
        /\ len' = Levels!Even(len \div 2)
    BY <1>1, <1>5, Zenon DEF Levels!Up
  <2>2. PICK h \in 0 .. Len(list) : AtLevel(h)
    BY <2>1, Zenon DEF RInv
  <2>3. Len(list) > 1 /\ pc' # "done"
    BY <2>1, Zenon DEF RInv
  <2>4. /\ h + 1 \in 0 .. Len(list)
        /\ len \div 2 = Tree(list)[h + 1].width
        /\ Levels!Digests(level, len) = Tree(list)[h + 1].at
    BY <1>1, <2>1, <2>2, <2>3, NextLevel, Zenon
  <2>5. AtLevel(h + 1)'
    BY <2>1, <2>4, Zenon DEF AtLevel
  <2>. QED BY <2>1, <2>3, <2>4, <2>5, Zenon DEF RInv
<1>6. CASE Levels!Top
  <2>1. /\ pc = "pairs" /\ pc' = "done" /\ list' = list /\ len = 1 /\ root' = level[0]
    BY <1>1, <1>6, Zenon DEF Levels!Top
  <2>2. PICK h \in 0 .. Len(list) : AtLevel(h)
    BY <2>1, Zenon DEF RInv
  <2>3. Len(list) > 1 /\ Len(list) >= 1 /\ pc' # "pairs"
    BY <1>1, <2>1 DEF RInv
  <2> DEFINE t == Tree(list)[h]
  <2>4. t.width \in Nat /\ t.width >= 1
    <3>1. Narrows(list, h)
      BY <1>1, <2>3, TreeShape, Zenon
    <3>. QED BY <3>1, Zenon DEF Narrows, IsLevel
  <2>5. len = Levels!Even(t.width) /\ level = Levels!Repeated(t.at, t.width)
    BY <2>2, Zenon DEF AtLevel
  <2> HIDE DEF t
  <2>6. t.width = 1
    <3>1. ~(t.width > 1)
      BY <2>1, <2>4, <2>5 DEF Levels!Even, Levels!Odd
    <3>. QED BY <2>4, <3>1
  <2>7. 0 \in 0 .. Levels!Even(t.width) - 1 /\ 0 < t.width
    BY <2>1, <2>5, <2>6
  <2>8. level[0] = t.at[0]
    BY <2>5, <2>7, Zenon DEF Levels!Repeated
  <2>9. Root(list) = t.at[0]
    BY <1>1, <2>3, <2>6, RootAtTop, Zenon DEF t
  <2>. QED BY <2>1, <2>3, <2>8, <2>9, Zenon DEF RInv
<1>7. CASE UNCHANGED Levels!levels
  <2>1. /\ list' = list /\ level' = level /\ len' = len /\ root' = root
        /\ (pc' = "pairs" <=> pc = "pairs") /\ (pc' = "done" <=> pc = "done")
    BY <1>1, <1>7, Zenon DEF Levels!levels
  <2>. QED BY <2>1, Zenon DEF RInv, AtLevel
<1>. QED BY <1>0, <1>3, <1>4, <1>5, <1>6, <1>7, Zenon DEF Levels!LevelsNext

\* What compute_merkle_root returns is the root of the tree over its list, for lists of
\* any length and any digest.
THEOREM ReturnsRoot == Spec => []RootIsReference
<1>1. Init => RInv
  BY Zenon DEF Init, RInv
<1>2. RInv => RootIsReference
  BY Zenon DEF RInv, RootIsReference
<1>. QED BY <1>1, <1>2, InPlaceInvariant, StepRoot, PTL DEF Spec

-----------------------------------------------------------------------------
(* What a root says about its list                                         *)

\* The hashes of a tree.
Nodes == UNION {UNION {{Tree(s)[h].at[k] : k \in 0 .. Tree(s)[h].width - 1} : h \in 0 .. Len(s)} : s \in Lists}

\* Sha256 does not collide on the hashes of the trees: neither two digests, nor a digest
\* and the hash of a transaction, nor anything and the root of no transaction.
NoCollisions ==
    /\ \A a, b, c, d \in Nodes : Digest(a, b) = Digest(c, d) => a = c /\ b = d
    /\ \A a, b \in Nodes : Digest(a, b) \notin Leaves \cup {Zero}
    /\ Zero \notin Leaves

SamePair(a, b, c, d) == a = c /\ b = d

\* Equal digests of nodes are digests of the same nodes.
LEMMA DigestsDiffer ==
    ASSUME NoCollisions, NEW a \in Nodes, NEW b \in Nodes, NEW c \in Nodes, NEW d \in Nodes,
           Digest(a, b) = Digest(c, d)
    PROVE  SamePair(a, b, c, d)
BY ZenonT(40) DEF NoCollisions, SamePair

\* And no digest of nodes is a leaf.
LEMMA DigestIsNoLeaf ==
    ASSUME NoCollisions, NEW a \in Nodes, NEW b \in Nodes
    PROVE  Digest(a, b) \notin Leaves \cup {Zero}
BY Zenon DEF NoCollisions

\* A list that has a tree.
Given(s) == s \in Lists /\ Len(s) \in Nat /\ Len(s) >= 1

\* The level h + 1 of a tree over the level h, which is not its root.
Climbs(t, u) ==
    /\ IsLevel(t) /\ IsAbove(t, u)
    /\ \A k \in 0 .. u.width - 1 : t.at[2 * k] \in Nodes /\ Right(t, k) \in Nodes

\* A level with more than one hash has a level above it, and its hashes are nodes.
LEMMA Climb ==
    ASSUME NEW s, Given(s), NEW h \in 0 .. Len(s) - 1, Tree(s)[h].width > 1
    PROVE  Climbs(Tree(s)[h], Tree(s)[h + 1])
<1> DEFINE t == Tree(s)[h]
           u == Tree(s)[h + 1]
<1>1. Len(s) \in Nat /\ Len(s) >= 1 /\ s \in Lists
  BY Zenon DEF Given
<1>2. h \in 0 .. Len(s)
  BY <1>1
<1>3. IsLevel(t)
  BY <1>1, <1>2, TreeShape, Zenon DEF Narrows
<1>4. u = Above(t)
  BY <1>1, TreeSteps, Zenon
<1>5. \A k \in 0 .. t.width - 1 : t.at[k] \in Nodes
  <2> SUFFICES ASSUME NEW k \in 0 .. t.width - 1 PROVE t.at[k] \in Nodes
    BY Zenon
  <2> DEFINE Of(z, g) == {Tree(z)[g].at[m] : m \in 0 .. Tree(z)[g].width - 1}
             All(z) == UNION {Of(z, g) : g \in 0 .. Len(z)}
  <2>1. t.at[k] \in Of(s, h)
    BY Zenon
  <2>2. Of(s, h) \in {Of(s, g) : g \in 0 .. Len(s)}
    BY <1>2, Zenon
  <2> HIDE DEF Of
  <2>3. t.at[k] \in All(s)
    BY <2>1, <2>2, Zenon
  <2> HIDE DEF All
  <2>4. t.at[k] \in UNION {All(z) : z \in Lists}
    BY <1>1, <2>3, Zenon
  <2>. QED BY <2>4, Zenon DEF Nodes, All, Of
<1>6. t.width > 1
  BY Zenon
<1> HIDE DEF t, u
<1>7. IsAbove(t, u)
  BY <1>3, <1>4, <1>6, AboveLevel, Zenon
<1>8. ASSUME NEW k \in 0 .. u.width - 1 PROVE t.at[2 * k] \in Nodes /\ Right(t, k) \in Nodes
  <2> DEFINE l == 2 * k
             r == 2 * k + 1
  <2>1. l \in 0 .. t.width - 1
    BY <1>7, Zenon DEF IsAbove
  <2>2. r < t.width => r \in 0 .. t.width - 1
    BY <1>3, <2>1 DEF IsLevel
  <2> HIDE DEF l, r
  <2>3. t.at[l] \in Nodes /\ (r < t.width => t.at[r] \in Nodes)
    BY <1>5, <2>1, <2>2, Zenon
  <2>. QED BY <2>3, Zenon DEF Right, l, r
<1>. QED BY <1>3, <1>7, <1>8, Zenon DEF Climbs, t, u

\* Two places of a level that hold the same hash.
Twice(t) == \E p, q \in 0 .. t.width - 1 : p # q /\ t.at[p] = t.at[q]

\* If a level holds a hash twice, so do all levels below it.
LEMMA TwiceBelow ==
    ASSUME NEW t, NEW u, Climbs(t, u), NoCollisions, Twice(u)
    PROVE  Twice(t)
<1>1. PICK p, q \in 0 .. u.width - 1 : p # q /\ u.at[p] = u.at[q]
  BY Zenon DEF Twice
<1>2. /\ u.at[p] = Digest(t.at[2 * p], Right(t, p)) /\ 2 * p \in 0 .. t.width - 1
      /\ u.at[q] = Digest(t.at[2 * q], Right(t, q)) /\ 2 * q \in 0 .. t.width - 1
  BY Zenon DEF Climbs, IsAbove
<1>3. /\ t.at[2 * p] \in Nodes /\ Right(t, p) \in Nodes
      /\ t.at[2 * q] \in Nodes /\ Right(t, q) \in Nodes
  BY Zenon DEF Climbs
<1>4. t.at[2 * p] = t.at[2 * q]
  <2>1. Digest(t.at[2 * p], Right(t, p)) = Digest(t.at[2 * q], Right(t, q))
    BY <1>1, <1>2, Zenon
  <2>2. SamePair(t.at[2 * p], Right(t, p), t.at[2 * q], Right(t, q))
    BY <1>3, <2>1, DigestsDiffer, Zenon
  <2>. QED BY <2>2, Zenon DEF SamePair
<1>5. 2 * p # 2 * q
  <2>1. p \in Int /\ q \in Int
    OBVIOUS
  <2>. QED BY <1>1, <2>1
<1>. QED BY <1>2, <1>4, <1>5, Zenon DEF Twice

\* So the list holds a transaction twice.
LEMMA TwiceInList ==
    ASSUME NEW s, Given(s), NoCollisions, NEW g \in 0 .. Len(s), Twice(Tree(s)[g])
    PROVE  HasRepeat(s)
<1> DEFINE S == {h \in Nat : Twice(Tree(s)[h]) => HasRepeat(s)}
<1>1. Len(s) \in Nat /\ Len(s) >= 1 /\ s \in Lists /\ s \in Seq(Leaves)
  BY ListsAssumption, Zenon DEF Given
<1>2. 0 \in S
  <2> SUFFICES ASSUME Twice(Tree(s)[0]) PROVE HasRepeat(s)
    BY Zenon
  <2> DEFINE leaves == [width |-> Len(s), at |-> Vec(s)]
  <2>1. Tree(s)[0] = leaves
    BY <1>1, TreeSteps, Zenon
  <2>2. leaves.width = Len(s) /\ leaves.at = Vec(s)
    BY Zenon
  <2> HIDE DEF leaves
  <2>3. PICK p, q \in 0 .. Len(s) - 1 : p # q /\ Vec(s)[p] = Vec(s)[q]
    BY <2>1, <2>2, Zenon DEF Twice
  <2>4. Vec(s)[p] = s[p + 1] /\ Vec(s)[q] = s[q + 1]
    BY Zenon DEF Vec
  <2>5. p + 1 \in DOMAIN s /\ q + 1 \in DOMAIN s /\ p + 1 # q + 1
    BY <1>1, <2>3
  <2>. QED BY <2>3, <2>4, <2>5, Zenon DEF HasRepeat
<1>3. ASSUME NEW h \in 0 .. Len(s) - 1, h \in S PROVE h + 1 \in S
  <2>1. h + 1 \in Nat
    OBVIOUS
  <2>2. Twice(Tree(s)[h + 1]) => Twice(Tree(s)[h])
    <3>1. CASE Tree(s)[h].width > 1
      BY <3>1, Climb, TwiceBelow, Zenon
    <3>2. CASE ~(Tree(s)[h].width > 1)
      <4>1. Tree(s)[h].width \in Nat
        <5>1. h \in 0 .. Len(s)
          BY <1>1
        <5>. QED BY <1>1, <5>1, TreeShape, Zenon DEF Narrows, IsLevel
      <4>2. Tree(s)[h].width <= 1
        BY <3>2, <4>1
      <4>3. Tree(s)[h + 1] = Above(Tree(s)[h])
        BY <1>1, TreeSteps, Zenon
      <4>. QED BY <4>2, <4>3, Zenon DEF Above
    <3>. QED BY <3>1, <3>2, Zenon
  <2>. QED BY <1>3, <2>1, <2>2, Zenon
<1>4. g \in S
  <2> HIDE DEF S
  <2>. QED BY <1>1, <1>2, <1>3, Induction, Zenon
<1>. QED BY <1>4, Zenon

Same(t, u) == t.width = u.width /\ t.at = u.at

\* Under equal levels are equal levels, or the wider one ends in a hash that is there
\* twice.
LEMMA SameBelow ==
    ASSUME NEW t, NEW u, Climbs(t, u), NEW v, NEW w, Climbs(v, w), NoCollisions,
           Same(u, w), t.width <= v.width
    PROVE  Same(t, v) \/ (t.width # v.width /\ Twice(v))
<1> DEFINE n == u.width
<1>1. /\ t.width \in Nat /\ v.width \in Nat /\ n \in Nat /\ n >= 1
      /\ n = (t.width + 1) \div 2 /\ n = (v.width + 1) \div 2
  BY Zenon DEF Climbs, IsAbove, IsLevel, Same
<1>2. \A k \in 0 .. n - 1 : t.at[2 * k] = v.at[2 * k] /\ Right(t, k) = Right(v, k)
  <2> SUFFICES ASSUME NEW k \in 0 .. n - 1 PROVE t.at[2 * k] = v.at[2 * k] /\ Right(t, k) = Right(v, k)
    BY Zenon
  <2>1. u.at[k] = Digest(t.at[2 * k], Right(t, k)) /\ t.at[2 * k] \in Nodes /\ Right(t, k) \in Nodes
    BY Zenon DEF Climbs, IsAbove
  <2>2. w.at[k] = Digest(v.at[2 * k], Right(v, k)) /\ v.at[2 * k] \in Nodes /\ Right(v, k) \in Nodes
    BY Zenon DEF Climbs, IsAbove, Same
  <2>3. u.at[k] = w.at[k]
    BY Zenon DEF Same
  <2>4. Digest(t.at[2 * k], Right(t, k)) = Digest(v.at[2 * k], Right(v, k))
    BY <2>1, <2>2, <2>3, Zenon
  <2>5. SamePair(t.at[2 * k], Right(t, k), v.at[2 * k], Right(v, k))
    BY <2>1, <2>2, <2>4, DigestsDiffer, Zenon
  <2>. QED BY <2>5, Zenon DEF SamePair
<1> HIDE DEF n
<1>3. CASE t.width = v.width
  <2>1. \A j \in 0 .. t.width - 1 : t.at[j] = v.at[j]
    <3> SUFFICES ASSUME NEW j \in 0 .. t.width - 1 PROVE t.at[j] = v.at[j]
      BY Zenon
    <3> DEFINE k == j \div 2
    <3>1. k \in 0 .. n - 1 /\ (j = 2 * k \/ j = 2 * k + 1)
      BY <1>1
    <3> HIDE DEF k
    <3>2. CASE j = 2 * k
      BY <1>2, <3>1, <3>2, Zenon
    <3>3. CASE j = 2 * k + 1
      <4>1. 2 * k + 1 < t.width /\ 2 * k + 1 < v.width
        BY <1>1, <1>3, <3>3
      <4>2. Right(t, k) = t.at[2 * k + 1] /\ Right(v, k) = v.at[2 * k + 1]
        BY <4>1, Zenon DEF Right
      <4>. QED BY <1>2, <3>1, <3>3, <4>2, Zenon
    <3>. QED BY <3>1, <3>2, <3>3, Zenon
  <2>2. /\ t.at = [j \in 0 .. t.width - 1 |-> t.at[j]]
        /\ v.at = [j \in 0 .. v.width - 1 |-> v.at[j]]
    BY Zenon DEF Climbs, IsLevel
  <2>3. t.at = v.at
    <3>1. [j \in 0 .. t.width - 1 |-> t.at[j]] = [j \in 0 .. v.width - 1 |-> v.at[j]]
      BY <1>3, <2>1, Zenon
    <3>. QED BY <2>2, <3>1, Zenon
  <2>. QED BY <1>3, <2>3, Zenon DEF Same
<1>4. CASE t.width # v.width
  <2> DEFINE k == n - 1
             l == 2 * k
             r == 2 * k + 1
  <2>1. /\ k \in 0 .. n - 1 /\ ~(r < t.width) /\ r < v.width
        /\ l \in 0 .. v.width - 1 /\ r \in 0 .. v.width - 1 /\ l # r
    BY <1>1, <1>4
  <2>2. t.at[2 * k] = v.at[2 * k] /\ Right(t, k) = Right(v, k)
    BY <1>2, <2>1, Zenon
  <2>3. Right(t, k) = t.at[2 * k] /\ Right(v, k) = v.at[2 * k + 1]
    BY <2>1, Zenon DEF Right
  <2>4. v.at[l] = v.at[r]
    BY <2>2, <2>3, Zenon
  <2> HIDE DEF k, l, r
  <2>. QED BY <1>4, <2>1, <2>4, Zenon DEF Twice
<1>. QED BY <1>3, <1>4, Zenon

\* The level a is the first one with one hash only.
TopOf(s, a) ==
    /\ a \in 0 .. Len(s) /\ Tree(s)[a].width = 1
    /\ \A h \in 0 .. a - 1 : Tree(s)[h].width > 1 /\ h \in 0 .. Len(s) - 1

\* Every list but the empty one has such a level.
LEMMA HasTop ==
    ASSUME NEW s, Given(s)
    PROVE  \E a : TopOf(s, a)
<1> DEFINE T == {h \in 0 .. Len(s) : Tree(s)[h].width = 1}
<1>1. Len(s) \in Nat /\ Len(s) >= 1 /\ Len(s) \in 0 .. Len(s)
  BY DEF Given
<1>2. \A h \in 0 .. Len(s) : /\ Tree(s)[h].width \in Nat /\ Tree(s)[h].width >= 1
                             /\ Tree(s)[h].width = 1 \/ Tree(s)[h].width <= Len(s) - h
  BY <1>1, TreeShape, Zenon DEF Narrows, IsLevel
<1>3. Len(s) \in T
  BY <1>1, <1>2
<1>4. T \subseteq Nat /\ T # {}
  BY <1>3
<1>5. PICK a \in T : \A h \in T : a <= h
  <2> HIDE DEF T
  <2>. QED BY <1>4, LeastNumber, Zenon
<1>6. ASSUME NEW h \in 0 .. a - 1 PROVE Tree(s)[h].width > 1 /\ h \in 0 .. Len(s) - 1
  <2>1. h \in 0 .. Len(s) /\ h \in 0 .. Len(s) - 1 /\ ~(a <= h)
    BY <1>1, <1>5
  <2>2. Tree(s)[h].width # 1
    BY <1>5, <2>1, Zenon
  <2>3. Tree(s)[h].width \in Nat /\ Tree(s)[h].width >= 1
    BY <1>2, <2>1, Zenon
  <2>. QED BY <2>1, <2>2, <2>3
<1>. QED BY <1>5, <1>6, Zenon DEF TopOf

\* The first hash of a level above the leaves is a digest, of the first hash below it.
LEMMA FirstHash ==
    ASSUME NEW s, Given(s), NEW a, TopOf(s, a), NEW h \in 0 .. a - 1
    PROVE  /\ Tree(s)[h + 1].at[0] = Digest(Tree(s)[h].at[0], Right(Tree(s)[h], 0))
           /\ Tree(s)[h].at[0] \in Nodes /\ Right(Tree(s)[h], 0) \in Nodes
<1> DEFINE t == Tree(s)[h]
           u == Tree(s)[h + 1]
<1>1. t.width > 1 /\ h \in 0 .. Len(s) - 1
  BY Zenon DEF TopOf
<1>2. Climbs(t, u)
  BY <1>1, Climb, Zenon
<1> HIDE DEF t, u
<1>3. 0 \in 0 .. u.width - 1 /\ 2 * 0 = 0
  BY <1>2 DEF Climbs, IsAbove, IsLevel
<1>4. u.at[0] = Digest(t.at[2 * 0], Right(t, 0)) /\ t.at[2 * 0] \in Nodes /\ Right(t, 0) \in Nodes
  BY <1>2, <1>3, Zenon DEF Climbs, IsAbove
<1>. QED BY <1>3, <1>4, Zenon DEF t, u

\* The first hash of the leaves is that of a transaction.
LEMMA FirstLeaf ==
    ASSUME NEW s, Given(s)
    PROVE  Tree(s)[0].at[0] \in Leaves
<1>1. Len(s) \in Nat /\ Len(s) >= 1 /\ s \in Seq(Leaves)
  BY ListsAssumption, Zenon DEF Given
<1> DEFINE leaves == [width |-> Len(s), at |-> Vec(s)]
<1>2. Tree(s)[0] = leaves
  BY <1>1, TreeSteps, Zenon
<1>3. leaves.at = Vec(s)
  BY Zenon
<1>4. Vec(s)[0] = s[1] /\ s[1] \in Leaves
  BY <1>1 DEF Vec
<1> HIDE DEF leaves
<1>. QED BY <1>2, <1>3, <1>4, Zenon

\* Trees with the same root are equally high: going down along their first hashes, one
\* would come to a transaction and the other to a digest.
LEMMA NotLower ==
    ASSUME NoCollisions, NEW s, Given(s), NEW l, Given(l), NEW a, TopOf(s, a), NEW b, TopOf(l, b),
           Tree(s)[a].at[0] = Tree(l)[b].at[0]
    PROVE  ~(a < b)
<1> SUFFICES ASSUME a < b PROVE FALSE
  BY Zenon
<1> DEFINE S == {k \in Nat : Tree(s)[a - k].at[0] = Tree(l)[b - k].at[0]}
<1>1. a \in Nat /\ b \in Nat /\ a - 0 = a /\ b - 0 = b /\ 0 \in Nat /\ a \in 0 .. a /\ a - a = 0
  BY DEF TopOf, Given
<1>2. 0 \in S
  BY <1>1, Zenon
<1>3. ASSUME NEW k \in 0 .. a - 1, k \in S PROVE k + 1 \in S
  <2> DEFINE g == a - (k + 1)
             h == b - (k + 1)
  <2>1. g \in 0 .. a - 1 /\ g + 1 = a - k /\ h \in 0 .. b - 1 /\ h + 1 = b - k /\ k + 1 \in Nat
    BY <1>1
  <2>2. Tree(s)[a - k].at[0] = Tree(l)[b - k].at[0]
    BY <1>3, Zenon
  <2> HIDE DEF g, h
  <2>3. /\ Tree(s)[g + 1].at[0] = Digest(Tree(s)[g].at[0], Right(Tree(s)[g], 0))
        /\ Tree(s)[g].at[0] \in Nodes /\ Right(Tree(s)[g], 0) \in Nodes
    BY <2>1, FirstHash, Zenon
  <2>4. /\ Tree(l)[h + 1].at[0] = Digest(Tree(l)[h].at[0], Right(Tree(l)[h], 0))
        /\ Tree(l)[h].at[0] \in Nodes /\ Right(Tree(l)[h], 0) \in Nodes
    BY <2>1, FirstHash, Zenon
  <2>5. Digest(Tree(s)[g].at[0], Right(Tree(s)[g], 0)) = Digest(Tree(l)[h].at[0], Right(Tree(l)[h], 0))
    BY <2>1, <2>2, <2>3, <2>4, Zenon
  <2>6. SamePair(Tree(s)[g].at[0], Right(Tree(s)[g], 0), Tree(l)[h].at[0], Right(Tree(l)[h], 0))
    BY <2>3, <2>4, <2>5, DigestsDiffer, Zenon
  <2>7. Tree(s)[g].at[0] = Tree(l)[h].at[0]
    BY <2>6, Zenon DEF SamePair
  <2>. QED BY <2>1, <2>7, Zenon DEF g, h
<1>4. a \in S
  <2> HIDE DEF S
  <2>. QED BY <1>1, <1>2, <1>3, Induction, Zenon
<1>5. Tree(s)[0].at[0] = Tree(l)[b - a].at[0]
  BY <1>1, <1>4, Zenon
<1> DEFINE h == b - a - 1
<1>6. h \in 0 .. b - 1 /\ h + 1 = b - a
  BY <1>1
<1> HIDE DEF h
<1>7. /\ Tree(l)[h + 1].at[0] = Digest(Tree(l)[h].at[0], Right(Tree(l)[h], 0))
      /\ Tree(l)[h].at[0] \in Nodes /\ Right(Tree(l)[h], 0) \in Nodes
  BY <1>6, FirstHash, Zenon
<1>8. Tree(l)[h + 1].at[0] \notin Leaves
  <2>1. Digest(Tree(l)[h].at[0], Right(Tree(l)[h], 0)) \notin Leaves \cup {Zero}
    BY <1>7, DigestIsNoLeaf, Zenon
  <2>. QED BY <1>7, <2>1, Zenon
<1>9. Tree(s)[0].at[0] \in Leaves
  BY FirstLeaf, Zenon
<1>. QED BY <1>5, <1>6, <1>8, <1>9, Zenon

\* Lists of the same length have trees of the same shape.
LEMMA SameWidths ==
    ASSUME NEW s, Given(s), NEW l, Given(l), Len(s) = Len(l), NEW g \in 0 .. Len(s)
    PROVE  Tree(s)[g].width = Tree(l)[g].width
<1> DEFINE S == {h \in Nat : Tree(s)[h].width = Tree(l)[h].width}
<1>1. Len(s) \in Nat /\ Len(l) \in Nat /\ Len(s) >= 1 /\ Len(l) >= 1 /\ 0 \in Nat
  BY Zenon DEF Given
<1>2. 0 \in S
  <2>1. Tree(s)[0] = [width |-> Len(s), at |-> Vec(s)] /\ Tree(l)[0] = [width |-> Len(l), at |-> Vec(l)]
    BY <1>1, TreeSteps, Zenon
  <2>2. Tree(s)[0].width = Len(s) /\ Tree(l)[0].width = Len(l)
    BY <2>1
  <2>. QED BY <1>1, <2>2, Zenon
<1>3. ASSUME NEW h \in 0 .. Len(s) - 1, h \in S PROVE h + 1 \in S
  <2> DEFINE w == Tree(s)[h].width
  <2>1. w = Tree(l)[h].width /\ h \in 0 .. Len(l) - 1 /\ h + 1 \in Nat /\ h \in 0 .. Len(s)
    BY <1>1, <1>3
  <2>2. w \in Nat
    BY <1>1, <2>1, TreeShape, Zenon DEF Narrows, IsLevel
  <2>3. CASE w > 1
    <3>1. IsAbove(Tree(s)[h], Tree(s)[h + 1])
      BY <2>3, Climb, Zenon DEF Climbs
    <3>2. IsAbove(Tree(l)[h], Tree(l)[h + 1])
      BY <2>1, <2>3, Climb, Zenon DEF Climbs
    <3>3. Tree(s)[h + 1].width = (w + 1) \div 2 /\ Tree(l)[h + 1].width = (w + 1) \div 2
      BY <2>1, <3>1, <3>2, Zenon DEF IsAbove
    <3>. QED BY <2>1, <3>3, Zenon
  <2>4. CASE ~(w > 1)
    <3>1. w <= 1
      BY <2>2, <2>4
    <3>2. Tree(s)[h + 1] = Above(Tree(s)[h]) /\ Tree(l)[h + 1] = Above(Tree(l)[h])
      BY <1>1, <2>1, TreeSteps, Zenon
    <3>3. Tree(s)[h + 1] = Tree(s)[h] /\ Tree(l)[h + 1] = Tree(l)[h]
      BY <2>1, <3>1, <3>2, Zenon DEF Above
    <3>. QED BY <2>1, <3>3, Zenon
  <2>. QED BY <2>3, <2>4, Zenon
<1>4. g \in S
  <2> HIDE DEF S
  <2>. QED BY <1>1, <1>2, <1>3, Induction, Zenon
<1>. QED BY <1>4, Zenon

\* The root of a tree is not the root of no transaction.
LEMMA RootNotZero ==
    ASSUME NoCollisions, NEW s, Given(s)
    PROVE  Root(s) # Zero
<1>1. PICK a : TopOf(s, a)
  BY HasTop, Zenon
<1>2. Len(s) \in Nat /\ Len(s) >= 1 /\ a \in 0 .. Len(s) /\ Tree(s)[a].width = 1
  BY <1>1, Zenon DEF TopOf, Given
<1>3. Root(s) = Tree(s)[a].at[0]
  BY <1>2, RootAtTop, Zenon
<1>4. CASE a = 0
  <2>1. Root(s) \in Leaves
    BY <1>3, <1>4, FirstLeaf, Zenon
  <2>. QED BY <2>1, Zenon DEF NoCollisions
<1>5. CASE a # 0
  <2> DEFINE h == a - 1
  <2>1. h \in 0 .. a - 1 /\ h + 1 = a
    BY <1>2, <1>5
  <2> HIDE DEF h
  <2>2. /\ Tree(s)[h + 1].at[0] = Digest(Tree(s)[h].at[0], Right(Tree(s)[h], 0))
        /\ Tree(s)[h].at[0] \in Nodes /\ Right(Tree(s)[h], 0) \in Nodes
    BY <1>1, <2>1, FirstHash, Zenon
  <2>3. Digest(Tree(s)[h].at[0], Right(Tree(s)[h], 0)) \notin Leaves \cup {Zero}
    BY <2>2, DigestIsNoLeaf, Zenon
  <2>4. Root(s) \notin Leaves \cup {Zero}
    BY <1>3, <2>1, <2>2, <2>3, Zenon
  <2>. QED BY <2>4, Zenon
<1>. QED BY <1>4, <1>5, Zenon

\* Lists with the same root are equal, or differ in length and repeat a hash.
LEMMA SameRoot ==
    ASSUME NoCollisions, NEW s, Given(s), NEW l, Given(l), Root(s) = Root(l)
    PROVE  s = l \/ (Len(s) # Len(l) /\ (HasRepeat(s) \/ HasRepeat(l)))
<1> SUFFICES ASSUME Len(s) = Len(l) \/ ~(HasRepeat(s) \/ HasRepeat(l)) PROVE s = l
  BY Zenon
<1>1. PICK a : TopOf(s, a)
  BY HasTop, Zenon
<1>2. PICK b : TopOf(l, b)
  BY HasTop, Zenon
<1>3. /\ Len(s) \in Nat /\ Len(s) >= 1 /\ a \in 0 .. Len(s) /\ Tree(s)[a].width = 1
      /\ Len(l) \in Nat /\ Len(l) >= 1 /\ b \in 0 .. Len(l) /\ Tree(l)[b].width = 1
      /\ s \in Seq(Leaves) /\ l \in Seq(Leaves)
  BY <1>1, <1>2, ListsAssumption, Zenon DEF TopOf, Given
<1>4. Tree(s)[a].at[0] = Tree(l)[b].at[0]
  BY <1>3, RootAtTop, Zenon
<1>5. a = b
  <2>1. ~(a < b)
    BY <1>1, <1>2, <1>4, NotLower, Zenon
  <2>2. ~(b < a)
    BY <1>1, <1>2, <1>4, NotLower, Zenon
  <2>. QED BY <1>3, <2>1, <2>2
<1> DEFINE S == {h \in Nat : Same(Tree(s)[h], Tree(l)[h])}
<1>6. a \in S
  <2>1. IsLevel(Tree(s)[a]) /\ IsLevel(Tree(l)[a])
    BY <1>3, <1>5, TreeShape, Zenon DEF Narrows
  <2>2. \A k \in 0 .. 1 - 1 : k = 0
    OBVIOUS
  <2>3. /\ Tree(s)[a].at = [k \in 0 .. 1 - 1 |-> Tree(s)[a].at[k]]
        /\ Tree(l)[a].at = [k \in 0 .. 1 - 1 |-> Tree(l)[a].at[k]]
    BY <1>3, <1>5, <2>1, Zenon DEF IsLevel
  <2>4. [k \in 0 .. 1 - 1 |-> Tree(s)[a].at[k]] = [k \in 0 .. 1 - 1 |-> Tree(l)[a].at[k]]
    BY <1>4, <1>5, <2>2, Zenon
  <2>5. Tree(s)[a].at = Tree(l)[a].at
    BY <2>3, <2>4, Zenon
  <2>6. a \in Nat
    BY <1>3
  <2>. QED BY <1>3, <1>5, <2>5, <2>6, Zenon DEF Same
<1>7. ASSUME NEW h \in 0 .. a - 1, h + 1 \in S PROVE h \in S
  <2> DEFINE t == Tree(s)[h]
             v == Tree(l)[h]
  <2>1. /\ t.width > 1 /\ h \in 0 .. Len(s) - 1
        /\ v.width > 1 /\ h \in 0 .. Len(l) - 1
    BY <1>1, <1>2, <1>5, Zenon DEF TopOf
  <2>2. Climbs(t, Tree(s)[h + 1]) /\ Climbs(v, Tree(l)[h + 1])
    BY <2>1, Climb, Zenon
  <2>3. Same(Tree(s)[h + 1], Tree(l)[h + 1]) /\ Same(Tree(l)[h + 1], Tree(s)[h + 1])
    BY <1>7, Zenon DEF Same
  <2>4. h \in Nat /\ h \in 0 .. Len(s) /\ h \in 0 .. Len(l)
    BY <1>3, <2>1
  <2>5. t.width \in Nat /\ v.width \in Nat
    BY <2>2, Zenon DEF Climbs, IsLevel
  <2>6. t.width = v.width \/ (~Twice(t) /\ ~Twice(v))
    <3>1. CASE Len(s) = Len(l)
      BY <2>4, <3>1, SameWidths, Zenon
    <3>2. CASE ~(HasRepeat(s) \/ HasRepeat(l))
      BY <2>4, <3>2, TwiceInList, Zenon
    <3>. QED BY <3>1, <3>2, Zenon
  <2> HIDE DEF t, v
  <2>7. Same(t, v) \/ Same(v, t)
    <3>1. CASE t.width <= v.width
      <4>1. Same(t, v) \/ (t.width # v.width /\ Twice(v))
        BY <2>2, <2>3, <3>1, SameBelow, ZenonT(40)
      <4>. QED BY <2>6, <4>1, Zenon
    <3>2. CASE v.width <= t.width
      <4>1. Same(v, t) \/ (v.width # t.width /\ Twice(t))
        BY <2>2, <2>3, <3>2, SameBelow, Zenon
      <4>. QED BY <2>6, <4>1, Zenon
    <3>. QED BY <2>5, <3>1, <3>2
  <2>8. Same(t, v)
    BY <2>7, Zenon DEF Same
  <2>. QED BY <2>4, <2>8, Zenon DEF t, v
<1>8. 0 \in S
  <2> HIDE DEF S
  <2>1. a \in Nat /\ 0 \in 0 .. a
    BY <1>3
  <2>. QED BY <1>6, <1>7, <2>1, Descent, Zenon
<1>9. Len(s) = Len(l) /\ Vec(s) = Vec(l)
  <2>1. Tree(s)[0] = [width |-> Len(s), at |-> Vec(s)] /\ Tree(l)[0] = [width |-> Len(l), at |-> Vec(l)]
    BY <1>3, TreeSteps, Zenon
  <2>2. /\ Tree(s)[0].width = Len(s) /\ Tree(l)[0].width = Len(l)
        /\ Tree(s)[0].at = Vec(s) /\ Tree(l)[0].at = Vec(l)
    BY <2>1
  <2>. QED BY <1>8, <2>2, Zenon DEF Same
<1>10. \A k \in 1 .. Len(s) : s[k] = l[k]
  <2> SUFFICES ASSUME NEW k \in 1 .. Len(s) PROVE s[k] = l[k]
    BY Zenon
  <2> DEFINE j == k - 1
  <2>1. j \in 0 .. Len(s) - 1 /\ j \in 0 .. Len(l) - 1 /\ j + 1 = k
    BY <1>3, <1>9
  <2> HIDE DEF j
  <2>2. Vec(s)[j] = s[j + 1] /\ Vec(l)[j] = l[j + 1]
    BY <2>1, Zenon DEF Vec
  <2>. QED BY <1>9, <2>1, <2>2, Zenon
<1>. QED BY <1>3, <1>9, <1>10, SeqEqual, Zenon

\* The Merkle root in the hash of a block stands for its transactions: no other list
\* that can be a block has it, as long as Sha256 does not collide.
THEOREM RootsTellBlocksApart == ASSUME NoCollisions PROVE Spec => []RootIdentifiesBlock
<1>1. IInv /\ RootIsReference => RootIdentifiesBlock
  <2> SUFFICES ASSUME IInv, RootIsReference, pc = "done", NEW s \in Lists, Root(s) = root
               PROVE  s = list \/ (Len(s) # Len(list) /\ (HasRepeat(s) \/ HasRepeat(list)))
    BY Zenon DEF RootIdentifiesBlock
  <2>1. /\ list \in Lists /\ Root(s) = Root(list) /\ s \in Seq(Leaves) /\ list \in Seq(Leaves)
    BY ListsAssumption, Zenon DEF IInv, Widths, RootIsReference
  <2>2. Len(s) \in Nat /\ Len(list) \in Nat /\ (Len(s) = 0 => s = << >>) /\ (Len(list) = 0 => list = << >>)
    BY <2>1
  <2>3. (Len(s) # 0 => Given(s)) /\ (Len(list) # 0 => Given(list))
    BY <2>1, <2>2 DEF Given
  <2>4. CASE Len(s) # 0 /\ Len(list) # 0
    BY <2>1, <2>3, <2>4, SameRoot, Zenon
  <2>5. CASE Len(s) = 0
    <3>1. Root(s) = Zero
      BY <2>2, <2>5, Zenon DEF Root
    <3>2. Len(list) = 0
      BY <2>1, <2>3, <3>1, RootNotZero, Zenon
    <3>. QED BY <2>2, <2>5, <3>2, Zenon
  <2>6. CASE Len(list) = 0
    <3>1. Root(list) = Zero
      BY <2>2, <2>6, Zenon DEF Root
    <3>2. Len(s) = 0
      BY <2>1, <2>3, <3>1, RootNotZero, Zenon
    <3>. QED BY <2>2, <2>6, <3>2, Zenon
  <2>. QED BY <2>4, <2>5, <2>6, Zenon
<1>. QED BY <1>1, InPlaceInvariant, ReturnsRoot, PTL

=============================================================================
