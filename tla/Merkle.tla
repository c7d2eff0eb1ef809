------------------------------- MODULE Merkle -------------------------------
(***************************************************************************)
(* compute_merkle_root of src/src/hotstuff/block.rs, which computes the     *)
(* levels in place: a level's digests overwrite its own first half while    *)
(* the second half is still to be read, and the repeated hash is written    *)
(* behind the digests.  A Rust vector is a function on 0 .. size - 1; an    *)
(* index that is not below size is a panic.                                *)
(***************************************************************************)
EXTENDS Integers, Sequences

CONSTANTS
    Leaves, Lists,      \* hashes of transactions, and the lists of them that are given
    Digest(_, _),       \* Sha256 of two hashes
    Zero                \* [0u8; 32]

ASSUME ListsAssumption == Lists \subseteq Seq(Leaves)

VARIABLES
    list,           \* the hashes that are given
    hashes, size,   \* the vector and its length
    len, i,         \* the width of the level, and where in it the loop is
    pc, root,
    level           \* auxiliary: the level as it was when its loop began

vars == <<list, hashes, size, len, i, pc, root, level>>

Levels == INSTANCE MerkleLevels WITH width <- len,
            state <- IF pc = "begin" THEN "begin" ELSE IF pc = "done" THEN "done" ELSE "up"

Vec(s) == [k \in 0 .. Len(s) - 1 |-> s[k + 1]]

Init ==
    /\ list \in Lists
    /\ hashes = Vec(list) /\ size = Len(list)
    /\ len = Len(list) /\ i = 0
    /\ pc = "begin" /\ root = Zero
    /\ level = Vec(list)

\* Mutant: the root of one hash is that of none.
zero_for_one ==
    /\ pc = "begin" /\ size <= 1
    /\ root' = Zero
    /\ pc' = "done"
    /\ UNCHANGED <<list, hashes, size, len, i, level>>

\* The early returns for no hash and for one hash.
Return ==
    /\ pc = "begin" /\ size <= 1
    /\ root' = IF size = 0 THEN Zero ELSE hashes[0]
    /\ pc' = "done"
    /\ UNCHANGED <<list, hashes, size, len, i, level>>

\* hashes.push(last) if their number is odd.
Push ==
    /\ pc = "begin" /\ size > 1
    /\ size' = IF size % 2 = 1 THEN size + 1 ELSE size
    /\ hashes' = [k \in 0 .. size' - 1 |-> IF k < size THEN hashes[k] ELSE hashes[size - 1]]
    /\ len' = size' /\ level' = hashes'
    /\ pc' = "pairs"
    /\ UNCHANGED <<list, i, root>>

Panic ==
    /\ pc' = "panicked"
    /\ UNCHANGED <<list, hashes, size, len, i, root, level>>

\* Mutant: the loop runs to len inclusive.
pair_inclusive ==
    /\ pc = "pairs" /\ len > 1 /\ i <= len
    /\ IF i + 1 < size
       THEN /\ hashes' = [hashes EXCEPT ![i \div 2] = Digest(hashes[i], hashes[i + 1])]
            /\ i' = i + 2
            /\ UNCHANGED <<list, size, len, pc, root, level>>
       ELSE Panic

\* One round of the inner loop.
Pair ==
    /\ pc = "pairs" /\ len > 1 /\ i < len
    /\ IF i + 1 < size
       THEN /\ hashes' = [hashes EXCEPT ![i \div 2] = Digest(hashes[i], hashes[i + 1])]
            /\ i' = i + 2
            /\ UNCHANGED <<list, size, len, pc, root, level>>
       ELSE Panic

\* Mutant: the last hash of an odd level is not repeated.
halve_only ==
    /\ pc = "pairs" /\ len > 1 /\ i >= len
    /\ LET half == (len + 1) \div 2 IN
       /\ len' = IF half % 2 = 1 /\ half > 1 THEN half + 1 ELSE half
       /\ level' = [k \in 0 .. len' - 1 |-> hashes[k]]
       /\ i' = 0
       /\ UNCHANGED <<list, hashes, size, pc, root>>

\* The rest of the outer loop's body.
Halve ==
    /\ pc = "pairs" /\ len > 1 /\ i >= len
    /\ LET half == (len + 1) \div 2
           odd  == half % 2 = 1 /\ half > 1
       IN IF odd /\ half >= size THEN Panic
          ELSE /\ hashes' = IF odd THEN [hashes EXCEPT ![half] = hashes[half - 1]] ELSE hashes
               /\ len' = IF odd THEN half + 1 ELSE half
               /\ level' = [k \in 0 .. len' - 1 |-> hashes'[k]]
               /\ i' = 0
               /\ UNCHANGED <<list, size, pc, root>>

\* Mutant: the root is taken for one more odd level.
one_level_more ==
    /\ pc = "pairs" /\ len <= 1
    /\ root' = Digest(hashes[0], hashes[0]) /\ pc' = "done"
    /\ UNCHANGED <<list, hashes, size, len, i, level>>

Finish ==
    /\ pc = "pairs" /\ len <= 1
    /\ root' = hashes[0] /\ pc' = "done"
    /\ UNCHANGED <<list, hashes, size, len, i, level>>

Next == Return \/ Push \/ Pair \/ Halve \/ Finish

Spec == Init /\ [][Next]_vars

-----------------------------------------------------------------------------
(* Properties                                                              *)

\* No index is out of bounds: what the comment "safe only if hashes has enough
\* capacity" at the repetition of the last hash leaves open.
InBounds == pc # "panicked"

\* Although the digests are written over the hashes, the levels are those of a Merkle
\* tree: each step computes a level of MerkleLevels or none.
ComputesLevels == Levels!LevelsSpec

\* The level above t: each hash is the digest of two neighbours, the last one of an odd
\* level with itself.  One hash is the root.
Above(t) ==
    LET n == (t.width + 1) \div 2
    IN IF t.width <= 1 THEN t
       ELSE [width |-> n,
             at    |-> [k \in 0 .. n - 1 |->
                          Digest(t.at[2 * k],
                                 IF 2 * k + 1 < t.width THEN t.at[2 * k + 1] ELSE t.at[2 * k])]]

\* The tree over the list s, from its leaves on.
Tree(s) ==
    LET T[h \in 0 .. Len(s)] ==
          IF h = 0 THEN [width |-> Len(s), at |-> Vec(s)] ELSE Above(T[h - 1])
    IN T

Root(s) == IF s = << >> THEN Zero ELSE Tree(s)[Len(s)].at[0]

\* The loops return the root of the tree.
RootIsReference == pc = "done" => root = Root(list)

HasRepeat(s) == \E j, k \in DOMAIN s : j # k /\ s[j] = s[k]

\* The root stands for the block's transactions in its hash.  Lists of the same length
\* share a root only if they are equal; of different lengths, only if one holds a
\* transaction twice, which no block made from a mempool does.
RootIdentifiesBlock ==
    pc = "done" =>
        \A s \in Lists : Root(s) = root =>
            s = list \/ (Len(s) # Len(list) /\ (HasRepeat(s) \/ HasRepeat(list)))

=============================================================================
