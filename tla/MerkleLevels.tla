---------------------------- MODULE MerkleLevels ----------------------------
(***************************************************************************)
(* What a Merkle root is: level by level, each hash of a level is the       *)
(* digest of two neighbours of the level below, and the last hash of a      *)
(* level that has an odd number of them is there twice.  A level is a       *)
(* function on 0 .. n - 1.                                                 *)
(***************************************************************************)
EXTENDS Integers, Sequences

CONSTANTS
    Leaves, Lists,      \* hashes of transactions, and the lists that are given
    Digest(_, _),       \* Sha256 of two hashes
    Zero                \* the root of an empty list

VARIABLES list, level, width, state, root

levels == <<list, level, width, state, root>>

Vector(s) == [k \in 0 .. Len(s) - 1 |-> s[k + 1]]

Odd(n) == n % 2 = 1

\* Width after the last hash of a level that is odd, and not the root, was repeated.
Even(n) == IF Odd(n) /\ n > 1 THEN n + 1 ELSE n

Repeated(hashes, n) == [k \in 0 .. Even(n) - 1 |-> IF k < n THEN hashes[k] ELSE hashes[n - 1]]

Digests(hashes, n) == [k \in 0 .. (n \div 2) - 1 |-> Digest(hashes[2 * k], hashes[2 * k + 1])]

LevelsInit ==
    /\ list \in Lists
    /\ level = Vector(list) /\ width = Len(list)
    /\ state = "begin" /\ root = Zero

\* Without any hash, or with one, there is nothing to compute.
Trivial ==
    /\ state = "begin" /\ width <= 1
    /\ root' = IF width = 0 THEN Zero ELSE level[0]
    /\ state' = "done"
    /\ UNCHANGED <<list, level, width>>

Bottom ==
    /\ state = "begin" /\ width > 1
    /\ level' = Repeated(level, width) /\ width' = Even(width)
    /\ state' = "up"
    /\ UNCHANGED <<list, root>>

Up ==
    /\ state = "up" /\ width > 1
    /\ level' = Repeated(Digests(level, width), width \div 2)
    /\ width' = Even(width \div 2)
    /\ UNCHANGED <<list, state, root>>

Top ==
    /\ state = "up" /\ width = 1
    /\ root' = level[0] /\ state' = "done"
    /\ UNCHANGED <<list, level, width>>

LevelsNext == Trivial \/ Bottom \/ Up \/ Top

LevelsSpec == LevelsInit /\ [][LevelsNext]_levels

=============================================================================
