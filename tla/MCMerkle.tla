------------------------------ MODULE MCMerkle ------------------------------
(* Instances of Merkle for TLC.  A digest is the pair of what it digests, so that *)
(* only equal pairs have equal digests.                                    *)
EXTENDS Merkle, SequencesExt

Pair2(a, b) == <<a, b>>
NoHash == << >>
Transactions == {<<n>> : n \in 1 .. 12}

\* All lists of up to five of three hashes, and lists of up to twelve that differ.
SomeLists == BoundedSeq({<<1>>, <<2>>, <<3>>}, 5)
               \cup {[k \in 1 .. n |-> <<k>>] : n \in 6 .. 12}

=============================================================================
