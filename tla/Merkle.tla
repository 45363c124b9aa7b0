------------------------------- MODULE Merkle -------------------------------
(***************************************************************************)
(* The Merkle tree of src/core.h.  A hash is an injective term, so two     *)
(* hashes are equal exactly when the hashed bytes are:                     *)
(*   <<>> is the all-zero hash, <<x>> the hash of a leaf (a txid), and     *)
(*   <<l, r>> the double SHA-256 of two concatenated hashes.               *)
(* A level of odd length repeats its last node, as the code does, so two   *)
(* lists of leaves can have the same root although no hash collides.       *)
(***************************************************************************)
EXTENDS Integers, Sequences, FiniteSets

ZeroHash == << >>
Leaf(id) == <<id>>
MerkleParent(l, r) == <<l, r>>

\* One round of the loop: pair the nodes up, the last one with itself if it
\* is left over.
NextLevel(level) ==
    LET n == Len(level)
    IN  [i \in 1 .. (n + 1) \div 2 |->
            MerkleParent(level[2 * i - 1],
                         level[IF 2 * i <= n THEN 2 * i ELSE n])]

\* The levels of the tree over the leaves, from the leaves (0) upwards; the
\* function is constant once the root is reached.
Levels(leaves) ==
    LET lv[d \in 0 .. Len(leaves)] ==
            IF d = 0 THEN leaves
            ELSE LET below == lv[d - 1]
                 IN  IF Len(below) = 1 THEN below ELSE NextLevel(below)
    IN  lv

MerkleRoot(leaves) ==
    IF leaves = << >> THEN ZeroHash ELSE Levels(leaves)[Len(leaves)][1]

---------------------------------------------------------------------------
(* The authentication path of a leaf.  Positions count from 0.             *)

\* The turns of merkle_proof's loop: the levels that are not yet the root.
Depth(lv) == Cardinality({d \in DOMAIN lv : Len(lv[d]) > 1})

\* idx after d of the turns.
Positions(idx, depth) ==
    LET at[d \in 0 .. depth] == IF d = 0 THEN idx ELSE at[d - 1] \div 2
    IN  at

\* Mutant of MerkleSteps: a node left over has its left neighbour as sibling.
MerkleStepsNoRepeat(leaves, idx) ==
    LET lv == Levels(leaves)
        at == Positions(idx, Depth(lv))
    IN  [d \in 1 .. Depth(lv) |->
            LET i == at[d - 1]
                sib == IF i % 2 = 1 \/ i + 1 = Len(lv[d - 1]) THEN i - 1 ELSE i + 1
            IN  [h |-> lv[d - 1][sib + 1], left |-> sib < i]]

\* merkle_proof: the sibling at each level below the root, from the leaves up.
MerkleSteps(leaves, idx) ==
    LET lv == Levels(leaves)
        at == Positions(idx, Depth(lv))
    IN  [d \in 1 .. Depth(lv) |->
            LET level == lv[d - 1]
                i == at[d - 1]
                sib == IF i % 2 = 1 THEN i - 1 ELSE i + 1
            IN  [h |-> level[IF sib < Len(level) THEN sib + 1 ELSE Len(level)],
                 left |-> i % 2 = 1]]

\* One turn of merkle_apply's loop.
Joined(node, s) == IF s.left THEN MerkleParent(s.h, node) ELSE MerkleParent(node, s.h)

\* The node that merkle_apply has reached after i of the steps.
Climb(leaf, steps) ==
    LET node[i \in 0 .. Len(steps)] == IF i = 0 THEN leaf ELSE Joined(node[i - 1], steps[i])
    IN  node

MerkleApply(leaf, steps) == Climb(leaf, steps)[Len(steps)]

=============================================================================
