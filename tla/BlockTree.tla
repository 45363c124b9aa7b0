------------------------------ MODULE BlockTree -----------------------------
(***************************************************************************)
(* The tree of all blocks ever mined.  A block is its number in the order  *)
(* of mining; tree[b] is what its header says: the parent (prev) and the   *)
(* height.  Genesis is block 0.  A chain is the sequence of its blocks.    *)
(***************************************************************************)
EXTENDS Integers, Sequences

Genesis == 0
Tip(c) == c[Len(c)]
Height(c) == Len(c) - 1
HeightOf(tree, b) == IF b = Genesis THEN 0 ELSE tree[b].height

\* connect_block accepts b on top of block p: prev is the hash of p and the
\* height is one more.
ChildOf(tree, b, p) ==
    /\ b \in DOMAIN tree
    /\ tree[b].parent = p
    /\ tree[b].height = HeightOf(tree, p) + 1

\* connect_block accepts the blocks of c one after the other, from genesis.
IsPath(tree, c) ==
    /\ c # << >>
    /\ c[1] = Genesis
    /\ \A i \in 2 .. Len(c) : ChildOf(tree, c[i], c[i - 1])

=============================================================================
