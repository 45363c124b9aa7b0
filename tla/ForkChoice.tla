----------------------------- MODULE ForkChoice -----------------------------
(***************************************************************************)
(* What the network of nodes promises ("heaviest-cumulative-work wins"):   *)
(* blocks form a tree that only mining extends, every node follows one     *)
(* path of it from genesis, and leaves its path only for a strictly longer *)
(* one.  Difficulty is fixed, so a longer path is one with more work.      *)
(***************************************************************************)
EXTENDS BlockTree

CONSTANT Node

VARIABLES
    tree,   \* tree[b]: parent and height of block b, in the order mined
    chain   \* chain[n]: the blocks of node n from genesis (0) to its tip

Init ==
    /\ tree = << >>
    /\ chain = [n \in Node |-> <<Genesis>>]

Mine(n) ==
    /\ tree' = Append(tree, [parent |-> Tip(chain[n]), height |-> Len(chain[n])])
    /\ chain' = [chain EXCEPT ![n] = Append(@, Len(tree) + 1)]

Adopt(n) ==
    /\ IsPath(tree, chain'[n])
    /\ Len(chain'[n]) > Len(chain[n])
    /\ chain' = [chain EXCEPT ![n] = chain'[n]]
    /\ UNCHANGED tree

Next == \E n \in Node : Mine(n) \/ Adopt(n)

Spec == Init /\ [][Next]_<<tree, chain>>

=============================================================================
