------------------------------- MODULE MCSync -------------------------------
(***************************************************************************)
(* Small instances of Sync for TLC.                                        *)
(***************************************************************************)
EXTENDS Sync, TLC

\* The nodes run the same program and are all peers of each other.
NodeSymmetry == Permutations(Node)

\* Two nodes that mined apart, one block against two, before they connect:
\* a state that Init reaches by mining alone.
n1 == CHOOSE n \in Node : TRUE
ForkedInit ==
    /\ tree = <<[parent |-> 0, height |-> 1], [parent |-> 0, height |-> 1],
                [parent |-> 2, height |-> 2]>>
    /\ chain = [n \in Node |-> IF n = n1 THEN <<0, 1>> ELSE <<0, 2, 3>>]
    /\ sync = [n \in Node |-> NoSync]
    /\ peerTip = [n \in Node |-> [p \in Node |-> 0]]
    /\ up = [n \in Node |-> [p \in Node |-> FALSE]]
    /\ ready = up
    /\ wire = [n \in Node |-> [p \in Node |-> << >>]]
    /\ events = [n \in Node |-> << >>]
    /\ busy = [n \in Node |-> FALSE]
    /\ minerOut = [n \in Node |-> << >>]
    /\ relay = [n \in Node |-> << >>]
    /\ faults = 0
    /\ timeouts = 0

ForkedSpec == ForkedInit /\ [][Next]_vars /\ Fairness

=============================================================================
