------------------------------- MODULE MCNode -------------------------------
(***************************************************************************)
(* A small instance of Node for TLC: two accounts, a handful of            *)
(* transactions that depend on and conflict with each other, and all the   *)
(* chains that peers can build from a few block bodies.                    *)
(***************************************************************************)
EXTENDS Queries

CONSTANTS MaxOffer, Payee   \* height of the offered chains; who mined them

Pay(from, to, amount, nonce, sig) ==
    [type |-> "transfer", net |-> TRUE, from |-> from, to |-> to, amount |-> amount,
     nonce |-> nonce, payload |-> 0, sig |-> sig]
Note(from, nonce) ==
    [type |-> "record", net |-> TRUE, from |-> from, to |-> from, amount |-> 0,
     nonce |-> nonce, payload |-> 1, sig |-> "good"]

\* The miner (1) pays 2 its whole reward; the same, signed again; a note that
\* comes next; a payment by 2 that only the first one can fund.
P1 == Pay(1, 2, 2, 0, "good")
P1b == Pay(1, 2, 2, 0, "good2")
N1 == Note(1, 1)
P2 == Pay(2, 1, 2, 0, "good")

\* A note of 2 that peers mine, and that takes the nonce of P2.
N2 == Note(2, 0)

MCWire == {P1, P1b, N1, P2}

\* Bodies of peers' blocks, mined by 2: empty; a payment with one that it
\* funds; and a note that conflicts with both.  Then what must be refused: out
\* of order, and a repeated tail, which has the merkle root of the list
\* without it.
MCBodies == {<< >>, <<P2, P1>>, <<N2>>}
MCBadBodies == {<<P1, P2>>, <<P2, P2>>}

Child(b, body) ==
    MakeBlock(BlockHash(b), b.h.height + 1, <<Coinbase(Payee, b.h.height + 1)>> \o body)
BadChildren(b) ==
    {Child(b, body) : body \in MCBadBodies}
    \cup {[Child(b, << >>) EXCEPT !.h.seal = "own"],
          LET c == Child(b, <<P2, P1>>) IN [c EXCEPT !.txs = @ \o <<P1>>]}

\* Chains of peers: good bodies up to MaxOffer, and a bad block at the end of
\* shorter ones.
MCOffers ==
    LET tip(c) == c[Len(c)]
        grow[h \in 0 .. MaxOffer] ==
            IF h = 0 THEN {<<Genesis>>}
            ELSE {Append(c, Child(tip(c), body)) : c \in grow[h - 1], body \in MCBodies}
    IN  UNION {grow[h] : h \in 0 .. MaxOffer}
        \cup UNION {{Append(c, b) : b \in BadChildren(tip(c))} :
                       c \in UNION {grow[h] : h \in 0 .. MaxOffer - 2}}

=============================================================================
