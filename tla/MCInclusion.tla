----------------------------- MODULE MCInclusion -----------------------------
(***************************************************************************)
(* A small instance of Inclusion: peers' chains whose blocks have 3 and 6  *)
(* transactions, so that merkle levels are odd at the bottom or only higher*)
(* up, and the blocks of a fork share transactions.                        *)
(***************************************************************************)
EXTENDS Inclusion

CONSTANTS MaxOffer, Bodies   \* height of the chains; notes in a block

Note(nonce) ==
    [type |-> "record", net |-> TRUE, from |-> 1, to |-> 1, amount |-> 0,
     nonce |-> nonce, payload |-> 1, sig |-> "good"]

\* The chain c and one more block, with the next n notes.
Longer(c, n) ==
    LET tip == c[Len(c)]
        noted == FoldLeft(LAMBDA sum, b : sum + Len(b.txs), 0, c) - (Len(c) - 1)
    IN  Append(c, MakeBlock(BlockHash(tip), tip.h.height + 1,
                            <<Coinbase(2, tip.h.height + 1)>>
                            \o [i \in 1 .. n |-> Note(noted + i - 1)]))

MCOffers ==
    LET grow[h \in 0 .. MaxOffer] ==
            IF h = 0 THEN {<<Genesis>>}
            ELSE {Longer(c, n) : c \in grow[h - 1], n \in Bodies}
    IN  UNION {grow[h] : h \in 0 .. MaxOffer}

MCWire == {}

=============================================================================
