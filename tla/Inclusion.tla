------------------------------ MODULE Inclusion ------------------------------
(***************************************************************************)
(* Inclusion proofs: GET /prove on a node, the proof file that a client    *)
(* keeps, and "clctl verify", which checks the file on its own and asks a  *)
(* node which block it has at that height.  The node goes on as in module  *)
(* Node, so a proof may outlive the block it was made from, and the file   *)
(* may be damaged where it is stored.                                      *)
(***************************************************************************)
EXTENDS Node, SequencesExt

CONSTANT MaxDamage   \* bound of the model: fields of the file that change
ASSUME MaxDamageAssumption == MaxDamage \in Nat

VARIABLE file   \* proof.txt, and how many of its fields were changed since

---------------------------------------------------------------------------
(* The proof file *)

NoFile == [have |-> FALSE, damage |-> 0]

\* The lines of the file that GET /prove answers with for a confirmed txid.
ProofOf(c, id) ==
    LET at == c.txidx[id]
        b == c.blocks[at[1] + 1]
        leaves == [i \in DOMAIN b.txs |-> Leaf(TxId(b.txs[i]))]
    IN  [txid |-> Leaf(id), height |-> b.h.height, index |-> at[2],
         blockhash |-> BlockHash(b), header |-> b.h,
         steps |-> MerkleSteps(leaves, at[2])]

\* GET /prove, written to the file; a txid that is not confirmed answers 404.
Prove(id) ==
    /\ id \in DOMAIN chain.txidx
    /\ file' = [have |-> TRUE, damage |-> 0, p |-> ProofOf(chain, id)]
    /\ UNCHANGED vars

\* The nodes of the merkle tree of a block, leaves and inner ones.
TreeNodes(b) ==
    LET lv == Levels([i \in DOMAIN b.txs |-> Leaf(TxId(b.txs[i]))])
    IN  UNION {Range(lv[d]) : d \in DOMAIN lv}

\* One line of the file changed to another value of its kind.  A hash can be
\* any node of a tree, a header can be another block's or one that no network
\* has, with a root and a difficulty of its own.  The reader skips a sibling
\* line that does not parse, so a step can also vanish.
Damaged(p) ==
    {[p EXCEPT !.height = h] : h \in 0 .. Len(chain.blocks)}
    \cup {[p EXCEPT !.index = @ + 1]}
    \cup {[p EXCEPT !.txid = x] : x \in UNION {TreeNodes(b) : b \in Range(chain.blocks)}}
    \cup {[p EXCEPT !.blockhash = x] :
              x \in {BlockHash(b) : b \in Range(chain.blocks)} \cup {HeaderHash(p.header)}}
    \cup {[p EXCEPT !.header = h] :
              h \in {b.h : b \in Range(chain.blocks)}
                   \cup {[p.header EXCEPT !.merkle = p.txid, !.seal = s] : s \in {"own", "none"}}}
    \cup {[p EXCEPT !.steps[i].left = ~@] : i \in DOMAIN p.steps}
    \cup {[p EXCEPT !.steps[i].h = p.txid] : i \in DOMAIN p.steps}
    \cup {[p EXCEPT !.steps = RemoveAt(@, i)] : i \in DOMAIN p.steps}

Damage ==
    /\ file.have /\ file.damage < MaxDamage
    /\ \E q \in Damaged(file.p) \ {file.p} :
          file' = [file EXCEPT !.p = q, !.damage = @ + 1]
    /\ UNCHANGED vars

---------------------------------------------------------------------------
(* clctl verify *)

\* Mutant of VerifyFile: the merkle path is not followed.
VerifyFileNoPath(p) ==
    /\ HeaderHash(p.header) = p.blockhash /\ p.header.height = p.height
    /\ p.height > 0 => PowOk(p.header)

\* The part that needs no node.  The index line is not read; the txid is taken
\* as it is, and the difficulty is the header's own.
VerifyFile(p) ==
    /\ HeaderHash(p.header) = p.blockhash
    /\ p.header.height = p.height
    /\ MerkleApply(p.txid, p.steps) = p.header.merkle
    /\ p.height > 0 => PowOk(p.header)

\* GET /block?height=h: the hash of the block there, or 404.
BlockAt(c, h) ==
    IF h < Len(c.blocks) THEN [code |-> 200, hash |-> BlockHash(c.blocks[h + 1])]
    ELSE [code |-> 404, hash |-> ZeroHash]

\* Mutant of CrossCheck: any block at that height will do.
CrossCheckHeight(c, p) ==
    IF BlockAt(c, p.height).code # 200 THEN "unreachable" ELSE "agree"

\* What --rpc-all finds at one node.  A 404 counts as an unreachable node.
CrossCheck(c, p) ==
    LET r == BlockAt(c, p.height)
    IN  IF r.code # 200 THEN "unreachable"
        ELSE IF r.hash = p.blockhash THEN "agree" ELSE "mismatch"

\* VERDICT: VALID, with this node in --rpc-all.
Valid(c, p) == VerifyFile(p) /\ CrossCheck(c, p) # "mismatch"

---------------------------------------------------------------------------
InclusionInit == Init /\ file = NoFile

InclusionNext ==
    \/ Next /\ UNCHANGED file
    \/ \E id \in DOMAIN chain.txidx : Prove(id)
    \/ Damage

InclusionSpec == InclusionInit /\ [][InclusionNext]_<<vars, file>>

---------------------------------------------------------------------------
(* Properties *)

\* A proof that /prove handed out verifies on its own at any later time, for
\* every position of blocks of every size: odd levels, where the builder
\* repeats the last node, included; a reorganisation does not change that.
ProofVerifies ==
    file.have /\ file.damage = 0 => VerifyFile(file.p)

\* A hash that can be a txid: that of a transaction, not of two hashes.
IsTxid(x) == Len(x) = 1

\* A file that passes verify and names the block that the node has there says
\* the truth, whatever happened to it: if what it names is a txid at all, that
\* transaction is in the node's block of that height.  (Without a node a
\* header of its own difficulty passes, and with one an inner node of the tree
\* in place of a txid.)
AgreedIsCommitted ==
    file.have /\ VerifyFile(file.p) /\ CrossCheck(chain, file.p) = "agree" /\ IsTxid(file.p.txid) =>
        \E i \in DOMAIN chain.blocks[file.p.height + 1].txs :
            Leaf(TxId(chain.blocks[file.p.height + 1].txs[i])) = file.p.txid

\* With the node cross-checked, an undamaged proof is VALID only while the
\* transaction is on that node's chain where the proof says: a proof of a
\* block that a reorganisation has removed is turned down.
ValidMeansConfirmed ==
    file.have /\ file.damage = 0 /\ Valid(chain, file.p) =>
        \E id \in DOMAIN chain.txidx :
            Leaf(id) = file.p.txid /\ chain.txidx[id] = <<file.p.height, file.p.index>>

\* "Flip any byte in a proof.txt and verify rejects it" (README.md).
DamageRejected ==
    file.have /\ file.damage = 1 => ~VerifyFile(file.p)

=============================================================================
