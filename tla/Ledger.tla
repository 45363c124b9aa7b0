------------------------------- MODULE Ledger -------------------------------
(***************************************************************************)
(* The consensus rules of src/core.h as operators: transactions, the       *)
(* account state and apply_tx, blocks, and the Chain class with its        *)
(* connect_block and the rebuilding loop of try_replace.                   *)
(*                                                                         *)
(* Data.  An address stands for the public key it is derived from.  A      *)
(* payload is its length.  A signature is "none" (zeros), "bad", or one of *)
(* two good ones: ECDSA is randomised, so the same transaction can be      *)
(* signed twice and then has two txids.  A txid covers every field and     *)
(* SHA-256 is taken as injective, so the txid of t is t itself.            *)
(***************************************************************************)
EXTENDS Merkle, FiniteSets

CONSTANTS
    Addr,         \* addresses; numbers, as the mempool is ordered by them
    NoAddr,       \* the zero public key of a coinbase
    Reward,       \* Params::reward
    MaxPayload,   \* MAX_PAYLOAD
    MaxBlockTxs,  \* MAX_BLOCK_TXS
    BlockWork     \* work_of(Params::bits)

ASSUME AddrAssumption == Addr \subseteq Nat /\ NoAddr \notin Addr
ASSUME AddrFiniteAssumption == IsFiniteSet(Addr)   \* an address is 20 bytes
ASSUME RewardAssumption == Reward \in Nat
ASSUME BlockWorkAssumption == BlockWork \in Nat \ {0}
ASSUME LimitsAssumption == MaxPayload \in Nat /\ MaxBlockTxs \in Nat

---------------------------------------------------------------------------
(* Transactions *)

\* "other" is any type byte the code does not know; net says whether net_id
\* is the network's.
Tx == [type: {"coinbase", "transfer", "record", "other"}, net: BOOLEAN,
       from: Addr \cup {NoAddr}, to: Addr, amount: Nat, nonce: Nat,
       payload: Nat, sig: {"none", "bad", "good", "good2"}]

TxId(t) == t
SigVerify(t) == t.sig \in {"good", "good2"}

\* The checks of apply_tx and Mempool::add that look only at a transfer's or
\* record's own fields.
WellFormed(t) ==
    /\ t.net
    /\ t.from # NoAddr
    /\ SigVerify(t)
    /\ \/ t.type = "transfer" /\ t.payload = 0
       \/ t.type = "record" /\ t.amount = 0 /\ t.payload \in 1 .. MaxPayload

Coinbase(to, height) ==
    [type |-> "coinbase", net |-> TRUE, from |-> NoAddr, to |-> to,
     amount |-> Reward, nonce |-> height, payload |-> 0, sig |-> "none"]

---------------------------------------------------------------------------
(* Account state.  std::map with Account{} for an absent key is the total  *)
(* function that is zero there.                                            *)

Accounts == [Addr -> [balance: Nat, nonce: Nat]]
NoAccounts == [a \in Addr |-> [balance |-> 0, nonce |-> 0]]

\* Mutant of TxOk: a transfer may spend more than the balance.
TxOkOverdraw(st, t, height, isFirst) ==
    IF t.type = "coinbase"
    THEN t.net /\ isFirst /\ t.from = NoAddr /\ t.sig = "none" /\ t.payload = 0
         /\ t.amount = Reward /\ t.nonce = height
    ELSE ~isFirst /\ WellFormed(t) /\ t.nonce = st[t.from].nonce

\* apply_tx returns "".
TxOk(st, t, height, isFirst) ==
    IF t.type = "coinbase"
    THEN /\ t.net
         /\ isFirst
         /\ t.from = NoAddr /\ t.sig = "none"
         /\ t.payload = 0
         /\ t.amount = Reward
         /\ t.nonce = height
    ELSE /\ ~isFirst
         /\ WellFormed(t)
         /\ t.nonce = st[t.from].nonce
         /\ t.type = "transfer" => st[t.from].balance >= t.amount

\* Mutants of AfterTx: the sender is not debited; the nonce is not consumed.
AfterTxNoDebit(st, t) ==
    IF t.type = "coinbase" THEN [st EXCEPT ![t.to].balance = @ + t.amount]
    ELSE [st EXCEPT ![t.to].balance = @ + t.amount, ![t.from].nonce = @ + 1]
AfterTxNoNonce(st, t) ==
    CASE t.type = "coinbase" -> [st EXCEPT ![t.to].balance = @ + t.amount]
      [] t.type = "transfer" -> [st EXCEPT ![t.from].balance = @ - t.amount,
                                           ![t.to].balance = @ + t.amount]
      [] OTHER -> st

\* What apply_tx leaves in st when it returns "".
AfterTx(st, t) ==
    CASE t.type = "coinbase" -> [st EXCEPT ![t.to].balance = @ + t.amount]
      [] t.type = "transfer" -> [st EXCEPT ![t.from].balance = @ - t.amount,
                                           ![t.to].balance = @ + t.amount,
                                           ![t.from].nonce = @ + 1]
      [] OTHER -> [st EXCEPT ![t.from].nonce = @ + 1]

\* One turn of connect_block's loop over the transactions of a block, on the
\* copy of st it validates against.
TxStep(s, t, height, isFirst) ==
    IF s.ok /\ TxOk(s.st, t, height, isFirst)
    THEN [ok |-> TRUE, st |-> AfterTx(s.st, t)]
    ELSE [ok |-> FALSE, st |-> s.st]

\* The copy after the first i transactions; ok until one is refused.
TxLoop(st, txs, height) ==
    LET loop[i \in 0 .. Len(txs)] ==
            IF i = 0 THEN [ok |-> TRUE, st |-> st]
            ELSE TxStep(loop[i - 1], txs[i], height, i = 1)
    IN  loop

---------------------------------------------------------------------------
(* Blocks.  seal stands for version, network id, difficulty bits and the   *)
(* nonce: "network" if they are the network's and the hash meets that      *)
(* difficulty, "own" if they are not but the hash meets the header's own   *)
(* bits, "none" if it does not meet those.                                 *)

HeaderHash(h) == <<h.prev, h.merkle, h.height, h.seal>>
PowOk(h) == h.seal # "none"
HeaderOk(h) == h.seal = "network"
BlockHash(b) == HeaderHash(b.h)
TxRoot(txs) == MerkleRoot([i \in DOMAIN txs |-> Leaf(TxId(txs[i]))])

\* make_genesis: its bits are 0.
Genesis == [h |-> [prev |-> ZeroHash, merkle |-> ZeroHash, height |-> 0, seal |-> "own"],
            txs |-> << >>]

\* The block the miner thread and the /work and /submitwork handlers put
\* together for the tip of hash prev.
MakeBlock(prev, height, txs) ==
    [h |-> [prev |-> prev, merkle |-> TxRoot(txs), height |-> height, seal |-> "network"],
     txs |-> txs]

---------------------------------------------------------------------------
(* The Chain class: blocks (hashes is their BlockHash), st, txidx, work.   *)

\* A block and a chain by type.  Hashes are terms of any depth and have none.
BlockOK(b) == b.txs \in Seq(Tx) /\ b.h.height \in Nat
ChainOK(c) ==
    /\ c = [blocks |-> c.blocks, st |-> c.st, txidx |-> c.txidx, work |-> c.work]
    /\ c.blocks \in Seq({c.blocks[i] : i \in DOMAIN c.blocks})
    /\ \A i \in DOMAIN c.blocks : BlockOK(c.blocks[i])
    /\ c.st \in Accounts
    /\ DOMAIN c.txidx \subseteq Tx
    /\ c.txidx \in [DOMAIN c.txidx -> Nat \X Nat]
    /\ c.work \in Nat

EmptyChain == [blocks |-> << >>, st |-> NoAccounts, txidx |-> << >>, work |-> 0]

Height(c) == Len(c.blocks) - 1
TipHash(c) == BlockHash(c.blocks[Len(c.blocks)])
HasBlock(c, hash) == \E i \in DOMAIN c.blocks : BlockHash(c.blocks[i]) = hash

\* Mutant of Indexed: the index counts from one.
IndexedFromOne(txidx, b) ==
    [id \in DOMAIN txidx \cup {TxId(b.txs[i]) : i \in DOMAIN b.txs} |->
        IF \E i \in DOMAIN b.txs : TxId(b.txs[i]) = id
        THEN <<b.h.height, CHOOSE i \in DOMAIN b.txs : TxId(b.txs[i]) = id>>
        ELSE txidx[id]]

\* txidx[txid] = (height, index) for the transactions of b.
Indexed(txidx, b) ==
    LET new == {TxId(b.txs[i]) : i \in DOMAIN b.txs}
        pos(id) == CHOOSE i \in DOMAIN b.txs :
                      TxId(b.txs[i]) = id /\ \A j \in DOMAIN b.txs :
                                                TxId(b.txs[j]) = id => j <= i
    IN  [id \in DOMAIN txidx \cup new |->
            IF id \in new THEN <<b.h.height, pos(id) - 1>> ELSE txidx[id]]

\* connect_block returns "".  timely: the clock of this node is not more
\* than MAX_TIME_SKEW_S behind the header's time.
CanConnect(c, b, timely) ==
    IF c.blocks = << >>
    THEN BlockHash(b) = BlockHash(Genesis) /\ b.txs = << >>
    ELSE /\ b.h.height = Height(c) + 1
         /\ b.h.prev = TipHash(c)
         /\ HeaderOk(b.h)
         /\ timely
         /\ Len(b.txs) \in 1 .. MaxBlockTxs
         /\ TxRoot(b.txs) = b.h.merkle
         /\ TxLoop(c.st, b.txs, b.h.height)[Len(b.txs)].ok

\* What connect_block leaves when it returns "": append included.
Connected(c, b) ==
    [blocks |-> Append(c.blocks, b),
     st     |-> TxLoop(c.st, b.txs, b.h.height)[Len(b.txs)].st,
     txidx  |-> Indexed(c.txidx, b),
     work   |-> c.work + (IF c.blocks = << >> THEN 1 ELSE BlockWork)]

\* One turn of the loops that connect block after block and stop at the
\* first one refused: okc of them have been connected so far, of i - 1.
ConnectStep(s, b, i, timely) ==
    IF s.okc = i - 1 /\ CanConnect(s.chain, b, timely)
    THEN [chain |-> Connected(s.chain, b), okc |-> i]
    ELSE s

\* The loop of try_replace (from EmptyChain) and of handle_blocks over v.
ConnectLoop(c, v, timely) ==
    LET loop[i \in 0 .. Len(v)] ==
            IF i = 0 THEN [chain |-> c, okc |-> 0]
            ELSE ConnectStep(loop[i - 1], v[i], i, timely)
    IN  loop

\* Its outcome: the chain, and the number of blocks connected.
ConnectAll(c, v, timely) == ConnectLoop(c, v, timely)[Len(v)]

\* Mutant of CanReplace: equal work is enough.
CanReplaceEqual(c, cand, timely) ==
    LET tmp == ConnectAll(EmptyChain, cand, timely)
    IN  cand # << >> /\ tmp.okc = Len(cand) /\ tmp.chain.work >= c.work

\* try_replace returns "": every candidate block connects, and the rebuilt
\* chain has strictly more work.
CanReplace(c, cand, timely) ==
    LET tmp == ConnectAll(EmptyChain, cand, timely)
    IN  /\ cand # << >>
        /\ tmp.okc = Len(cand)
        /\ tmp.chain.work > c.work

\* Mutant of Replaced: the index is not moved with the rest.
ReplacedNoIndex(cand, timely) ==
    [ConnectAll(EmptyChain, cand, timely).chain EXCEPT !.txidx = << >>]

Replaced(cand, timely) == ConnectAll(EmptyChain, cand, timely).chain

\* The chain of a node with an empty database (Chain::init).
GenesisChain == Connected(EmptyChain, Genesis)

=============================================================================
