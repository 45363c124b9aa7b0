-------------------------------- MODULE Node --------------------------------
(***************************************************************************)
(* One chainlite node: what App of src/node_impl.h keeps under its mutex   *)
(* (the chain, the mempool, tip_seq, work_cache), the miner thread, and    *)
(* one external miner that fetches work over RPC.  Each action is one      *)
(* critical section.  Peers and clients are the environment: they send any *)
(* transaction of Wire and any block or chain of Offers, valid or not.     *)
(* Where the messages come from and how the sync requests them is the      *)
(* subject of module Sync.                                                 *)
(***************************************************************************)
EXTENDS Mempool, FiniteSetsExt

CONSTANTS
    MinerAddr,   \* App::miner_addr
    Wire,        \* transactions that clients and peers may send
    Offers,      \* block lists that peers may serve, each from genesis
    MaxWork,     \* 64: /work empties a cache larger than this
    MaxHeight    \* bound of the model: no block above this height

ASSUME MinerAddrAssumption == MinerAddr \in Addr
ASSUME WireAssumption == Wire \subseteq Tx
ASSUME BoundsAssumption == MaxWork \in Nat /\ MaxHeight \in Nat
ASSUME OffersAssumption ==
    \A c \in Offers :
        /\ c \in Seq({c[i] : i \in DOMAIN c})
        /\ \A i \in DOMAIN c : BlockOK(c[i])

VARIABLES
    chain,      \* App::chain
    pool,       \* App::pool
    tipSeq,     \* App::tip_seq
    workCache,  \* App::work_cache: merkle root -> transactions
    miner,      \* miner_thread's locals between its two critical sections
    job         \* the header the external miner is working on

vars == <<chain, pool, tipSeq, workCache, miner, job>>

Idle == [have |-> FALSE, seq |-> 0, cand |-> Genesis]
NoJob == [have |-> FALSE, h |-> Genesis.h]

---------------------------------------------------------------------------
Init ==
    /\ chain = GenesisChain
    /\ pool = EmptyPool
    /\ tipSeq = 0
    /\ workCache = << >>
    /\ miner = Idle
    /\ job = NoJob

\* Mutants of PostChainChange: tip_seq, work_cache or the pool is forgotten.
PostChainChangeSameSeq(c) ==
    chain' = c /\ pool' = Purged(pool, c.st) /\ workCache' = << >> /\ UNCHANGED tipSeq
PostChainChangeKeepsWork(c) ==
    chain' = c /\ pool' = Purged(pool, c.st) /\ tipSeq' = tipSeq + 1 /\ UNCHANGED workCache
PostChainChangeNoPurge(c) ==
    chain' = c /\ workCache' = << >> /\ tipSeq' = tipSeq + 1 /\ UNCHANGED pool

\* post_chain_change, once the chain has become c.
PostChainChange(c) ==
    /\ chain' = c
    /\ pool' = Purged(pool, c.st)
    /\ workCache' = << >>
    /\ tipSeq' = tipSeq + 1

ChainUnchanged == UNCHANGED <<chain, pool, workCache, tipSeq>>

\* A gossiped M_TX.
ReceiveTx(t) ==
    /\ TxId(t) \notin pool.ids
    /\ TxId(t) \notin DOMAIN chain.txidx
    /\ CanAdd(pool, t, chain.st)
    /\ pool' = Added(pool, t)
    /\ UNCHANGED <<chain, tipSeq, workCache, miner, job>>

\* POST /submit: its handler leaves the state that M_TX's does.
SubmitTx(t) == ReceiveTx(t)

\* The template that the miner thread and GET /work build on the current tip.
Template(to) ==
    LET height == Height(chain) + 1
    IN  <<Coinbase(to, height)>> \o Collect(pool, chain.st, height)

\* The miner's first critical section.  A heartbeat may or may not be due.
MinerSnapshot(heartbeat) ==
    /\ ~miner.have
    /\ Height(chain) < MaxHeight
    /\ heartbeat \/ Len(Template(MinerAddr)) > 1
    /\ miner' = [have |-> TRUE, seq |-> tipSeq,
                 cand |-> MakeBlock(TipHash(chain), Height(chain) + 1, Template(MinerAddr))]
    /\ UNCHANGED <<chain, pool, tipSeq, workCache, job>>

\* The miner's second critical section, once it has found a nonce: the
\* candidate is given up if tip_seq has moved.
MinerSubmit ==
    /\ miner.have
    /\ miner' = Idle
    /\ IF tipSeq = miner.seq /\ CanConnect(chain, miner.cand, TRUE)
       THEN PostChainChange(Connected(chain, miner.cand))
       ELSE ChainUnchanged
    /\ UNCHANGED job

\* GET /work: cache the template under its merkle root, hand out the header.
GetWork(to) ==
    /\ Height(chain) < MaxHeight
    /\ LET txs == Template(to)
           kept == IF Cardinality(DOMAIN workCache) > MaxWork THEN << >> ELSE workCache
       IN  /\ workCache' = [r \in DOMAIN kept \cup {TxRoot(txs)} |->
                               IF r = TxRoot(txs) THEN txs ELSE kept[r]]
           /\ job' = [have |-> TRUE,
                       h |-> MakeBlock(TipHash(chain), Height(chain) + 1, txs).h]
    /\ UNCHANGED <<chain, pool, tipSeq, miner>>

\* The block POST /submitwork puts together from a header and the cache.
WorkBlock(h) == [h |-> h, txs |-> workCache[h.merkle]]

\* POST /submitwork: the header comes back with a nonce that solves it.
SubmitWork ==
    /\ job.have
    /\ job' = NoJob
    /\ IF job.h.merkle \in DOMAIN workCache /\ CanConnect(chain, WorkBlock(job.h), TRUE)
       THEN PostChainChange(Connected(chain, WorkBlock(job.h)))
       ELSE ChainUnchanged
    /\ UNCHANGED miner

\* M_BLOCK: a block pushed by a peer.
ReceiveBlock(b, timely) ==
    /\ ~HasBlock(chain, BlockHash(b))
    /\ CanConnect(chain, b, timely)
    /\ PostChainChange(Connected(chain, b))
    /\ UNCHANGED <<miner, job>>

\* M_BLOCKS while extending (sync_mode 1): the blocks of v are connected up
\* to the first one that is refused, in one critical section.
ExtendWith(v, timely) ==
    LET r == ConnectAll(chain, v, timely)
    IN  /\ r.okc > 0
        /\ PostChainChange(r.chain)
        /\ UNCHANGED <<miner, job>>

\* M_BLOCKS that completes a full download (sync_mode 2).
ReplaceWith(cand, timely) ==
    /\ CanReplace(chain, cand, timely)
    /\ PostChainChange(Replaced(cand, timely))
    /\ UNCHANGED <<miner, job>>

Next ==
    \/ \E t \in Wire : ReceiveTx(t) \/ SubmitTx(t)
    \/ \E heartbeat \in BOOLEAN : MinerSnapshot(heartbeat)
    \/ MinerSubmit
    \/ \E to \in Addr : GetWork(to)
    \/ SubmitWork
    \/ \E c \in Offers, timely \in BOOLEAN : \E i \in DOMAIN c : ReceiveBlock(c[i], timely)
    \/ \E c \in Offers, timely \in BOOLEAN : \E i \in DOMAIN c :
          ExtendWith(SubSeq(c, i, Len(c)), timely)
    \/ \E c \in Offers, timely \in BOOLEAN : ReplaceWith(c, timely)

Spec == Init /\ [][Next]_vars

---------------------------------------------------------------------------
(* Properties *)

\* Types.
TypeOK ==
    /\ ChainOK(chain) /\ chain.blocks # << >>
    /\ pool = [m |-> pool.m, ids |-> pool.ids]
    /\ DOMAIN pool.m \subseteq Addr \X Nat /\ pool.m \in [DOMAIN pool.m -> Tx]
    /\ tipSeq \in Nat
    /\ workCache \in [DOMAIN workCache -> Seq(Tx)]
    /\ miner.have \in BOOLEAN /\ miner.seq \in Nat /\ BlockOK(miner.cand)
    /\ job.have \in BOOLEAN /\ job.h.height \in Nat

\* The state kept incrementally, through blocks mined, pushed, downloaded and
\* swapped in by reorganisations, is what replaying the blocks from an empty
\* chain gives: "independent validation" of the whole history at any time.
LedgerReplays ==
    ConnectAll(EmptyChain, chain.blocks, TRUE) = [chain |-> chain, okc |-> Len(chain.blocks)]

\* No transfer creates or destroys coin, on either branch of a fork: the
\* balances add up to one reward per block above genesis.
SupplyConserved ==
    MapThenSumSet(LAMBDA a : chain.st[a].balance, Addr) = Reward * Height(chain)

\* Replay protection: no two transactions of the chain have the same sender
\* and nonce, and each account's nonce is the number of its transactions.
NoReplay ==
    LET spent == {p \in (DOMAIN chain.blocks) \X (1 .. MaxBlockTxs) :
                     /\ p[2] \in DOMAIN chain.blocks[p[1]].txs
                     /\ chain.blocks[p[1]].txs[p[2]].type # "coinbase"}
        at(p) == chain.blocks[p[1]].txs[p[2]]
    IN  /\ \A p, q \in spent : Key(at(p)) = Key(at(q)) => p = q
        /\ \A a \in Addr : chain.st[a].nonce = Cardinality({p \in spent : at(p).from = a})

\* txidx, from which /tx and /prove answer, finds exactly the transactions of
\* the current chain, each at its place; nothing of a lost branch remains.
IndexExact ==
    /\ \A id \in DOMAIN chain.txidx :
          LET at == chain.txidx[id]
          IN  /\ at[1] + 1 \in DOMAIN chain.blocks
              /\ at[2] + 1 \in DOMAIN chain.blocks[at[1] + 1].txs
              /\ TxId(chain.blocks[at[1] + 1].txs[at[2] + 1]) = id
    /\ \A i \in DOMAIN chain.blocks : \A j \in DOMAIN chain.blocks[i].txs :
          TxId(chain.blocks[i].txs[j]) \in DOMAIN chain.txidx

\* Every pooled transaction can still be mined: the chain has not consumed
\* its nonce, whatever was connected or reorganised since it was accepted.
PoolFresh ==
    \A k \in DOMAIN pool.m : k[2] >= chain.st[k[1]].nonce

\* The two maps of the mempool agree: one transaction per (sender, nonce), and
\* ids, which decides "duplicate", holds exactly the txids of m.
PoolConsistent ==
    /\ \A k \in DOMAIN pool.m : Key(pool.m[k]) = k /\ WellFormed(pool.m[k])
    /\ pool.ids = {TxId(pool.m[k]) : k \in DOMAIN pool.m}

\* No transaction is both confirmed and pending.
PoolNotConfirmed ==
    pool.ids \cap DOMAIN chain.txidx = {}

\* A candidate whose tip_seq is still current connects: the miner never loses
\* a solved block to its own validation, although collect validated the
\* transactions without the coinbase that now precedes them.
CandidateConnects ==
    miner.have /\ miner.seq = tipSeq => CanConnect(chain, miner.cand, TRUE)

\* A solved header whose merkle root is still cached connects: the cache
\* never answers for a tip that is gone.
WorkConnects ==
    job.have /\ job.h.merkle \in DOMAIN workCache => CanConnect(chain, WorkBlock(job.h), TRUE)

\* Fork choice: the chain changes only for one with strictly more work, and
\* every change moves tip_seq, which is what stops the miner.
OnlyHeavier ==
    [][chain' # chain => chain'.work > chain.work /\ tipSeq' > tipSeq]_vars

=============================================================================
