----------------------------- MODULE NodeProofs -----------------------------
(***************************************************************************)
(* Invariants of one node, for every set of accounts, transactions and     *)
(* offered chains.  The chain is only ever built by connecting blocks, so  *)
(* GoodChain of LedgerProofs is kept by each of the ways it changes; the   *)
(* mempool is purged against the account state of the chain it is left     *)
(* with.  Inv is inductive; MiningInv, about what the miners hold, is so   *)
(* together with it.                                                       *)
(***************************************************************************)
EXTENDS Queries, Inclusion, LedgerProofs

Inv ==
    /\ TypeOK
    /\ LedgerReplays
    /\ IndexExact
    /\ NoncesOf(chain)
    /\ PlacesOf(chain)
    /\ SupplyOf(chain)
    /\ PoolFresh
    /\ PoolConsistent

\* The part of Inv about the chain, as the lemmas on chains have it.
LEMMA InvChain ==
    ASSUME Inv
    PROVE  GoodChain(chain) /\ chain.blocks # << >> /\ chain.st \in Accounts
<1>1. ChainOK(chain) /\ chain.blocks # << >>
  BY DEF Inv, TypeOK
<1>2. Replays(chain, TRUE)
  BY Zenon DEF Inv, LedgerReplays, Replays
<1>3. IndexOf(chain) /\ NoncesOf(chain) /\ PlacesOf(chain) /\ SupplyOf(chain)
  BY Zenon DEF Inv, IndexExact, IndexOf
<1>4. chain.st \in Accounts
  BY <1>1 DEF ChainOK
<1>. QED BY <1>1, <1>2, <1>3, <1>4, Zenon DEF GoodChain

\* The part about the mempool.
LEMMA InvPool ==
    ASSUME Inv
    PROVE  PoolOK(pool) /\ PoolAgrees(pool)
BY DEF Inv, TypeOK, PoolOK, PoolConsistent, PoolAgrees

---------------------------------------------------------------------------
\* make_genesis returns a block.
LEMMA GenesisOK == BlockOK(Genesis)
BY DEF Genesis, BlockOK

\* The chain of a node with an empty database (Chain::init) is good.
LEMMA GenesisGood ==
    GoodChain(GenesisChain) /\ GenesisChain.blocks # << >>
<1>1. CanConnect(EmptyChain, Genesis, TRUE)
  <2>1. EmptyChain.blocks = << >> /\ Genesis.txs = << >>
    BY DEF EmptyChain, Genesis
  <2>. QED BY <2>1, Zenon DEF CanConnect
<1>2. TRUE \in BOOLEAN
  OBVIOUS
<1>. QED BY <1>1, <1>2, EmptyGood, GenesisOK, ConnectGood, Zenon DEF GenesisChain

\* A node starts with the invariant.
LEMMA InitInv == Init => Inv
<1>. SUFFICES ASSUME Init PROVE Inv
  OBVIOUS
<1>1. chain = GenesisChain /\ pool = EmptyPool /\ tipSeq = 0 /\ workCache = << >>
      /\ miner = Idle /\ job = NoJob
  BY DEF Init
<1>2. /\ ChainOK(chain) /\ chain.blocks # << >> /\ Replays(chain, TRUE) /\ IndexOf(chain)
      /\ NoncesOf(chain) /\ PlacesOf(chain) /\ SupplyOf(chain)
  BY <1>1, GenesisGood, Zenon DEF GoodChain
<1>3. LedgerReplays /\ IndexExact
  BY <1>2, Zenon DEF LedgerReplays, Replays, IndexExact, IndexOf
<1>4. /\ pool = [m |-> pool.m, ids |-> pool.ids]
      /\ DOMAIN pool.m = {} /\ pool.m \in [DOMAIN pool.m -> Tx] /\ pool.ids = {}
  BY <1>1 DEF EmptyPool
<1>5. PoolFresh /\ PoolConsistent
  BY <1>4 DEF PoolFresh, PoolConsistent
<1>6. miner.have \in BOOLEAN /\ miner.seq \in Nat /\ BlockOK(miner.cand)
  BY <1>1, GenesisOK DEF Idle
<1>7. job.have \in BOOLEAN /\ job.h.height \in Nat
  BY <1>1 DEF NoJob, Genesis
<1>8. workCache \in [DOMAIN workCache -> Seq(Tx)]
  BY <1>1
<1>9. TypeOK
  BY <1>1, <1>2, <1>4, <1>6, <1>7, <1>8 DEF TypeOK
<1>. QED BY <1>2, <1>3, <1>5, <1>9 DEF Inv

---------------------------------------------------------------------------
\* post_chain_change, once the chain has become a good one, with whatever
\* the handler around it does to the miner and the external job.
LEMMA PostChainChangeInv ==
    ASSUME Inv, NEW c, GoodChain(c), c.blocks # << >>, PostChainChange(c),
           miner'.have \in BOOLEAN, miner'.seq \in Nat, BlockOK(miner'.cand),
           job'.have \in BOOLEAN, job'.h.height \in Nat
    PROVE  Inv'
<1>1. chain' = c /\ pool' = Purged(pool, c.st) /\ workCache' = << >> /\ tipSeq' = tipSeq + 1
  BY DEF PostChainChange
<1>2. /\ ChainOK(chain') /\ Replays(chain', TRUE) /\ IndexOf(chain')
      /\ NoncesOf(chain') /\ PlacesOf(chain') /\ SupplyOf(chain')
  BY <1>1, Zenon DEF GoodChain
<1>3. LedgerReplays' /\ IndexExact'
  BY <1>2, Zenon DEF LedgerReplays, Replays, IndexExact, IndexOf
<1>4. /\ pool' = [m |-> pool'.m, ids |-> pool'.ids]
      /\ PoolOK(pool') /\ PoolAgrees(pool')
      /\ \A k \in DOMAIN pool'.m : ~(k[2] < chain'.st[k[1]].nonce)
  BY <1>1, InvPool, PurgedType
<1>5. PoolConsistent'
  BY <1>4 DEF PoolConsistent, PoolAgrees
<1>6. PoolFresh'
  <2>1. ASSUME NEW k \in DOMAIN pool'.m PROVE k[2] >= chain'.st[k[1]].nonce
    <3>1. k \in Addr \X Nat
      BY <1>4 DEF PoolOK
    <3>2. chain'.st \in Accounts
      BY <1>2 DEF ChainOK
    <3>3. k[2] \in Nat /\ chain'.st[k[1]].nonce \in Nat
      BY <3>1, <3>2 DEF Accounts
    <3>. QED BY <1>4, <3>3
  <2>. QED BY <2>1 DEF PoolFresh
<1>7. tipSeq' \in Nat /\ workCache' \in [DOMAIN workCache' -> Seq(Tx)]
  BY <1>1 DEF Inv, TypeOK
<1>8. TypeOK'
  BY <1>1, <1>2, <1>4, <1>7 DEF TypeOK, PoolOK
<1>. QED BY <1>2, <1>3, <1>5, <1>6, <1>8 DEF Inv

\* The steps that leave the chain and the mempool alone.
LEMMA SameChainInv ==
    ASSUME Inv, UNCHANGED <<chain, pool, tipSeq>>,
           workCache' \in [DOMAIN workCache' -> Seq(Tx)],
           miner'.have \in BOOLEAN, miner'.seq \in Nat, BlockOK(miner'.cand),
           job'.have \in BOOLEAN, job'.h.height \in Nat
    PROVE  Inv'
<1>1. chain' = chain /\ pool' = pool /\ tipSeq' = tipSeq
  OBVIOUS
<1>2. /\ LedgerReplays' /\ IndexExact' /\ NoncesOf(chain')
      /\ PlacesOf(chain') /\ SupplyOf(chain')
  BY <1>1, Zenon DEF Inv, LedgerReplays, IndexExact
<1>3. PoolFresh' /\ PoolConsistent'
  BY <1>1 DEF Inv, PoolFresh, PoolConsistent
<1>4. TypeOK'
  BY <1>1 DEF Inv, TypeOK
<1>. QED BY <1>2, <1>3, <1>4 DEF Inv

\* The template is a list of transactions.
LEMMA TemplateType ==
    ASSUME Inv, NEW to \in Addr
    PROVE  Template(to) \in Seq(Tx) /\ Height(chain) + 1 \in Nat
<1>. DEFINE height == Height(chain) + 1
            cb == Coinbase(to, height)
            rest == Collect(pool, chain.st, height)
<1>1. height \in Nat
  <2>1. chain.blocks \in Seq({chain.blocks[i] : i \in DOMAIN chain.blocks})
    BY DEF Inv, TypeOK, ChainOK
  <2>2. Len(chain.blocks) \in Nat
    BY <2>1
  <2>3. height = Len(chain.blocks)
    BY <2>2 DEF Height
  <2>. QED BY <2>2, <2>3
<1>2. cb \in Tx
  BY <1>1, RewardAssumption DEF Coinbase, Tx
<1>3. rest \in Seq(Tx)
  BY InvChain, InvPool, CollectType
<1>4. Template(to) = <<cb>> \o rest
  BY Zenon DEF Template
<1>. HIDE DEF cb, rest
<1>5. <<cb>> \in Seq(Tx)
  BY <1>2
<1>6. <<cb>> \o rest \in Seq(Tx)
  BY <1>3, <1>5, ConcatProperties
<1>. QED BY <1>1, <1>4, <1>6

\* The miner and the external job, by type.
LEMMA InvWork ==
    ASSUME Inv
    PROVE  /\ miner.have \in BOOLEAN /\ miner.seq \in Nat /\ BlockOK(miner.cand)
           /\ job.have \in BOOLEAN /\ job.h.height \in Nat
           /\ workCache \in [DOMAIN workCache -> Seq(Tx)]
BY DEF Inv, TypeOK

\* The values of the miner's locals and of the job when there is no work.
LEMMA IdleType ==
    /\ Idle.have \in BOOLEAN /\ Idle.seq \in Nat /\ BlockOK(Idle.cand)
    /\ NoJob.have \in BOOLEAN /\ NoJob.h.height \in Nat
BY GenesisOK DEF Idle, NoJob, Genesis

---------------------------------------------------------------------------
(* One lemma per action *)

\* POST /submit and M_TX: only the pool changes, and Mempool::add keeps it.
LEMMA ReceiveTxInv ==
    ASSUME Inv, NEW t \in Wire, ReceiveTx(t)
    PROVE  Inv'
<1>1. /\ CanAdd(pool, t, chain.st) /\ pool' = Added(pool, t)
      /\ chain' = chain /\ tipSeq' = tipSeq /\ workCache' = workCache
      /\ miner' = miner /\ job' = job
  BY DEF ReceiveTx
<1>2. t \in Tx
  BY WireAssumption
<1>3. /\ pool' = [m |-> pool'.m, ids |-> pool'.ids]
      /\ PoolOK(pool') /\ PoolAgrees(pool')
      /\ \A k \in DOMAIN pool'.m : k \in DOMAIN pool.m \/ k[2] >= chain.st[k[1]].nonce
  BY <1>1, <1>2, InvChain, InvPool, AddedType
<1>4. PoolFresh' /\ PoolConsistent'
  BY <1>1, <1>3 DEF Inv, PoolFresh, PoolConsistent, PoolAgrees
<1>5. /\ LedgerReplays' /\ IndexExact' /\ NoncesOf(chain')
      /\ PlacesOf(chain') /\ SupplyOf(chain')
  BY <1>1, Zenon DEF Inv, LedgerReplays, IndexExact
<1>6. TypeOK'
  BY <1>1, <1>3 DEF Inv, TypeOK, PoolOK
<1>. QED BY <1>4, <1>5, <1>6 DEF Inv

\* The miner's snapshot changes only its own locals.
LEMMA MinerSnapshotInv ==
    ASSUME Inv, NEW heartbeat \in BOOLEAN, MinerSnapshot(heartbeat)
    PROVE  Inv'
<1>. DEFINE cand == MakeBlock(TipHash(chain), Height(chain) + 1, Template(MinerAddr))
<1>1. /\ miner' = [have |-> TRUE, seq |-> tipSeq, cand |-> cand]
      /\ UNCHANGED <<chain, pool, tipSeq>> /\ workCache' = workCache /\ job' = job
  BY DEF MinerSnapshot
<1>2. BlockOK(cand)
  BY TemplateType, MinerAddrAssumption DEF BlockOK, MakeBlock
<1>. HIDE DEF cand
<1>3. miner'.have \in BOOLEAN /\ miner'.seq \in Nat /\ BlockOK(miner'.cand)
  BY <1>1, <1>2 DEF Inv, TypeOK
<1>. QED BY <1>1, <1>3, InvWork, SameChainInv

\* The miner connects its block to a good chain, or changes nothing.
LEMMA MinerSubmitInv ==
    ASSUME Inv, MinerSubmit
    PROVE  Inv'
<1>1. miner' = Idle /\ job' = job
  BY DEF MinerSubmit
<1>2. /\ miner'.have \in BOOLEAN /\ miner'.seq \in Nat /\ BlockOK(miner'.cand)
      /\ job'.have \in BOOLEAN /\ job'.h.height \in Nat
  BY <1>1, InvWork, IdleType
<1>3. CASE CanConnect(chain, miner.cand, TRUE) /\ PostChainChange(Connected(chain, miner.cand))
  <2>1. GoodChain(Connected(chain, miner.cand)) /\ Connected(chain, miner.cand).blocks # << >>
    BY <1>3, InvChain, InvWork, ConnectGood, Zenon
  <2>. QED BY <1>2, <1>3, <2>1, PostChainChangeInv
<1>4. CASE ChainUnchanged
  BY <1>2, <1>4, InvWork, SameChainInv DEF ChainUnchanged
<1>. QED BY <1>3, <1>4, Zenon DEF MinerSubmit

\* GET /work changes only the cache and the job.
LEMMA GetWorkInv ==
    ASSUME Inv, NEW to \in Addr, GetWork(to)
    PROVE  Inv'
<1>. DEFINE txs == Template(to)
            root == TxRoot(txs)
            kept == IF Cardinality(DOMAIN workCache) > MaxWork THEN << >> ELSE workCache
<1>1. /\ workCache' = [r \in DOMAIN kept \cup {root} |-> IF r = root THEN txs ELSE kept[r]]
      /\ job' = [have |-> TRUE, h |-> MakeBlock(TipHash(chain), Height(chain) + 1, txs).h]
      /\ UNCHANGED <<chain, pool, tipSeq>> /\ miner' = miner
  BY Zenon DEF GetWork
<1>2. txs \in Seq(Tx) /\ Height(chain) + 1 \in Nat
  BY TemplateType
<1>3. kept \in [DOMAIN kept -> Seq(Tx)]
  BY InvWork
<1>. HIDE DEF txs, root, kept
<1>4. workCache' \in [DOMAIN workCache' -> Seq(Tx)]
  BY <1>1, <1>2, <1>3
<1>5. job'.have \in BOOLEAN /\ job'.h.height \in Nat
  BY <1>1, <1>2 DEF MakeBlock
<1>. QED BY <1>1, <1>4, <1>5, InvWork, SameChainInv

\* POST /submitwork connects its block to a good chain, or changes nothing.
LEMMA SubmitWorkInv ==
    ASSUME Inv, SubmitWork
    PROVE  Inv'
<1>. DEFINE b == WorkBlock(job.h)
<1>1. job' = NoJob /\ miner' = miner
  BY DEF SubmitWork
<1>2. /\ miner'.have \in BOOLEAN /\ miner'.seq \in Nat /\ BlockOK(miner'.cand)
      /\ job'.have \in BOOLEAN /\ job'.h.height \in Nat
  BY <1>1, InvWork, IdleType
<1>3. CASE /\ job.h.merkle \in DOMAIN workCache /\ CanConnect(chain, b, TRUE)
           /\ PostChainChange(Connected(chain, b))
  <2>1. BlockOK(b)
    BY <1>3, InvWork DEF BlockOK, WorkBlock
  <2>. HIDE DEF b
  <2>2. GoodChain(Connected(chain, b)) /\ Connected(chain, b).blocks # << >>
    BY <1>3, <2>1, InvChain, ConnectGood, Zenon
  <2>. QED BY <1>2, <1>3, <2>2, PostChainChangeInv
<1>4. CASE ChainUnchanged
  BY <1>2, <1>4, InvWork, SameChainInv DEF ChainUnchanged
<1>. QED BY <1>3, <1>4, Zenon DEF SubmitWork

\* M_BLOCK connects one block.
LEMMA ReceiveBlockInv ==
    ASSUME Inv, NEW b, BlockOK(b), NEW timely \in BOOLEAN, ReceiveBlock(b, timely)
    PROVE  Inv'
<1>1. /\ CanConnect(chain, b, timely) /\ PostChainChange(Connected(chain, b))
      /\ miner' = miner /\ job' = job
  BY DEF ReceiveBlock
<1>2. GoodChain(Connected(chain, b)) /\ Connected(chain, b).blocks # << >>
  BY <1>1, InvChain, ConnectGood
<1>. QED BY <1>1, <1>2, InvWork, PostChainChangeInv

\* A list of blocks as a peer serves it.
BlockList(v) ==
    v \in Seq({v[i] : i \in DOMAIN v}) /\ \A i \in DOMAIN v : BlockOK(v[i])

\* M_BLOCKS in sync_mode 1 connects at least one block.
LEMMA ExtendWithInv ==
    ASSUME Inv, NEW v, BlockList(v), NEW timely \in BOOLEAN, ExtendWith(v, timely)
    PROVE  Inv'
<1>. DEFINE r == ConnectAll(chain, v, timely)
<1>1. r.okc > 0 /\ PostChainChange(r.chain) /\ miner' = miner /\ job' = job
  BY Zenon DEF ExtendWith
<1>2. GoodChain(r.chain) /\ r.chain.blocks # << >>
  BY <1>1, InvChain, ConnectAllGood DEF BlockList
<1>. HIDE DEF r
<1>. QED BY <1>1, <1>2, InvWork, PostChainChangeInv

\* M_BLOCKS that ends a full download: try_replace swaps in a good chain.
LEMMA ReplaceWithInv ==
    ASSUME Inv, NEW v, BlockList(v), NEW timely \in BOOLEAN, ReplaceWith(v, timely)
    PROVE  Inv'
<1>. DEFINE d == Replaced(v, timely)
<1>1. CanReplace(chain, v, timely) /\ PostChainChange(d) /\ miner' = miner /\ job' = job
  BY Zenon DEF ReplaceWith
<1>2. GoodChain(d) /\ d.blocks # << >>
  BY <1>1, ReplaceGood DEF BlockList
<1>. HIDE DEF d
<1>. QED BY <1>1, <1>2, InvWork, PostChainChangeInv

\* What is left of an offered chain from its i-th block on is one, too.
LEMMA OfferType ==
    ASSUME NEW c \in Offers, NEW i \in DOMAIN c
    PROVE  BlockList(c) /\ BlockList(SubSeq(c, i, Len(c))) /\ BlockOK(c[i])
<1>. DEFINE B == {c[j] : j \in DOMAIN c}
            v == SubSeq(c, i, Len(c))
<1>1. c \in Seq(B) /\ \A j \in DOMAIN c : BlockOK(c[j])
  BY OffersAssumption
<1>2. i \in 1 .. Len(c) /\ Len(c) \in Nat /\ \A x \in B : BlockOK(x)
  BY <1>1
<1>. HIDE DEF B
<1>3. v \in Seq(B)
  BY <1>1, <1>2, SubSeqProperties
<1>. HIDE DEF v
<1>4. v \in Seq({v[j] : j \in DOMAIN v}) /\ \A j \in DOMAIN v : BlockOK(v[j])
  BY <1>2, <1>3
<1>. QED BY <1>1, <1>4, OffersAssumption DEF BlockList, v

\* Every step of the node keeps the invariant.
LEMMA NextInv == Inv /\ [Next]_vars => Inv'
<1>. SUFFICES ASSUME Inv, [Next]_vars PROVE Inv'
  OBVIOUS
<1>1. ASSUME NEW t \in Wire, ReceiveTx(t) \/ SubmitTx(t) PROVE Inv'
  BY <1>1, ReceiveTxInv DEF SubmitTx
<1>2. ASSUME NEW heartbeat \in BOOLEAN, MinerSnapshot(heartbeat) PROVE Inv'
  BY <1>2, MinerSnapshotInv
<1>3. CASE MinerSubmit
  BY <1>3, MinerSubmitInv
<1>4. ASSUME NEW to \in Addr, GetWork(to) PROVE Inv'
  BY <1>4, GetWorkInv
<1>5. CASE SubmitWork
  BY <1>5, SubmitWorkInv
<1>6. ASSUME NEW c \in Offers, NEW timely \in BOOLEAN, NEW i \in DOMAIN c,
             ReceiveBlock(c[i], timely)
      PROVE  Inv'
  BY <1>6, OfferType, ReceiveBlockInv
<1>7. ASSUME NEW c \in Offers, NEW timely \in BOOLEAN, NEW i \in DOMAIN c,
             ExtendWith(SubSeq(c, i, Len(c)), timely)
      PROVE  Inv'
  BY <1>7, OfferType, ExtendWithInv
<1>8. ASSUME NEW c \in Offers, NEW timely \in BOOLEAN, ReplaceWith(c, timely)
      PROVE  Inv'
  <2>1. BlockList(c)
    BY OffersAssumption DEF BlockList
  <2>. QED BY <1>8, <2>1, ReplaceWithInv
<1>9. CASE UNCHANGED vars
  <2>1. /\ UNCHANGED <<chain, pool, tipSeq>>
        /\ workCache' = workCache /\ miner' = miner /\ job' = job
    BY <1>9 DEF vars
  <2>. QED BY <2>1, InvWork, SameChainInv
<1>. QED
  BY <1>1, <1>2, <1>3, <1>4, <1>5, <1>6, <1>7, <1>8, <1>9, Zenon DEF Next

---------------------------------------------------------------------------
(* The theorems *)

\* The inductive invariant holds in every state of every run of a node: the
\* theorems below are its parts.
THEOREM InvHolds == Spec => []Inv
BY InitInv, NextInv, PTL DEF Spec

\* The node's state keeps its types: no balance or nonce goes below zero,
\* whatever blocks and transactions arrive.
THEOREM TypeCorrect == Spec => []TypeOK
<1>1. Inv => TypeOK
  BY DEF Inv
<1>. QED BY <1>1, InvHolds, PTL

\* Account state, index and work are at all times what replaying the blocks
\* from an empty chain gives, through extensions and reorganisations.
THEOREM ReplayTheorem == Spec => []LedgerReplays
<1>1. Inv => LedgerReplays
  BY DEF Inv
<1>. QED BY <1>1, InvHolds, PTL

\* txidx finds exactly the transactions of the current chain.
THEOREM IndexTheorem == Spec => []IndexExact
<1>1. Inv => IndexExact
  BY DEF Inv
<1>. QED BY <1>1, InvHolds, PTL

\* No transfer, block or reorganisation creates or destroys coin: the balances
\* add up to one reward per block above genesis.
THEOREM SupplyTheorem == Spec => []SupplyConserved
<1>1. ASSUME Inv PROVE SupplyConserved
  <2>1. Total(chain.st) = Reward * Height(chain)
    BY <1>1 DEF Inv, TypeOK, SupplyOf
  <2>. QED BY <2>1, Zenon DEF SupplyConserved, Total
<1>. QED BY <1>1, InvHolds, PTL

\* No pooled transaction has a nonce that the chain has consumed.
THEOREM PoolFreshTheorem == Spec => []PoolFresh
<1>1. Inv => PoolFresh
  BY DEF Inv
<1>. QED BY <1>1, InvHolds, PTL

\* The two maps of the mempool agree.
THEOREM PoolConsistentTheorem == Spec => []PoolConsistent
<1>1. Inv => PoolConsistent
  BY DEF Inv
<1>. QED BY <1>1, InvHolds, PTL

\* The transactions of one account have its nonces from 0 up, one each: there
\* are as many as its nonce says.
LEMMA NonceCounts ==
    ASSUME NEW T, NEW f, NEW n \in Nat,
           \A p \in T : f[p] \in 0 .. n - 1,
           \A p, q \in T : f[p] = f[q] => p = q,
           \A m \in 0 .. n - 1 : \E p \in T : f[p] = m
    PROVE  Cardinality(T) = n
<1>. DEFINE g == [m \in 1 .. n |-> CHOOSE p \in T : f[p] = m - 1]
<1>1. \A m \in 1 .. n : g[m] \in T /\ f[g[m]] = m - 1
  <2>1. ASSUME NEW m \in 1 .. n PROVE g[m] \in T /\ f[g[m]] = m - 1
    <3>1. m - 1 \in 0 .. n - 1 OBVIOUS
    <3>2. \E p \in T : f[p] = m - 1 BY <3>1
    <3>3. g[m] = CHOOSE p \in T : f[p] = m - 1 OBVIOUS
    <3>. QED BY <3>2, <3>3, Zenon
  <2>. QED BY <2>1
<1>2. g \in [1 .. n -> T]
  <2>1. \A m \in 1 .. n : (CHOOSE p \in T : f[p] = m - 1) \in T BY <1>1
  <2>. QED BY <2>1
<1>. HIDE DEF g
<1>3. \A j, k \in 1 .. n : g[j] = g[k] => j = k BY <1>1
<1>4. \A p \in T : \E m \in 1 .. n : g[m] = p
  <2>1. ASSUME NEW p \in T PROVE \E m \in 1 .. n : g[m] = p
    <3>1. f[p] + 1 \in 1 .. n /\ (f[p] + 1) - 1 = f[p] OBVIOUS
    <3>2. g[f[p] + 1] = p BY <1>1, <3>1
    <3>. QED BY <3>1, <3>2
  <2>. QED BY <2>1
<1>5. g \in Bijection(1 .. n, T)
  BY <1>2, <1>3, <1>4 DEF Bijection, Injection, Surjection, IsInjective
<1>6. ExistsBijection(1 .. n, T) BY <1>5, Zenon DEF ExistsBijection
<1>. QED BY <1>6, FS_CountingElements

\* Replay protection: no signed transaction is ever on the chain twice, in
\* whatever blocks, and every account's nonce counts its transactions.
THEOREM NoReplayTheorem == Spec => []NoReplay
<1>1. ASSUME Inv PROVE NoReplay
  <2>. DEFINE spent == {p \in (DOMAIN chain.blocks) \X (1 .. MaxBlockTxs) :
                           /\ p[2] \in DOMAIN chain.blocks[p[1]].txs
                           /\ chain.blocks[p[1]].txs[p[2]].type # "coinbase"}
              at(p) == chain.blocks[p[1]].txs[p[2]]
  <2>1. NoncesOf(chain) /\ ChainOK(chain) BY <1>1 DEF Inv, TypeOK
  <2>2. DOMAIN chain.blocks \subseteq Nat
    <3>. DEFINE B == {chain.blocks[i] : i \in DOMAIN chain.blocks}
    <3>1. chain.blocks \in Seq(B) BY <2>1 DEF ChainOK
    <3>. HIDE DEF B
    <3>. QED BY <3>1
  <2>3. \A p \in spent : /\ p[1] \in Nat /\ p[2] \in Nat /\ p = <<p[1], p[2]>>
                         /\ Spent(chain, p[1], p[2])
    BY <2>2 DEF Spent
  <2>4. ASSUME NEW i \in Nat, NEW j \in Nat, Spent(chain, i, j) PROVE <<i, j>> \in spent
    <3>1. i \in DOMAIN chain.blocks /\ j \in DOMAIN chain.blocks[i].txs BY <2>4 DEF Spent
    <3>2. chain.blocks[i].txs \in Seq(Tx) BY <2>1, <3>1 DEF ChainOK, BlockOK
    <3>3. Len(chain.blocks[i].txs) <= MaxBlockTxs BY <2>1, <3>1 DEF NoncesOf
    <3>4. j \in 1 .. MaxBlockTxs BY <3>1, <3>2, <3>3, LimitsAssumption
    <3>. QED BY <2>4, <3>1, <3>4 DEF Spent
  <2>5. \A p \in spent : at(p) \in Tx
    <3>1. \A p \in spent : p[1] \in DOMAIN chain.blocks /\ p[2] \in DOMAIN chain.blocks[p[1]].txs
      OBVIOUS
    <3>2. \A i \in DOMAIN chain.blocks : chain.blocks[i].txs \in Seq(Tx)
      BY <2>1 DEF ChainOK, BlockOK
    <3>. HIDE DEF spent
    <3>. QED BY <3>1, <3>2
  <2>. HIDE DEF spent
  <2>6. \A p, q \in spent : Key(at(p)) = Key(at(q)) => p = q
    <3>. SUFFICES ASSUME NEW p \in spent, NEW q \in spent, Key(at(p)) = Key(at(q)) PROVE p = q
      OBVIOUS
    <3>1. p[1] = q[1] /\ p[2] = q[2] BY <2>1, <2>3, SMTT(30) DEF NoncesOf
    <3>. QED BY <2>3, <3>1
  <2>7. ASSUME NEW a \in Addr PROVE chain.st[a].nonce = Cardinality({p \in spent : at(p).from = a})
    <3>. DEFINE T == {p \in spent : at(p).from = a}
                n == chain.st[a].nonce
                f == [p \in T |-> at(p).nonce]
    <3>1. n \in Nat BY <2>1 DEF ChainOK, Accounts
    <3>2. ASSUME NEW p \in T PROVE f[p] \in 0 .. n - 1
      <4>1. p \in spent /\ at(p).from = a /\ f[p] = at(p).nonce OBVIOUS
      <4>2. at(p).nonce < n BY <2>1, <2>3, <4>1 DEF NoncesOf
      <4>3. at(p).nonce \in Nat BY <2>5, <4>1 DEF Tx
      <4>. HIDE DEF f, n
      <4>4. at(p).nonce \in 0 .. n - 1 BY <3>1, <4>2, <4>3
      <4>. QED BY <4>1, <4>4, Zenon
    <3>3. ASSUME NEW p \in T, NEW q \in T, f[p] = f[q] PROVE p = q
      BY <2>6, <3>3 DEF Key
    <3>4. ASSUME NEW m \in 0 .. n - 1 PROVE \E p \in T : f[p] = m
      <4>1. m \in Nat /\ m < chain.st[a].nonce BY <3>1
      <4>2. PICK i, j \in Nat : Spent(chain, i, j) /\ Key(chain.blocks[i].txs[j]) = <<a, m>>
        BY <2>1, <4>1 DEF NoncesOf
      <4>3. <<i, j>> \in spent /\ at(<<i, j>>).from = a /\ at(<<i, j>>).nonce = m
        BY <2>4, <4>2 DEF Key
      <4>4. <<i, j>> \in T /\ f[<<i, j>>] = m BY <4>3
      <4>. QED BY <4>4
    <3>. HIDE DEF T, n, f
    <3>5. Cardinality(T) = n BY <3>1, <3>2, <3>3, <3>4, NonceCounts
    <3>. QED BY <3>5 DEF T, n
  <2>. QED BY <2>6, <2>7, Zenon DEF NoReplay, spent
<1>. QED BY <1>1, InvHolds, PTL

\* A transaction that the chain has confirmed has consumed its nonce, and one
\* that is pending has not: none is both.
THEOREM NotConfirmedTheorem == Spec => []PoolNotConfirmed
<1>1. ASSUME Inv PROVE PoolNotConfirmed
  <2>. SUFFICES ASSUME NEW t \in pool.ids, t \in DOMAIN chain.txidx PROVE FALSE
    BY DEF PoolNotConfirmed
  <2>1. PICK k \in DOMAIN pool.m : t = pool.m[k] BY <1>1 DEF Inv, PoolConsistent, TxId
  <2>2. Key(t) = k /\ WellFormed(t) /\ k[2] >= chain.st[k[1]].nonce
    BY <1>1, <2>1 DEF Inv, PoolConsistent, PoolFresh
  <2>3. t.type # "coinbase" BY <2>2 DEF WellFormed
  <2>. DEFINE i == chain.txidx[t][1] + 1
              j == chain.txidx[t][2] + 1
  <2>4. i \in DOMAIN chain.blocks /\ j \in DOMAIN chain.blocks[i].txs /\ chain.blocks[i].txs[j] = t
    BY <1>1 DEF Inv, IndexExact, TxId
  <2>5. i \in Nat /\ j \in Nat
    <3>1. chain.txidx[t] \in Nat \X Nat BY <1>1 DEF Inv, TypeOK, ChainOK
    <3>. QED BY <3>1
  <2>. HIDE DEF i, j
  <2>6. t.from \in Addr /\ t.nonce < chain.st[t.from].nonce
    BY <1>1, <2>3, <2>4, <2>5 DEF Inv, NoncesOf, Spent
  <2>7. t.nonce >= chain.st[t.from].nonce BY <2>2 DEF Key
  <2>8. t.nonce \in Nat /\ chain.st[t.from].nonce \in Nat
    <3>1. chain.st \in Accounts BY <1>1, InvChain
    <3>2. t \in Tx BY <1>1, <2>1 DEF Inv, TypeOK
    <3>. QED BY <2>6, <3>1, <3>2 DEF Accounts, Tx
  <2>. QED BY <2>6, <2>7, <2>8
<1>. QED BY <1>1, InvHolds, PTL

---------------------------------------------------------------------------
(* Mining *)

\* What the miners rely on: a candidate of the current tip_seq connects; the
\* cache holds, under its root, what connects to the current tip; and a job
\* is for that tip for as long as the cache holds anything.
MiningInv ==
    /\ miner.have => miner.seq <= tipSeq
    /\ CandidateConnects
    /\ \A r \in DOMAIN workCache :
          TxRoot(workCache[r]) = r /\ Mineable(chain, workCache[r])
    /\ job.have /\ DOMAIN workCache # {}
          => /\ job.h.prev = TipHash(chain)
             /\ job.h.height = Height(chain) + 1
             /\ HeaderOk(job.h)

\* The template for any address connects.
LEMMA TemplateMineable ==
    ASSUME Inv, NEW to \in Addr
    PROVE  Mineable(chain, Template(to))
<1>1. chain.st \in Accounts /\ PoolOK(pool) /\ Height(chain) + 1 \in Nat
  BY InvChain, InvPool, TemplateType
<1>2. Template(to) = <<Coinbase(to, Height(chain) + 1)>>
                        \o Collect(pool, chain.st, Height(chain) + 1)
  BY Zenon DEF Template
<1>. QED BY <1>1, <1>2, CollectMineable

\* post_chain_change empties the cache and outdates the candidate.
LEMMA PostChainChangeMining ==
    ASSUME Inv, MiningInv, NEW c, PostChainChange(c), miner' = miner \/ miner' = Idle
    PROVE  MiningInv'
<1>1. workCache' = << >> /\ tipSeq' = tipSeq + 1 /\ tipSeq \in Nat /\ miner.seq \in Nat
  BY DEF PostChainChange, Inv, TypeOK
<1>2. DOMAIN workCache' = {}
  BY <1>1
<1>3. miner'.have => miner'.seq <= tipSeq' /\ miner'.seq # tipSeq'
  BY <1>1 DEF MiningInv, Idle
<1>. QED BY <1>2, <1>3 DEF MiningInv, CandidateConnects

\* Without a change of the chain, giving up the candidate or the job is safe.
LEMMA SameChainMining ==
    ASSUME MiningInv, chain' = chain, tipSeq' = tipSeq, workCache' = workCache,
           miner' = miner \/ miner' = Idle, job' = job \/ job' = NoJob
    PROVE  MiningInv'
<1>1. miner'.have => miner' = miner
  BY DEF Idle
<1>2. job'.have => job' = job
  BY DEF NoJob
<1>3. (miner.have => miner.seq <= tipSeq)' /\ CandidateConnects'
  BY <1>1 DEF MiningInv, CandidateConnects
<1>4. \A r \in DOMAIN workCache' :
         TxRoot(workCache'[r]) = r /\ Mineable(chain', workCache'[r])
  BY DEF MiningInv
<1>5. job'.have /\ DOMAIN workCache' # {}
         => /\ job'.h.prev = TipHash(chain')
            /\ job'.h.height = Height(chain') + 1
            /\ HeaderOk(job'.h)
  BY <1>2 DEF MiningInv
<1>. QED BY <1>3, <1>4, <1>5 DEF MiningInv

\* A block made of a mineable list for the current tip connects.
LEMMA MineableConnects ==
    ASSUME Inv, NEW b, Mineable(chain, b.txs), b.h.prev = TipHash(chain),
           b.h.height = Height(chain) + 1, HeaderOk(b.h), TxRoot(b.txs) = b.h.merkle
    PROVE  CanConnect(chain, b, TRUE)
<1>1. chain.blocks # << >>
  BY InvChain
<1>2. /\ Len(b.txs) \in 1 .. MaxBlockTxs
      /\ TxLoop(chain.st, b.txs, b.h.height)[Len(b.txs)].ok
  BY DEF Mineable
<1>. QED BY <1>1, <1>2, Zenon DEF CanConnect

\* The miner's snapshot is a candidate that connects.
LEMMA MinerSnapshotMining ==
    ASSUME Inv, MiningInv, NEW heartbeat \in BOOLEAN, MinerSnapshot(heartbeat)
    PROVE  MiningInv'
<1>. DEFINE txs == Template(MinerAddr)
            cand == MakeBlock(TipHash(chain), Height(chain) + 1, txs)
<1>1. /\ miner' = [have |-> TRUE, seq |-> tipSeq, cand |-> cand] /\ tipSeq \in Nat
      /\ chain' = chain /\ tipSeq' = tipSeq /\ workCache' = workCache /\ job' = job
  BY DEF MinerSnapshot, Inv, TypeOK
<1>2. Mineable(chain, txs)
  BY TemplateMineable, MinerAddrAssumption
<1>. HIDE DEF txs
<1>3. /\ cand.txs = txs /\ cand.h.prev = TipHash(chain)
      /\ cand.h.height = Height(chain) + 1 /\ HeaderOk(cand.h) /\ TxRoot(cand.txs) = cand.h.merkle
  BY DEF MakeBlock, HeaderOk
<1>. HIDE DEF cand
<1>4. CanConnect(chain, cand, TRUE)
  BY <1>2, <1>3, MineableConnects
<1>5. miner'.seq <= tipSeq' /\ CandidateConnects'
  <2>1. miner'.cand = cand /\ miner'.seq = tipSeq'
    BY <1>1
  <2>2. CanConnect(chain', miner'.cand, TRUE)
    BY <1>1, <1>4, <2>1
  <2>3. CandidateConnects'
    BY <2>2, Zenon DEF CandidateConnects
  <2>4. miner'.seq <= tipSeq'
    BY <1>1, <2>1
  <2>. QED BY <2>3, <2>4
<1>. QED BY <1>1, <1>5 DEF MiningInv

\* GET /work caches what connects under its root, for the current tip.
LEMMA GetWorkMining ==
    ASSUME Inv, MiningInv, NEW to \in Addr, GetWork(to)
    PROVE  MiningInv'
<1>. DEFINE txs == Template(to)
            root == TxRoot(txs)
            kept == IF Cardinality(DOMAIN workCache) > MaxWork THEN << >> ELSE workCache
<1>1. /\ workCache' = [r \in DOMAIN kept \cup {root} |-> IF r = root THEN txs ELSE kept[r]]
      /\ job' = [have |-> TRUE, h |-> MakeBlock(TipHash(chain), Height(chain) + 1, txs).h]
      /\ chain' = chain /\ tipSeq' = tipSeq /\ miner' = miner
  BY Zenon DEF GetWork
<1>2. Mineable(chain, txs)
  BY TemplateMineable
<1>3. \A r \in DOMAIN kept : TxRoot(kept[r]) = r /\ Mineable(chain, kept[r])
  BY DEF MiningInv
<1>4. TxRoot(txs) = root
  OBVIOUS
<1>. HIDE DEF txs, root, kept
<1>5. \A r \in DOMAIN workCache' :
         TxRoot(workCache'[r]) = r /\ Mineable(chain', workCache'[r])
  BY <1>1, <1>2, <1>3, <1>4
<1>6. /\ job'.h.prev = TipHash(chain') /\ job'.h.height = Height(chain') + 1 /\ HeaderOk(job'.h)
  BY <1>1 DEF MakeBlock, HeaderOk
<1>7. (miner.have => miner.seq <= tipSeq)' /\ CandidateConnects'
  BY <1>1 DEF MiningInv, CandidateConnects
<1>. QED BY <1>5, <1>6, <1>7 DEF MiningInv

\* Every step keeps MiningInv.
LEMMA NextMining == Inv /\ MiningInv /\ [Next]_vars => MiningInv'
<1>. SUFFICES ASSUME Inv, MiningInv, [Next]_vars PROVE MiningInv'
  OBVIOUS
<1>1. ASSUME NEW t \in Wire, ReceiveTx(t) \/ SubmitTx(t) PROVE MiningInv'
  BY <1>1, SameChainMining DEF ReceiveTx, SubmitTx
<1>2. ASSUME NEW heartbeat \in BOOLEAN, MinerSnapshot(heartbeat) PROVE MiningInv'
  BY <1>2, MinerSnapshotMining
<1>3. CASE MinerSubmit
  <2>1. miner' = Idle /\ job' = job
    BY <1>3 DEF MinerSubmit
  <2>2. CASE PostChainChange(Connected(chain, miner.cand))
    BY <2>1, <2>2, PostChainChangeMining
  <2>3. CASE ChainUnchanged
    BY <2>1, <2>3, SameChainMining DEF ChainUnchanged
  <2>. QED BY <1>3, <2>2, <2>3, Zenon DEF MinerSubmit
<1>4. ASSUME NEW to \in Addr, GetWork(to) PROVE MiningInv'
  BY <1>4, GetWorkMining
<1>5. CASE SubmitWork
  <2>1. miner' = miner /\ job' = NoJob
    BY <1>5 DEF SubmitWork
  <2>2. CASE PostChainChange(Connected(chain, WorkBlock(job.h)))
    BY <2>1, <2>2, PostChainChangeMining
  <2>3. CASE ChainUnchanged
    BY <2>1, <2>3, SameChainMining DEF ChainUnchanged
  <2>. QED BY <1>5, <2>2, <2>3, Zenon DEF SubmitWork
<1>6. ASSUME NEW c, PostChainChange(c), UNCHANGED <<miner, job>> PROVE MiningInv'
  BY <1>6, PostChainChangeMining
<1>7. ASSUME NEW c \in Offers, NEW timely \in BOOLEAN, NEW i \in DOMAIN c,
             \/ ReceiveBlock(c[i], timely)
             \/ ExtendWith(SubSeq(c, i, Len(c)), timely)
      PROVE  MiningInv'
  BY <1>6, <1>7, Zenon DEF ReceiveBlock, ExtendWith
<1>8. ASSUME NEW c \in Offers, NEW timely \in BOOLEAN, ReplaceWith(c, timely)
      PROVE  MiningInv'
  BY <1>6, <1>8, Zenon DEF ReplaceWith
<1>9. CASE UNCHANGED vars
  BY <1>9, SameChainMining DEF vars
<1>. QED
  BY <1>1, <1>2, <1>3, <1>4, <1>5, <1>7, <1>8, <1>9, Zenon DEF Next

\* Both invariants hold in every state of every run of a node.
THEOREM MiningInvHolds == Spec => [](Inv /\ MiningInv)
<1>1. Init => MiningInv
  BY DEF Init, MiningInv, CandidateConnects, Idle, NoJob
<1>. QED BY <1>1, InitInv, NextInv, NextMining, PTL DEF Spec

\* The miner never loses a solved block to its own validation: a candidate
\* whose tip_seq is still current connects.
THEOREM CandidateTheorem == Spec => []CandidateConnects
<1>1. MiningInv => CandidateConnects
  BY DEF MiningInv
<1>. QED BY <1>1, MiningInvHolds, PTL

\* Nor does an external miner: a solved header whose root is still cached
\* connects.
THEOREM WorkTheorem == Spec => []WorkConnects
<1>1. ASSUME Inv, MiningInv PROVE WorkConnects
  <2>. SUFFICES ASSUME job.have, job.h.merkle \in DOMAIN workCache
                PROVE  CanConnect(chain, WorkBlock(job.h), TRUE)
    BY DEF WorkConnects
  <2>. DEFINE b == WorkBlock(job.h)
  <2>1. b.h = job.h /\ b.txs = workCache[job.h.merkle]
    BY DEF WorkBlock
  <2>. HIDE DEF b
  <2>2. /\ TxRoot(b.txs) = b.h.merkle /\ Mineable(chain, b.txs)
        /\ b.h.prev = TipHash(chain) /\ b.h.height = Height(chain) + 1 /\ HeaderOk(b.h)
    BY <1>1, <2>1 DEF MiningInv
  <2>3. CanConnect(chain, b, TRUE)
    BY <1>1, <2>2, MineableConnects
  <2>. QED BY <2>3 DEF b
<1>. QED BY <1>1, MiningInvHolds, PTL

---------------------------------------------------------------------------
(* Fork choice *)

\* A step that changes the chain gives it more work and moves tip_seq.
LEMMA StepHeavier ==
    ASSUME Inv, [Next]_vars
    PROVE  chain' # chain => chain'.work > chain.work /\ tipSeq' > tipSeq
<1>. DEFINE Heavier == chain'.work > chain.work /\ tipSeq' > tipSeq
<1>1. ASSUME NEW c, PostChainChange(c), c.work > chain.work PROVE Heavier
  <2>1. chain' = c /\ tipSeq' = tipSeq + 1
    BY <1>1 DEF PostChainChange
  <2>2. tipSeq \in Nat
    BY DEF Inv, TypeOK
  <2>. QED BY <1>1, <2>1, <2>2
<1>2. ASSUME NEW b, BlockOK(b), NEW timely \in BOOLEAN, CanConnect(chain, b, timely),
             PostChainChange(Connected(chain, b))
      PROVE  Heavier
  <2>1. Connected(chain, b).work > chain.work
    BY <1>2, InvChain, ConnectGood
  <2>. QED BY <1>1, <1>2, <2>1, Zenon
<1>3. CASE MinerSubmit
  <2>1. CASE ChainUnchanged
    BY <2>1 DEF ChainUnchanged
  <2>2. CASE CanConnect(chain, miner.cand, TRUE) /\ PostChainChange(Connected(chain, miner.cand))
    BY <1>2, <2>2, InvWork, Zenon
  <2>. QED BY <1>3, <2>1, <2>2, Zenon DEF MinerSubmit
<1>4. CASE SubmitWork
  <2>. DEFINE b == WorkBlock(job.h)
  <2>1. CASE ChainUnchanged
    BY <2>1 DEF ChainUnchanged
  <2>2. CASE /\ job.h.merkle \in DOMAIN workCache /\ CanConnect(chain, b, TRUE)
             /\ PostChainChange(Connected(chain, b))
    <3>1. BlockOK(b)
      BY <2>2, InvWork DEF BlockOK, WorkBlock
    <3>. HIDE DEF b
    <3>. QED BY <1>2, <2>2, <3>1, Zenon
  <2>. QED BY <1>4, <2>1, <2>2, Zenon DEF SubmitWork
<1>5. ASSUME NEW c \in Offers, NEW timely \in BOOLEAN, NEW i \in DOMAIN c,
             ReceiveBlock(c[i], timely)
      PROVE  Heavier
  BY <1>2, <1>5, OfferType, Zenon DEF ReceiveBlock
<1>6. ASSUME NEW c \in Offers, NEW timely \in BOOLEAN, NEW i \in DOMAIN c,
             ExtendWith(SubSeq(c, i, Len(c)), timely)
      PROVE  Heavier
  <2>. DEFINE v == SubSeq(c, i, Len(c))
              r == ConnectAll(chain, v, timely)
  <2>1. r.okc > 0 /\ PostChainChange(r.chain)
    BY <1>6, Zenon DEF ExtendWith
  <2>2. BlockList(v)
    BY OfferType
  <2>. HIDE DEF v
  <2>3. r.chain.work > chain.work
    BY <2>1, <2>2, InvChain, ConnectAllGood DEF BlockList
  <2>. QED BY <1>1, <2>1, <2>3, Zenon
<1>7. ASSUME NEW c \in Offers, NEW timely \in BOOLEAN, ReplaceWith(c, timely)
      PROVE  Heavier
  <2>1. CanReplace(chain, c, timely) /\ PostChainChange(Replaced(c, timely))
    BY <1>7 DEF ReplaceWith
  <2>2. Replaced(c, timely).work > chain.work
    BY <2>1, OffersAssumption, ReplaceGood
  <2>. QED BY <1>1, <2>1, <2>2, Zenon
<1>8. CASE \/ \E t \in Wire : ReceiveTx(t) \/ SubmitTx(t)
           \/ \E heartbeat \in BOOLEAN : MinerSnapshot(heartbeat)
           \/ \E to \in Addr : GetWork(to)
           \/ UNCHANGED vars
  <2>1. chain' = chain
    BY <1>8, Zenon DEF ReceiveTx, SubmitTx, MinerSnapshot, GetWork, vars
  <2>. QED BY <2>1
<1>. QED BY <1>3, <1>4, <1>5, <1>6, <1>7, <1>8, Zenon DEF Next

\* Fork choice: the chain changes only for one with strictly more work.
THEOREM HeavierTheorem == Spec => OnlyHeavier
<1>1. Inv /\ [Next]_vars
        => [chain' # chain => chain'.work > chain.work /\ tipSeq' > tipSeq]_vars
  BY StepHeavier, Zenon
<1>. QED BY <1>1, InvHolds, PTL DEF Spec, OnlyHeavier

---------------------------------------------------------------------------
(* What clients are told *)

\* Every step leaves each pooled transaction pooled, or its nonce consumed.
LEMMA StepPool ==
    ASSUME Inv, [Next]_vars, NEW k \in DOMAIN pool.m
    PROVE  \/ k \in DOMAIN pool'.m /\ pool'.m[k] = pool.m[k]
           \/ k[2] < chain'.st[k[1]].nonce
<1>. DEFINE Kept == \/ k \in DOMAIN pool'.m /\ pool'.m[k] = pool.m[k]
                    \/ k[2] < chain'.st[k[1]].nonce
<1>1. ASSUME NEW c, PostChainChange(c) PROVE Kept
  <2>1. chain' = c /\ pool' = Purged(pool, c.st)
    BY <1>1 DEF PostChainChange
  <2>. DEFINE gone == {j \in DOMAIN pool.m : j[2] < c.st[j[1]].nonce}
              m == [j \in DOMAIN pool.m \ gone |-> pool.m[j]]
  <2>2. pool'.m = m
    BY <2>1 DEF Purged
  <2>. QED BY <2>1, <2>2
<1>2. ASSUME NEW t \in Wire, ReceiveTx(t) PROVE Kept
  <2>1. pool' = Added(pool, t) /\ Key(t) \notin DOMAIN pool.m
    BY <1>2 DEF ReceiveTx, CanAdd
  <2>. QED BY <2>1 DEF Added
<1>3. ASSUME pool' = pool PROVE Kept
  BY <1>3
<1>. HIDE DEF Kept
<1>. SUFFICES Kept
  BY DEF Kept
<1>4. CASE \/ \E t \in Wire : ReceiveTx(t) \/ SubmitTx(t)
           \/ \E heartbeat \in BOOLEAN : MinerSnapshot(heartbeat)
           \/ \E to \in Addr : GetWork(to)
           \/ UNCHANGED vars
  BY <1>2, <1>3, <1>4, Zenon DEF SubmitTx, MinerSnapshot, GetWork, vars
<1>5. CASE MinerSubmit
  BY <1>1, <1>3, <1>5, Zenon DEF MinerSubmit, ChainUnchanged
<1>6. CASE SubmitWork
  BY <1>1, <1>3, <1>6, Zenon DEF SubmitWork, ChainUnchanged
<1>7. CASE \E c \in Offers, timely \in BOOLEAN :
              \/ \E i \in DOMAIN c : \/ ReceiveBlock(c[i], timely)
                                     \/ ExtendWith(SubSeq(c, i, Len(c)), timely)
              \/ ReplaceWith(c, timely)
  BY <1>1, <1>7, Zenon DEF ReceiveBlock, ExtendWith, ReplaceWith
<1>. QED BY <1>4, <1>5, <1>6, <1>7, Zenon DEF Next

\* What the index finds in blocks that stay, it still finds.
LEMMA StepIndex ==
    ASSUME Inv, Inv', NEW t \in DOMAIN chain.txidx, IsPrefix(chain.blocks, chain'.blocks)
    PROVE  t \in DOMAIN chain'.txidx
<1>. DEFINE i == chain.txidx[t][1] + 1
            j == chain.txidx[t][2] + 1
<1>1. i \in DOMAIN chain.blocks /\ j \in DOMAIN chain.blocks[i].txs /\ chain.blocks[i].txs[j] = t
  BY DEF Inv, IndexExact, TxId
<1>2. i \in DOMAIN chain'.blocks /\ chain'.blocks[i] = chain.blocks[i]
  <2>. DEFINE B == {chain.blocks[x] : x \in DOMAIN chain.blocks}
              D == {chain'.blocks[x] : x \in DOMAIN chain'.blocks}
  <2>1. chain.blocks \in Seq(B) /\ chain'.blocks \in Seq(D)
    BY DEF Inv, TypeOK, ChainOK
  <2>. HIDE DEF B, D, i
  <2>. QED BY <1>1, <2>1 DEF IsPrefix
<1>. HIDE DEF i, j
<1>3. \A x \in DOMAIN chain'.blocks : \A y \in DOMAIN chain'.blocks[x].txs :
         chain'.blocks[x].txs[y] \in DOMAIN chain'.txidx
  BY DEF Inv, IndexExact, TxId
<1>. QED BY <1>1, <1>2, <1>3

\* A node forgets a transaction it has reported only when its branch is left
\* or its nonce consumed.
THEOREM LostTheorem == Spec => LostOnlyInReorg
<1>1. ASSUME Inv, Inv', [Next]_vars, NEW t \in Wire, TxStatus(t)' = "not found"
      PROVE  /\ TxStatus(t) = "confirmed" => ~IsPrefix(chain.blocks, chain'.blocks)
             /\ TxStatus(t) = "pending" => chain'.st[t.from].nonce > t.nonce
  <2>1. t \notin DOMAIN chain'.txidx /\ ~\E k \in DOMAIN pool'.m : pool'.m[k] = t
    BY <1>1 DEF TxStatus, TxId
  <2>2. ASSUME TxStatus(t) = "confirmed", IsPrefix(chain.blocks, chain'.blocks) PROVE FALSE
    <3>1. t \in DOMAIN chain.txidx
      BY <2>2 DEF TxStatus, TxId
    <3>. QED BY <1>1, <2>1, <2>2, <3>1, StepIndex
  <2>3. ASSUME TxStatus(t) = "pending" PROVE chain'.st[t.from].nonce > t.nonce
    <3>1. PICK k \in DOMAIN pool.m : pool.m[k] = t
      BY <2>3 DEF TxStatus, TxId
    <3>2. k = <<t.from, t.nonce>> /\ k \in Addr \X Nat
      BY <1>1, <3>1 DEF Inv, PoolConsistent, TypeOK, Key
    <3>3. k[2] < chain'.st[k[1]].nonce
      BY <1>1, <2>1, <3>1, StepPool
    <3>4. chain'.st \in Accounts
      BY <1>1 DEF Inv, TypeOK, ChainOK
    <3>5. t.from \in Addr /\ t.nonce \in Nat /\ chain'.st[t.from].nonce \in Nat
      BY <3>2, <3>4 DEF Accounts
    <3>. QED BY <3>2, <3>3, <3>5
  <2>. QED BY <2>2, <2>3
<1>2. ASSUME Inv, Inv', [Next]_vars
      PROVE  [\A t \in Wire :
                 TxStatus(t)' = "not found" =>
                    /\ TxStatus(t) = "confirmed" => ~IsPrefix(chain.blocks, chain'.blocks)
                    /\ TxStatus(t) = "pending" => chain'.st[t.from].nonce > t.nonce]_vars
  BY <1>1, <1>2, Zenon
<1>. QED BY <1>2, InvHolds, PTL DEF Spec, LostOnlyInReorg

---------------------------------------------------------------------------
(* Inclusion proofs *)

\* Each transaction of the chain has one place: a coinbase names its height
\* and any other has a nonce of its own.
LEMMA UniquePlace ==
    ASSUME Inv
    PROVE  \A i, k \in DOMAIN chain.blocks :
              \A j \in DOMAIN chain.blocks[i].txs, l \in DOMAIN chain.blocks[k].txs :
                 chain.blocks[i].txs[j] = chain.blocks[k].txs[l] => i = k /\ j = l
<1>1. ChainOK(chain) /\ NoncesOf(chain) /\ PlacesOf(chain)
  BY DEF Inv, TypeOK
<1>2. DOMAIN chain.blocks \subseteq Nat
  <2>. DEFINE B == {chain.blocks[i] : i \in DOMAIN chain.blocks}
  <2>1. chain.blocks \in Seq(B)
    BY <1>1 DEF ChainOK
  <2>. HIDE DEF B
  <2>. QED BY <2>1
<1>3. \A i \in DOMAIN chain.blocks : DOMAIN chain.blocks[i].txs \subseteq Nat
  <2>1. \A i \in DOMAIN chain.blocks : chain.blocks[i].txs \in Seq(Tx)
    BY <1>1 DEF ChainOK, BlockOK
  <2>. QED BY <2>1
<1>. SUFFICES ASSUME NEW i \in DOMAIN chain.blocks, NEW k \in DOMAIN chain.blocks,
                     NEW j \in DOMAIN chain.blocks[i].txs, NEW l \in DOMAIN chain.blocks[k].txs,
                     chain.blocks[i].txs[j] = chain.blocks[k].txs[l]
              PROVE  i = k /\ j = l
  OBVIOUS
<1>. DEFINE t == chain.blocks[i].txs[j]
<1>4. i \in Nat /\ k \in Nat /\ j \in Nat /\ l \in Nat
  BY <1>2, <1>3
<1>5. CASE t.type = "coinbase"
  <2>1. j = 1 /\ t.nonce = i - 1
    BY <1>1, <1>5 DEF PlacesOf, BlockAtPlace
  <2>2. l = 1 /\ t.nonce = k - 1
    BY <1>1, <1>5 DEF PlacesOf, BlockAtPlace
  <2>. QED BY <1>4, <2>1, <2>2
<1>6. CASE t.type # "coinbase"
  <2>1. Spent(chain, i, j) /\ Spent(chain, k, l)
    BY <1>6 DEF Spent
  <2>2. Key(chain.blocks[i].txs[j]) = Key(chain.blocks[k].txs[l])
    OBVIOUS
  <2>. QED BY <1>1, <1>4, <2>1, <2>2, Zenon DEF NoncesOf
<1>. QED BY <1>5, <1>6

\* The checks of connect_block and what follows from them that need no chain:
\* true of every block of a node's chain, and still true of one that a
\* reorganisation has removed.
Validated(b) ==
    /\ BlockOK(b) /\ PowOk(b.h)
    /\ TxRoot(b.txs) = b.h.merkle
    /\ Distinct(b.txs)

LEMMA ChainValidated ==
    ASSUME Inv, NEW i \in DOMAIN chain.blocks
    PROVE  Validated(chain.blocks[i]) /\ i \in Nat /\ chain.blocks[i].h.height = i - 1
<1>. DEFINE b == chain.blocks[i]
<1>1. BlockOK(b) /\ BlockAtPlace(b, i)
  BY DEF Inv, TypeOK, ChainOK, PlacesOf
<1>2. i \in Nat
  <2>. DEFINE B == {chain.blocks[k] : k \in DOMAIN chain.blocks}
  <2>1. chain.blocks \in Seq(B)
    BY DEF Inv, TypeOK, ChainOK
  <2>. HIDE DEF B
  <2>. QED BY <2>1
<1>3. b.txs \in Seq(Tx)
  BY <1>1 DEF BlockOK
<1>4. \A j, l \in DOMAIN b.txs : b.txs[j] = b.txs[l] => j = l
  BY UniquePlace
<1>5. Distinct(b.txs)
  <2>1. DOMAIN b.txs = 1 .. Len(b.txs)
    BY <1>3
  <2>. QED BY <1>4, <2>1, Zenon DEF Distinct
<1>. QED BY <1>1, <1>2, <1>5, Zenon DEF Validated, BlockAtPlace

\* The proof of transaction idx of the block b, counted from 0.
ProofFrom(b, idx) ==
    [txid |-> Leaf(TxId(b.txs[idx + 1])), height |-> b.h.height, index |-> idx,
     blockhash |-> BlockHash(b), header |-> b.h,
     steps |-> MerkleSteps(TxLeaves(b.txs), idx)]

\* Some 32 bytes: no hash, a transaction's or that of two hashes.
IsHash(x) == x = << >> \/ (\E y : x = <<y>>) \/ (\E l, r : x = <<l, r>>)

\* A file that reads as a proof, whatever it says.
FileOK(p) ==
    /\ p = [txid |-> p.txid, height |-> p.height, index |-> p.index,
            blockhash |-> p.blockhash, header |-> p.header, steps |-> p.steps]
    /\ IsHash(p.txid) /\ p.height \in Nat /\ IsList(p.steps)

\* What the file is: as long as it is not damaged, the proof of some block
\* that was on the chain when it was no longer than now.
FileInv ==
    \/ file = NoFile
    \/ /\ file = [have |-> TRUE, damage |-> file.damage, p |-> file.p]
       /\ file.damage \in Nat
       /\ FileOK(file.p)
       /\ file.damage = 0 =>
             \E b : /\ Validated(b) /\ b.h.height <= Height(chain)
                    /\ \E idx \in 0 .. Len(b.txs) - 1 : file.p = ProofFrom(b, idx)

\* merkle_proof returns a list.
LEMMA StepsList ==
    ASSUME NEW txs \in Seq(Tx), NEW idx \in 0 .. Len(txs) - 1
    PROVE  IsList(MerkleSteps(TxLeaves(txs), idx))
<1>. DEFINE s == TxLeaves(txs)
            m == MerkleSteps(s, idx)
            D == Depth(Levels(s))
<1>1. IsList(s) /\ Len(s) = Len(txs) /\ Len(txs) >= 1
  BY TxLeavesAre
<1>2. D \in Nat
  <2>1. PICK n \in Nat : Tree(s, n)
    BY <1>1, TreeExists
  <2>. QED BY <2>1 DEF Tree
<1>3. m = [d \in 1 .. D |-> m[d]]
  BY DEF MerkleSteps
<1>. QED BY <1>2, <1>3, ListFrom

\* GET /prove leaves such a file.
LEMMA ProveFile ==
    ASSUME Inv, NEW id \in DOMAIN chain.txidx, Prove(id)
    PROVE  FileInv'
<1>. DEFINE at == chain.txidx[id]
            i == at[1] + 1
            j == at[2] + 1
            idx == at[2]
            b == chain.blocks[i]
<1>1. /\ i \in DOMAIN chain.blocks /\ j \in DOMAIN b.txs /\ TxId(b.txs[j]) = id
  BY Zenon DEF Inv, IndexExact
<1>2. at \in Nat \X Nat
  BY DEF Inv, TypeOK, ChainOK
<1>3. Validated(b) /\ b.h.height = i - 1
  BY <1>1, ChainValidated
<1>4. file' = [have |-> TRUE, damage |-> 0, p |-> ProofOf(chain, id)] /\ chain' = chain
  BY DEF Prove, vars
<1>5. ProofOf(chain, id) = ProofFrom(b, idx)
  BY <1>1, Zenon DEF ProofOf, ProofFrom, TxLeaves
<1>6. b.txs \in Seq(Tx)
  BY <1>3 DEF Validated, BlockOK
<1>7. idx \in 0 .. Len(b.txs) - 1
  <2>1. at[2] \in Nat /\ j \in 1 .. Len(b.txs)
    BY <1>1, <1>2, <1>6
  <2>. QED BY <1>6, <2>1
<1>8. b.h.height <= Height(chain)
  <2>. DEFINE B == {chain.blocks[k] : k \in DOMAIN chain.blocks}
  <2>1. chain.blocks \in Seq(B)
    BY DEF Inv, TypeOK, ChainOK
  <2>. HIDE DEF B
  <2>2. i \in 1 .. Len(chain.blocks) /\ Len(chain.blocks) \in Nat
    BY <1>1, <2>1
  <2>. HIDE DEF i, b
  <2>. QED BY <1>3, <2>2 DEF Height
<1>9. IsList(MerkleSteps(TxLeaves(b.txs), idx))
  BY <1>6, <1>7, StepsList
<1>. DEFINE p == ProofFrom(b, idx)
<1>. HIDE DEF i, j, idx, b, at
<1>10. FileOK(p)
  <2>1. /\ p = [txid |-> p.txid, height |-> p.height, index |-> p.index,
                blockhash |-> p.blockhash, header |-> p.header, steps |-> p.steps]
        /\ p.steps = MerkleSteps(TxLeaves(b.txs), idx) /\ p.height = b.h.height
        /\ p.txid = Leaf(TxId(b.txs[idx + 1]))
    BY DEF ProofFrom
  <2>. HIDE DEF p
  <2>2. IsHash(p.txid) /\ p.height \in Nat
    BY <1>3, <2>1 DEF IsHash, Leaf, Validated, BlockOK
  <2>. QED BY <1>9, <2>1, <2>2, Zenon DEF FileOK
<1>11. \E x : /\ Validated(x) /\ x.h.height <= Height(chain')
              /\ \E y \in 0 .. Len(x.txs) - 1 : p = ProofFrom(x, y)
  BY <1>3, <1>4, <1>7, <1>8, Zenon
<1>. HIDE DEF p
<1>12. file' = [have |-> TRUE, damage |-> 0, p |-> p]
  BY <1>4, <1>5 DEF p
<1>13. file'.damage = 0 /\ file'.p = p /\ 0 \in Nat
  BY <1>12
<1>. QED BY <1>10, <1>11, <1>12, <1>13, Zenon DEF FileInv

\* A sequence is a list.
LEMMA SeqIsList ==
    ASSUME NEW S, NEW s \in Seq(S)
    PROVE  IsList(s)
<1>1. Len(s) \in Nat /\ s = [i \in 1 .. Len(s) |-> s[i]]
  OBVIOUS
<1>. QED BY <1>1, ListFrom

\* The nodes of a tree are leaves and parents.
LEMMA TreeNodesAreHashes ==
    ASSUME NEW txs \in Seq(Tx), NEW d \in DOMAIN Levels(TxLeaves(txs)),
           NEW i \in DOMAIN Levels(TxLeaves(txs))[d]
    PROVE  IsHash(Levels(TxLeaves(txs))[d][i])
<1>. DEFINE s == TxLeaves(txs)
            n == Len(s)
            L == Levels(s)
            Hashes(a) == \A k \in DOMAIN a : IsHash(a[k])
            H == {e \in 0 .. n : Hashes(L[e])}
<1>1. IsList(s) /\ n \in Nat /\ DOMAIN s = 1 .. n /\ \A k \in 1 .. n : s[k] = <<txs[k]>>
  BY TxLeavesAre, ListIs
<1>2. DOMAIN L = 0 .. n /\ L[0] = s /\ \A e \in 1 .. n : L[e] = Above(L[e - 1])
  BY <1>1, LevelsDef
<1>3. Hashes(s)
  BY <1>1 DEF IsHash
<1>4. ASSUME NEW a, Hashes(a) PROVE Hashes(Above(a))
  <2>1. Hashes(NextLevel(a))
    <3>. DEFINE b == NextLevel(a)
                m == (Len(a) + 1) \div 2
    <3>1. b = [k \in 1 .. m |-> MerkleParent(a[2 * k - 1], a[IF 2 * k <= Len(a) THEN 2 * k ELSE Len(a)])]
      BY DEF NextLevel
    <3>. HIDE DEF b, m
    <3>2. \A k \in DOMAIN b : b[k] = MerkleParent(a[2 * k - 1], a[IF 2 * k <= Len(a) THEN 2 * k ELSE Len(a)])
      BY <3>1, Zenon
    <3>. QED BY <3>2, Zenon DEF IsHash, MerkleParent, b
  <2>. QED BY <1>4, <2>1, Zenon DEF Above
<1>. HIDE DEF L, n, s, Hashes
<1>5. 0 \in H
  BY <1>1, <1>2, <1>3
<1>6. ASSUME NEW e \in 1 .. n, e - 1 \in H PROVE e \in H
  <2>1. Hashes(L[e - 1]) /\ L[e] = Above(L[e - 1]) /\ e \in 0 .. n
    BY <1>1, <1>2, <1>6
  <2>. QED BY <1>4, <2>1
<1>7. H \in SUBSET Nat
  BY <1>1
<1>. HIDE DEF H
<1>8. 0 .. n \subseteq H
  BY <1>1, <1>5, <1>6, <1>7, UpTo
<1>9. Hashes(L[d])
  BY <1>2, <1>8 DEF H, L, s
<1>. QED BY <1>9, Zenon DEF Hashes, L, s

\* A changed field leaves a file that reads as a proof.
LEMMA DamagedFile ==
    ASSUME Inv, NEW p, FileOK(p), NEW q \in Damaged(p)
    PROVE  FileOK(q)
<1>. DEFINE Shape(r) == r = [txid |-> r.txid, height |-> r.height, index |-> r.index,
                             blockhash |-> r.blockhash, header |-> r.header, steps |-> r.steps]
<1>1. Shape(p) /\ IsHash(p.txid) /\ p.height \in Nat /\ IsList(p.steps)
  BY Zenon DEF FileOK
<1>2. ASSUME Shape(q), IsHash(q.txid), q.height \in Nat, IsList(q.steps) PROVE FileOK(q)
  BY <1>2, Zenon DEF FileOK
<1>3. ASSUME NEW h \in 0 .. Len(chain.blocks), q = [p EXCEPT !.height = h] PROVE FileOK(q)
  <2>1. Shape(q) /\ q.txid = p.txid /\ q.height = h /\ q.steps = p.steps
    BY <1>1, <1>3
  <2>2. h \in Nat
    OBVIOUS
  <2>. QED BY <1>1, <1>2, <2>1, <2>2
<1>4. CASE q = [p EXCEPT !.index = @ + 1]
  <2>1. Shape(q) /\ q.txid = p.txid /\ q.height = p.height /\ q.steps = p.steps
    BY <1>1, <1>4
  <2>. QED BY <1>1, <1>2, <2>1
<1>5. ASSUME NEW b \in Range(chain.blocks), NEW x \in TreeNodes(b), q = [p EXCEPT !.txid = x]
      PROVE  FileOK(q)
  <2>1. Shape(q) /\ q.txid = x /\ q.height = p.height /\ q.steps = p.steps
    BY <1>1, <1>5
  <2>2. b.txs \in Seq(Tx)
    <3>1. PICK i \in DOMAIN chain.blocks : b = chain.blocks[i]
      BY DEF Range
    <3>. QED BY <3>1, ChainValidated DEF Validated, BlockOK
  <2>3. PICK d \in DOMAIN Levels(TxLeaves(b.txs)) : x \in Range(Levels(TxLeaves(b.txs))[d])
    BY Zenon DEF TreeNodes, TxLeaves
  <2>4. IsHash(x)
    BY <2>2, <2>3, TreeNodesAreHashes, Zenon DEF Range
  <2>. QED BY <1>1, <1>2, <2>1, <2>4
<1>6. ASSUME NEW x, q = [p EXCEPT !.blockhash = x] PROVE FileOK(q)
  <2>1. Shape(q) /\ q.txid = p.txid /\ q.height = p.height /\ q.steps = p.steps
    BY <1>1, <1>6
  <2>. QED BY <1>1, <1>2, <2>1
<1>7. ASSUME NEW x, q = [p EXCEPT !.header = x] PROVE FileOK(q)
  <2>1. Shape(q) /\ q.txid = p.txid /\ q.height = p.height /\ q.steps = p.steps
    BY <1>1, <1>7
  <2>. QED BY <1>1, <1>2, <2>1
<1>8. ASSUME NEW s, IsList(s), q = [p EXCEPT !.steps = s] PROVE FileOK(q)
  <2>1. Shape(q) /\ q.txid = p.txid /\ q.height = p.height /\ q.steps = s
    BY <1>1, <1>8
  <2>. QED BY <1>1, <1>2, <1>8, <2>1
<1>9. ASSUME NEW i \in DOMAIN p.steps, NEW x PROVE IsList([p.steps EXCEPT ![i] = x])
  <2>. DEFINE s == p.steps
              t == [s EXCEPT ![i] = x]
  <2>1. Len(s) \in Nat /\ s = [k \in 1 .. Len(s) |-> s[k]]
    BY <1>1, ListIs
  <2>2. t = [k \in 1 .. Len(s) |-> t[k]]
    BY <2>1
  <2>. HIDE DEF t
  <2>3. IsList(t)
    BY <2>1, <2>2, ListFrom
  <2>. QED BY <2>3 DEF t
<1>10. ASSUME NEW i \in DOMAIN p.steps, q = [p EXCEPT !.steps[i].left = ~@] PROVE FileOK(q)
  <2>. DEFINE x == [p.steps[i] EXCEPT !.left = ~@]
              s == [p.steps EXCEPT ![i] = x]
  <2>1. q = [p EXCEPT !.steps = s]
    BY <1>10
  <2>2. IsList(s)
    BY <1>9
  <2>. HIDE DEF s
  <2>. QED BY <1>8, <2>1, <2>2
<1>11. ASSUME NEW i \in DOMAIN p.steps, q = [p EXCEPT !.steps[i].h = p.txid] PROVE FileOK(q)
  <2>. DEFINE x == [p.steps[i] EXCEPT !.h = p.txid]
              s == [p.steps EXCEPT ![i] = x]
  <2>1. q = [p EXCEPT !.steps = s]
    BY <1>11
  <2>2. IsList(s)
    BY <1>9
  <2>. HIDE DEF s
  <2>. QED BY <1>8, <2>1, <2>2
<1>12. ASSUME NEW i \in DOMAIN p.steps, q = [p EXCEPT !.steps = RemoveAt(@, i)] PROVE FileOK(q)
  <2>. DEFINE S == {p.steps[k] : k \in DOMAIN p.steps}
              s == RemoveAt(p.steps, i)
  <2>1. p.steps \in Seq(S)
    BY <1>1 DEF IsList
  <2>. HIDE DEF S
  <2>2. i \in 1 .. Len(p.steps) /\ Len(p.steps) \in Nat
    BY <2>1
  <2>3. SubSeq(p.steps, 1, i - 1) \in Seq(S) /\ SubSeq(p.steps, i + 1, Len(p.steps)) \in Seq(S)
    BY <2>1, <2>2, SubSeqProperties
  <2>4. s \in Seq(S)
    BY <2>3, ConcatProperties DEF RemoveAt
  <2>5. IsList(s)
    BY <2>4, SeqIsList
  <2>6. q = [p EXCEPT !.steps = s]
    BY <1>12
  <2>. HIDE DEF s
  <2>. QED BY <1>8, <2>5, <2>6
<1>13. \/ \E h \in 0 .. Len(chain.blocks) : q = [p EXCEPT !.height = h]
       \/ q = [p EXCEPT !.index = @ + 1]
       \/ \E x \in UNION {TreeNodes(b) : b \in Range(chain.blocks)} : q = [p EXCEPT !.txid = x]
       \/ \E x : q = [p EXCEPT !.blockhash = x]
       \/ \E x : q = [p EXCEPT !.header = x]
       \/ \E i \in DOMAIN p.steps : q = [p EXCEPT !.steps[i].left = ~@]
       \/ \E i \in DOMAIN p.steps : q = [p EXCEPT !.steps[i].h = p.txid]
       \/ \E i \in DOMAIN p.steps : q = [p EXCEPT !.steps = RemoveAt(@, i)]
  BY ZenonT(60) DEF Damaged
<1>14. ASSUME NEW x \in UNION {TreeNodes(b) : b \in Range(chain.blocks)}, q = [p EXCEPT !.txid = x]
       PROVE  FileOK(q)
  BY <1>5, <1>14, Zenon
<1>15. CASE \E i \in DOMAIN p.steps : \/ q = [p EXCEPT !.steps[i].left = ~@]
                                     \/ q = [p EXCEPT !.steps[i].h = p.txid]
                                     \/ q = [p EXCEPT !.steps = RemoveAt(@, i)]
  BY <1>10, <1>11, <1>12, <1>15, Zenon
<1>. QED BY <1>3, <1>4, <1>6, <1>7, <1>13, <1>14, <1>15, Zenon

\* The chain never gets shorter.
LEMMA StepHeight ==
    ASSUME Inv, Inv', [Next]_vars
    PROVE  Height(chain') >= Height(chain) /\ Height(chain) \in Nat /\ Height(chain') \in Nat
<1>1. /\ ChainOK(chain) /\ PlacesOf(chain) /\ chain.blocks # << >>
      /\ ChainOK(chain') /\ PlacesOf(chain') /\ chain'.blocks # << >>
  BY DEF Inv, TypeOK
<1>2. chain'.work >= chain.work
  <2>1. chain.work \in Nat /\ chain'.work \in Nat
    BY <1>1 DEF ChainOK
  <2>. QED BY <2>1, StepHeavier
<1>. QED BY <1>1, <1>2, WorkIsHeight

\* The file stays what it is.
LEMMA StepFile == Inv /\ Inv' /\ FileInv /\ [InclusionNext]_<<vars, file>> => FileInv'
<1>. SUFFICES ASSUME Inv, Inv', FileInv, [InclusionNext]_<<vars, file>> PROVE FileInv'
  OBVIOUS
<1>1. ASSUME [Next]_vars, file' = file PROVE FileInv'
  <2>1. Height(chain') >= Height(chain) /\ Height(chain) \in Nat /\ Height(chain') \in Nat
    BY <1>1, StepHeight
  <2>2. ASSUME NEW b, Validated(b), b.h.height <= Height(chain) PROVE b.h.height <= Height(chain')
    <3>1. b.h.height \in Nat
      BY <2>2 DEF Validated, BlockOK
    <3>. QED BY <2>1, <2>2, <3>1
  <2>. QED BY <1>1, <2>2, Zenon DEF FileInv
<1>2. ASSUME NEW id \in DOMAIN chain.txidx, Prove(id) PROVE FileInv'
  BY <1>2, ProveFile
<1>3. CASE Damage
  <2>1. PICK q \in Damaged(file.p) : file' = [file EXCEPT !.p = q, !.damage = @ + 1]
    BY <1>3 DEF Damage
  <2>2. file # NoFile
    BY <1>3 DEF Damage, NoFile
  <2>3. /\ file = [have |-> TRUE, damage |-> file.damage, p |-> file.p]
        /\ file.damage \in Nat /\ FileOK(file.p)
    BY <2>2, Zenon DEF FileInv
  <2>4. FileOK(q)
    BY <2>1, <2>3, DamagedFile
  <2>5. file' = [have |-> TRUE, damage |-> file.damage + 1, p |-> q]
    <3>1. ASSUME NEW f, NEW t, NEW n \in Nat, NEW x, f = [have |-> t, damage |-> n, p |-> x]
          PROVE  [f EXCEPT !.p = q, !.damage = @ + 1] = [have |-> t, damage |-> n + 1, p |-> q]
      <4>. DEFINE g == [f EXCEPT !.p = q]
      <4>1. [f EXCEPT !.p = q, !.damage = @ + 1] = [g EXCEPT !.damage = @ + 1]
        OBVIOUS
      <4>2. g = [have |-> t, damage |-> n, p |-> q]
        BY <3>1
      <4>. HIDE DEF g
      <4>3. [g EXCEPT !.damage = @ + 1] = [have |-> t, damage |-> n + 1, p |-> q]
        BY <4>2
      <4>. QED BY <4>1, <4>3, Zenon
    <3>. QED BY <2>1, <2>3, <3>1, ZenonT(40)
  <2>6. file'.damage = file.damage + 1 /\ file'.p = q
    BY <2>5
  <2>7. file'.damage \in Nat /\ file'.damage # 0
    BY <2>3, <2>6
  <2>. QED BY <2>4, <2>5, <2>6, <2>7, Zenon DEF FileInv
<1>4. CASE UNCHANGED <<vars, file>>
  BY <1>1, <1>4
<1>. QED BY <1>1, <1>2, <1>3, <1>4, Zenon DEF InclusionNext

\* A node with its clients' files keeps the invariant of the node and FileInv.
THEOREM InclusionInvHolds == InclusionSpec => [](Inv /\ FileInv)
<1>1. InclusionInit => Inv /\ FileInv
  BY InitInv, Zenon DEF InclusionInit, FileInv
<1>2. [InclusionNext]_<<vars, file>> => [Next]_vars
  BY Zenon DEF InclusionNext, Prove, Damage
<1>3. Inv /\ FileInv /\ [InclusionNext]_<<vars, file>> => Inv' /\ FileInv'
  BY <1>2, NextInv, StepFile, Zenon
<1>. QED BY <1>1, <1>3, PTL DEF InclusionSpec

\* A proof made from a validated block verifies on its own.
LEMMA ProofFromVerifies ==
    ASSUME NEW b, Validated(b), NEW idx \in 0 .. Len(b.txs) - 1
    PROVE  VerifyFile(ProofFrom(b, idx))
<1>. DEFINE p == ProofFrom(b, idx)
<1>1. b.txs \in Seq(Tx) /\ PowOk(b.h) /\ TxRoot(b.txs) = b.h.merkle
  BY DEF Validated, BlockOK
<1>2. /\ p.header = b.h /\ p.blockhash = BlockHash(b) /\ p.height = b.h.height
      /\ p.txid = Leaf(TxId(b.txs[idx + 1])) /\ p.steps = MerkleSteps(TxLeaves(b.txs), idx)
  BY DEF ProofFrom
<1>. HIDE DEF p
<1>3. MerkleApply(p.txid, p.steps) = p.header.merkle
  BY <1>1, <1>2, TxPath
<1>. QED BY <1>1, <1>2, <1>3, Zenon DEF VerifyFile, BlockHash, p

\* Whatever proof /prove hands out, for any position of a block of any size,
\* "clctl verify" accepts it without asking a node, at any later time: the
\* path that merkle_proof takes from a padded tree is the one that
\* merkle_apply follows, and a reorganisation does not change the file.
THEOREM ProofVerifiesTheorem == InclusionSpec => []ProofVerifies
<1>1. ASSUME FileInv PROVE ProofVerifies
  <2>. SUFFICES ASSUME file.have, file.damage = 0 PROVE VerifyFile(file.p)
    BY DEF ProofVerifies
  <2>1. file # NoFile
    BY DEF NoFile
  <2>2. PICK b : Validated(b) /\ \E idx \in 0 .. Len(b.txs) - 1 : file.p = ProofFrom(b, idx)
    BY <1>1, <2>1, Zenon DEF FileInv
  <2>. QED BY <2>2, ProofFromVerifies, Zenon
<1>. QED BY <1>1, InclusionInvHolds, PTL

\* With the node cross-checked, an undamaged proof is VALID only while its
\* transaction is on that node's chain at the place it names.  A header that
\* is on the chain has one body only: the transactions of a validated block
\* are all different, so the repetition of the last node of a level cannot
\* give two bodies the same root.
THEOREM ValidTheorem == InclusionSpec => []ValidMeansConfirmed
<1>1. ASSUME Inv, FileInv PROVE ValidMeansConfirmed
  <2>. SUFFICES ASSUME file.have, file.damage = 0, Valid(chain, file.p)
                PROVE  \E id \in DOMAIN chain.txidx :
                          Leaf(id) = file.p.txid /\ chain.txidx[id] = <<file.p.height, file.p.index>>
    BY Zenon DEF ValidMeansConfirmed
  <2>1. file # NoFile
    BY DEF NoFile
  <2>2. PICK b : /\ Validated(b) /\ b.h.height <= Height(chain)
                 /\ \E idx \in 0 .. Len(b.txs) - 1 : file.p = ProofFrom(b, idx)
    BY <1>1, <2>1, Zenon DEF FileInv
  <2>3. PICK idx \in 0 .. Len(b.txs) - 1 : file.p = ProofFrom(b, idx)
    BY <2>2
  <2>. DEFINE h == b.h.height
              i == h + 1
              d == chain.blocks[i]
              t == b.txs[idx + 1]
  <2>4. b.txs \in Seq(Tx) /\ h \in Nat /\ TxRoot(b.txs) = b.h.merkle /\ Distinct(b.txs)
    BY <2>2 DEF Validated, BlockOK
  <2>5. /\ file.p.txid = Leaf(t) /\ file.p.height = h /\ file.p.index = idx
        /\ file.p.blockhash = BlockHash(b)
    BY <2>3 DEF ProofFrom, TxId
  <2>6. h < Len(chain.blocks) /\ i \in DOMAIN chain.blocks
    <3>. DEFINE B == {chain.blocks[k] : k \in DOMAIN chain.blocks}
    <3>1. chain.blocks \in Seq(B)
      BY <1>1 DEF Inv, TypeOK, ChainOK
    <3>. HIDE DEF B, h
    <3>2. Len(chain.blocks) \in Nat /\ DOMAIN chain.blocks = 1 .. Len(chain.blocks)
      BY <3>1
    <3>3. h <= Len(chain.blocks) - 1
      BY <2>2 DEF h, Height
    <3>. QED BY <2>4, <3>2, <3>3
  <2>7. BlockHash(d) = BlockHash(b)
    <3>1. BlockAt(chain, file.p.height) = [code |-> 200, hash |-> BlockHash(d)]
      BY <2>5, <2>6 DEF BlockAt
    <3>2. CrossCheck(chain, file.p) # "mismatch"
      BY DEF Valid
    <3>. HIDE DEF d
    <3>. QED BY <2>5, <3>1, <3>2 DEF CrossCheck
  <2>8. Validated(d)
    BY <1>1, <2>6, ChainValidated
  <2>9. d.txs \in Seq(Tx) /\ TxRoot(d.txs) = d.h.merkle /\ Distinct(d.txs)
    BY <2>8 DEF Validated, BlockOK
  <2>10. d.h.merkle = b.h.merkle
    <3>. HIDE DEF d
    <3>. QED BY <2>7 DEF BlockHash, HeaderHash
  <2>11. TxRoot(d.txs) = TxRoot(b.txs)
    BY <2>4, <2>9, <2>10
  <2>. HIDE DEF d
  <2>12. Len(b.txs) >= 1
    BY <2>4
  <2>13. Len(d.txs) >= 1
    <3>. DEFINE m == MerkleSteps(TxLeaves(b.txs), idx)
    <3>1. MerkleApply(Leaf(TxId(t)), m) = TxRoot(d.txs)
      BY <2>4, <2>11, TxPath
    <3>2. Len(m) \in Nat
      BY <2>4, StepsList, ListIs
    <3>. HIDE DEF m
    <3>3. \E x \in DOMAIN d.txs : TxId(d.txs[x]) = TxId(t)
      BY <2>9, <3>1, <3>2, TxPathOnly
    <3>. QED BY <2>9, <3>3
  <2>14. d.txs = b.txs
    BY <2>4, <2>9, <2>11, <2>12, <2>13, TxRootInjective
  <2>15. idx + 1 \in DOMAIN chain.blocks[i].txs /\ chain.blocks[i].txs[idx + 1] = t
    BY <2>4, <2>14 DEF d
  <2>. HIDE DEF t
  <2>16. t \in DOMAIN chain.txidx
    BY <1>1, <2>6, <2>15 DEF Inv, IndexExact, TxId
  <2>. DEFINE at == chain.txidx[t]
  <2>17. /\ at[1] + 1 \in DOMAIN chain.blocks /\ at[2] + 1 \in DOMAIN chain.blocks[at[1] + 1].txs
         /\ chain.blocks[at[1] + 1].txs[at[2] + 1] = t
    BY <1>1, <2>16 DEF Inv, IndexExact, TxId
  <2>18. at \in Nat \X Nat
    BY <1>1, <2>16 DEF Inv, TypeOK, ChainOK
  <2>. HIDE DEF at
  <2>19. at[1] + 1 = i /\ at[2] + 1 = idx + 1
    BY <1>1, <2>6, <2>15, <2>17, UniquePlace
  <2>20. at = <<h, idx>>
    <3>. HIDE DEF h
    <3>. QED BY <2>4, <2>18, <2>19
  <2>. QED BY <2>5, <2>16, <2>20 DEF at
<1>. QED BY <1>1, InclusionInvHolds, PTL

\* A file that passes verify and names the block that the node has at its
\* height has the txid of a transaction of that block, however it was damaged,
\* on nodes that mine or not: the hash fixes the header, the header the merkle
\* root, and from a txid (though not from an inner node) only a path of that
\* tree leads there.
THEOREM AgreedTheorem == InclusionSpec => []AgreedIsCommitted
<1>1. ASSUME Inv, FileInv PROVE AgreedIsCommitted
  <2>. DEFINE p == file.p
              h == p.height
              i == h + 1
              d == chain.blocks[i]
  <2>. SUFFICES ASSUME file.have, VerifyFile(p), CrossCheck(chain, p) = "agree", IsTxid(p.txid)
                PROVE  \E j \in DOMAIN d.txs : Leaf(TxId(d.txs[j])) = p.txid
    BY Zenon DEF AgreedIsCommitted
  <2>1. file # NoFile
    BY DEF NoFile
  <2>2. IsHash(p.txid) /\ h \in Nat /\ IsList(p.steps)
    BY <1>1, <2>1, Zenon DEF FileInv, FileOK
  <2>3. BlockAt(chain, h).code = 200 /\ BlockAt(chain, h).hash = p.blockhash
    BY DEF CrossCheck
  <2>4. h < Len(chain.blocks) /\ BlockHash(d) = p.blockhash
    <3>1. CASE h < Len(chain.blocks)
      BY <2>3, <3>1 DEF BlockAt
    <3>2. CASE ~(h < Len(chain.blocks))
      BY <2>3, <3>2 DEF BlockAt
    <3>. QED BY <3>1, <3>2
  <2>5. i \in DOMAIN chain.blocks
    <3>. DEFINE B == {chain.blocks[k] : k \in DOMAIN chain.blocks}
    <3>1. chain.blocks \in Seq(B)
      BY <1>1 DEF Inv, TypeOK, ChainOK
    <3>. HIDE DEF B, h
    <3>2. Len(chain.blocks) \in Nat /\ DOMAIN chain.blocks = 1 .. Len(chain.blocks)
      BY <3>1
    <3>. QED BY <2>2, <2>4, <3>2
  <2>6. d.txs \in Seq(Tx) /\ TxRoot(d.txs) = d.h.merkle
    BY <1>1, <2>5, ChainValidated DEF Validated, BlockOK
  <2>7. HeaderHash(p.header) = p.blockhash /\ MerkleApply(p.txid, p.steps) = p.header.merkle
    BY Zenon DEF VerifyFile
  <2>8. p.header.merkle = d.h.merkle
    <3>. HIDE DEF d, p
    <3>. QED BY <2>4, <2>7 DEF BlockHash, HeaderHash
  <2>9. PICK y : p.txid = <<y>>
    <3>1. \A l, r : Len(<<l, r>>) # 1
      OBVIOUS
    <3>2. Len(<< >>) # 1
      OBVIOUS
    <3>3. Len(p.txid) = 1
      BY DEF IsTxid
    <3>. QED BY <2>2, <3>1, <3>2, <3>3, Zenon DEF IsHash
  <2>10. Len(p.steps) \in Nat
    BY <2>2, ListIs
  <2>. HIDE DEF d, p
  <2>11. MerkleApply(Leaf(y), p.steps) = TxRoot(d.txs)
    BY <2>6, <2>7, <2>8, <2>9 DEF Leaf
  <2>12. PICK j \in DOMAIN d.txs : TxId(d.txs[j]) = y
    BY <2>6, <2>10, <2>11, TxPathOnly
  <2>. QED BY <2>9, <2>12 DEF Leaf
<1>. QED BY <1>1, InclusionInvHolds, PTL

=============================================================================
