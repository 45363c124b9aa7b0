# A TLA+ model of chainlite

chainlite is a small proof-of-work blockchain: node processes that gossip over
TCP, a command-line wallet, an optional GPU miner and a launcher. This directory
holds TLA+ modules that model the nodes and the launcher, TLC configurations that
check them on small instances, and TLAPS proofs of the safety properties of a node,
its inclusion proofs, database, threads and links, a network of nodes and the
launcher, for every value of the constants.
`PROJECT.json` maps every definition to the lines it models and lists runs,
mutants, findings, hazards and theorems.

    tlc -workers 2 -config Node.cfg MCNode      # any run of PROJECT.json
    tlapm NodeProofs.tla                        # any module of proofs

## The system

| component | state | operations | talks to |
|---|---|---|---|
| consensus core (`core.h`) | chain: blocks, accounts, txid index, work | `apply_tx`, `connect_block`, `try_replace`, merkle root | node, storage |
| mempool (`core.h`) | transactions by (sender, nonce), set of txids | `add`, `collect`, `purge` | node |
| node (`node_impl.h`) | `App`: chain, pool, `tip_seq`, `work_cache` under one mutex | message and RPC handlers, miner thread | all |
| sync (`node_impl.h`) | `sync_peer`, `sync_mode`, `sync_extend_got`, `cand`, `sync_last_ms` | `maybe_sync`, `handle_blocks`, timeout | peers |
| network (`net.h`) | peers: socket, queues, ready, dead, last tip | dial, accept, greet, drop one of two links, read, dispatch, send | node, by callbacks |
| RPC server (`rpc.h`) | a listener, one connection at a time | accept, receive, call the handler, send | node, by callback |
| storage (`core.h`, `sqlite_shim.h`) | tables `blocks`, `txs` | `db_insert`, `db_truncate_from`, `init` | core |
| inclusion proofs | a text file held by a client | `/prove`, `/block`, `clctl verify` | node, by RPC |
| wallet (`clctl.cpp`) | a key file | read nonce, sign, `/submit` | node, by RPC |
| GPU miner (`clminer_gpu.cu`) | the header it works on | `/work`, `/submitwork` | node, by RPC |
| launcher (`chainlite_app.cpp`) | child processes, ports | scan ports, spawn, wait, take down | nodes, other instances |

A node has four threads besides the main one: network, RPC, miner, periodic. The first `App::mtx`
critical section of a handler is atomic; what happens between two of them is
not. The network thread reads frames from all sockets first, recording tips on
the way, and then handles what it has read. The miner takes a snapshot in one
section and submits in another. Blocks are relayed after the mutex is released.

What is hard to test here: a chain that moves between a request and its answer
or between snapshot and submission; answers that come after the timeout gave up
on them; links and processes that fail at any point of a sync; reorganisations
that must carry accounts, index, pool and tables along; statements that commit
one by one; proofs that outlive their block; two links per pair of which each
end drops one by itself; two mutexes and five threads that start and stop; a
launcher that is killed half-way, or starts next to another. `PROJECT.json` lists these hazards
with their lines and the properties that cover them.

What makes each component correct:

* core: the accounts are what the history says, no replay, no coin from nothing,
  the chain changes only for more work;
* mempool: fresh, consistent, disjoint from the chain;
* miner and work cache: what is handed out and is still current connects;
* sync: chains stay valid whatever arrives, a sync ends, nodes converge;
* storage: a restart finds a chain the node had, the old or the new one after a
  crash in the middle;
* proofs: what `/prove` hands out verifies, what verifies and agrees with a node is true;
* queries: a transaction is forgotten only for the reasons the node gives;
* links: both ends keep the same one link, and find it again after a failure;
* threads: no circular wait, nothing destroyed while in use, Ctrl+C ends them;
* launcher: no node outlives it, no range is taken twice, starting up ends.

## Modules

| module | models | how |
|---|---|---|
| `Merkle` | merkle tree, authentication paths | hashes are injective terms; odd levels repeat the last node |
| `Ledger` | transactions, accounts, blocks, `Chain` | operators; loops are recursive functions over the turns |
| `Mempool` | `class Mempool` | operators on a pool `[m, ids]` |
| `Node` | `App`, its handlers, the miner, an external miner | one action per critical section; peers and clients are the environment |
| `Queries` | answers of `/tx` and `/records` | operators over the state of `Node` |
| `Inclusion` | `/prove`, the file, `clctl verify` | extends `Node` by the file |
| `Storage` | SQLite tables of one node | one step per statement; crash, power failure, error, clock set back |
| `BlockTree` | blocks as a tree | numbers with parent and height |
| `ForkChoice` | what a network promises | abstract specification |
| `Sync` | message handlers and links of several nodes | one action per handler, read, relay, thread step and fault |
| `Links` | `class P2P`: the TCP links between nodes | a connection has two ends that live and die apart; one action per socket event |
| `Threads` | `node_run`, the loops of all threads, both mutexes, `RpcServer` | a turn of a loop is the list of mutex operations it makes |
| `Launcher` | `chainlite.exe`: `supervise`, `spawn_node`, `port_free` | one action per system call that others can see; instances and node processes interleave |
| `MCNode`, `MCInclusion`, `MCStorage`, `MCSync`, `MCLinks` | instances for TLC | transactions, offered chains, trees, a forked start |
| `Loops`, `LedgerProofs`, `NodeProofs`, `SyncProofs`, `StorageProofs`, `LinksProofs`, `ThreadsProofs`, `LauncherProofs` | proofs | see below |

`Node` and `Sync` split the node: `Node` has transactions, pool and miner in
full and takes from its peers any block or chain of a given set; `Sync` reduces
a block to parent and height and has the messages, links and faults in full.
`Node`'s `ReceiveBlock`, `ExtendWith` and `ReplaceWith` are what `Sync`'s
`HandleBlock`, `ExtendFrom` and `DownloadAll` do to the chain. `Links` is what
happens below `Sync`, up to the one link of each pair that `Sync` starts from;
`Threads` is what happens around both: it justifies that a critical section is
one step, and that the threads that `Sync` assumes to go on do.

### Correspondence and abstractions

* A txid is the transaction, a hash a term: SHA-256 is taken as injective.
  A signature is good (two of them, as ECDSA is randomised), bad or absent.
* `seal` in a header stands for version, network id, difficulty bits and nonce:
  the network's with the work they ask for, others with the work of their own bits
  (genesis, whose bits are 0, or a header no network has), or without work.
  `connect_block` wants the first, `clctl verify` has to be content with the
  second. `timely` says whether the clock allows the header's time.
* Difficulty is a fixed parameter and every block of it has the same work, so in
  `Sync` heights order chains as work does.
* Balances are natural numbers. `SupplyConserved` bounds them by one reward for
  each block, which 64 bits hold.
* `Node`: `MinerSubmit` folds the nonce search into the second section; a
  candidate given up earlier by the loop is one that `MinerSubmit` discards.
  A header given to an external miner comes back solved, at any later time.
* `Sync`: the two links that two nodes make are one, as if deduplication had
  happened; a link is made again once both ends have seen the end of the old
  one. Gossip of transactions is left out. `wire` is both the send queue and
  what is under way. A restart keeps the chain (module `Storage` is about that).
* `Inclusion`: verification asks one node. `Damaged` changes a line to another
  value of its kind: a hash to any node of a merkle tree, inner ones included, a
  header to that of another block or to one that no network has; or it drops a
  sibling line, which is what the reader does with one that does not parse. The
  txid of the file is a hash like the others, as `verify` never sees the
  transaction.
* `Storage`: SQLite by its documented contract. A failing statement in a
  transaction leaves it open or rolls it back. `had`, `before` and `dirty` are
  history variables for the properties. Under a clock set back `Chain::init`
  refuses the first block that is now too far ahead and all that follow, so any
  shorter prefix above genesis may load (`StartClockBack`); the rest is deleted
  and comes back from the peers.
* `Links`: a node is its port. Marking an entry dead and erasing it, which the
  loop does under one mutex, are one step. What one end has sent and the other
  has not read is a queue of whole frames; a close with unread data is a reset,
  which may lose the other direction (`Close`). A turn that reads up to the end of
  the stream parses none of what it has read (`Read`). Frames after HELLO are left out,
  except one that is too big.
* `Threads`: the mutex operations of a turn are fixed lists, one per path that
  takes different mutexes. At most one callback per turn of the network thread:
  more of them are further turns. When `node_run` returns, early or at the end,
  `Destroy` takes the members of `App` away one by one in the reverse of their
  order, and ends the process at a `std::thread` that is still joinable. Members
  that only the main thread uses are left out.
* `Launcher`: ports are numbered within a range; a range is the only thing the
  instances share. Assigning a process to an existing job succeeds. `saw` is a
  history variable.
* `Queries`: `/records` with its limit and its filter; the order is the code's,
  pending notes by key, confirmed ones from the tip down.

## Runs

| run | instance | shows |
|---|---|---|
| `node` | 2 accounts, 4 transactions that depend on or exclude each other, peers' chains up to height 3 with good and bad blocks, pool of 2, nonce window 1, cache limit 1 | ledger, index, pool, miner and cache invariants; `OnlyHeavier`; what clients are told (`LostOnlyInReorg`, `FeedExact`) |
| `inclusion` | blocks of 3 and 6 transactions, chains up to height 2, two changed fields | proofs verify, for ever; an undamaged one is VALID only while it is true; a damaged one that agrees with the node names a transaction of its block |
| `storage` | two branches, 2 crashes, power failures or clocks set back, 1 failed statement | atomic crash, own history, clean tables |
| `sync_stale` | 2 nodes, 3 blocks, batch 2, candidates up to 3, one early timeout | late answers are harmless to the chain; refinement of `ForkChoice` |
| `sync_live` | 2 nodes on forks of 1 and 2 blocks, one more block, one link failure or crash, two frames read at once | the sync state is reset with its peer, one request at a time, syncs end, convergence |
| `sync_redownload` | 2 nodes, 2 blocks | violation, finding 1 |
| `sync_late_answer` | forked start, one early timeout | violation, finding 2 |
| `proof_damage` | as `inclusion`, one changed field | violation, finding 3 |
| `storage_txs` | as `storage`, no failing statement | violation, finding 4 |
| `links` | nodes 1 and 2 dial each other, 3 of another network dials 1, two connections per direction, one fault | both ends agree, one link per pair, links settle, a link in use is lost only through a failure |
| `threads` | all threads, one waiting client, requests of two pieces, ports that are free or taken | no circular wait, safe teardown, shutdown and requests end |
| `launcher` | two instances of two nodes, two ranges, two rounds of waiting, one node that dies | no orphan runs, a later instance takes other ports, starting up ends |

Each property has a mutant in `PROJECT.json`: an operator next to the original
that changes it as a plausible mistake would, under which TLC finds the property
violated in the same run.

**Why the bounds are enough.** In `node`, height 3 lets a branch of two be left
for one of three while the miner and an external job still refer to the old one;
the transactions make conflicts (same sender and nonce, two signatures or two
kinds), a successor, and a payment funded by another, in the pool and in the
blocks of peers; the limits of pool, window, cache
and collect are small enough to be met. In `sync_*`, a batch of two makes full
downloads take two requests, so the peer can change in between; two frames read
at once is the least that has a tip recorded before an earlier event is handled.
In `inclusion`, 3 and 6 leaves give a level that is odd at the bottom and one
that is odd only higher up. In `storage`, two stops allow a crash during the
recovery from another, or a start that loses blocks to the clock after a crash.
In `links`, two connections per direction let a node dial anew while the far end
of the old connection is still open. In `threads`, states are those of the
mutexes and loops, not of data, so one client and two pieces show every order.
In `launcher`, two ranges and two instances are the least that collide and
give way. `MaxHeight`, `MaxBlocks`, `MaxFaults`, `MaxTimeouts`,
`MaxEvents`, `MaxWire`, `MaxDamage`, `MaxStops`, `MaxErrors`, `MaxDeaths` and
`Slot` are bounds of the models only. Deadlock is checked in `links` and
`threads`. It is not in the others: once the bounded supply of blocks and
faults is used up, or a node has nothing to do, a model may stop.

**Fairness** (`Sync`, `sync_live`). Weak fairness of reading, handling, relaying,
broadcasting and dialling: these are loops of threads that run as long as the
process. Strong fairness of `Announce`, because the bound `MaxWire` switches it
off and on while the periodic thread really announces every 10 s. Nothing is
assumed about mining, faults and timeouts. `sync_live` lets no timeout fire
early: a sync over a working link has an answer under way (`OneRequest`), and on
a broken one `on_gone` resets it. That early timeouts change the picture is
finding 2. `Links`: the loop of the network thread goes on dialling, accepting
and reading, and a node that has ended is started again. `Threads`: threads are
scheduled and waits end, as select, sleep, receive and send have timeouts and
the nonce search looks at `running`; acquiring a mutex is strongly fair, because
sections are short and every loop waits outside of them. A mutex of Windows makes
no such promise in theory. `Launcher`: an instance that has started and a node
process go on; nobody has to start one or press Ctrl+C.

**Convergence** is about work: two nodes may rest on different branches of equal
length, as the code starts no sync then, until the next block is mined.

**Links** settle when the lower port of a pair lists the higher one, as the
launcher and `run-network.bat` arrange. If only the higher port lists the lower,
the single link there is counts as redundant at both ends, and is dropped and
dialled again for ever.

**Inclusion.** The comparison with a node is part of what `verify` promises. On its
own it looks at nothing but the file: it tests the work against the bits of the
file's own header (`clctl.cpp:117`), so a header with easy bits and a root of its
own passes, for a transaction that no chain has. And as it takes any 32 bytes as
the txid (95, 115), an inner node of a block's tree passes too, with a shorter path
and even when the node agrees. `AgreedIsCommitted` is what is left, and it is what
a user needs: the file names a block that the node has, and if its txid is the hash
of a transaction then that transaction is in it.

**Threads.** If the RPC port is taken, `node_run` returns (`node_impl.h:734`) while
the network thread runs. `~App` then destroys what is declared after `p2p`, among
it `cand` and `work_cache`, without `App::mtx`, which is to guard them
(`node_impl.h:18`); a handler on the network thread may use them just then. The end
comes at `p2p`, whose thread is joinable, so `std::terminate` is called. `TeardownSafe`
says that until then everything declared before the network is in place, and that
an orderly shutdown destroys nothing that is in use.

**Launcher.** The README says that an instance never collides with another and
that nothing is ever orphaned. What the code guarantees is `LaterTakesOtherPorts`
and `NoneRunsOrphaned`. Two instances that probe before either has bound take the
same range, `SO_REUSEADDR` lets both bind, and each takes whoever answers for its
own nodes; and two instances from the same directory use the same databases. A
launcher killed between `CreateProcess` and `AssignProcessToJobObject` leaves a
process that is suspended for ever, and one that got no job object leaves its
nodes running.

## Findings

1. *A full download without a fork* (`sync_redownload`, `node_impl.h:111`). The
   comment in `handle_blocks` takes a refused first block for a diverging
   history. A miner announces the tip before it pushes the block; the peer asks
   on the announcement, connects the pushed block, then refuses the first block
   of the answer, which it has, and downloads the whole chain. Harmless to the
   chain, costly for a long one.
2. *Late answers* (`sync_late_answer`, `node_impl.h:363`). BLOCKS messages name
   no request. After a timeout whose answer is only late, syncs can stay one
   answer behind, and a fork is not resolved as long as announcements keep
   coming before the outstanding answers. The model has no clock: in the program
   this needs a link that stays slower than the announcements.
3. *The index line* (`proof_damage`, `clctl.cpp:95`). The README says that any
   flipped byte of a proof is rejected; `verify` does not read the index line.
4. *Rows of a block's transactions* (`storage_txs`, `core.h:348`). Outside a
   reorganisation a block's row commits before those of its transactions. A
   crash in between leaves `txs` without them for good; `blocks` and the chain
   are complete.

## Proofs

Every theorem holds for all values of the constants that satisfy the named
assumptions of the modules, so for any set of addresses, transactions, offers,
nodes, targets, instances and any limit. `Spec => []P` unless said otherwise.

| module | theorems | inductive invariant |
|---|---|---|
| `NodeProofs` | `TypeCorrect`, `ReplayTheorem` (`LedgerReplays`), `IndexTheorem` (`IndexExact`), `SupplyTheorem` (`SupplyConserved`), `NoReplayTheorem`, `PoolFreshTheorem`, `PoolConsistentTheorem`, `NotConfirmedTheorem` (`PoolNotConfirmed`) | `Inv` |
| | `CandidateTheorem` (`CandidateConnects`), `WorkTheorem` (`WorkConnects`) | `Inv` and `MiningInv` |
| | `HeavierTheorem` (`OnlyHeavier`), `LostTheorem` (`LostOnlyInReorg`): action properties | `Inv` |
| | `ProofVerifiesTheorem` (`ProofVerifies`), `ValidTheorem` (`ValidMeansConfirmed`), `AgreedTheorem` (`AgreedIsCommitted`): of `InclusionSpec` | `Inv` and `FileInv` |
| `SyncProofs` | `SyncTypeCorrect`, `PathsTheorem` (`ChainsArePaths`), `CoherentTheorem` (`SyncCoherent`), `PeerAliveTheorem` (`SyncPeerAlive`); `ForkChoiceTheorem`: `Sync` implements `ForkChoice` | `SyncInv` |
| | `OneRequestTheorem` (`~EarlyTimeout => OneRequest`) | `SyncInv` and `RequestInv` |
| `StorageProofs` | `StorageTypeCorrect`, `CrashAtomicTheorem`, `OwnHistoryTheorem` (`LoadsOwnHistory`), `TableTheorem` (`TableIsChain`), `NoStaleTheorem` (`NoStaleTxRow`) | `StorageInv` |
| `LinksProofs` | `AgreeTheorem` (`BothSidesAgree`), `OneLinkTheorem` (`OneLinkPerPair`), `LinkKeptTheorem` (`LinkKept`, an action property) | `LinksInv` |
| `ThreadsProofs` | `NoCircularWaitTheorem`, `TeardownTheorem` (`TeardownSafe`) | `ThreadsInv` |
| `LauncherProofs` | `OrphanTheorem` (`NoneRunsOrphaned`), `OtherPortsTheorem` (`LaterTakesOtherPorts`) | `LauncherInv` |

**Assumptions.** `Ledger`, `Mempool`, `Node`: addresses are numbers, finitely
many (20 bytes), the zero key is none of them; limits are naturals; a block has
positive work; what `collect` takes fits in a block next to its coinbase
(`CollectAssumption`, 1000 of 5000); the offers of peers are lists of blocks by
type, valid or not. `Sync`: no node is called `NoPeer`, a batch is not empty.
`Storage`: the tree is a list of blocks with a parent and a height, linked or not.
`Links`: ports are numbers, a node lists neither itself nor port 0. `Threads`:
`Nobody` is no thread. `Launcher`: at least one node, range and attempt. The
remaining assumptions say that the bounds of the models are natural numbers.

**One node.** A chain is good when it is one by type, replays, has an exact
index, its accounts' nonces are those of its transactions (`NoncesOf`: nonces
`0 .. n - 1` of an account are each spent by exactly one confirmed transaction),
its balances add up to one reward per block (`SupplyOf`), and every block is where
its header says, under the merkle root of its body (`PlacesOf`). `Inv` says that
the chain is good and the pool fresh and consistent. Replay needs the types, for
the loops to be functions into chains; `IndexExact` needs that a block goes where
its header says, which `connect_block` checks; the pool needs that
`post_chain_change` purges with the accounts of the new chain, which
`PostChainChangeInv` states once for every handler. `NoReplay` counts
transactions where `NoncesOf` has a bijection with the nonces; `PoolNotConfirmed`
follows as a confirmed nonce is below its account's and a pooled one is not.

The loops of the code (transactions of a block, blocks of a list, `collect`) are
recursive functions on `0 .. n`. `Loops` shows, from the least element of a set
of naturals, that such a function exists and satisfies its equation when each
turn stays in a given set; `LedgerProofs` instantiates it for each loop and
proves the loop invariants: an accepted transaction keeps accounts in their type
(`AfterTxType`) and the total of the balances, but for a coinbase's reward
(`TotalAfterTx`); `connect_block` keeps a chain good (`ConnectGood`), and so do
the loops of `handle_blocks` and `try_replace` (`ConnectAllGood`, `ReplaceGood`),
which also add work. Sums over the addresses are pinned down without the
library's induction theorem by `SubsetInduction`, an induction on cardinality
over a set of sets: a sum exists (`SumsExist`) and two that differ at one
element differ by as much (`SumsDiffer`).

*Mining.* `collect` applies the transactions to the accounts before the coinbase,
`connect_block` applies the coinbase first. `CreditCommutes` says that a payment
accepted with the poorer accounts is accepted with the richer ones and leaves
them as much richer, so the collected list connects behind its coinbase
(`CollectMineable`). `CandidateConnects` then holds when the candidate is made
and until `tip_seq` moves. `WorkConnects` is not inductive by itself: a later
`/work` caches another list under another root, so `MiningInv` says of *every*
cached list that it connects to the current tip, and that a job is for that tip
for as long as the cache holds anything. `Node` has one external miner.

*`LostOnlyInReorg`.* `StepPool`: a step leaves in the pool what its new accounts
have not consumed. `StepIndex`: a chain that extends the old one indexes all it
indexed.

*Inclusion proofs.* Of the tree: `Tree` has the levels of any list of leaves,
`PathLeadsToRoot` says that what `merkle_proof` collects is what `merkle_apply`
needs, at every position and with the repeated nodes of odd levels;
`PathStartsInTree` that a path to the root starts at a leaf of the list, because a
leaf is hashed as no inner node is (a txid is the hash of a transaction, not of
two hashes); `RootInjective` that two lists *without repetition* that have the same
root are the same. That last fact is false for lists in general, as an odd level
repeats its last node; it applies because a chain never has a transaction twice
(`NoncesOf`, and a coinbase has the height as its nonce), which `UniquePlace`
states. `FileInv` says that an undamaged file is exactly the proof of one
transaction of a block with a valid body that is no higher than the chain, and
nothing of a damaged one but that its fields are of their kinds.
`ValidMeansConfirmed` follows: the header on the chain at that height is the
file's, so the bodies are the same, and the place in the index is the only one the
transaction has. `AgreedIsCommitted` needs no account of the damage: the node's
block has the file's hash, so its header is the file's header and its root the one
the file's path reaches; the path starts at a txid, so at a leaf of that block.

**The network.** `SyncInv` assumes nothing of blocks in messages, candidates and
queues but that they are numbers. So whatever is late, cut off or answered
twice, with any number of faults and early timeouts, chains are paths because
the handlers check what they connect. The proof of
`SyncPeerAlive` is about the queue of events, in which the event that resets a
sync stays behind those read before it; `LinkInv` adds the types of links and
queues, and that no node is linked to itself. For the
refinement every action either leaves all chains alone, or mines on a tip, or
replaces the chain of one node by a longer path.

*`OneRequest`* is false when a timeout fires although an answer is coming
(finding 2), so the theorem is about `~EarlyTimeout`. It is not inductive: a
node that begins a sync must know that no answer to an earlier one is still to
come. `RequestInv` says of every link that is whole (up at both ends, no end of
stream on the wire) that it carries one request or answer of `n` if `n`'s sync
is with that peer, and none otherwise; that a ready link is up; and that a link
whose end has been read is not. A handler is `Balanced`: it answers what it was
asked, and asks again exactly if the sync goes on. `Connect` waits until both
ends have handled what they had read, so a new link starts with none.

**Links.** What is redundant is a function of the two ports and the direction,
and comes out the same at both ends (`RedundantOnBothSides`). `EndsInv` says of
each connection that only a kept end is ready, and only a redundant one is
dropped. `OneLinkPerPair` needs in addition that a dialler has one entry per
target that is not dead (`OneEntry`) and that an acceptor whose dialler is gone
has the end of the stream still to read: an old connection may be open at the
far end while the new one is in use. `LinkKept` looks at the steps: a link in use
at both ends has nothing to read (`IdleLinkStays`), so only a failure touches it,
and of other links of the pair none comes into use beside it (`UseOneInv`).

**Threads.** What a thread has yet to do in its turn is read by an automaton
whose states are the mutexes held (none, app, p2p, both, app before p2p).
`LocksInv` says that the rest of each thread's list is a run of the automaton
from what it holds to nothing, and that the owners of the mutexes are the
threads that hold them. `IdleInv` says who has anything to do, `StageInv` which
threads have started and ended at each place of `node_run`, and how much of `App`
is left there: after a failed start only the network thread runs, and the
destruction stops at `p2p`. So a thread that holds p2p waits for no mutex, one that
holds app waits at most for p2p, and one that the main thread joins holds
nothing it waits for.

**Launcher.** `JobInv`: while the job object is open every running child is in
it. `ScanInv`: the places that a scan of another instance's range has passed have
no node that is up; with `SawInv` (a served instance only ends) that is still so
when the range is chosen.

**Storage.** `StorageInv` has four parts. The types. `HistoryInv`: every row of
the blocks table, committed or in the open transaction, is of a chain the node
has had, at its height there, and so are the rows that the statements still to be
executed will write; so whatever prefix of them takes effect, what loads is linked
by parents to a chain it has had. `StageInv`: the node is between operations, or
appends one block, or replaces (a start that drops rows, or `try_replace`), and
what the rest of the statements makes of each height (`Settles`) is the row of the
new chain there. Nothing of this can be said of the table alone, as in the middle
of a replacement it is neither chain; the committed table is, because the
statements between BEGIN and COMMIT leave it alone. `TxInv`: the same account of
the rows of `txs`, with their multiplicities, as long as no statement fails.

**Only model-checked**

* All liveness, as fairness and `ENABLED` are out of the prover's reach.
* `FeedExact`: the order of `/records` comes from `SetToSortSeq` and
  `FlattenSeq`, whose values for every input need induction over data.

## Plan

Done: `Ledger`, `Mempool`, `Node` with `Queries`, `Sync` with `ForkChoice`,
`Links`, `Threads`, `Inclusion`, `Storage`, `Launcher`, and the proofs above.
Left, in this order:

1. Three nodes in `Sync` (a mesh with a cold start has more than ten million
   states; start connected, with one block, or with reduced faults): a sync with
   one peer while another announces. The theorems of `SyncProofs` cover any
   number of nodes, the liveness properties do not.
2. `Wallet`: `build_and_submit` of concurrent clients over `Node`.

## Not modelled

SHA-256 and ECDSA themselves, byte encodings, HTTP parsing, logging, the RPC
queries that print a field of the state (`/status`, `/balance`, `/mempool`,
`/tail`, `/nodes`), the wallet's `build_and_submit` (its submissions are among
`Node`'s `Wire`), the CUDA kernel, the web viewer, the launcher's `--reset`, two
processes on one database, and (so far) the items of the plan. Blocks have no
size: a node that needs an answer of more than 8 MB loses the link each time it
asks for it (`SendBig` in `Links`), and `Sync` does not follow it there. A candidate of more than 500000
blocks is dropped by the code, so a node never leaves a fork that long; `MaxCand`
is that limit in `Sync`, and runs that ask for convergence stay below it.
