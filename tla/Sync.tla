-------------------------------- MODULE Sync --------------------------------
(***************************************************************************)
(* A network of nodes that exchange tips and blocks: the message handlers  *)
(* and the sync state machine of src/node_impl.h over the peer links of    *)
(* src/net.h.  Transactions are left out (module Node): whether a block    *)
(* connects is decided here by its parent and its height alone, and every  *)
(* block in the tree has been mined, so its proof of work is good.         *)
(*                                                                         *)
(* A node runs four threads.  The network thread alternates between        *)
(* reading frames from all sockets (Read, which also records a peer's tip) *)
(* and handling the events it collected (Handle); it may be interleaved,   *)
(* between any two critical sections, with the miner, the RPC and the      *)
(* periodic thread.  A block is relayed after the mutex is released, so    *)
(* the relay is a step of its own.                                         *)
(***************************************************************************)
EXTENDS BlockTree, FiniteSetsExt

CONSTANTS
    Node,          \* the nodes, all peers of each other
    NoPeer,        \* sync_peer = -1
    Batch,         \* 200: blocks asked for and sent at once
    MaxCand,       \* 500000: longest candidate kept
    EarlyTimeout,  \* may the 20 s timeout fire although an answer is coming?
    MaxBlocks,     \* bound of the model: blocks mined in all
    MaxFaults,     \* bound of the model: link failures and crashes in all
    MaxTimeouts,   \* bound of the model: timeouts in all
    MaxEvents,     \* bound of the model: frames read before they are handled
    MaxWire        \* bound of the model: no periodic announce on a longer queue

ASSUME NodeAssumption == NoPeer \notin Node
ASSUME BatchAssumption == Batch \in Nat \ {0} /\ MaxCand \in Nat
ASSUME EarlyTimeoutAssumption == EarlyTimeout \in BOOLEAN
ASSUME SyncBoundsAssumption ==
    /\ MaxBlocks \in Nat /\ MaxFaults \in Nat /\ MaxTimeouts \in Nat
    /\ MaxEvents \in Nat \ {0} /\ MaxWire \in Nat

VARIABLES
    tree,      \* every block mined so far
    chain,     \* chain[n]: App::chain of node n
    sync,      \* sync[n]: App::sync_peer, sync_mode, sync_extend_got, cand
    peerTip,   \* peerTip[n][p]: height in the last TIP n has read from p
    up,        \* up[n][p]: n has a connection to p that is not dead
    ready,     \* ready[n][p]: and has read p's HELLO on it
    wire,      \* wire[p][n]: frames from p that n has not read
    events,    \* events[n]: what n's network thread has read and not handled
    busy,      \* busy[n]: the network thread is handling, not reading
    minerOut,  \* minerOut[n]: blocks the miner thread has yet to broadcast
    relay,     \* relay[n]: <<block, peer>> the network thread has yet to relay
    faults,    \* link failures and crashes so far
    timeouts   \* timeouts so far

links == <<peerTip, up, ready>>
out == <<minerOut, relay>>
bounds == <<faults, timeouts>>
vars == <<tree, chain, sync, links, wire, events, busy, out, bounds>>

---------------------------------------------------------------------------
(* Messages *)

HelloMsg == [type |-> "HELLO"]
TipMsg(h) == [type |-> "TIP", height |-> h]
GetMsg(start) == [type |-> "GET_BLOCKS", start |-> start]
BlocksMsg(v) == [type |-> "BLOCKS", blocks |-> v]
BlockMsg(b) == [type |-> "BLOCK", block |-> b]
Eof == [type |-> "EOF"]        \* the end of a connection, seen by the reader
ReadyEv == [type |-> "READY"]  \* on_ready
GoneEv == [type |-> "GONE"]    \* on_gone

\* P2P::send_to and P2P::broadcast on the queues w.
SendTo(w, n, p, m) == IF up[n][p] THEN [w EXCEPT ![n][p] = Append(@, m)] ELSE w
Broadcast(w, n, m, except) ==
    [w EXCEPT ![n] = [p \in Node |-> IF ready[n][p] /\ p # except
                                     THEN Append(w[n][p], m) ELSE w[n][p]]]

\* Mutant of NoSync: the mode is reset to -1, as the peer is.
NoSyncMinusOne == [peer |-> NoPeer, mode |-> -1, got |-> 0, cand |-> << >>]

\* reset_sync.
NoSync == [peer |-> NoPeer, mode |-> 0, got |-> 0, cand |-> << >>]

---------------------------------------------------------------------------
Init ==
    /\ tree = << >>
    /\ chain = [n \in Node |-> <<Genesis>>]
    /\ sync = [n \in Node |-> NoSync]
    /\ peerTip = [n \in Node |-> [p \in Node |-> 0]]
    /\ up = [n \in Node |-> [p \in Node |-> FALSE]]
    /\ ready = up
    /\ wire = [n \in Node |-> [p \in Node |-> << >>]]
    /\ events = [n \in Node |-> << >>]
    /\ busy = [n \in Node |-> FALSE]
    /\ minerOut = [n \in Node |-> << >>]
    /\ relay = [n \in Node |-> << >>]
    /\ faults = 0
    /\ timeouts = 0

---------------------------------------------------------------------------
(* Handlers of the network thread.  Each takes the event out of the queue. *)

\* Mutants of MaybeSync: the request is not sent; a sync that is going on is
\* not noticed.
MaybeSyncSilent(n, p, w) ==
    /\ sync' = IF sync[n].peer = NoPeer /\ ready[n][p] /\ peerTip[n][p] > Height(chain[n])
               THEN [sync EXCEPT ![n] = [NoSync EXCEPT !.peer = p, !.mode = 1]] ELSE sync
    /\ wire' = w
MaybeSyncAlways(n, p, w) ==
    IF ready[n][p] /\ peerTip[n][p] > Height(chain[n])
    THEN /\ sync' = [sync EXCEPT ![n] = [NoSync EXCEPT !.peer = p, !.mode = 1]]
         /\ wire' = SendTo(w, n, p, GetMsg(Height(chain[n]) + 1))
    ELSE /\ UNCHANGED sync
         /\ wire' = w

\* maybe_sync, with the queues as they are after what the handler has sent.
MaybeSync(n, p, w) ==
    IF sync[n].peer = NoPeer /\ ready[n][p] /\ peerTip[n][p] > Height(chain[n])
    THEN /\ sync' = [sync EXCEPT ![n] = [NoSync EXCEPT !.peer = p, !.mode = 1]]
         /\ wire' = SendTo(w, n, p, GetMsg(Height(chain[n]) + 1))
    ELSE /\ UNCHANGED sync
         /\ wire' = w

HandleReady(n, p) ==
    /\ wire' = SendTo(wire, n, p, TipMsg(Height(chain[n])))
    /\ UNCHANGED <<tree, chain, sync, relay>>

\* Mutants of HandleGone: the sync is not reset, or only in part.
HandleGoneIgnored(n, p) == UNCHANGED <<tree, chain, sync, wire, relay>>
HandleGonePartly(n, p) ==
    /\ sync' = IF sync[n].peer = p THEN [sync EXCEPT ![n].peer = NoPeer, ![n].mode = 0] ELSE sync
    /\ UNCHANGED <<tree, chain, wire, relay>>

HandleGone(n, p) ==
    /\ sync' = IF sync[n].peer = p THEN [sync EXCEPT ![n] = NoSync] ELSE sync
    /\ UNCHANGED <<tree, chain, wire, relay>>

HandleTip(n, p) ==
    /\ MaybeSync(n, p, wire)
    /\ UNCHANGED <<tree, chain, relay>>

\* The blocks of c from height start, at most Batch of them.
Served(c, start) ==
    SubSeq(c, start + 1, IF start + Batch <= Len(c) THEN start + Batch ELSE Len(c))

HandleGetBlocks(n, p, start) ==
    /\ wire' = SendTo(wire, n, p, BlocksMsg(Served(chain[n], start)))
    /\ UNCHANGED <<tree, chain, sync, relay>>

\* Mutant of Connects: the hash of the parent is not compared.
ConnectsByHeight(c, b) ==
    b \in DOMAIN tree /\ tree[b].height = HeightOf(tree, Tip(c)) + 1

\* connect_block succeeds: the block's parent is the tip, its height is next.
Connects(c, b) == ChildOf(tree, b, Tip(c))

\* The number of blocks of v that connect one after the other to c.
OkCount(c, v) ==
    CHOOSE k \in 0 .. Len(v) :
        /\ \A i \in 1 .. k : Connects(IF i = 1 THEN c ELSE <<v[i - 1]>>, v[i])
        /\ k < Len(v) => ~Connects(IF k = 0 THEN c ELSE <<v[k]>>, v[k + 1])

\* handle_blocks, sync_mode 1: extend our chain from its tip.
ExtendFrom(n, p, v) ==
    LET okc == OkCount(chain[n], v)
        c == chain[n] \o SubSeq(v, 1, okc)
        diverged == v # << >> /\ okc = 0 /\ sync[n].got = 0
        caughtUp == ready[n][p] /\ Height(c) >= peerTip[n][p]
    IN  /\ chain' = [chain EXCEPT ![n] = c]
        /\ \/ /\ diverged
              /\ sync' = [sync EXCEPT ![n].mode = 2, ![n].cand = << >>]
              /\ wire' = SendTo(wire, n, p, GetMsg(0))
           \/ /\ ~diverged /\ caughtUp
              /\ sync' = [sync EXCEPT ![n] = NoSync]
              /\ wire' = Broadcast(wire, n, TipMsg(Height(c)), NoPeer)
           \/ /\ ~diverged /\ ~caughtUp /\ okc > 0
              /\ sync' = [sync EXCEPT ![n].got = @ + okc]
              /\ wire' = SendTo(wire, n, p, GetMsg(Height(c) + 1))
           \/ /\ ~diverged /\ ~caughtUp /\ okc = 0
              /\ sync' = [sync EXCEPT ![n] = NoSync]
              /\ UNCHANGED wire

\* Mutants of CanReplace: a chain of equal work is adopted; one more block is
\* not enough.
CanReplaceEqual(c, cand) == IsPath(tree, cand) /\ Len(cand) >= Len(c)
CanReplaceByTwo(c, cand) == IsPath(tree, cand) /\ Len(cand) > Len(c) + 1

\* try_replace succeeds: the candidate is a whole valid chain with more work.
CanReplace(c, cand) == IsPath(tree, cand) /\ Len(cand) > Len(c)

\* handle_blocks, sync_mode 2: collect the peer's whole chain, then compare.
DownloadAll(n, p, v) ==
    LET cand == sync[n].cand \o v
        complete == v = << >> \/ (ready[n][p] /\ HeightOf(tree, Tip(cand)) >= peerTip[n][p])
    IN  \/ /\ Len(cand) > MaxCand
           /\ sync' = [sync EXCEPT ![n] = NoSync]
           /\ UNCHANGED <<chain, wire>>
        \/ /\ Len(cand) <= MaxCand /\ ~complete
           /\ sync' = [sync EXCEPT ![n].cand = cand]
           /\ wire' = SendTo(wire, n, p, GetMsg(Len(cand)))
           /\ UNCHANGED chain
        \/ /\ Len(cand) <= MaxCand /\ complete
           /\ sync' = [sync EXCEPT ![n] = NoSync]
           /\ IF CanReplace(chain[n], cand)
              THEN /\ chain' = [chain EXCEPT ![n] = cand]
                   /\ wire' = Broadcast(wire, n, TipMsg(Height(cand)), NoPeer)
              ELSE UNCHANGED <<chain, wire>>

HandleBlocks(n, p, v) ==
    /\ \/ /\ sync[n].peer # p
          /\ UNCHANGED <<chain, sync, wire>>
       \/ sync[n].peer = p /\ sync[n].mode = 1 /\ ExtendFrom(n, p, v)
       \/ sync[n].peer = p /\ sync[n].mode = 2 /\ DownloadAll(n, p, v)
    /\ UNCHANGED <<tree, relay>>

HasBlock(c, b) == \E i \in DOMAIN c : c[i] = b

HandleBlock(n, p, b) ==
    /\ \/ /\ HasBlock(chain[n], b)
          /\ UNCHANGED <<chain, sync, wire, relay>>
       \/ /\ ~HasBlock(chain[n], b) /\ Connects(chain[n], b)
          /\ chain' = [chain EXCEPT ![n] = Append(@, b)]
          /\ wire' = Broadcast(wire, n, TipMsg(Len(chain[n])), p)
          /\ relay' = [relay EXCEPT ![n] = <<b, p>>]
          /\ UNCHANGED sync
       \/ /\ ~HasBlock(chain[n], b) /\ ~Connects(chain[n], b)
          /\ IF HeightOf(tree, b) > Height(chain[n])
             THEN MaybeSync(n, p, wire) ELSE UNCHANGED <<sync, wire>>
          /\ UNCHANGED <<chain, relay>>
    /\ UNCHANGED tree

---------------------------------------------------------------------------
(* The network thread *)

\* parse_frames on the next frame from p.  A TIP is recorded as it is read,
\* before the events read earlier are handled.
Read(n, p) ==
    /\ up[n][p] /\ wire[p][n] # << >> /\ ~busy[n] /\ Len(events[n]) < MaxEvents
    /\ LET m == Head(wire[p][n])
           ev == CASE m.type = "HELLO" -> <<[peer |-> p, msg |-> ReadyEv]>>
                   [] m.type = "EOF" -> IF ready[n][p] THEN <<[peer |-> p, msg |-> GoneEv]>>
                                        ELSE << >>
                   [] OTHER -> <<[peer |-> p, msg |-> m]>>
       IN  /\ events' = [events EXCEPT ![n] = @ \o ev]
           /\ ready' = [ready EXCEPT ![n][p] = (@ \/ m.type = "HELLO") /\ m.type # "EOF"]
           /\ up' = [up EXCEPT ![n][p] = @ /\ m.type # "EOF"]
           /\ peerTip' = [peerTip EXCEPT ![n][p] = IF m.type = "TIP" THEN m.height ELSE @]
    /\ wire' = [wire EXCEPT ![p][n] = Tail(@)]
    /\ UNCHANGED <<tree, chain, sync, busy, out, bounds>>

\* The next event is handled; reading starts again when none is left.
Handle(n) ==
    /\ events[n] # << >> /\ relay[n] = << >>
    /\ LET p == Head(events[n]).peer
           m == Head(events[n]).msg
       IN  \/ m.type = "READY" /\ HandleReady(n, p)
           \/ m.type = "GONE" /\ HandleGone(n, p)
           \/ m.type = "TIP" /\ HandleTip(n, p)
           \/ m.type = "GET_BLOCKS" /\ HandleGetBlocks(n, p, m.start)
           \/ m.type = "BLOCKS" /\ HandleBlocks(n, p, m.blocks)
           \/ m.type = "BLOCK" /\ HandleBlock(n, p, m.block)
    /\ events' = [events EXCEPT ![n] = Tail(@)]
    /\ busy' = [busy EXCEPT ![n] = Len(events[n]) > 1 \/ relay'[n] # << >>]
    /\ UNCHANGED <<links, minerOut, bounds>>

\* The M_BLOCK handler relays the block it accepted, without the mutex.
Relay(n) ==
    /\ relay[n] # << >>
    /\ wire' = Broadcast(wire, n, BlockMsg(relay[n][1]), relay[n][2])
    /\ relay' = [relay EXCEPT ![n] = << >>]
    /\ busy' = [busy EXCEPT ![n] = events[n] # << >>]
    /\ UNCHANGED <<tree, chain, sync, links, events, minerOut, bounds>>

---------------------------------------------------------------------------
(* The miner, RPC and periodic threads *)

\* The chain and tree after n has mined on its tip, the tip announced.
MineOn(n) ==
    /\ Len(tree) < MaxBlocks
    /\ tree' = Append(tree, [parent |-> Tip(chain[n]), height |-> Len(chain[n])])
    /\ chain' = [chain EXCEPT ![n] = Append(@, Len(tree) + 1)]

\* miner_thread's second critical section.
Mine(n) ==
    /\ minerOut[n] = << >>
    /\ MineOn(n)
    /\ wire' = Broadcast(wire, n, TipMsg(Len(chain[n])), NoPeer)
    /\ minerOut' = [minerOut EXCEPT ![n] = <<Len(tree) + 1>>]
    /\ UNCHANGED <<sync, links, events, busy, relay, bounds>>

\* miner_thread broadcasts its block, without the mutex.
BroadcastMined(n) ==
    /\ minerOut[n] # << >>
    /\ wire' = Broadcast(wire, n, BlockMsg(minerOut[n][1]), NoPeer)
    /\ minerOut' = [minerOut EXCEPT ![n] = << >>]
    /\ UNCHANGED <<tree, chain, sync, links, events, busy, relay, bounds>>

\* POST /submitwork announces and broadcasts in one critical section.
SubmitWork(n) ==
    /\ MineOn(n)
    /\ wire' = Broadcast(Broadcast(wire, n, TipMsg(Len(chain[n])), NoPeer),
                         n, BlockMsg(Len(tree) + 1), NoPeer)
    /\ UNCHANGED <<sync, links, events, busy, out, bounds>>

\* The periodic thread announces the tip every 10 s.
Announce(n) ==
    /\ \E p \in Node : ready[n][p] /\ Len(wire[n][p]) <= MaxWire
    /\ \A p \in Node : Len(wire[n][p]) <= MaxWire
    /\ wire' = Broadcast(wire, n, TipMsg(Height(chain[n])), NoPeer)
    /\ UNCHANGED <<tree, chain, sync, links, events, busy, out, bounds>>

\* A request or answer of n's sync with p is under way.
Requests(n, p) ==
    LET get(m) == m.type = "GET_BLOCKS"
        blk(m) == m.type = "BLOCKS"
    IN    Cardinality({i \in DOMAIN wire[n][p] : get(wire[n][p][i])})
        + Cardinality({i \in DOMAIN events[p] : events[p][i].peer = n /\ get(events[p][i].msg)})
        + Cardinality({i \in DOMAIN wire[p][n] : blk(wire[p][n][i])})
        + Cardinality({i \in DOMAIN events[n] : events[n][i].peer = p /\ blk(events[n][i].msg)})

\* The periodic thread gives up on a sync after 20 s without an answer.
SyncTimeout(n) ==
    /\ sync[n].peer # NoPeer
    /\ timeouts < MaxTimeouts
    /\ EarlyTimeout \/ Requests(n, sync[n].peer) = 0
    /\ sync' = [sync EXCEPT ![n] = NoSync]
    /\ timeouts' = timeouts + 1
    /\ UNCHANGED <<tree, chain, links, wire, events, busy, out, faults>>

---------------------------------------------------------------------------
(* Connections *)

\* A link is made once both ends have noticed the end of the last one; each
\* end sends its HELLO.
Connect(n, p) ==
    /\ n # p /\ ~up[n][p] /\ ~up[p][n]
    /\ events[n] = << >> /\ events[p] = << >> /\ relay[n] = << >> /\ relay[p] = << >>
    /\ up' = [up EXCEPT ![n][p] = TRUE, ![p][n] = TRUE]
    /\ peerTip' = [peerTip EXCEPT ![n][p] = 0, ![p][n] = 0]
    /\ wire' = [wire EXCEPT ![n][p] = <<HelloMsg>>, ![p][n] = <<HelloMsg>>]
    /\ UNCHANGED <<tree, chain, sync, ready, events, busy, out, bounds>>

\* The frames of q that still get through when the connection breaks.
Cut(q, k) == SubSeq(q, 1, k) \o <<Eof>>

\* The network fails the link between n and p: some of what is under way is
\* lost, in both directions.
LinkFails(n, p) ==
    /\ up[n][p] /\ up[p][n] /\ faults < MaxFaults
    /\ \E k \in 0 .. Len(wire[n][p]), l \in 0 .. Len(wire[p][n]) :
          wire' = [wire EXCEPT ![n][p] = Cut(@, k), ![p][n] = Cut(@, l)]
    /\ faults' = faults + 1
    /\ UNCHANGED <<tree, chain, sync, links, events, busy, out, timeouts>>

\* The process of n dies and is started again: its chain is in the database,
\* the rest of its state is lost, its peers see their connections end.
Crash(n) ==
    /\ faults < MaxFaults
    /\ \E k \in [Node -> 0 .. Max({Len(wire[n][p]) : p \in Node})] :
          /\ \A p \in Node : k[p] <= Len(wire[n][p])
          /\ wire' = [a \in Node |-> [b \in Node |->
                         CASE b = n -> << >>
                           [] a = n /\ up[b][n] -> Cut(wire[n][b], k[b])
                           [] OTHER -> wire[a][b]]]
    /\ sync' = [sync EXCEPT ![n] = NoSync]
    /\ up' = [up EXCEPT ![n] = [p \in Node |-> FALSE]]
    /\ ready' = [ready EXCEPT ![n] = [p \in Node |-> FALSE]]
    /\ events' = [events EXCEPT ![n] = << >>]
    /\ busy' = [busy EXCEPT ![n] = FALSE]
    /\ minerOut' = [minerOut EXCEPT ![n] = << >>]
    /\ relay' = [relay EXCEPT ![n] = << >>]
    /\ faults' = faults + 1
    /\ UNCHANGED <<tree, chain, peerTip, timeouts>>

Next ==
    \/ \E n, p \in Node : Read(n, p) \/ Connect(n, p) \/ LinkFails(n, p)
    \/ \E n \in Node :
          \/ Handle(n) \/ Relay(n)
          \/ Mine(n) \/ BroadcastMined(n) \/ SubmitWork(n)
          \/ Announce(n) \/ SyncTimeout(n)
          \/ Crash(n)

Spec == Init /\ [][Next]_vars

\* What the threads of a running node do without fail: connections are made
\* again, frames are read, events handled, blocks passed on, and the periodic
\* thread announces the tip again and again.  The bound MaxWire may switch an
\* announcement off for a while, so its fairness is strong.  Mining, failures
\* and early timeouts are not promised.
Fairness ==
    /\ \A n, p \in Node : WF_vars(Read(n, p)) /\ WF_vars(Connect(n, p))
    /\ \A n \in Node : /\ WF_vars(Handle(n)) /\ WF_vars(Relay(n))
                       /\ WF_vars(BroadcastMined(n)) /\ SF_vars(Announce(n))

FairSpec == Spec /\ Fairness

---------------------------------------------------------------------------
(* Properties *)

SyncState == [peer: Node \cup {NoPeer}, mode: 0 .. 2, got: Nat, cand: Seq(Nat)]

TypeOK ==
    /\ tree \in Seq([parent: Nat, height: Nat])
    /\ chain \in [Node -> Seq(Nat)]
    /\ sync \in [Node -> SyncState]
    /\ peerTip \in [Node -> [Node -> Nat]]
    /\ up \in [Node -> [Node -> BOOLEAN]]
    /\ ready \in [Node -> [Node -> BOOLEAN]]
    /\ busy \in [Node -> BOOLEAN]
    /\ faults \in Nat /\ timeouts \in Nat

\* Whatever is spliced together from answers to different requests, late
\* answers and blocks pushed meanwhile, a node's chain is a path of the tree.
ChainsArePaths == \A n \in Node : IsPath(tree, chain[n])

\* The sync state machine is coherent: idle means no peer and nothing kept
\* from the last attempt.
SyncCoherent ==
    \A n \in Node :
        /\ sync[n].peer = NoPeer <=> sync[n].mode = 0
        /\ sync[n].mode = 0 => sync[n] = NoSync
        /\ sync[n].mode # 2 => sync[n].cand = << >>

\* A sync never waits for a peer that is gone: the connection is there, or
\* the event that resets the sync is.
SyncPeerAlive ==
    \A n \in Node : \A p \in Node :
        sync[n].peer = p =>
            ready[n][p] \/ \E i \in DOMAIN events[n] : events[n][i] = [peer |-> p, msg |-> GoneEv]

\* A sync over a link that works has exactly one request or answer under way:
\* it is never stuck, and never served twice.
OneRequest ==
    \A n, p \in Node :
        sync[n].peer = p /\ ~(\E i \in DOMAIN wire[n][p] : wire[n][p][i] = Eof)
          /\ ~(\E i \in DOMAIN wire[p][n] : wire[p][n][i] = Eof) /\ up[n][p] /\ up[p][n]
        => Requests(n, p) = 1

\* The whole network implements fork choice by work.
FC == INSTANCE ForkChoice WITH Node <- Node, tree <- tree, chain <- chain
ForkChoiceSpec == FC!Spec

\* "Heaviest-cumulative-work wins": once mining has stopped, every node comes
\* to a chain of the same, greatest work, and keeps it.
Convergence ==
    <>[](\A n, p \in Node : Len(chain[n]) = Len(chain[p]))

\* No sync goes on for ever: each is completed, given up or reset.
SyncEnds ==
    \A n \in Node : sync[n].peer # NoPeer ~> sync[n].peer = NoPeer

\* handle_blocks downloads the peer's whole chain when "peer's history
\* diverges from ours": neither chain is then a prefix of the other.
DownloadOnlyOnFork ==
    [][\A n \in Node : sync[n].mode = 1 /\ sync'[n].mode = 2 =>
          \E i \in DOMAIN chain[n] \cap DOMAIN chain[sync[n].peer] :
              chain[n][i] # chain[sync[n].peer][i]]_vars

=============================================================================
