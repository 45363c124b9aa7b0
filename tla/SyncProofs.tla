----------------------------- MODULE SyncProofs -----------------------------
(***************************************************************************)
(* The network of nodes for every number of nodes and blocks, every batch  *)
(* size and every number of failures, crashes and timeouts, early ones     *)
(* included.  SyncInv is inductive: nothing is assumed of the blocks in a  *)
(* message, a candidate or a queue but that they are numbers, so whatever  *)
(* is late, cut off or answered twice, a chain is a path only because the  *)
(* handlers check what they connect.  From it follows, step by step, that  *)
(* the network implements ForkChoice.  RequestInv adds the account of the  *)
(* requests and answers under way.                                         *)
(***************************************************************************)
EXTENDS Sync, Loops, SequenceTheorems, FiniteSetTheorems

Block == [parent: Nat, height: Nat]

---------------------------------------------------------------------------
(* Paths of the tree *)

\* The block at position i of a path has height i - 1, so the tip of a chain
\* has the height that Chain::height gives.
LEMMA PathHeight ==
    ASSUME NEW t \in Seq(Block), NEW c \in Seq(Nat), IsPath(t, c)
    PROVE  HeightOf(t, Tip(c)) = Len(c) - 1 /\ Len(c) \in Nat \ {0} /\ Tip(c) \in Nat
<1>. DEFINE n == Len(c) - 1
            H == {i \in Nat : i <= n => HeightOf(t, c[i + 1]) = i}
<1>1. Len(c) \in Nat \ {0} /\ n \in Nat
  BY EmptySeq DEF IsPath
<1>2. 0 \in H
  BY <1>1 DEF IsPath, HeightOf
<1>3. ASSUME NEW i \in 1 .. n, i - 1 \in H PROVE i \in H
  <2>1. i + 1 \in 2 .. Len(c) /\ i \in Nat /\ i - 1 \in Nat /\ i - 1 <= n
    BY <1>1
  <2>2. ChildOf(t, c[i + 1], c[(i + 1) - 1])
    BY <2>1 DEF IsPath
  <2>3. HeightOf(t, c[i]) = i - 1
    BY <1>3, <2>1
  <2>4. t[c[i + 1]].height = i /\ c[i + 1] \in DOMAIN t
    BY <2>1, <2>2, <2>3 DEF ChildOf
  <2>5. c[i + 1] # 0
    BY <2>4
  <2>. QED BY <2>1, <2>4, <2>5 DEF HeightOf, Genesis
<1>. HIDE DEF H
<1>4. H \in SUBSET Nat
  BY DEF H
<1>5. 0 .. n \subseteq H
  BY <1>1, <1>2, <1>3, <1>4, UpTo
<1>6. n \in H
  BY <1>1, <1>5
<1>7. HeightOf(t, c[n + 1]) = n
  BY <1>1, <1>6 DEF H
<1>8. Tip(c) = c[n + 1] /\ c[n + 1] \in Nat
  BY <1>1 DEF Tip
<1>. QED BY <1>1, <1>7, <1>8

\* A path stays one when a block is mined anywhere.
LEMMA PathGrows ==
    ASSUME NEW t \in Seq(Block), NEW c \in Seq(Nat), IsPath(t, c), NEW b \in Block
    PROVE  IsPath(Append(t, b), c)
<1>. DEFINE u == Append(t, b)
<1>1. u \in Seq(Block) /\ Len(u) = Len(t) + 1 /\ \A i \in 1 .. Len(t) : u[i] = t[i]
  BY AppendProperties
<1>2. DOMAIN t = 1 .. Len(t) /\ DOMAIN u = 1 .. Len(u) /\ Len(t) \in Nat
  BY <1>1
<1>. HIDE DEF u
<1>3. ASSUME NEW i \in 2 .. Len(c) PROVE ChildOf(u, c[i], c[i - 1])
  <2>1. ChildOf(t, c[i], c[i - 1])
    BY DEF IsPath
  <2>2. c[i] \in DOMAIN t /\ c[i] \in DOMAIN u /\ u[c[i]] = t[c[i]]
    BY <1>1, <1>2, <2>1 DEF ChildOf
  <2>3. HeightOf(u, c[i - 1]) = HeightOf(t, c[i - 1])
    <3>1. CASE i = 2
      BY <3>1 DEF IsPath, HeightOf
    <3>2. CASE i # 2
      <4>1. i - 1 \in 2 .. Len(c)
        BY <3>2
      <4>2. ChildOf(t, c[i - 1], c[(i - 1) - 1])
        BY <4>1 DEF IsPath
      <4>3. c[i - 1] \in DOMAIN t
        BY <4>2 DEF ChildOf
      <4>. QED BY <1>1, <1>2, <4>3 DEF HeightOf
    <3>. QED BY <3>1, <3>2
  <2>. QED BY <2>1, <2>2, <2>3 DEF ChildOf
<1>. QED BY <1>3 DEF IsPath, u

\* A block that connects to the tip makes a path.
LEMMA PathAppend ==
    ASSUME NEW t, NEW c \in Seq(Nat), IsPath(t, c), NEW b \in Nat, ChildOf(t, b, Tip(c))
    PROVE  /\ IsPath(t, Append(c, b))
           /\ Append(c, b) \in Seq(Nat) /\ Len(Append(c, b)) = Len(c) + 1
<1>. DEFINE d == Append(c, b)
<1>1. /\ d \in Seq(Nat) /\ Len(d) = Len(c) + 1 /\ d # << >> /\ d[Len(c) + 1] = b
      /\ \A i \in 1 .. Len(c) : d[i] = c[i]
  BY AppendProperties
<1>2. Len(c) \in Nat /\ Len(c) >= 1 /\ Len(d) \in Nat
  BY <1>1, EmptySeq DEF IsPath
<1>. HIDE DEF d
<1>3. ASSUME NEW i \in 2 .. Len(d) PROVE ChildOf(t, d[i], d[i - 1])
  <2>1. CASE i = Len(d)
    <3>1. d[i] = b /\ d[i - 1] = Tip(c)
      BY <1>1, <1>2, <2>1 DEF Tip
    <3>. QED BY <3>1
  <2>2. CASE i # Len(d)
    <3>1. i \in 2 .. Len(c) /\ d[i] = c[i] /\ d[i - 1] = c[i - 1]
      BY <1>1, <1>2, <2>2, SMTT(30)
    <3>. QED BY <3>1 DEF IsPath
  <2>. QED BY <2>1, <2>2
<1>4. d[1] = Genesis
  BY <1>1, <1>2 DEF IsPath
<1>. QED BY <1>1, <1>3, <1>4 DEF IsPath, d

\* Blocks that connect one after the other make a path.
LEMMA PathConcat ==
    ASSUME NEW t, NEW c \in Seq(Nat), IsPath(t, c), NEW v \in Seq(Nat), NEW k \in 0 .. Len(v),
           \A i \in 1 .. k : ChildOf(t, v[i], Tip(IF i = 1 THEN c ELSE <<v[i - 1]>>))
    PROVE  /\ IsPath(t, c \o SubSeq(v, 1, k))
           /\ c \o SubSeq(v, 1, k) \in Seq(Nat)
           /\ Len(c \o SubSeq(v, 1, k)) = Len(c) + k
<1>. DEFINE w == SubSeq(v, 1, k)
            d == c \o w
<1>1. Len(c) \in Nat /\ Len(c) >= 1 /\ Len(v) \in Nat /\ k \in Nat
  BY EmptySeq DEF IsPath
<1>2. w \in Seq(Nat) /\ Len(w) = k /\ \A i \in 1 .. k : w[i] = v[i]
  <2>1. \A i \in 1 .. k : v[i] \in Nat
    BY <1>1
  <2>. QED BY <1>1, <2>1, SubSeqProperties
<1>. HIDE DEF w
<1>6. /\ d \in Seq(Nat) /\ Len(d) = Len(c) + k
      /\ \A i \in 1 .. Len(c) + k : d[i] = IF i <= Len(c) THEN c[i] ELSE w[i - Len(c)]
  BY <1>2, ConcatProperties
<1>3. Len(d) = Len(c) + k /\ Len(d) \in Nat
  BY <1>1, <1>6
<1>7. \A i \in 1 .. Len(c) : d[i] = c[i]
  BY <1>1, <1>6
<1>8. \A i \in 1 .. k : d[Len(c) + i] = v[i]
  <2>. TAKE i \in 1 .. k
  <2>1. Len(c) + i \in 1 .. Len(c) + k /\ ~(Len(c) + i <= Len(c)) /\ (Len(c) + i) - Len(c) = i
    BY <1>1
  <2>2. d[Len(c) + i] = w[(Len(c) + i) - Len(c)]
    BY <1>6, <2>1, Zenon
  <2>. QED BY <1>2, <2>1, <2>2
<1>. HIDE DEF d
<1>4. ASSUME NEW i \in 2 .. Len(d) PROVE ChildOf(t, d[i], d[i - 1])
  <2>0. i \in Nat /\ 2 <= i /\ i <= Len(c) + k
    BY <1>1, <1>3
  <2>1. CASE i <= Len(c)
    <3>1. i \in 2 .. Len(c) /\ i \in 1 .. Len(c) /\ i - 1 \in 1 .. Len(c)
      BY <1>1, <2>0, <2>1
    <3>2. d[i] = c[i] /\ d[i - 1] = c[i - 1]
      BY <1>7, <3>1
    <3>. QED BY <3>1, <3>2 DEF IsPath
  <2>2. CASE i = Len(c) + 1
    <3>1. d[i] = v[1] /\ d[i - 1] = Tip(c) /\ 1 \in 1 .. k
      BY <1>1, <1>7, <1>8, <2>0, <2>2 DEF Tip
    <3>. QED BY <3>1
  <2>3. CASE i > Len(c) + 1
    <3>. DEFINE j == i - Len(c)
    <3>1. j \in 1 .. k /\ j # 1 /\ j - 1 \in 1 .. k /\ i = Len(c) + j /\ i - 1 = Len(c) + (j - 1)
      BY <1>1, <2>0, <2>3
    <3>. HIDE DEF j
    <3>2. d[i] = v[j] /\ d[i - 1] = v[j - 1]
      BY <1>8, <3>1
    <3>3. Tip(<<v[j - 1]>>) = v[j - 1]
      BY DEF Tip
    <3>. QED BY <3>1, <3>2, <3>3
  <2>. QED BY <1>1, <2>0, <2>1, <2>2, <2>3
<1>5. d[1] = Genesis /\ d # << >>
  BY <1>1, <1>3, <1>7 DEF IsPath
<1>. QED BY <1>3, <1>6, <1>4, <1>5 DEF IsPath, d, w

\* handle_blocks stops at the first block that does not connect: OkCount is
\* the number of blocks before it.
LEMMA OkCountDef ==
    ASSUME NEW c, NEW v \in Seq(Nat)
    PROVE  /\ OkCount(c, v) \in 0 .. Len(v)
           /\ \A i \in 1 .. OkCount(c, v) :
                 Connects(IF i = 1 THEN c ELSE <<v[i - 1]>>, v[i])
<1>. DEFINE n == Len(v)
            Fits(i) == Connects(IF i = 1 THEN c ELSE <<v[i - 1]>>, v[i])
            Bad == {i \in 1 .. n : ~Fits(i)}
            P(k) == /\ \A i \in 1 .. k : Connects(IF i = 1 THEN c ELSE <<v[i - 1]>>, v[i])
                    /\ k < Len(v) => ~Connects(IF k = 0 THEN c ELSE <<v[k]>>, v[k + 1])
<1>1. n \in Nat
  OBVIOUS
<1>2. \E k \in 0 .. n : P(k)
  <2>1. CASE Bad = {}
    <3>1. n \in 0 .. n /\ ~(n < n)
      BY <1>1
    <3>2. \A i \in 1 .. n : Fits(i)
      BY <2>1, Zenon
    <3>. QED BY <3>1, <3>2, Zenon
  <2>2. CASE Bad # {}
    <3>1. Bad \subseteq Nat
      OBVIOUS
    <3>. HIDE DEF Bad
    <3>2. PICK x \in Bad : \A y \in Bad : x <= y
      BY <2>2, <3>1, LeastNat
    <3>3. x \in 1 .. n /\ ~Fits(x)
      BY DEF Bad
    <3>. DEFINE k == x - 1
    <3>4. k \in 0 .. n /\ k + 1 = x /\ (k = 0 <=> x = 1)
      BY <1>1, <3>3
    <3>5. ASSUME NEW i \in 1 .. k PROVE Fits(i)
      <4>1. i \in 1 .. n /\ ~(x <= i)
        BY <1>1, <3>3
      <4>. QED BY <3>2, <4>1 DEF Bad
    <3>6. ~Connects(IF k = 0 THEN c ELSE <<v[k]>>, v[k + 1])
      BY <3>3, <3>4
    <3>. HIDE DEF k
    <3>7. P(k)
      BY <3>5, <3>6
    <3>. QED BY <3>4, <3>7, Zenon
  <2>. QED BY <2>1, <2>2
<1>3. OkCount(c, v) = CHOOSE k \in 0 .. n : P(k)
  BY Zenon DEF OkCount
<1>. HIDE DEF P, n
<1>4. OkCount(c, v) \in 0 .. n /\ P(OkCount(c, v))
  BY <1>2, <1>3, Zenon
<1>. QED BY <1>4, Zenon DEF P, n

\* So the blocks before it extend a path.
LEMMA OkCountPath ==
    ASSUME NEW c \in Seq(Nat), IsPath(tree, c), NEW v \in Seq(Nat),
           NEW k, k = OkCount(c, v)
    PROVE  /\ k \in 0 .. Len(v)
           /\ IsPath(tree, c \o SubSeq(v, 1, k))
           /\ c \o SubSeq(v, 1, k) \in Seq(Nat)
           /\ Len(c \o SubSeq(v, 1, k)) = Len(c) + k
<1>1. k \in 0 .. Len(v) /\ \A i \in 1 .. k : Connects(IF i = 1 THEN c ELSE <<v[i - 1]>>, v[i])
  BY OkCountDef, Zenon
<1>2. \A i \in 1 .. k : ChildOf(tree, v[i], Tip(IF i = 1 THEN c ELSE <<v[i - 1]>>))
  BY <1>1, Zenon DEF Connects
<1>. QED BY <1>1, <1>2, PathConcat

---------------------------------------------------------------------------
(* The invariant *)

\* What a frame may hold: any numbers at all.
Msg ==
    [type: {"HELLO", "EOF"}] \cup [type: {"TIP"}, height: Nat]
      \cup [type: {"GET_BLOCKS"}, start: Nat] \cup [type: {"BLOCKS"}, blocks: Seq(Nat)]
      \cup [type: {"BLOCK"}, block: Nat]

Event == [peer: Node, msg: Msg \cup {ReadyEv, GoneEv}]
Queues == [Node -> [Node -> Seq(Msg)]]

\* What the handlers change: the tree, chains, syncs and queues.
HandlerInv ==
    /\ tree \in Seq(Block)
    /\ chain \in [Node -> Seq(Nat)]
    /\ sync \in [Node -> SyncState]
    /\ wire \in Queues
    /\ relay \in [Node -> {<< >>} \cup (Nat \X Node)]
    /\ ChainsArePaths
    /\ SyncCoherent

\* What belongs to the links and threads.
LinkInv ==
    /\ peerTip \in [Node -> [Node -> Nat]]
    /\ up \in [Node -> [Node -> BOOLEAN]]
    /\ \A n \in Node : ~up[n][n]
    /\ ready \in [Node -> [Node -> BOOLEAN]]
    /\ events \in [Node -> Seq(Event)]
    /\ busy \in [Node -> BOOLEAN]
    /\ minerOut \in [Node -> Seq(Nat)]
    /\ faults \in Nat /\ timeouts \in Nat

SyncInv == HandlerInv /\ LinkInv /\ SyncPeerAlive

---------------------------------------------------------------------------
(* Messages *)

\* The frames a node sends are messages.
LEMMA MsgMade ==
    ASSUME NEW k \in Nat, NEW v \in Seq(Nat)
    PROVE  {HelloMsg, Eof, TipMsg(k), GetMsg(k), BlocksMsg(v), BlockMsg(k)} \subseteq Msg
BY DEF Msg, HelloMsg, Eof, TipMsg, GetMsg, BlocksMsg, BlockMsg

\* What a handler takes out of a message is of the kind it expects.
LEMMA MsgRead ==
    ASSUME NEW m \in Msg
    PROVE  /\ m.type = "TIP" => m.height \in Nat
           /\ m.type = "GET_BLOCKS" => m.start \in Nat
           /\ m.type = "BLOCKS" => m.blocks \in Seq(Nat)
           /\ m.type = "BLOCK" => m.block \in Nat
           /\ m.type # "READY" /\ m.type # "GONE"
BY DEF Msg

\* send_to leaves queues of messages.
LEMMA SendToType ==
    ASSUME up \in [Node -> [Node -> BOOLEAN]],
           NEW w \in Queues, NEW n \in Node, NEW p \in Node, NEW m \in Msg
    PROVE  SendTo(w, n, p, m) \in Queues
<1>1. Append(w[n][p], m) \in Seq(Msg)
  BY AppendProperties DEF Queues
<1>. QED BY <1>1 DEF SendTo, Queues

\* So does broadcast, whomever it leaves out.
LEMMA BroadcastType ==
    ASSUME NEW w \in Queues, NEW n \in Node, NEW m \in Msg, NEW except
    PROVE  Broadcast(w, n, m, except) \in Queues
<1>1. \A p \in Node : w[n][p] \in Seq(Msg) /\ Append(w[n][p], m) \in Seq(Msg)
  BY AppendProperties DEF Queues
<1>. DEFINE f == [p \in Node |-> IF ready[n][p] /\ p # except
                                 THEN Append(w[n][p], m) ELSE w[n][p]]
<1>2. f \in [Node -> Seq(Msg)]
  BY <1>1
<1>. HIDE DEF f
<1>3. [w EXCEPT ![n] = f] \in Queues
  BY <1>2 DEF Queues
<1>. QED BY <1>3, Zenon DEF Broadcast, f

---------------------------------------------------------------------------
(* What a step does to chains and syncs *)

\* A chain is a path, so it has a tip, and a height that fits in a message.
LEMMA ChainFacts ==
    ASSUME HandlerInv, NEW n \in Node
    PROVE  /\ chain[n] \in Seq(Nat) /\ IsPath(tree, chain[n])
           /\ Len(chain[n]) \in Nat \ {0} /\ Height(chain[n]) \in Nat /\ Tip(chain[n]) \in Nat
           /\ HeightOf(tree, Tip(chain[n])) = Len(chain[n]) - 1
<1>1. tree \in Seq(Block) /\ chain[n] \in Seq(Nat) /\ IsPath(tree, chain[n])
  BY DEF HandlerInv, ChainsArePaths
<1>2. /\ HeightOf(tree, Tip(chain[n])) = Len(chain[n]) - 1
      /\ Len(chain[n]) \in Nat \ {0} /\ Tip(chain[n]) \in Nat
  BY <1>1, PathHeight
<1>. QED BY <1>1, <1>2 DEF Height

\* The chains are changed in this way only: not at all, or one for a longer
\* path, over the same tree.
ChainMoves(n) ==
    /\ UNCHANGED tree
    /\ \/ UNCHANGED chain
       \/ \E c \in Seq(Nat) : /\ IsPath(tree, c) /\ Len(c) > Len(chain[n])
                              /\ chain' = [chain EXCEPT ![n] = c]

\* SyncCoherent of one node's sync.
Coherent(s) ==
    /\ s \in SyncState
    /\ s.peer = NoPeer <=> s.mode = 0
    /\ s.mode = 0 => s = NoSync
    /\ s.mode # 2 => s.cand = << >>

\* The sync of n is changed in this way only: it stays with its peer, ends,
\* or begins with p, which is ready.
SyncMoves(n, p) ==
    \E s : /\ sync' = [sync EXCEPT ![n] = s]
           /\ Coherent(s)
           /\ \/ s.peer = sync[n].peer
              \/ s.peer = NoPeer
              \/ s.peer = p /\ ready[n][p]

\* What a handler does, as the invariant and the refinement need it.
Moves(n, p) ==
    /\ ChainMoves(n) /\ SyncMoves(n, p)
    /\ wire' \in Queues
    /\ relay' \in [Node -> {<< >>} \cup (Nat \X Node)]

\* The sync of a node is coherent, and no sync is.
LEMMA SyncIs ==
    ASSUME HandlerInv, NEW n \in Node
    PROVE  Coherent(sync[n]) /\ Coherent(NoSync) /\ sync = [sync EXCEPT ![n] = sync[n]]
<1>1. sync[n] \in SyncState /\ sync \in [Node -> SyncState]
  BY DEF HandlerInv
<1>2. Coherent(sync[n])
  BY <1>1 DEF HandlerInv, SyncCoherent, Coherent
<1>3. Coherent(NoSync)
  BY DEF Coherent, NoSync, SyncState
<1>. QED BY <1>1, <1>2, <1>3

\* A step of this kind keeps the invariant of the handlers.
LEMMA MovesInv ==
    ASSUME HandlerInv, NEW n \in Node, NEW p, Moves(n, p)
    PROVE  HandlerInv'
<1>1. tree' = tree /\ tree \in Seq(Block) /\ chain \in [Node -> Seq(Nat)]
  BY DEF HandlerInv, Moves, ChainMoves
<1>2. chain' \in [Node -> Seq(Nat)] /\ \A q \in Node : IsPath(tree, chain'[q])
  <2>1. \A q \in Node : IsPath(tree, chain[q])
    BY DEF HandlerInv, ChainsArePaths
  <2>2. CASE UNCHANGED chain
    BY <1>1, <2>1, <2>2
  <2>3. CASE ~UNCHANGED chain
    <3>1. PICK c \in Seq(Nat) : IsPath(tree, c) /\ chain' = [chain EXCEPT ![n] = c]
      BY <2>3 DEF Moves, ChainMoves
    <3>. QED BY <1>1, <2>1, <3>1
  <2>. QED BY <2>2, <2>3
<1>3. ChainsArePaths'
  BY <1>1, <1>2 DEF ChainsArePaths
<1>4. PICK s : sync' = [sync EXCEPT ![n] = s] /\ Coherent(s)
  BY DEF Moves, SyncMoves
<1>5. \A q \in Node : Coherent(sync[q])
  BY SyncIs
<1>6. sync' \in [Node -> SyncState] /\ \A q \in Node : Coherent(sync'[q])
  <2>1. sync \in [Node -> SyncState] /\ s \in SyncState
    BY <1>4 DEF HandlerInv, Coherent
  <2>. QED BY <1>4, <1>5, <2>1
<1>7. SyncCoherent'
  BY <1>6 DEF SyncCoherent, Coherent
<1>. QED BY <1>1, <1>2, <1>3, <1>6, <1>7 DEF HandlerInv, Moves

\* Another step of the kind: only what is sent.
LEMMA OnlySends ==
    ASSUME HandlerInv, NEW n \in Node, NEW p, UNCHANGED <<tree, chain, sync, relay>>,
           wire' \in Queues
    PROVE  Moves(n, p)
<1>1. SyncMoves(n, p)
  <2>1. sync' = [sync EXCEPT ![n] = sync[n]] /\ Coherent(sync[n])
    BY SyncIs
  <2>. QED BY <2>1, Zenon DEF SyncMoves
<1>. QED BY <1>1 DEF Moves, ChainMoves, HandlerInv

\* The state of a sync that begins.
LEMMA SyncBegins ==
    ASSUME NEW p, NEW s, s = [NoSync EXCEPT !.peer = p, !.mode = 1]
    PROVE  s = [peer |-> p, mode |-> 1, got |-> 0, cand |-> << >>]
BY DEF NoSync

\* maybe_sync sends and changes the sync as a handler may.
LEMMA MaybeSyncMoves ==
    ASSUME HandlerInv, LinkInv, NEW n \in Node, NEW p \in Node, NEW w \in Queues,
           MaybeSync(n, p, w)
    PROVE  SyncMoves(n, p) /\ wire' \in Queues
<1>1. CASE ~(sync[n].peer = NoPeer /\ ready[n][p] /\ peerTip[n][p] > Height(chain[n]))
  <2>1. sync' = sync /\ wire' = w
    BY <1>1, Zenon DEF MaybeSync
  <2>2. sync' = [sync EXCEPT ![n] = sync[n]] /\ Coherent(sync[n])
    BY <2>1, SyncIs
  <2>. QED BY <2>1, <2>2, Zenon DEF SyncMoves
<1>2. CASE sync[n].peer = NoPeer /\ ready[n][p] /\ peerTip[n][p] > Height(chain[n])
  <2>. DEFINE s == [NoSync EXCEPT !.peer = p, !.mode = 1]
  <2>1. sync' = [sync EXCEPT ![n] = s] /\ wire' = SendTo(w, n, p, GetMsg(Height(chain[n]) + 1))
    BY <1>2, Zenon DEF MaybeSync
  <2>2. s = [peer |-> p, mode |-> 1, got |-> 0, cand |-> << >>]
    BY SyncBegins
  <2>. HIDE DEF s
  <2>3. Coherent(s) /\ s.peer = p
    BY <2>2, NodeAssumption DEF Coherent, SyncState
  <2>4. SyncMoves(n, p)
    BY <1>2, <2>1, <2>3, Zenon DEF SyncMoves
  <2>5. Height(chain[n]) + 1 \in Nat
    BY ChainFacts
  <2>6. GetMsg(Height(chain[n]) + 1) \in Msg
    BY <2>5, MsgMade, EmptySeq
  <2>. QED BY <2>1, <2>4, <2>6, SendToType DEF LinkInv
<1>. QED BY <1>1, <1>2

---------------------------------------------------------------------------
(* The handlers *)

\* on_ready announces the tip.
LEMMA HandleReadyMoves ==
    ASSUME HandlerInv, LinkInv, NEW n \in Node, NEW p \in Node, HandleReady(n, p)
    PROVE  Moves(n, p)
<1>1. TipMsg(Height(chain[n])) \in Msg
  BY ChainFacts, MsgMade, EmptySeq
<1>2. wire' \in Queues /\ UNCHANGED <<tree, chain, sync, relay>>
  BY <1>1, SendToType DEF HandleReady, HandlerInv, LinkInv
<1>. QED BY <1>2, OnlySends

\* A sync that ends, and what it has sent.
LEMMA SyncEnded ==
    ASSUME HandlerInv, NEW n \in Node, NEW p, sync' = [sync EXCEPT ![n] = NoSync]
    PROVE  SyncMoves(n, p)
<1>1. NoSync.peer = NoPeer
  BY DEF NoSync
<1>. QED BY <1>1, SyncIs, Zenon DEF SyncMoves

\* on_gone ends the sync if it was with that peer, and then the node has no
\* sync with it.
LEMMA HandleGoneMoves ==
    ASSUME HandlerInv, NEW n \in Node, NEW p \in Node, HandleGone(n, p)
    PROVE  Moves(n, p) /\ sync'[n].peer # p
<1>1. SyncMoves(n, p) /\ sync'[n].peer # p
  <2>1. CASE sync[n].peer = p
    <3>1. sync' = [sync EXCEPT ![n] = NoSync]
      BY <2>1 DEF HandleGone
    <3>2. sync'[n] = NoSync /\ NoSync.peer = NoPeer
      BY <3>1 DEF HandlerInv, NoSync
    <3>. QED BY <3>1, <3>2, SyncEnded, NodeAssumption
  <2>2. CASE sync[n].peer # p
    <3>1. sync' = sync
      BY <2>2 DEF HandleGone
    <3>. QED BY <2>2, <3>1, SyncIs, Zenon DEF SyncMoves
  <2>. QED BY <2>1, <2>2
<1>. QED BY <1>1 DEF Moves, ChainMoves, HandlerInv, HandleGone

\* The M_TIP handler.
LEMMA HandleTipMoves ==
    ASSUME HandlerInv, LinkInv, NEW n \in Node, NEW p \in Node, HandleTip(n, p)
    PROVE  Moves(n, p)
<1>1. MaybeSync(n, p, wire) /\ UNCHANGED <<tree, chain, relay>> /\ wire \in Queues
  BY DEF HandleTip, HandlerInv
<1>2. SyncMoves(n, p) /\ wire' \in Queues
  BY <1>1, MaybeSyncMoves
<1>. QED BY <1>1, <1>2 DEF Moves, ChainMoves, HandlerInv

\* What is served is a list of blocks, whatever height is asked for.
LEMMA ServedType ==
    ASSUME HandlerInv, NEW n \in Node, NEW start \in Nat
    PROVE  Served(chain[n], start) \in Seq(Nat)
<1>. DEFINE c == chain[n]
            last == IF start + Batch <= Len(c) THEN start + Batch ELSE Len(c)
<1>1. c \in Seq(Nat) /\ Len(c) \in Nat
  BY ChainFacts
<1>2. last \in Int /\ start + 1 \in Int /\ last <= Len(c) /\ 1 <= start + 1
  BY <1>1, BatchAssumption
<1>. HIDE DEF last
<1>3. \A i \in start + 1 .. last : c[i] \in Nat
  BY <1>1, <1>2
<1>. QED BY <1>2, <1>3, SubSeqProperties DEF Served, last

\* The M_GETBLOCKS handler answers with them.
LEMMA HandleGetBlocksMoves ==
    ASSUME HandlerInv, LinkInv, NEW n \in Node, NEW p \in Node, NEW start \in Nat,
           HandleGetBlocks(n, p, start)
    PROVE  Moves(n, p)
<1>1. BlocksMsg(Served(chain[n], start)) \in Msg
  BY ServedType, MsgMade
<1>2. wire' \in Queues /\ UNCHANGED <<tree, chain, sync, relay>>
  BY <1>1, SendToType DEF HandleGetBlocks, HandlerInv, LinkInv
<1>. QED BY <1>2, OnlySends

\* handle_blocks, mode 1: what connects is appended, at whatever tip the chain
\* has by now.
LEMMA ExtendFromMoves ==
    ASSUME HandlerInv, LinkInv, NEW n \in Node, NEW p \in Node, NEW v \in Seq(Nat),
           sync[n].peer = p, sync[n].mode = 1, ExtendFrom(n, p, v), UNCHANGED <<tree, relay>>
    PROVE  Moves(n, p)
<1>. DEFINE okc == OkCount(chain[n], v)
            c == chain[n] \o SubSeq(v, 1, okc)
            diverged == v # << >> /\ okc = 0 /\ sync[n].got = 0
            caughtUp == ready[n][p] /\ Height(c) >= peerTip[n][p]
<1>1. /\ chain[n] \in Seq(Nat) /\ IsPath(tree, chain[n]) /\ Len(chain[n]) \in Nat \ {0}
      /\ chain \in [Node -> Seq(Nat)] /\ wire \in Queues /\ up \in [Node -> [Node -> BOOLEAN]]
      /\ sync \in [Node -> SyncState]
  BY ChainFacts DEF HandlerInv, LinkInv
<1>2. okc \in 0 .. Len(v) /\ IsPath(tree, c) /\ c \in Seq(Nat) /\ Len(c) = Len(chain[n]) + okc
  BY <1>1, OkCountPath, Zenon
<1>4. /\ chain' = [chain EXCEPT ![n] = c]
      /\ \/ /\ diverged
            /\ sync' = [sync EXCEPT ![n].mode = 2, ![n].cand = << >>]
            /\ wire' = SendTo(wire, n, p, GetMsg(0))
         \/ /\ ~diverged /\ caughtUp
            /\ sync' = [sync EXCEPT ![n] = NoSync]
            /\ wire' = Broadcast(wire, n, TipMsg(Height(c)), NoPeer)
         \/ /\ ~diverged /\ ~caughtUp /\ okc > 0
            /\ sync' = [sync EXCEPT ![n].got = @ + okc]
            /\ wire' = SendTo(wire, n, p, GetMsg(Height(c) + 1))
         \/ /\ ~diverged /\ ~caughtUp /\ okc = 0
            /\ sync' = [sync EXCEPT ![n] = NoSync]
            /\ UNCHANGED wire
  BY Zenon DEF ExtendFrom
<1>. HIDE DEF okc, diverged, caughtUp
<1>6. okc \in Nat /\ Len(v) \in Nat
  BY <1>2
<1>7. Height(c) \in Nat /\ Height(c) + 1 \in Nat
  BY <1>1, <1>2, <1>6 DEF Height
<1>8. ChainMoves(n)
  <2>1. CASE okc = 0
    <3>1. SubSeq(v, 1, okc) = << >>
      BY <2>1, SubSeqEmpty
    <3>2. c = chain[n]
      BY <1>1, <3>1, ConcatEmptySeq
    <3>. QED BY <1>1, <1>4, <3>2 DEF ChainMoves
  <2>2. CASE okc # 0
    <3>1. Len(c) > Len(chain[n])
      BY <1>1, <1>2, <1>6, <2>2
    <3>. QED BY <1>2, <1>4, <3>1, Zenon DEF ChainMoves
  <2>. QED BY <2>1, <2>2
<1>. HIDE DEF c
<1>9. wire' \in Queues
  <2>1. TipMsg(Height(c)) \in Msg /\ GetMsg(Height(c) + 1) \in Msg /\ GetMsg(0) \in Msg
    BY <1>7, MsgMade, EmptySeq
  <2>2. SendTo(wire, n, p, GetMsg(0)) \in Queues /\ SendTo(wire, n, p, GetMsg(Height(c) + 1)) \in Queues
    BY <1>1, <2>1, SendToType
  <2>3. Broadcast(wire, n, TipMsg(Height(c)), NoPeer) \in Queues
    BY <1>1, <2>1, BroadcastType
  <2>. QED BY <1>1, <1>4, <2>2, <2>3
<1>10. SyncMoves(n, p)
  <2>1. sync[n] \in SyncState /\ p # NoPeer
    BY <1>1, NodeAssumption
  <2>2. CASE sync' = [sync EXCEPT ![n] = NoSync]
    BY <2>2, SyncEnded
  <2>3. CASE sync' = [sync EXCEPT ![n].mode = 2, ![n].cand = << >>]
    <3>. DEFINE s == [sync[n] EXCEPT !.mode = 2, !.cand = << >>]
    <3>1. sync' = [sync EXCEPT ![n] = s]
      BY <1>1, <2>3
    <3>2. ASSUME NEW t, t = s
          PROVE  t = [peer |-> p, mode |-> 2, got |-> sync[n].got, cand |-> << >>]
      BY <2>1, <3>2 DEF SyncState
    <3>. HIDE DEF s
    <3>3. s = [peer |-> p, mode |-> 2, got |-> sync[n].got, cand |-> << >>]
      BY <3>2
    <3>4. Coherent(s) /\ s.peer = sync[n].peer
      BY <2>1, <3>3 DEF Coherent, SyncState
    <3>. QED BY <3>1, <3>4, Zenon DEF SyncMoves
  <2>4. CASE sync' = [sync EXCEPT ![n].got = @ + okc]
    <3>. DEFINE s == [sync[n] EXCEPT !.got = @ + okc]
    <3>1. sync' = [sync EXCEPT ![n] = s]
      BY <1>1, <2>4
    <3>2. ASSUME NEW t, t = s
          PROVE  t = [peer |-> p, mode |-> 1, got |-> sync[n].got + okc, cand |-> sync[n].cand]
      BY <2>1, <3>2 DEF SyncState
    <3>. HIDE DEF s
    <3>3. s = [peer |-> p, mode |-> 1, got |-> sync[n].got + okc, cand |-> sync[n].cand]
      BY <3>2
    <3>4. sync[n].cand = << >> /\ sync[n].got \in Nat
      BY <2>1, SyncIs DEF Coherent, SyncState
    <3>5. Coherent(s) /\ s.peer = sync[n].peer
      BY <1>6, <2>1, <3>3, <3>4 DEF Coherent, SyncState
    <3>. QED BY <3>1, <3>5, Zenon DEF SyncMoves
  <2>. QED BY <1>4, <2>2, <2>3, <2>4
<1>. QED BY <1>8, <1>9, <1>10 DEF Moves, HandlerInv

\* handle_blocks, mode 2: the chain is replaced by a candidate that is a whole
\* path and longer, and by nothing else.
LEMMA DownloadAllMoves ==
    ASSUME HandlerInv, LinkInv, NEW n \in Node, NEW p \in Node, NEW v \in Seq(Nat),
           sync[n].peer = p, sync[n].mode = 2, DownloadAll(n, p, v), UNCHANGED <<tree, relay>>
    PROVE  Moves(n, p)
<1>. DEFINE cand == sync[n].cand \o v
<1>1. /\ chain \in [Node -> Seq(Nat)] /\ wire \in Queues /\ up \in [Node -> [Node -> BOOLEAN]]
      /\ sync \in [Node -> SyncState] /\ sync[n] \in SyncState /\ p # NoPeer
  BY NodeAssumption DEF HandlerInv, LinkInv
<1>2. sync[n].cand \in Seq(Nat) /\ sync[n].got \in Nat
  BY <1>1 DEF SyncState
<1>3. cand \in Seq(Nat) /\ Len(cand) \in Nat
  BY <1>2, ConcatProperties
<1>4. \/ /\ sync' = [sync EXCEPT ![n] = NoSync]
         /\ UNCHANGED <<chain, wire>>
      \/ /\ sync' = [sync EXCEPT ![n].cand = cand]
         /\ wire' = SendTo(wire, n, p, GetMsg(Len(cand)))
         /\ UNCHANGED chain
      \/ /\ sync' = [sync EXCEPT ![n] = NoSync]
         /\ CanReplace(chain[n], cand)
         /\ chain' = [chain EXCEPT ![n] = cand]
         /\ wire' = Broadcast(wire, n, TipMsg(Height(cand)), NoPeer)
  BY Zenon DEF DownloadAll
<1>. HIDE DEF cand
<1>5. CASE /\ sync' = [sync EXCEPT ![n] = NoSync]
           /\ UNCHANGED <<chain, wire>>
  BY <1>1, <1>5, SyncEnded DEF Moves, ChainMoves, HandlerInv
<1>6. CASE /\ sync' = [sync EXCEPT ![n].cand = cand]
           /\ wire' = SendTo(wire, n, p, GetMsg(Len(cand)))
           /\ UNCHANGED chain
  <2>1. GetMsg(Len(cand)) \in Msg
    BY <1>3, MsgMade, EmptySeq
  <2>2. wire' \in Queues
    BY <1>1, <1>6, <2>1, SendToType
  <2>. DEFINE s == [sync[n] EXCEPT !.cand = cand]
  <2>3. sync' = [sync EXCEPT ![n] = s]
    BY <1>1, <1>6
  <2>4. ASSUME NEW t, t = s
        PROVE  t = [peer |-> p, mode |-> 2, got |-> sync[n].got, cand |-> cand]
    BY <1>1, <2>4 DEF SyncState
  <2>. HIDE DEF s
  <2>5. s = [peer |-> p, mode |-> 2, got |-> sync[n].got, cand |-> cand]
    BY <2>4
  <2>6. Coherent(s) /\ s.peer = sync[n].peer
    BY <1>1, <1>2, <1>3, <2>5 DEF Coherent, SyncState
  <2>7. SyncMoves(n, p)
    BY <2>3, <2>6, Zenon DEF SyncMoves
  <2>. QED BY <1>6, <2>2, <2>7 DEF Moves, ChainMoves, HandlerInv
<1>7. CASE /\ sync' = [sync EXCEPT ![n] = NoSync]
           /\ CanReplace(chain[n], cand)
           /\ chain' = [chain EXCEPT ![n] = cand]
           /\ wire' = Broadcast(wire, n, TipMsg(Height(cand)), NoPeer)
  <2>1. IsPath(tree, cand) /\ Len(cand) > Len(chain[n])
    BY <1>7 DEF CanReplace
  <2>2. ChainMoves(n)
    BY <1>3, <1>7, <2>1, Zenon DEF ChainMoves
  <2>3. Height(cand) \in Nat
    BY <1>3, <2>1, ChainFacts DEF Height
  <2>4. TipMsg(Height(cand)) \in Msg
    BY <2>3, MsgMade, EmptySeq
  <2>5. wire' \in Queues
    BY <1>1, <1>7, <2>4, BroadcastType
  <2>. QED BY <1>7, <2>2, <2>5, SyncEnded DEF Moves, HandlerInv
<1>. QED BY <1>4, <1>5, <1>6, <1>7

\* The M_BLOCKS handler: an answer from another than the sync's peer is
\* ignored, and a node that waits for p is in mode 1 or 2.
LEMMA HandleBlocksMoves ==
    ASSUME HandlerInv, LinkInv, NEW n \in Node, NEW p \in Node, NEW v \in Seq(Nat),
           HandleBlocks(n, p, v)
    PROVE  Moves(n, p)
<1>1. UNCHANGED <<tree, relay>>
  BY DEF HandleBlocks
<1>2. CASE sync[n].peer # p /\ UNCHANGED <<chain, sync, wire>>
  BY <1>1, <1>2, OnlySends DEF HandlerInv
<1>3. CASE sync[n].peer = p /\ sync[n].mode = 1 /\ ExtendFrom(n, p, v)
  BY <1>1, <1>3, ExtendFromMoves
<1>4. CASE sync[n].peer = p /\ sync[n].mode = 2 /\ DownloadAll(n, p, v)
  BY <1>1, <1>4, DownloadAllMoves
<1>. QED BY <1>2, <1>3, <1>4 DEF HandleBlocks

\* The M_BLOCK handler: a block that is pushed is appended if it connects.
LEMMA HandleBlockMoves ==
    ASSUME HandlerInv, LinkInv, NEW n \in Node, NEW p \in Node, NEW b \in Nat,
           HandleBlock(n, p, b)
    PROVE  Moves(n, p)
<1>1. UNCHANGED tree /\ wire \in Queues /\ chain \in [Node -> Seq(Nat)]
  BY DEF HandleBlock, HandlerInv
<1>2. CASE HasBlock(chain[n], b) /\ UNCHANGED <<chain, sync, wire, relay>>
  BY <1>1, <1>2, OnlySends
<1>3. CASE /\ ~HasBlock(chain[n], b) /\ Connects(chain[n], b)
           /\ chain' = [chain EXCEPT ![n] = Append(@, b)]
           /\ wire' = Broadcast(wire, n, TipMsg(Len(chain[n])), p)
           /\ relay' = [relay EXCEPT ![n] = <<b, p>>]
           /\ UNCHANGED sync
  <2>. DEFINE c == Append(chain[n], b)
  <2>1. chain[n] \in Seq(Nat) /\ IsPath(tree, chain[n]) /\ Len(chain[n]) \in Nat
    BY ChainFacts
  <2>2. c \in Seq(Nat) /\ IsPath(tree, c) /\ Len(c) = Len(chain[n]) + 1
    BY <1>3, <2>1, PathAppend DEF Connects
  <2>3. chain' = [chain EXCEPT ![n] = c]
    BY <1>3
  <2>. HIDE DEF c
  <2>4. Len(c) > Len(chain[n])
    BY <2>1, <2>2
  <2>5. ChainMoves(n)
    BY <1>1, <2>2, <2>3, <2>4, Zenon DEF ChainMoves
  <2>6. TipMsg(Len(chain[n])) \in Msg
    BY <2>1, MsgMade, EmptySeq
  <2>7. wire' \in Queues
    BY <1>1, <1>3, <2>6, BroadcastType
  <2>8. relay' \in [Node -> {<< >>} \cup (Nat \X Node)]
    <3>1. <<b, p>> \in {<< >>} \cup (Nat \X Node)
      OBVIOUS
    <3>. QED BY <1>3, <3>1 DEF HandlerInv
  <2>9. SyncMoves(n, p)
    BY <1>3, SyncIs, Zenon DEF SyncMoves
  <2>. QED BY <2>5, <2>7, <2>8, <2>9 DEF Moves
<1>4. CASE /\ ~HasBlock(chain[n], b) /\ ~Connects(chain[n], b)
           /\ IF HeightOf(tree, b) > Height(chain[n])
              THEN MaybeSync(n, p, wire) ELSE UNCHANGED <<sync, wire>>
           /\ UNCHANGED <<chain, relay>>
  <2>1. CASE MaybeSync(n, p, wire)
    <3>1. SyncMoves(n, p) /\ wire' \in Queues
      BY <1>1, <2>1, MaybeSyncMoves
    <3>. QED BY <1>1, <1>4, <3>1 DEF Moves, ChainMoves, HandlerInv
  <2>2. CASE UNCHANGED <<sync, wire>>
    BY <1>1, <1>4, <2>2, OnlySends
  <2>. QED BY <1>4, <2>1, <2>2
<1>. QED BY <1>2, <1>3, <1>4 DEF HandleBlock

---------------------------------------------------------------------------
(* The steps *)

\* A handler of n's network thread takes its event and moves.
LEMMA HandleMoves ==
    ASSUME SyncInv, NEW n \in Node, Handle(n)
    PROVE  \E p \in Node : /\ p = Head(events[n]).peer /\ Moves(n, p)
                           /\ Head(events[n]) = [peer |-> p, msg |-> GoneEv] => sync'[n].peer # p
<1>. DEFINE e == Head(events[n])
            p == e.peer
            m == e.msg
<1>1. events[n] \in Seq(Event) /\ events[n] # << >>
  BY DEF SyncInv, LinkInv, Handle
<1>2. e \in Event
  BY <1>1, HeadTailProperties
<1>. HIDE DEF e
<1>3. p \in Node /\ m \in Msg \cup {ReadyEv, GoneEv} /\ e = [peer |-> p, msg |-> m]
  BY <1>2 DEF Event
<1>4. HandlerInv /\ LinkInv
  BY DEF SyncInv
<1>5. \/ m.type = "READY" /\ HandleReady(n, p)
      \/ m.type = "GONE" /\ HandleGone(n, p)
      \/ m.type = "TIP" /\ HandleTip(n, p)
      \/ m.type = "GET_BLOCKS" /\ HandleGetBlocks(n, p, m.start)
      \/ m.type = "BLOCKS" /\ HandleBlocks(n, p, m.blocks)
      \/ m.type = "BLOCK" /\ HandleBlock(n, p, m.block)
  BY Zenon DEF Handle, e
<1>. HIDE DEF p, m
<1>6. ReadyEv.type = "READY" /\ GoneEv.type = "GONE"
  BY DEF ReadyEv, GoneEv
<1>7. m.type \notin {"READY", "GONE"} => m \in Msg
  BY <1>3, <1>6
<1>8. m.type # "GONE" => e # [peer |-> p, msg |-> GoneEv]
  BY <1>3, <1>6
<1>9. CASE m.type = "READY" /\ HandleReady(n, p)
  BY <1>3, <1>4, <1>8, <1>9, HandleReadyMoves DEF e, p
<1>10. CASE m.type = "GONE" /\ HandleGone(n, p)
  BY <1>3, <1>4, <1>10, HandleGoneMoves DEF e, p
<1>11. CASE m.type = "TIP" /\ HandleTip(n, p)
  BY <1>3, <1>4, <1>8, <1>11, HandleTipMoves DEF e, p
<1>12. CASE m.type = "GET_BLOCKS" /\ HandleGetBlocks(n, p, m.start)
  <2>1. m.start \in Nat
    BY <1>7, <1>12, MsgRead
  <2>. QED BY <1>3, <1>4, <1>8, <1>12, <2>1, HandleGetBlocksMoves DEF e, p
<1>13. CASE m.type = "BLOCKS" /\ HandleBlocks(n, p, m.blocks)
  <2>1. m.blocks \in Seq(Nat)
    BY <1>7, <1>13, MsgRead
  <2>. QED BY <1>3, <1>4, <1>8, <1>13, <2>1, HandleBlocksMoves DEF e, p
<1>14. CASE m.type = "BLOCK" /\ HandleBlock(n, p, m.block)
  <2>1. m.block \in Nat
    BY <1>7, <1>14, MsgRead
  <2>. QED BY <1>3, <1>4, <1>8, <1>14, <2>1, HandleBlockMoves DEF e, p
<1>. QED BY <1>5, <1>9, <1>10, <1>11, <1>12, <1>13, <1>14

\* Handling an event keeps the invariant.  A sync whose peer has gone has the
\* event that ends it in the queue: that event is either still there, or is
\* the one handled.
LEMMA HandleInv ==
    ASSUME SyncInv, NEW n \in Node, Handle(n)
    PROVE  SyncInv'
<1>1. PICK p \in Node : /\ p = Head(events[n]).peer /\ Moves(n, p)
                        /\ Head(events[n]) = [peer |-> p, msg |-> GoneEv] => sync'[n].peer # p
  BY HandleMoves
<1>2. HandlerInv /\ LinkInv /\ SyncPeerAlive
  BY DEF SyncInv
<1>3. HandlerInv'
  BY <1>1, <1>2, MovesInv
<1>4. /\ peerTip' = peerTip /\ up' = up /\ ready' = ready /\ minerOut' = minerOut
      /\ faults' = faults /\ timeouts' = timeouts
      /\ events' = [events EXCEPT ![n] = Tail(@)]
      /\ \E x \in BOOLEAN : busy' = [busy EXCEPT ![n] = x]
  BY Zenon DEF Handle, links, bounds
<1>5. events[n] \in Seq(Event) /\ events[n] # << >> /\ events \in [Node -> Seq(Event)]
  BY <1>2 DEF LinkInv, Handle
<1>6. /\ Tail(events[n]) \in Seq(Event) /\ Len(Tail(events[n])) = Len(events[n]) - 1
      /\ \A i \in 1 .. Len(Tail(events[n])) : Tail(events[n])[i] = events[n][i + 1]
  BY <1>5, HeadTailProperties
<1>7. LinkInv'
  <2>1. events' \in [Node -> Seq(Event)]
    BY <1>4, <1>5, <1>6
  <2>2. busy' \in [Node -> BOOLEAN]
    BY <1>2, <1>4 DEF LinkInv
  <2>. QED BY <1>2, <1>4, <2>1, <2>2 DEF LinkInv
<1>8. PICK s : /\ sync' = [sync EXCEPT ![n] = s]
               /\ s.peer = sync[n].peer \/ s.peer = NoPeer \/ (s.peer = p /\ ready[n][p])
  BY <1>1, Zenon DEF Moves, SyncMoves
<1>9. sync \in [Node -> SyncState] /\ sync'[n] = s
  BY <1>2, <1>8 DEF HandlerInv
<1>10. ASSUME NEW a \in Node, NEW b \in Node, sync'[a].peer = b
       PROVE  \/ ready'[a][b]
              \/ \E i \in DOMAIN events'[a] : events'[a][i] = [peer |-> b, msg |-> GoneEv]
  <2>1. CASE a # n
    <3>1. sync'[a] = sync[a] /\ events'[a] = events[a] /\ ready' = ready
      BY <1>4, <1>5, <1>8, <1>9, <2>1
    <3>. QED BY <1>2, <1>10, <3>1 DEF SyncPeerAlive
  <2>2. CASE a = n /\ ready[n][b]
    BY <1>4, <2>2
  <2>3. CASE a = n /\ ~ready[n][b]
    <3>1. b = sync[n].peer
      BY <1>8, <1>9, <1>10, <2>3, NodeAssumption
    <3>2. PICK i \in DOMAIN events[n] : events[n][i] = [peer |-> b, msg |-> GoneEv]
      BY <1>2, <2>3, <3>1 DEF SyncPeerAlive
    <3>3. i \in 1 .. Len(events[n]) /\ Len(events[n]) \in Nat
      BY <1>5, <3>2
    <3>4. i # 1
      <4>1. SUFFICES ASSUME i = 1 PROVE FALSE
        OBVIOUS
      <4>2. Head(events[n]) = [peer |-> b, msg |-> GoneEv]
        BY <1>5, <3>2, <4>1
      <4>3. p = b
        BY <1>1, <4>2
      <4>. QED BY <1>1, <1>10, <2>3, <4>2, <4>3
    <3>5. /\ i - 1 \in 1 .. Len(Tail(events[n])) /\ (i - 1) + 1 = i
      BY <1>6, <3>3, <3>4
    <3>6. events'[n] = Tail(events[n]) /\ DOMAIN events'[n] = 1 .. Len(Tail(events[n]))
      BY <1>4, <1>5, <1>6
    <3>7. events'[n][i - 1] = events[n][i]
      BY <1>6, <3>5, <3>6
    <3>. QED BY <2>3, <3>2, <3>5, <3>6, <3>7
  <2>. QED BY <2>1, <2>2, <2>3
<1>11. SyncPeerAlive'
  BY <1>10, Zenon DEF SyncPeerAlive
<1>. QED BY <1>3, <1>7, <1>11 DEF SyncInv

\* Steps that leave alone the syncs, what is ready, and the events.
LEMMA SendInv ==
    ASSUME SyncInv, UNCHANGED <<sync, links, events, bounds>>,
           tree' \in Seq(Block), chain' \in [Node -> Seq(Nat)], ChainsArePaths',
           wire' \in Queues, minerOut' \in [Node -> Seq(Nat)], busy' \in [Node -> BOOLEAN],
           relay' \in [Node -> {<< >>} \cup (Nat \X Node)]
    PROVE  SyncInv'
<1>1. HandlerInv /\ LinkInv /\ SyncPeerAlive
  BY DEF SyncInv
<1>2. /\ sync' = sync /\ peerTip' = peerTip /\ up' = up /\ ready' = ready /\ events' = events
      /\ faults' = faults /\ timeouts' = timeouts
  BY DEF links, bounds
<1>3. HandlerInv'
  BY <1>1, <1>2 DEF HandlerInv, SyncCoherent
<1>4. LinkInv'
  BY <1>1, <1>2 DEF LinkInv
<1>5. SyncPeerAlive'
  <2>1. ASSUME NEW a \in Node, NEW b \in Node, sync'[a].peer = b
        PROVE  \/ ready'[a][b]
               \/ \E i \in DOMAIN events'[a] : events'[a][i] = [peer |-> b, msg |-> GoneEv]
    <3>1. sync[a].peer = b
      BY <1>2, <2>1
    <3>2. \/ ready[a][b]
          \/ \E i \in DOMAIN events[a] : events[a][i] = [peer |-> b, msg |-> GoneEv]
      BY <1>1, <3>1 DEF SyncPeerAlive
    <3>3. ready'[a][b] = ready[a][b] /\ events'[a] = events[a]
      BY <1>2
    <3>. QED BY <3>2, <3>3
  <2>. QED BY <2>1, Zenon DEF SyncPeerAlive
<1>. QED BY <1>3, <1>4, <1>5 DEF SyncInv

\* Mining on the tip of n: the tree and the chain of n grow by a block, and
\* every other chain is still a path.
LEMMA MineOnInv ==
    ASSUME SyncInv, NEW n \in Node, MineOn(n)
    PROVE  /\ tree' \in Seq(Block) /\ chain' \in [Node -> Seq(Nat)] /\ ChainsArePaths'
           /\ Len(tree) + 1 \in Nat /\ Len(chain[n]) \in Nat
<1>. DEFINE b == [parent |-> Tip(chain[n]), height |-> Len(chain[n])]
            new == Len(tree) + 1
<1>1. HandlerInv /\ tree \in Seq(Block) /\ chain \in [Node -> Seq(Nat)] /\ Len(tree) \in Nat
  BY DEF SyncInv, HandlerInv
<1>2. /\ chain[n] \in Seq(Nat) /\ IsPath(tree, chain[n]) /\ Tip(chain[n]) \in Nat
      /\ Len(chain[n]) \in Nat \ {0} /\ HeightOf(tree, Tip(chain[n])) = Len(chain[n]) - 1
  BY <1>1, ChainFacts
<1>3. b \in Block /\ b.parent = Tip(chain[n]) /\ b.height = Len(chain[n])
  BY <1>2 DEF Block
<1>4. tree' = Append(tree, b) /\ chain' = [chain EXCEPT ![n] = Append(@, new)]
  BY Zenon DEF MineOn
<1>. HIDE DEF b
<1>5. tree' \in Seq(Block) /\ Len(tree') = new /\ tree'[new] = b
  BY <1>1, <1>3, <1>4, AppendProperties
<1>6. ASSUME NEW q \in Node PROVE IsPath(tree', chain[q])
  BY <1>1, <1>3, <1>4, ChainFacts, PathGrows
<1>7. HeightOf(tree', Tip(chain[n])) = Len(chain[n]) - 1
  BY <1>2, <1>5, <1>6, PathHeight
<1>8. ChildOf(tree', new, Tip(chain[n]))
  <2>1. new \in DOMAIN tree'
    BY <1>1, <1>5
  <2>2. tree'[new].height = HeightOf(tree', Tip(chain[n])) + 1
    BY <1>2, <1>3, <1>5, <1>7
  <2>. QED BY <1>3, <1>5, <2>1, <2>2 DEF ChildOf
<1>9. new \in Nat
  BY <1>1
<1>. HIDE DEF new
<1>10. IsPath(tree', Append(chain[n], new)) /\ Append(chain[n], new) \in Seq(Nat)
  BY <1>2, <1>6, <1>8, <1>9, PathAppend
<1>11. chain' \in [Node -> Seq(Nat)] /\ \A q \in Node : IsPath(tree', chain'[q])
  BY <1>1, <1>4, <1>6, <1>10
<1>. QED BY <1>2, <1>5, <1>9, <1>11 DEF ChainsArePaths, new

\* The miner connects its block; SubmitWork connects one that was mined
\* outside.
LEMMA MineInv ==
    ASSUME SyncInv, NEW n \in Node, Mine(n)
    PROVE  SyncInv'
<1>1. /\ tree' \in Seq(Block) /\ chain' \in [Node -> Seq(Nat)] /\ ChainsArePaths'
      /\ Len(tree) + 1 \in Nat /\ Len(chain[n]) \in Nat
  BY MineOnInv DEF Mine
<1>2. TipMsg(Len(chain[n])) \in Msg
  BY <1>1, MsgMade, EmptySeq
<1>3. /\ wire' = Broadcast(wire, n, TipMsg(Len(chain[n])), NoPeer)
      /\ minerOut' = [minerOut EXCEPT ![n] = <<Len(tree) + 1>>]
      /\ UNCHANGED <<sync, links, events, bounds>> /\ busy' = busy /\ relay' = relay
  BY DEF Mine
<1>4. wire' \in Queues
  BY <1>2, <1>3, BroadcastType DEF SyncInv, HandlerInv
<1>5. <<Len(tree) + 1>> \in Seq(Nat)
  BY <1>1
<1>6. minerOut' \in [Node -> Seq(Nat)]
  BY <1>3, <1>5 DEF SyncInv, LinkInv
<1>7. busy' \in [Node -> BOOLEAN] /\ relay' \in [Node -> {<< >>} \cup (Nat \X Node)]
  BY <1>3 DEF SyncInv, LinkInv, HandlerInv
<1>. QED BY <1>1, <1>3, <1>4, <1>6, <1>7, SendInv

\* POST /submitwork.
LEMMA SubmitWorkInv ==
    ASSUME SyncInv, NEW n \in Node, SubmitWork(n)
    PROVE  SyncInv'
<1>1. /\ tree' \in Seq(Block) /\ chain' \in [Node -> Seq(Nat)] /\ ChainsArePaths'
      /\ Len(tree) + 1 \in Nat /\ Len(chain[n]) \in Nat
  BY MineOnInv DEF SubmitWork
<1>2. TipMsg(Len(chain[n])) \in Msg /\ BlockMsg(Len(tree) + 1) \in Msg
  BY <1>1, MsgMade, EmptySeq
<1>3. /\ wire' = Broadcast(Broadcast(wire, n, TipMsg(Len(chain[n])), NoPeer),
                           n, BlockMsg(Len(tree) + 1), NoPeer)
      /\ UNCHANGED <<sync, links, events, bounds>>
      /\ busy' = busy /\ relay' = relay /\ minerOut' = minerOut
  BY DEF SubmitWork, out
<1>4. wire' \in Queues
  <2>1. Broadcast(wire, n, TipMsg(Len(chain[n])), NoPeer) \in Queues
    BY <1>2, BroadcastType DEF SyncInv, HandlerInv
  <2>. QED BY <1>2, <1>3, <2>1, BroadcastType
<1>5. /\ busy' \in [Node -> BOOLEAN] /\ minerOut' \in [Node -> Seq(Nat)]
      /\ relay' \in [Node -> {<< >>} \cup (Nat \X Node)]
  BY <1>3 DEF SyncInv, LinkInv, HandlerInv
<1>. QED BY <1>1, <1>3, <1>4, <1>5, SendInv

\* The steps of the threads that only send: the relay of an accepted block,
\* the miner's broadcast, the periodic announcement.
LEMMA RelayInv ==
    ASSUME SyncInv, NEW n \in Node, Relay(n) \/ BroadcastMined(n) \/ Announce(n)
    PROVE  SyncInv'
<1>1. HandlerInv /\ LinkInv
  BY DEF SyncInv
<1>2. /\ tree \in Seq(Block) /\ chain \in [Node -> Seq(Nat)] /\ ChainsArePaths
      /\ wire \in Queues /\ relay \in [Node -> {<< >>} \cup (Nat \X Node)]
      /\ minerOut \in [Node -> Seq(Nat)] /\ busy \in [Node -> BOOLEAN]
  BY <1>1 DEF HandlerInv, LinkInv
<1>3. tree' = tree /\ chain' = chain /\ UNCHANGED <<sync, links, events, bounds>>
  BY DEF Relay, BroadcastMined, Announce, links, bounds
<1>4. ChainsArePaths'
  BY <1>2, <1>3 DEF ChainsArePaths
<1>5. CASE Relay(n)
  <2>1. BlockMsg(relay[n][1]) \in Msg
    <3>1. relay[n] \in Nat \X Node
      BY <1>2, <1>5 DEF Relay
    <3>2. relay[n][1] \in Nat
      BY <3>1
    <3>. QED BY <3>2, MsgMade, EmptySeq
  <2>2. wire' \in Queues
    BY <1>2, <1>5, <2>1, BroadcastType DEF Relay
  <2>3. /\ minerOut' = minerOut /\ relay' = [relay EXCEPT ![n] = << >>]
        /\ busy' = [busy EXCEPT ![n] = events[n] # << >>]
    BY <1>5 DEF Relay
  <2>4. busy' \in [Node -> BOOLEAN] /\ relay' \in [Node -> {<< >>} \cup (Nat \X Node)]
    BY <1>2, <2>3
  <2>. QED BY <1>2, <1>3, <1>4, <2>2, <2>3, <2>4, SendInv
<1>6. CASE BroadcastMined(n)
  <2>1. BlockMsg(minerOut[n][1]) \in Msg
    <3>1. minerOut[n] \in Seq(Nat) /\ minerOut[n] # << >>
      BY <1>2, <1>6 DEF BroadcastMined
    <3>2. minerOut[n][1] \in Nat
      BY <3>1
    <3>. QED BY <3>2, MsgMade, EmptySeq
  <2>2. wire' \in Queues
    BY <1>2, <1>6, <2>1, BroadcastType DEF BroadcastMined
  <2>3. minerOut' = [minerOut EXCEPT ![n] = << >>] /\ relay' = relay /\ busy' = busy
    BY <1>6 DEF BroadcastMined
  <2>4. minerOut' \in [Node -> Seq(Nat)]
    BY <1>2, <2>3, EmptySeq
  <2>. QED BY <1>2, <1>3, <1>4, <2>2, <2>3, <2>4, SendInv
<1>7. CASE Announce(n)
  <2>1. TipMsg(Height(chain[n])) \in Msg
    BY <1>1, ChainFacts, MsgMade, EmptySeq
  <2>2. wire' \in Queues
    BY <1>2, <1>7, <2>1, BroadcastType DEF Announce
  <2>3. minerOut' = minerOut /\ relay' = relay /\ busy' = busy
    BY <1>7 DEF Announce, out
  <2>. QED BY <1>2, <1>3, <1>4, <2>2, <2>3, SendInv
<1>. QED BY <1>5, <1>6, <1>7

\* The timeout of the periodic thread ends a sync.
LEMMA SyncTimeoutInv ==
    ASSUME SyncInv, NEW n \in Node, SyncTimeout(n)
    PROVE  SyncInv'
<1>1. HandlerInv /\ LinkInv /\ SyncPeerAlive
  BY DEF SyncInv
<1>2. /\ sync' = [sync EXCEPT ![n] = NoSync] /\ timeouts' = timeouts + 1
      /\ tree' = tree /\ chain' = chain /\ wire' = wire /\ relay' = relay
      /\ peerTip' = peerTip /\ up' = up /\ ready' = ready /\ events' = events
      /\ busy' = busy /\ minerOut' = minerOut /\ faults' = faults
  BY DEF SyncTimeout, links, out
<1>3. Moves(n, n)
  BY <1>1, <1>2, SyncEnded DEF Moves, ChainMoves, HandlerInv
<1>4. HandlerInv'
  BY <1>1, <1>3, MovesInv
<1>5. LinkInv'
  BY <1>1, <1>2 DEF LinkInv
<1>6. SyncPeerAlive'
  <2>1. \A a \in Node : sync'[a] = sync[a] \/ sync'[a].peer = NoPeer
    BY <1>1, <1>2 DEF HandlerInv, NoSync
  <2>2. NoPeer \notin Node
    BY NodeAssumption
  <2>. QED BY <1>1, <1>2, <2>1, <2>2, Zenon DEF SyncPeerAlive
<1>. QED BY <1>4, <1>5, <1>6 DEF SyncInv

---------------------------------------------------------------------------
(* Links *)

\* A link is made: both directions begin with a HELLO.
LEMMA ConnectInv ==
    ASSUME SyncInv, NEW n \in Node, NEW p \in Node, Connect(n, p)
    PROVE  SyncInv'
<1>1. HandlerInv /\ LinkInv /\ SyncPeerAlive
  BY DEF SyncInv
<1>2. /\ sync' = sync /\ tree' = tree /\ chain' = chain /\ relay' = relay /\ ready' = ready
      /\ events' = events /\ busy' = busy /\ minerOut' = minerOut
      /\ faults' = faults /\ timeouts' = timeouts
  BY DEF Connect, out, bounds
<1>3. /\ up' = [up EXCEPT ![n][p] = TRUE, ![p][n] = TRUE]
      /\ peerTip' = [peerTip EXCEPT ![n][p] = 0, ![p][n] = 0]
      /\ wire' = [wire EXCEPT ![n][p] = <<HelloMsg>>, ![p][n] = <<HelloMsg>>]
  BY DEF Connect
<1>4. <<HelloMsg>> \in Seq(Msg)
  <2>1. HelloMsg \in Msg
    BY DEF HelloMsg, Msg
  <2>. QED BY <2>1
<1>5. wire' \in Queues
  BY <1>1, <1>3, <1>4 DEF HandlerInv, Queues
<1>6. up' \in [Node -> [Node -> BOOLEAN]] /\ \A q \in Node : ~up'[q][q]
  <2>1. n # p
    BY DEF Connect
  <2>. QED BY <1>1, <1>3, <2>1 DEF LinkInv
<1>7. peerTip' \in [Node -> [Node -> Nat]]
  BY <1>1, <1>3 DEF LinkInv
<1>8. HandlerInv'
  BY <1>1, <1>2, <1>5 DEF HandlerInv, ChainsArePaths, SyncCoherent
<1>9. LinkInv'
  BY <1>1, <1>2, <1>6, <1>7 DEF LinkInv
<1>10. SyncPeerAlive'
  BY <1>1, <1>2, Zenon DEF SyncPeerAlive
<1>. QED BY <1>8, <1>9, <1>10 DEF SyncInv

\* What is left of a queue when its connection breaks is a queue.
LEMMA CutType ==
    ASSUME NEW q \in Seq(Msg), NEW k \in 0 .. Len(q)
    PROVE  Cut(q, k) \in Seq(Msg)
<1>1. SubSeq(q, 1, k) \in Seq(Msg)
  <2>1. Len(q) \in Nat /\ k \in Int
    OBVIOUS
  <2>2. \A i \in 1 .. k : q[i] \in Msg
    BY <2>1
  <2>. QED BY <2>1, <2>2, SubSeqProperties
<1>2. <<Eof>> \in Seq(Msg)
  <2>1. Eof \in Msg
    BY DEF Eof, Msg
  <2>. QED BY <2>1
<1>. QED BY <1>1, <1>2, ConcatProperties DEF Cut

\* A link fails.
LEMMA LinkFailsInv ==
    ASSUME SyncInv, NEW n \in Node, NEW p \in Node, LinkFails(n, p)
    PROVE  SyncInv'
<1>1. HandlerInv /\ LinkInv /\ SyncPeerAlive
  BY DEF SyncInv
<1>2. /\ sync' = sync /\ tree' = tree /\ chain' = chain /\ relay' = relay
      /\ peerTip' = peerTip /\ up' = up /\ ready' = ready /\ events' = events
      /\ busy' = busy /\ minerOut' = minerOut /\ faults' = faults + 1 /\ timeouts' = timeouts
  BY DEF LinkFails, links, out
<1>3. PICK k \in 0 .. Len(wire[n][p]), l \in 0 .. Len(wire[p][n]) :
          wire' = [wire EXCEPT ![n][p] = Cut(@, k), ![p][n] = Cut(@, l)]
  BY DEF LinkFails
<1>4. wire[n][p] \in Seq(Msg) /\ wire[p][n] \in Seq(Msg)
  BY <1>1 DEF HandlerInv, Queues
<1>5. Cut(wire[n][p], k) \in Seq(Msg) /\ Cut(wire[p][n], l) \in Seq(Msg)
  BY <1>4, CutType
<1>6. n # p
  BY <1>1 DEF LinkFails, LinkInv
<1>7. wire' = [wire EXCEPT ![n][p] = Cut(wire[n][p], k), ![p][n] = Cut(wire[p][n], l)]
  BY <1>1, <1>3, <1>6 DEF HandlerInv, Queues
<1>8. wire' \in Queues
  BY <1>1, <1>5, <1>7 DEF HandlerInv, Queues
<1>9. HandlerInv'
  BY <1>1, <1>2, <1>8 DEF HandlerInv, ChainsArePaths, SyncCoherent
<1>10. LinkInv'
  BY <1>1, <1>2 DEF LinkInv
<1>11. SyncPeerAlive'
  BY <1>1, <1>2, Zenon DEF SyncPeerAlive
<1>. QED BY <1>9, <1>10, <1>11 DEF SyncInv

\* A frame is read.  The end of a connection to a ready peer is queued as the
\* event that resets the sync in the same step that makes the peer unready.
LEMMA ReadInv ==
    ASSUME SyncInv, NEW n \in Node, NEW p \in Node, Read(n, p)
    PROVE  SyncInv'
<1>. DEFINE m == Head(wire[p][n])
            gone == [peer |-> p, msg |-> GoneEv]
            ev == CASE m.type = "HELLO" -> <<[peer |-> p, msg |-> ReadyEv]>>
                    [] m.type = "EOF" -> IF ready[n][p] THEN <<[peer |-> p, msg |-> GoneEv]>>
                                         ELSE << >>
                    [] OTHER -> <<[peer |-> p, msg |-> m]>>
<1>1. HandlerInv /\ LinkInv /\ SyncPeerAlive
  BY DEF SyncInv
<1>2. /\ sync' = sync /\ tree' = tree /\ chain' = chain /\ relay' = relay
      /\ busy' = busy /\ minerOut' = minerOut /\ faults' = faults /\ timeouts' = timeouts
  BY DEF Read, out, bounds
<1>3. /\ events' = [events EXCEPT ![n] = @ \o ev]
      /\ ready' = [ready EXCEPT ![n][p] = (@ \/ m.type = "HELLO") /\ m.type # "EOF"]
      /\ up' = [up EXCEPT ![n][p] = @ /\ m.type # "EOF"]
      /\ peerTip' = [peerTip EXCEPT ![n][p] = IF m.type = "TIP" THEN m.height ELSE @]
      /\ wire' = [wire EXCEPT ![p][n] = Tail(@)]
      /\ wire[p][n] # << >>
  BY Zenon DEF Read
<1>4. wire \in Queues /\ wire[p][n] \in Seq(Msg)
  BY <1>1 DEF HandlerInv, Queues
<1>5. m \in Msg /\ Tail(wire[p][n]) \in Seq(Msg)
  BY <1>3, <1>4, HeadTailProperties
<1>6. wire' \in Queues
  BY <1>3, <1>4, <1>5 DEF Queues
<1>. HIDE DEF m
<1>7. ev \in Seq(Event)
  <2>1. /\ [peer |-> p, msg |-> ReadyEv] \in Event /\ [peer |-> p, msg |-> GoneEv] \in Event
        /\ [peer |-> p, msg |-> m] \in Event
    BY <1>5 DEF Event
  <2>2. <<[peer |-> p, msg |-> ReadyEv]>> \in Seq(Event)
    BY <2>1
  <2>3. <<[peer |-> p, msg |-> GoneEv]>> \in Seq(Event)
    BY <2>1
  <2>4. <<[peer |-> p, msg |-> m]>> \in Seq(Event)
    BY <2>1
  <2>5. << >> \in Seq(Event)
    OBVIOUS
  <2>. QED BY <2>2, <2>3, <2>4, <2>5
<1>8. ev = IF m.type = "EOF" THEN IF ready[n][p] THEN <<gone>> ELSE << >> ELSE ev
  BY Zenon
<1>9. /\ events \in [Node -> Seq(Event)] /\ up \in [Node -> [Node -> BOOLEAN]]
      /\ ready \in [Node -> [Node -> BOOLEAN]] /\ peerTip \in [Node -> [Node -> Nat]]
      /\ \A q \in Node : ~up[q][q]
  BY <1>1 DEF LinkInv
<1>. HIDE DEF ev
<1>10. /\ events[n] \o ev \in Seq(Event)
       /\ Len(events[n] \o ev) = Len(events[n]) + Len(ev)
       /\ \A i \in 1 .. Len(events[n]) + Len(ev) : (events[n] \o ev)[i] =
              IF i <= Len(events[n]) THEN events[n][i] ELSE ev[i - Len(events[n])]
       /\ Len(events[n]) \in Nat /\ Len(ev) \in Nat
  BY <1>7, <1>9, ConcatProperties
<1>11. LinkInv'
  <2>1. events' \in [Node -> Seq(Event)]
    BY <1>3, <1>9, <1>10
  <2>2. up' \in [Node -> [Node -> BOOLEAN]] /\ \A q \in Node : ~up'[q][q]
    BY <1>3, <1>9
  <2>3. ready' \in [Node -> [Node -> BOOLEAN]]
    BY <1>3, <1>9
  <2>4. m.type = "TIP" => m.height \in Nat
    BY <1>5, MsgRead
  <2>5. peerTip' \in [Node -> [Node -> Nat]]
    BY <1>3, <1>9, <2>4
  <2>. QED BY <1>1, <1>2, <2>1, <2>2, <2>3, <2>5 DEF LinkInv
<1>12. HandlerInv'
  BY <1>1, <1>2, <1>6 DEF HandlerInv, ChainsArePaths, SyncCoherent
<1>13. ASSUME NEW a \in Node, NEW b \in Node, sync'[a].peer = b
       PROVE  \/ ready'[a][b]
              \/ \E i \in DOMAIN events'[a] : events'[a][i] = [peer |-> b, msg |-> GoneEv]
  <2>1. \/ ready[a][b]
        \/ \E i \in DOMAIN events[a] : events[a][i] = [peer |-> b, msg |-> GoneEv]
    BY <1>1, <1>2, <1>13 DEF SyncPeerAlive
  <2>2. CASE a # n
    <3>1. ready'[a] = ready[a] /\ events'[a] = events[a]
      BY <1>3, <1>9, <2>2
    <3>. QED BY <2>1, <3>1
  <2>3. CASE a = n
    <3>0. events'[n] = events[n] \o ev /\ events[n] \in Seq(Event)
      BY <1>3, <1>9
    <3>1. events'[n] = events[n] \o ev /\ DOMAIN events'[n] = 1 .. Len(events[n]) + Len(ev)
      BY <1>10, <3>0, LenProperties
    <3>2. CASE \E i \in DOMAIN events[n] : events[n][i] = [peer |-> b, msg |-> GoneEv]
      <4>1. PICK i \in DOMAIN events[n] : events[n][i] = [peer |-> b, msg |-> GoneEv]
        BY <3>2
      <4>2. i \in 1 .. Len(events[n])
        BY <3>0, <4>1, LenProperties
      <4>3. i \in 1 .. Len(events[n]) + Len(ev) /\ i <= Len(events[n])
        BY <1>10, <4>2
      <4>4. events'[n][i] = events[n][i]
        BY <1>10, <3>1, <4>3, Zenon
      <4>. QED BY <2>3, <3>1, <4>1, <4>3, <4>4
    <3>3. CASE ready[n][b] /\ (b # p \/ m.type # "EOF")
      BY <1>3, <1>9, <2>3, <3>3
    <3>4. CASE ready[n][b] /\ b = p /\ m.type = "EOF"
      <4>1. ev = <<gone>>
        BY <1>8, <3>4
      <4>2. Len(ev) = 1 /\ ev[1] = gone
        BY <4>1
      <4>. DEFINE j == Len(events[n]) + 1
      <4>3. j \in 1 .. Len(events[n]) + Len(ev) /\ ~(j <= Len(events[n])) /\ j - Len(events[n]) = 1
        BY <1>10, <4>2
      <4>. HIDE DEF j
      <4>4. events'[n][j] = ev[j - Len(events[n])]
        BY <1>10, <3>1, <4>3, Zenon
      <4>5. events'[n][j] = [peer |-> b, msg |-> GoneEv]
        BY <3>4, <4>2, <4>3, <4>4
      <4>. QED BY <2>3, <3>1, <4>3, <4>5
    <3>. QED BY <2>1, <2>3, <3>2, <3>3, <3>4
  <2>. QED BY <2>2, <2>3
<1>14. SyncPeerAlive'
  BY <1>13, Zenon DEF SyncPeerAlive
<1>. QED BY <1>11, <1>12, <1>14 DEF SyncInv

\* A node crashes and starts again with its chain and nothing else.
LEMMA CrashInv ==
    ASSUME SyncInv, NEW n \in Node, Crash(n)
    PROVE  SyncInv'
<1>1. HandlerInv /\ LinkInv /\ SyncPeerAlive
  BY DEF SyncInv
<1>2. /\ sync' = [sync EXCEPT ![n] = NoSync] /\ tree' = tree /\ chain' = chain
      /\ up' = [up EXCEPT ![n] = [p \in Node |-> FALSE]]
      /\ ready' = [ready EXCEPT ![n] = [p \in Node |-> FALSE]]
      /\ events' = [events EXCEPT ![n] = << >>]
      /\ busy' = [busy EXCEPT ![n] = FALSE]
      /\ minerOut' = [minerOut EXCEPT ![n] = << >>]
      /\ relay' = [relay EXCEPT ![n] = << >>]
      /\ faults' = faults + 1 /\ peerTip' = peerTip /\ timeouts' = timeouts
  BY DEF Crash
<1>3. wire' \in Queues
  <2>. DEFINE M == Max({Len(wire[n][p]) : p \in Node})
  <2>1. PICK k \in [Node -> 0 .. M] :
           /\ \A p \in Node : k[p] <= Len(wire[n][p])
           /\ wire' = [a \in Node |-> [b \in Node |->
                          CASE b = n -> << >>
                            [] a = n /\ up[b][n] -> Cut(wire[n][b], k[b])
                            [] OTHER -> wire[a][b]]]
    BY Zenon DEF Crash
  <2>. HIDE DEF M
  <2>2. ASSUME NEW b \in Node PROVE Cut(wire[n][b], k[b]) \in Seq(Msg)
    <3>1. wire[n][b] \in Seq(Msg) /\ Len(wire[n][b]) \in Nat
      BY <1>1 DEF HandlerInv, Queues
    <3>2. k[b] \in 0 .. M /\ k[b] <= Len(wire[n][b])
      BY <2>1
    <3>3. k[b] \in 0 .. Len(wire[n][b])
      BY <3>1, <3>2
    <3>. QED BY <3>1, <3>3, CutType
  <2>3. \A a, b \in Node : wire[a][b] \in Seq(Msg)
    BY <1>1 DEF HandlerInv, Queues
  <2>4. << >> \in Seq(Msg)
    OBVIOUS
  <2>. QED BY <2>1, <2>2, <2>3, <2>4 DEF Queues
<1>4. relay' \in [Node -> {<< >>} \cup (Nat \X Node)]
  BY <1>1, <1>2 DEF HandlerInv
<1>5. Moves(n, n)
  BY <1>1, <1>2, <1>3, <1>4, SyncEnded DEF Moves, ChainMoves
<1>6. HandlerInv'
  BY <1>1, <1>5, MovesInv
<1>7. LinkInv'
  <2>1. events' \in [Node -> Seq(Event)] /\ minerOut' \in [Node -> Seq(Nat)]
    BY <1>1, <1>2, EmptySeq DEF LinkInv
  <2>2. up' \in [Node -> [Node -> BOOLEAN]] /\ \A q \in Node : ~up'[q][q]
    BY <1>1, <1>2 DEF LinkInv
  <2>3. ready' \in [Node -> [Node -> BOOLEAN]] /\ busy' \in [Node -> BOOLEAN]
    BY <1>1, <1>2 DEF LinkInv
  <2>. QED BY <1>1, <1>2, <2>1, <2>2, <2>3 DEF LinkInv
<1>8. ASSUME NEW a \in Node, NEW b \in Node, sync'[a].peer = b
      PROVE  \/ ready'[a][b]
             \/ \E i \in DOMAIN events'[a] : events'[a][i] = [peer |-> b, msg |-> GoneEv]
  <2>1. a # n
    BY <1>1, <1>2, <1>8, NodeAssumption DEF HandlerInv, NoSync
  <2>2. sync'[a] = sync[a] /\ ready'[a] = ready[a] /\ events'[a] = events[a]
    BY <1>1, <1>2, <2>1 DEF HandlerInv, LinkInv
  <2>3. \/ ready[a][b]
        \/ \E i \in DOMAIN events[a] : events[a][i] = [peer |-> b, msg |-> GoneEv]
    BY <1>1, <1>8, <2>2 DEF SyncPeerAlive
  <2>. QED BY <2>2, <2>3
<1>9. SyncPeerAlive'
  BY <1>8, Zenon DEF SyncPeerAlive
<1>. QED BY <1>6, <1>7, <1>9 DEF SyncInv

---------------------------------------------------------------------------
(* Theorems *)

\* The network starts with the invariant.
LEMMA InitInv == Init => SyncInv
<1>. SUFFICES ASSUME Init PROVE SyncInv
  OBVIOUS
<1>. USE DEF Init
<1>1. HandlerInv
  <2>1. << >> \in Seq(Block) /\ <<Genesis>> \in Seq(Nat) /\ << >> \in Seq(Msg)
    BY DEF Genesis
  <2>2. tree \in Seq(Block) /\ chain \in [Node -> Seq(Nat)]
    BY <2>1
  <2>3. wire \in Queues /\ relay \in [Node -> {<< >>} \cup (Nat \X Node)]
    BY <2>1 DEF Queues
  <2>4. NoSync \in SyncState
    BY DEF NoSync, SyncState
  <2>5. sync \in [Node -> SyncState]
    BY <2>4
  <2>6. IsPath(tree, <<Genesis>>)
    BY DEF IsPath
  <2>7. ChainsArePaths
    BY <2>6 DEF ChainsArePaths
  <2>8. SyncCoherent
    BY DEF SyncCoherent, NoSync
  <2>. QED BY <2>2, <2>3, <2>5, <2>7, <2>8 DEF HandlerInv
<1>2. LinkInv
  <2>1. << >> \in Seq(Event) /\ << >> \in Seq(Nat)
    OBVIOUS
  <2>. QED BY <2>1 DEF LinkInv
<1>3. SyncPeerAlive
  BY NodeAssumption DEF SyncPeerAlive, NoSync
<1>. QED BY <1>1, <1>2, <1>3 DEF SyncInv

\* Every step keeps it.
LEMMA NextInv == SyncInv /\ [Next]_vars => SyncInv'
<1>. SUFFICES ASSUME SyncInv, [Next]_vars PROVE SyncInv'
  OBVIOUS
<1>1. ASSUME NEW n \in Node, NEW p \in Node, Read(n, p) \/ Connect(n, p) \/ LinkFails(n, p)
      PROVE  SyncInv'
  BY <1>1, ReadInv, ConnectInv, LinkFailsInv
<1>2. ASSUME NEW n \in Node, Handle(n) \/ Crash(n) \/ SyncTimeout(n)
      PROVE  SyncInv'
  BY <1>2, HandleInv, CrashInv, SyncTimeoutInv
<1>3. ASSUME NEW n \in Node, Relay(n) \/ BroadcastMined(n) \/ Announce(n)
      PROVE  SyncInv'
  BY <1>3, RelayInv
<1>4. ASSUME NEW n \in Node, Mine(n) \/ SubmitWork(n)
      PROVE  SyncInv'
  BY <1>4, MineInv, SubmitWorkInv
<1>5. CASE UNCHANGED vars
  <2>1. /\ tree' = tree /\ chain' = chain /\ sync' = sync /\ wire' = wire /\ relay' = relay
        /\ minerOut' = minerOut /\ busy' = busy /\ UNCHANGED <<sync, links, events, bounds>>
    BY <1>5 DEF vars, links, out, bounds
  <2>2. ChainsArePaths'
    BY <2>1 DEF SyncInv, HandlerInv, ChainsArePaths
  <2>. QED BY <2>1, <2>2, SendInv DEF SyncInv, HandlerInv, LinkInv
<1>. QED BY <1>1, <1>2, <1>3, <1>4, <1>5 DEF Next

\* SyncInv holds in every state of the network.
THEOREM SyncInvHolds == Spec => []SyncInv
BY InitInv, NextInv, PTL DEF Spec

\* The state of the network is of the type declared, for every number of
\* nodes, blocks and failures.
THEOREM SyncTypeCorrect == Spec => []TypeOK
<1>1. SyncInv => TypeOK
  BY DEF SyncInv, HandlerInv, LinkInv, TypeOK, Block
<1>. QED BY <1>1, SyncInvHolds, PTL

\* Whatever arrives late, twice or cut off, every node's chain is a path of
\* the tree from genesis: handle_blocks and the M_BLOCK handler never splice
\* a chain that connect_block would refuse.
THEOREM PathsTheorem == Spec => []ChainsArePaths
<1>1. SyncInv => ChainsArePaths
  BY DEF SyncInv, HandlerInv
<1>. QED BY <1>1, SyncInvHolds, PTL

\* The sync state machine is coherent after every handler, timeout and crash:
\* idle means that nothing is kept from the last attempt.
THEOREM CoherentTheorem == Spec => []SyncCoherent
<1>1. SyncInv => SyncCoherent
  BY DEF SyncInv, HandlerInv
<1>. QED BY <1>1, SyncInvHolds, PTL

\* A sync never waits for a peer that is gone: P2P queues on_gone in the step
\* in which the peer stops being ready, and no handler loses it.
THEOREM PeerAliveTheorem == Spec => []SyncPeerAlive
<1>1. SyncInv => SyncPeerAlive
  BY DEF SyncInv
<1>. QED BY <1>1, SyncInvHolds, PTL

---------------------------------------------------------------------------
(* Refinement *)

\* A handler leaves the chains alone, or adopts a longer path.
LEMMA ChainMovesRefines ==
    ASSUME HandlerInv, NEW n \in Node, ChainMoves(n)
    PROVE  [FC!Next]_<<tree, chain>>
<1>1. tree' = tree /\ chain \in [Node -> Seq(Nat)]
  BY DEF ChainMoves, HandlerInv
<1>2. CASE UNCHANGED chain
  BY <1>1, <1>2
<1>3. CASE ~UNCHANGED chain
  <2>1. PICK c : IsPath(tree, c) /\ Len(c) > Len(chain[n]) /\ chain' = [chain EXCEPT ![n] = c]
    BY <1>3, Zenon DEF ChainMoves
  <2>2. chain'[n] = c
    BY <1>1, <2>1
  <2>3. FC!IsPath(tree, c)
    BY <2>1 DEF IsPath, ChildOf, HeightOf, Genesis,
                FC!IsPath, FC!ChildOf, FC!HeightOf, FC!Genesis
  <2>4. FC!Adopt(n)
    BY <1>1, <2>1, <2>2, <2>3 DEF FC!Adopt
  <2>. QED BY <2>4 DEF FC!Next
<1>. QED BY <1>2, <1>3

\* Every step of the network mines a block on a tip, adopts a longer path, or
\* leaves the tree and the chains as they are.
LEMMA StepRefines == SyncInv /\ [Next]_vars => [FC!Next]_<<tree, chain>>
<1>. SUFFICES ASSUME SyncInv, [Next]_vars PROVE [FC!Next]_<<tree, chain>>
  OBVIOUS
<1>0. HandlerInv
  BY DEF SyncInv
<1>1. ASSUME NEW n \in Node, Handle(n) PROVE [FC!Next]_<<tree, chain>>
  <2>1. ChainMoves(n)
    BY <1>1, HandleMoves DEF Moves
  <2>. QED BY <1>0, <2>1, ChainMovesRefines
<1>2. ASSUME NEW n \in Node, Mine(n) \/ SubmitWork(n) PROVE [FC!Next]_<<tree, chain>>
  <2>1. /\ tree' = Append(tree, [parent |-> Tip(chain[n]), height |-> Len(chain[n])])
        /\ chain' = [chain EXCEPT ![n] = Append(@, Len(tree) + 1)]
    BY <1>2, Zenon DEF Mine, SubmitWork, MineOn
  <2>2. FC!Mine(n)
    BY <2>1 DEF FC!Mine, FC!Tip, Tip
  <2>. QED BY <2>2 DEF FC!Next
<1>3. ASSUME NEW n \in Node, NEW p \in Node, Read(n, p) \/ Connect(n, p) \/ LinkFails(n, p)
      PROVE  [FC!Next]_<<tree, chain>>
  <2>1. tree' = tree /\ chain' = chain
    BY <1>3 DEF Read, Connect, LinkFails
  <2>. QED BY <2>1
<1>4. ASSUME NEW n \in Node, \/ Relay(n) \/ BroadcastMined(n) \/ Announce(n)
                             \/ SyncTimeout(n) \/ Crash(n)
      PROVE  [FC!Next]_<<tree, chain>>
  <2>1. tree' = tree /\ chain' = chain
    BY <1>4 DEF Relay, BroadcastMined, Announce, SyncTimeout, Crash
  <2>. QED BY <2>1
<1>5. CASE UNCHANGED vars
  BY <1>5 DEF vars
<1>. QED BY <1>1, <1>2, <1>3, <1>4, <1>5 DEF Next

\* "Heaviest-cumulative-work wins": the network of nodes implements fork
\* choice.  Only mining extends the tree, and a node leaves its chain for
\* nothing but a strictly longer path.
THEOREM ForkChoiceTheorem == Spec => ForkChoiceSpec
<1>1. Init => FC!Init
  BY DEF Init, FC!Init, Genesis, FC!Genesis
<1>. QED BY <1>1, SyncInvHolds, StepRefines, PTL DEF Spec, ForkChoiceSpec, FC!Spec

---------------------------------------------------------------------------
(* Requests and answers under way *)

\* How many entries of a queue are of a kind.
Count(s, S) == Cardinality({i \in DOMAIN s : s[i] \in S})

\* It is a number, and zero when there is none.
LEMMA CountType ==
    ASSUME NEW T, NEW s \in Seq(T), NEW S
    PROVE  /\ IsFiniteSet({i \in DOMAIN s : s[i] \in S})
           /\ Count(s, S) \in Nat
           /\ Count(s, S) = 0 <=> \A i \in DOMAIN s : s[i] \notin S
<1>. DEFINE A == {i \in DOMAIN s : s[i] \in S}
<1>1. DOMAIN s = 1 .. Len(s) /\ Len(s) \in Int /\ 1 \in Int
  BY LenProperties
<1>2. IsFiniteSet(DOMAIN s)
  BY <1>1, FS_Interval
<1>3. A \in SUBSET DOMAIN s
  OBVIOUS
<1>4. A = {} <=> \A i \in DOMAIN s : s[i] \notin S
  OBVIOUS
<1>5. Count(s, S) = Cardinality(A)
  BY DEF Count
<1>. HIDE DEF A
<1>6. IsFiniteSet(A)
  BY <1>2, <1>3, FS_Subset
<1>7. Cardinality(A) \in Nat /\ (Cardinality(A) = 0 <=> A = {})
  BY <1>6, FS_CardinalityType, FS_EmptySet
<1>. QED BY <1>4, <1>5, <1>6, <1>7 DEF A

\* What is sent is counted at once.
LEMMA CountAppend ==
    ASSUME NEW T, NEW s \in Seq(T), NEW x \in T, NEW S
    PROVE  Count(Append(s, x), S) = Count(s, S) + (IF x \in S THEN 1 ELSE 0)
<1>. DEFINE u == Append(s, x)
            A == {i \in DOMAIN s : s[i] \in S}
            B == {i \in DOMAIN u : u[i] \in S}
            k == Len(s) + 1
<1>1. /\ u \in Seq(T) /\ Len(u) = k /\ u[k] = x /\ Len(s) \in Nat
      /\ \A i \in 1 .. Len(s) : u[i] = s[i]
  BY AppendProperties
<1>. HIDE DEF u
<1>2. DOMAIN s = 1 .. Len(s) /\ DOMAIN u = 1 .. k
  BY <1>1, LenProperties
<1>3. k \notin A
  BY <1>1, <1>2
<1>4. B = IF x \in S THEN A \cup {k} ELSE A
  <2>1. DOMAIN u = DOMAIN s \cup {k} /\ k \notin DOMAIN s
    BY <1>1, <1>2
  <2>. HIDE DEF k
  <2>2. \A i \in DOMAIN s : u[i] = s[i]
    BY <1>1, <1>2
  <2>. QED BY <1>1, <2>1, <2>2
<1>5. IsFiniteSet(A) /\ Cardinality(A) = Count(s, S) /\ Count(s, S) \in Nat
  BY CountType DEF Count
<1>6. Count(u, S) = Cardinality(B)
  BY DEF Count
<1>. HIDE DEF A, B, k
<1>7. Cardinality(A \cup {k}) = Cardinality(A) + 1
  BY <1>3, <1>5, FS_AddElement
<1>8. Count(u, S) = Count(s, S) + (IF x \in S THEN 1 ELSE 0)
  BY <1>4, <1>5, <1>6, <1>7
<1>. QED BY <1>8 DEF u

\* What is taken from the head is counted no more.
LEMMA CountTail ==
    ASSUME NEW T, NEW s \in Seq(T), s # << >>, NEW S
    PROVE  Count(s, S) = Count(Tail(s), S) + (IF Head(s) \in S THEN 1 ELSE 0)
<1>. DEFINE u == Tail(s)
            A == {i \in DOMAIN u : u[i] \in S}
            B == {i \in DOMAIN s : s[i] \in S}
            C == B \ {1}
<1>1. /\ u \in Seq(T) /\ Len(u) = Len(s) - 1 /\ Len(s) \in Nat /\ Len(s) >= 1
      /\ \A i \in 1 .. Len(u) : u[i] = s[i + 1]
      /\ Head(s) = s[1]
  BY HeadTailProperties, EmptySeq
<1>. HIDE DEF u
<1>2. DOMAIN s = 1 .. Len(s) /\ DOMAIN u = 1 .. Len(u) /\ Len(u) \in Nat
  BY <1>1, LenProperties
<1>3. ExistsBijection(A, C)
  <2>. DEFINE f == [i \in A |-> i + 1]
  <2>1. ASSUME NEW i \in A PROVE i + 1 \in C /\ i \in Nat
    <3>1. i \in 1 .. Len(u) /\ u[i] \in S
      BY <1>2
    <3>2. i + 1 \in 1 .. Len(s) /\ i + 1 # 1 /\ s[i + 1] = u[i]
      BY <1>1, <1>2, <3>1
    <3>. QED BY <1>2, <3>1, <3>2
  <2>2. ASSUME NEW j \in C PROVE j - 1 \in A /\ (j - 1) + 1 = j
    <3>1. j \in 1 .. Len(s) /\ j # 1 /\ s[j] \in S
      BY <1>2
    <3>2. j - 1 \in 1 .. Len(u) /\ (j - 1) + 1 = j
      BY <1>1, <1>2, <3>1
    <3>3. u[j - 1] = s[j]
      BY <1>1, <3>2
    <3>. QED BY <1>2, <3>1, <3>2, <3>3
  <2>. HIDE DEF A, C
  <2>3. f \in [A -> C]
    BY <2>1
  <2>4. \A a, b \in A : f[a] = f[b] => a = b
    BY <2>1
  <2>5. \A j \in C : \E i \in A : f[i] = j
    BY <2>2
  <2>. HIDE DEF f
  <2>6. f \in Bijection(A, C)
    BY <2>3, <2>4, <2>5 DEF Bijection, Injection, Surjection, IsInjective
  <2>. QED BY <2>6 DEF ExistsBijection
<1>4. IsFiniteSet(A) /\ Cardinality(A) = Count(u, S) /\ Count(u, S) \in Nat
  BY <1>1, CountType DEF Count
<1>5. IsFiniteSet(B) /\ Cardinality(B) = Count(s, S) /\ Count(s, S) \in Nat
  BY CountType DEF Count
<1>6. 1 \in B <=> Head(s) \in S
  BY <1>1, <1>2
<1>. HIDE DEF A, B
<1>7. Cardinality(C) = IF 1 \in B THEN Cardinality(B) - 1 ELSE Cardinality(B)
  BY <1>5, FS_RemoveElement
<1>. HIDE DEF C
<1>8. Cardinality(C) = Cardinality(A)
  BY <1>3, <1>4, FS_Bijection
<1>9. Count(s, S) = Count(u, S) + (IF Head(s) \in S THEN 1 ELSE 0)
  BY <1>4, <1>5, <1>6, <1>7, <1>8
<1>. QED BY <1>9 DEF u

\* Requests and answers on a wire and among the events, and what ends a link.
Gets == {m \in Msg : m.type = "GET_BLOCKS"}
Answers == {m \in Msg : m.type = "BLOCKS"}
GetsFrom(p) == {e \in Event : e.peer = p /\ e.msg.type = "GET_BLOCKS"}
AnswersFrom(p) == {e \in Event : e.peer = p /\ e.msg.type = "BLOCKS"}
Ends == {Eof}
GoneFrom(p) == {[peer |-> p, msg |-> GoneEv]}

\* Both ends use the link, and neither is about to see its end.
Whole(n, p) ==
    /\ up[n][p] /\ up[p][n]
    /\ Count(wire[n][p], Ends) = 0 /\ Count(wire[p][n], Ends) = 0

\* The requests of n to p and their answers, on the way or read.
UnderWay(n, p) ==
    Count(wire[n][p], Gets) + Count(events[p], GetsFrom(n))
      + Count(wire[p][n], Answers) + Count(events[n], AnswersFrom(p))

\* One if the sync of n is with p.
Asking(n, p) == IF sync[n].peer = p THEN 1 ELSE 0

\* On a whole link a node has one request under way if its sync is with that
\* peer, and otherwise none: OneRequest alone would not forbid the answer of
\* an earlier sync to be still to come when the next one asks.  A ready link
\* is up, and one whose end has been read is not.
RequestInv ==
    /\ \A n, p \in Node : ready[n][p] => up[n][p]
    /\ \A n, p \in Node : Count(events[n], GoneFrom(p)) # 0 => ~up[n][p]
    /\ ~EarlyTimeout => \A n, p \in Node : Whole(n, p) => UnderWay(n, p) = Asking(n, p)

\* UnderWay counts what Requests counts.
LEMMA RequestsCounted ==
    ASSUME HandlerInv, LinkInv, NEW n \in Node, NEW p \in Node
    PROVE  /\ Requests(n, p) = UnderWay(n, p)
           /\ ~Whole(n, p) <=> \/ ~up[n][p] \/ ~up[p][n]
                               \/ \E i \in DOMAIN wire[n][p] : wire[n][p][i] = Eof
                               \/ \E i \in DOMAIN wire[p][n] : wire[p][n][i] = Eof
<1>1. /\ wire[n][p] \in Seq(Msg) /\ wire[p][n] \in Seq(Msg)
      /\ events[n] \in Seq(Event) /\ events[p] \in Seq(Event)
  BY DEF HandlerInv, LinkInv, Queues
<1>2. ASSUME NEW T, NEW s \in Seq(T) PROVE \A i \in DOMAIN s : s[i] \in T
  BY <1>2
<1>3. {i \in DOMAIN wire[n][p] : wire[n][p][i].type = "GET_BLOCKS"}
        = {i \in DOMAIN wire[n][p] : wire[n][p][i] \in Gets}
  BY <1>1, <1>2 DEF Gets
<1>4. {i \in DOMAIN wire[p][n] : wire[p][n][i].type = "BLOCKS"}
        = {i \in DOMAIN wire[p][n] : wire[p][n][i] \in Answers}
  BY <1>1, <1>2 DEF Answers
<1>5. {i \in DOMAIN events[p] : events[p][i].peer = n /\ events[p][i].msg.type = "GET_BLOCKS"}
        = {i \in DOMAIN events[p] : events[p][i] \in GetsFrom(n)}
  BY <1>1, <1>2 DEF GetsFrom
<1>6. {i \in DOMAIN events[n] : events[n][i].peer = p /\ events[n][i].msg.type = "BLOCKS"}
        = {i \in DOMAIN events[n] : events[n][i] \in AnswersFrom(p)}
  BY <1>1, <1>2 DEF AnswersFrom
<1>7. Requests(n, p) = UnderWay(n, p)
  BY <1>3, <1>4, <1>5, <1>6 DEF Requests, UnderWay, Count
<1>8. /\ Count(wire[n][p], Ends) = 0 <=> \A i \in DOMAIN wire[n][p] : wire[n][p][i] \notin Ends
      /\ Count(wire[p][n], Ends) = 0 <=> \A i \in DOMAIN wire[p][n] : wire[p][n][i] \notin Ends
  BY <1>1, CountType
<1>. QED BY <1>7, <1>8 DEF Whole, Ends

\* So OneRequest is a part of the invariant.
LEMMA RequestsOne ==
    ASSUME SyncInv, RequestInv, ~EarlyTimeout
    PROVE  OneRequest
<1>1. HandlerInv /\ LinkInv
  BY DEF SyncInv
<1>2. ASSUME NEW n \in Node, NEW p \in Node, sync[n].peer = p, Whole(n, p)
      PROVE  Requests(n, p) = 1
  <2>1. UnderWay(n, p) = Asking(n, p)
    BY <1>2 DEF RequestInv
  <2>. QED BY <1>1, <1>2, <2>1, RequestsCounted DEF Asking
<1>. QED BY <1>1, <1>2, RequestsCounted DEF OneRequest

---------------------------------------------------------------------------
(* What is sent *)

\* From the queues w to v, n has sent p so many requests and answers, and
\* otherwise nothing that is counted.
Sends(w, v, n, p, g, r) ==
    \A a, b \in Node :
        /\ Count(v[a][b], Gets) = Count(w[a][b], Gets) + (IF a = n /\ b = p THEN g ELSE 0)
        /\ Count(v[a][b], Answers) = Count(w[a][b], Answers) + (IF a = n /\ b = p THEN r ELSE 0)
        /\ Count(v[a][b], Ends) = Count(w[a][b], Ends)

\* The frames that are neither request nor answer nor the end.
Quiet == Msg \ (Gets \cup Answers \cup Ends)

\* The kinds of the frames a node sends.
LEMMA MsgKinds ==
    ASSUME NEW k \in Nat, NEW v \in Seq(Nat)
    PROVE  /\ TipMsg(k) \in Quiet /\ BlockMsg(k) \in Quiet /\ HelloMsg \in Quiet
           /\ GetMsg(k) \in Gets /\ GetMsg(k) \notin Answers /\ GetMsg(k) # Eof
           /\ BlocksMsg(v) \in Answers /\ BlocksMsg(v) \notin Gets /\ BlocksMsg(v) # Eof
<1>1. /\ {HelloMsg, Eof, TipMsg(k), GetMsg(k), BlocksMsg(v), BlockMsg(k)} \subseteq Msg
  BY MsgMade
<1>2. /\ HelloMsg.type = "HELLO" /\ Eof.type = "EOF" /\ TipMsg(k).type = "TIP"
      /\ GetMsg(k).type = "GET_BLOCKS" /\ BlocksMsg(v).type = "BLOCKS"
      /\ BlockMsg(k).type = "BLOCK"
  BY DEF HelloMsg, Eof, TipMsg, GetMsg, BlocksMsg, BlockMsg
<1>. QED BY <1>1, <1>2 DEF Quiet, Gets, Answers, Ends

\* What is counted is a number.
LEMMA LoadType ==
    ASSUME NEW w \in Queues, NEW a \in Node, NEW b \in Node
    PROVE  /\ Count(w[a][b], Gets) \in Nat /\ Count(w[a][b], Answers) \in Nat
           /\ Count(w[a][b], Ends) \in Nat
<1>1. w[a][b] \in Seq(Msg)
  BY DEF Queues
<1>. QED BY <1>1, CountType

\* Nothing sent.
LEMMA SendsNothing ==
    ASSUME NEW w \in Queues, NEW n, NEW p
    PROVE  Sends(w, w, n, p, 0, 0)
BY LoadType DEF Sends

\* One thing after another.
LEMMA SendsTwice ==
    ASSUME NEW u \in Queues, NEW w, NEW v, NEW n, NEW p, Sends(u, w, n, p, 0, 0),
           Sends(w, v, n, p, 0, 0)
    PROVE  Sends(u, v, n, p, 0, 0)
BY LoadType DEF Sends

\* send_to sends nothing when the connection is gone.
LEMMA SendToSends ==
    ASSUME up \in [Node -> [Node -> BOOLEAN]], NEW w \in Queues, NEW n \in Node, NEW p \in Node,
           NEW m \in Msg \ Ends
    PROVE  /\ ~up[n][p] => Sends(w, SendTo(w, n, p, m), n, p, 0, 0)
           /\ up[n][p] => Sends(w, SendTo(w, n, p, m), n, p,
                                IF m \in Gets THEN 1 ELSE 0, IF m \in Answers THEN 1 ELSE 0)
<1>1. CASE ~up[n][p]
  <2>1. SendTo(w, n, p, m) = w
    BY <1>1 DEF SendTo
  <2>. QED BY <1>1, <2>1, SendsNothing
<1>2. CASE up[n][p]
  <2>. DEFINE v == SendTo(w, n, p, m)
  <2>1. v = [w EXCEPT ![n][p] = Append(w[n][p], m)]
    BY <1>2 DEF SendTo, Queues
  <2>. HIDE DEF v
  <2>2. ASSUME NEW a \in Node, NEW b \in Node, NEW S
        PROVE  Count(v[a][b], S) = Count(w[a][b], S)
                                     + (IF a = n /\ b = p /\ m \in S THEN 1 ELSE 0)
    <3>1. w[a][b] \in Seq(Msg)
      BY DEF Queues
    <3>2. Count(w[a][b], S) \in Nat
      BY <3>1, CountType
    <3>3. CASE a = n /\ b = p
      <4>1. v[a][b] = Append(w[a][b], m)
        BY <2>1, <3>3 DEF Queues
      <4>2. Count(Append(w[a][b], m), S) = Count(w[a][b], S) + (IF m \in S THEN 1 ELSE 0)
        BY <3>1, CountAppend
      <4>. QED BY <3>3, <4>1, <4>2
    <3>4. CASE ~(a = n /\ b = p)
      <4>1. v[a][b] = w[a][b]
        BY <2>1, <3>4 DEF Queues
      <4>. QED BY <3>2, <3>4, <4>1
    <3>. QED BY <3>3, <3>4
  <2>4. m \notin Ends
    OBVIOUS
  <2>5. ASSUME NEW a \in Node, NEW b \in Node
        PROVE  /\ Count(v[a][b], Gets) = Count(w[a][b], Gets)
                     + (IF a = n /\ b = p THEN IF m \in Gets THEN 1 ELSE 0 ELSE 0)
               /\ Count(v[a][b], Answers) = Count(w[a][b], Answers)
                     + (IF a = n /\ b = p THEN IF m \in Answers THEN 1 ELSE 0 ELSE 0)
               /\ Count(v[a][b], Ends) = Count(w[a][b], Ends)
    <3>1. Count(v[a][b], Gets) = Count(w[a][b], Gets)
             + (IF a = n /\ b = p /\ m \in Gets THEN 1 ELSE 0)
      BY <2>2
    <3>2. Count(v[a][b], Answers) = Count(w[a][b], Answers)
             + (IF a = n /\ b = p /\ m \in Answers THEN 1 ELSE 0)
      BY <2>2
    <3>3. Count(v[a][b], Ends) = Count(w[a][b], Ends)
             + (IF a = n /\ b = p /\ m \in Ends THEN 1 ELSE 0)
      BY <2>2
    <3>. QED BY <2>4, <3>1, <3>2, <3>3, LoadType
  <2>6. Sends(w, v, n, p, IF m \in Gets THEN 1 ELSE 0, IF m \in Answers THEN 1 ELSE 0)
    BY <2>5 DEF Sends
  <2>. QED BY <1>2, <2>6 DEF v
<1>. QED BY <1>1, <1>2

\* broadcast sends no request and no answer.
LEMMA BroadcastSends ==
    ASSUME NEW w \in Queues, NEW n \in Node, NEW m \in Quiet, NEW except, NEW p
    PROVE  Sends(w, Broadcast(w, n, m, except), n, p, 0, 0)
<1>. DEFINE v == Broadcast(w, n, m, except)
<1>1. ASSUME NEW a \in Node, NEW b \in Node, NEW S, m \notin S
      PROVE  Count(v[a][b], S) = Count(w[a][b], S) /\ Count(w[a][b], S) \in Nat
  <2>1. w[a][b] \in Seq(Msg) /\ m \in Msg
    BY DEF Queues, Quiet
  <2>2. v[a][b] = w[a][b] \/ v[a][b] = Append(w[a][b], m)
    <3>1. w \in [Node -> [Node -> Seq(Msg)]]
      BY DEF Queues
    <3>2. CASE a # n
      BY <3>1, <3>2 DEF Broadcast
    <3>3. CASE a = n
      <4>. DEFINE f == [q \in Node |-> IF ready[n][q] /\ q # except
                                       THEN Append(w[n][q], m) ELSE w[n][q]]
      <4>1. v = [w EXCEPT ![n] = f]
        BY Zenon DEF Broadcast
      <4>2. f[b] = w[n][b] \/ f[b] = Append(w[n][b], m)
        OBVIOUS
      <4>. HIDE DEF f, v
      <4>3. v[n] = f
        BY <3>1, <4>1
      <4>. QED BY <3>3, <4>2, <4>3
    <3>. QED BY <3>2, <3>3
  <2>3. Count(Append(w[a][b], m), S) = Count(w[a][b], S) + 0 /\ Count(w[a][b], S) \in Nat
    BY <1>1, <2>1, CountAppend, CountType, ZenonT(40)
  <2>. HIDE DEF v
  <2>4. CASE v[a][b] = w[a][b]
    BY <2>3, <2>4
  <2>5. CASE v[a][b] = Append(w[a][b], m)
    <3>1. Count(v[a][b], S) = Count(w[a][b], S) + 0
      BY <2>3, <2>5, Zenon
    <3>. QED BY <2>3, <3>1
  <2>. QED BY <2>2, <2>4, <2>5
<1>2. m \notin Gets /\ m \notin Answers /\ m \notin Ends
  BY DEF Quiet
<1>. HIDE DEF v
<1>3. ASSUME NEW a \in Node, NEW b \in Node
      PROVE  /\ Count(v[a][b], Gets) = Count(w[a][b], Gets) + 0
             /\ Count(v[a][b], Answers) = Count(w[a][b], Answers) + 0
             /\ Count(v[a][b], Ends) = Count(w[a][b], Ends)
  <2>1. Count(v[a][b], Gets) = Count(w[a][b], Gets)
    BY <1>1, <1>2
  <2>2. Count(v[a][b], Answers) = Count(w[a][b], Answers)
    BY <1>1, <1>2
  <2>3. Count(v[a][b], Ends) = Count(w[a][b], Ends)
    BY <1>1, <1>2
  <2>. QED BY <2>1, <2>2, <2>3, LoadType
<1>4. Sends(w, v, n, p, 0, 0)
  BY <1>3 DEF Sends
<1>. QED BY <1>4 DEF v

\* Steps that send neither request nor answer, and do nothing else that counts.
LEMMA QuietStep ==
    ASSUME SyncInv, RequestInv, NEW n \in Node, UNCHANGED <<sync, up, ready, events>>,
           Sends(wire, wire', n, n, 0, 0)
    PROVE  RequestInv'
<1>0. sync' = sync /\ up' = up /\ ready' = ready /\ events' = events
  OBVIOUS
<1>1. ASSUME NEW a \in Node, NEW b \in Node
      PROVE  /\ Count(wire'[a][b], Gets) = Count(wire[a][b], Gets)
             /\ Count(wire'[a][b], Answers) = Count(wire[a][b], Answers)
             /\ Count(wire'[a][b], Ends) = Count(wire[a][b], Ends)
  <2>1. wire \in Queues
    BY DEF SyncInv, HandlerInv
  <2>. QED BY <2>1, LoadType DEF Sends
<1>2. ASSUME NEW a \in Node, NEW b \in Node
      PROVE  Whole(a, b)' = Whole(a, b) /\ UnderWay(a, b)' = UnderWay(a, b)
             /\ Asking(a, b)' = Asking(a, b)
  BY <1>0, <1>1 DEF Whole, UnderWay, Asking
<1>. QED BY <1>0, <1>2 DEF RequestInv

---------------------------------------------------------------------------
(* What a handler does to the requests *)

\* A handler of an event from p that holds k requests and l answers: it
\* changes the sync of n with p only, and on a whole link it answers what was
\* asked, and asks again exactly if the sync goes on.
Balanced(n, p, k, l) ==
    \E g, r \in Nat :
        /\ Sends(wire, wire', n, p, g, r)
        /\ \A q \in Node : q # n => sync'[q] = sync[q]
        /\ \A q \in Node : q # p => (sync'[n].peer = q <=> sync[n].peer = q)
        /\ Whole(n, p) => r = k /\ Asking(n, p)' + l = Asking(n, p) + g

\* A handler that leaves the syncs alone, and sends as many answers as it had
\* requests.
LEMMA SyncSameBalanced ==
    ASSUME NEW n \in Node, NEW p \in Node, NEW k \in Nat, NEW r \in Nat, sync' = sync,
           Sends(wire, wire', n, p, 0, r), Whole(n, p) => r = k
    PROVE  Balanced(n, p, k, 0)
<1>1. Asking(n, p)' + 0 = Asking(n, p) + 0 /\ 0 \in Nat
  BY DEF Asking
<1>. QED BY <1>1, Zenon DEF Balanced

\* A handler that gives the sync of n another state, with p or without.
LEMMA SyncOwnBalanced ==
    ASSUME HandlerInv, NEW n \in Node, NEW p \in Node, NEW l \in Nat, NEW g \in Nat, NEW s,
           sync' = [sync EXCEPT ![n] = s],
           sync[n].peer \in {p, NoPeer}, s.peer \in {p, NoPeer},
           Sends(wire, wire', n, p, g, 0),
           Whole(n, p) => (IF s.peer = p THEN 1 ELSE 0) + l = (IF sync[n].peer = p THEN 1 ELSE 0) + g
    PROVE  Balanced(n, p, 0, l)
<1>1. sync \in [Node -> SyncState]
  BY DEF HandlerInv
<1>2. sync'[n] = s /\ \A q \in Node : q # n => sync'[q] = sync[q]
  BY <1>1
<1>3. \A q \in Node : q # p => (sync'[n].peer = q <=> sync[n].peer = q)
  BY <1>2, NodeAssumption
<1>4. Whole(n, p) => 0 = 0 /\ Asking(n, p)' + l = Asking(n, p) + g
  BY <1>2 DEF Asking
<1>5. 0 \in Nat
  OBVIOUS
<1>. QED BY <1>2, <1>3, <1>4, <1>5, Zenon DEF Balanced

\* A tip or block that is sent to one peer adds nothing.
LEMMA SendToQuiet ==
    ASSUME HandlerInv, LinkInv, NEW n \in Node, NEW p \in Node, NEW m \in Quiet
    PROVE  Sends(wire, SendTo(wire, n, p, m), n, p, 0, 0)
<1>1. /\ m \in Msg \ Ends /\ m \notin Gets /\ m \notin Answers
      /\ wire \in Queues /\ up \in [Node -> [Node -> BOOLEAN]]
  BY DEF Quiet, HandlerInv, LinkInv
<1>. QED BY <1>1, SendToSends

\* A request is sent if the connection is there.
LEMMA SendToGet ==
    ASSUME HandlerInv, LinkInv, NEW n \in Node, NEW p \in Node, NEW k \in Nat
    PROVE  \E g \in Nat : /\ Sends(wire, SendTo(wire, n, p, GetMsg(k)), n, p, g, 0)
                          /\ up[n][p] => g = 1
<1>1. GetMsg(k) \in Msg \ Ends /\ GetMsg(k) \in Gets /\ GetMsg(k) \notin Answers
  <2>1. GetMsg(k) \in Gets /\ GetMsg(k) \notin Answers /\ GetMsg(k) # Eof
    BY MsgKinds, EmptySeq
  <2>. QED BY <2>1 DEF Gets, Ends
<1>2. wire \in Queues /\ up \in [Node -> [Node -> BOOLEAN]]
  BY DEF HandlerInv, LinkInv
<1>3. CASE up[n][p]
  <2>1. Sends(wire, SendTo(wire, n, p, GetMsg(k)), n, p, 1, 0)
    BY <1>1, <1>2, <1>3, SendToSends
  <2>. QED BY <2>1
<1>4. CASE ~up[n][p]
  <2>1. Sends(wire, SendTo(wire, n, p, GetMsg(k)), n, p, 0, 0)
    BY <1>1, <1>2, <1>4, SendToSends
  <2>. QED BY <1>4, <2>1
<1>. QED BY <1>3, <1>4

\* So is an answer.
LEMMA SendToAnswer ==
    ASSUME HandlerInv, LinkInv, NEW n \in Node, NEW p \in Node, NEW v \in Seq(Nat)
    PROVE  \E r \in Nat : /\ Sends(wire, SendTo(wire, n, p, BlocksMsg(v)), n, p, 0, r)
                          /\ up[n][p] => r = 1
<1>1. BlocksMsg(v) \in Msg \ Ends /\ BlocksMsg(v) \in Answers /\ BlocksMsg(v) \notin Gets
  <2>0. 0 \in Nat
    OBVIOUS
  <2>1. BlocksMsg(v) \in Answers /\ BlocksMsg(v) \notin Gets /\ BlocksMsg(v) # Eof
    BY <2>0, MsgKinds
  <2>. QED BY <2>1 DEF Answers, Ends
<1>2. wire \in Queues /\ up \in [Node -> [Node -> BOOLEAN]]
  BY DEF HandlerInv, LinkInv
<1>3. CASE up[n][p]
  <2>1. Sends(wire, SendTo(wire, n, p, BlocksMsg(v)), n, p, 0, 1)
    BY <1>1, <1>2, <1>3, SendToSends
  <2>. QED BY <2>1
<1>4. CASE ~up[n][p]
  <2>1. Sends(wire, SendTo(wire, n, p, BlocksMsg(v)), n, p, 0, 0)
    BY <1>1, <1>2, <1>4, SendToSends
  <2>. QED BY <1>4, <2>1
<1>. QED BY <1>3, <1>4

\* on_ready sends the tip.
LEMMA ReadyBalanced ==
    ASSUME HandlerInv, LinkInv, NEW n \in Node, NEW p \in Node, HandleReady(n, p)
    PROVE  Balanced(n, p, 0, 0)
<1>1. TipMsg(Height(chain[n])) \in Quiet
  BY ChainFacts, MsgKinds, EmptySeq
<1>2. sync' = sync /\ wire' = SendTo(wire, n, p, TipMsg(Height(chain[n])))
  BY DEF HandleReady
<1>3. Sends(wire, wire', n, p, 0, 0)
  BY <1>1, <1>2, SendToQuiet
<1>. QED BY <1>2, <1>3, SyncSameBalanced

\* on_gone may end the sync, but the link is no longer whole.
LEMMA GoneBalanced ==
    ASSUME HandlerInv, NEW n \in Node, NEW p \in Node, HandleGone(n, p), ~Whole(n, p)
    PROVE  Balanced(n, p, 0, 0)
<1>1. wire' = wire /\ Sends(wire, wire, n, p, 0, 0)
  BY SendsNothing DEF HandleGone, HandlerInv
<1>2. CASE sync[n].peer # p
  BY <1>1, <1>2, SyncSameBalanced DEF HandleGone
<1>3. CASE sync[n].peer = p
  <2>1. sync' = [sync EXCEPT ![n] = NoSync] /\ NoSync.peer = NoPeer
    BY <1>3 DEF HandleGone, NoSync
  <2>. QED BY <1>1, <1>3, <2>1, SyncOwnBalanced
<1>. QED BY <1>2, <1>3

\* maybe_sync asks when it begins a sync.
LEMMA MaybeSyncBalanced ==
    ASSUME HandlerInv, LinkInv, RequestInv, NEW n \in Node, NEW p \in Node,
           MaybeSync(n, p, wire)
    PROVE  Balanced(n, p, 0, 0)
<1>1. CASE ~(sync[n].peer = NoPeer /\ ready[n][p] /\ peerTip[n][p] > Height(chain[n]))
  <2>1. sync' = sync /\ wire' = wire
    BY <1>1, Zenon DEF MaybeSync
  <2>2. Sends(wire, wire', n, p, 0, 0)
    BY <2>1, SendsNothing DEF HandlerInv
  <2>. QED BY <2>1, <2>2, SyncSameBalanced
<1>2. CASE sync[n].peer = NoPeer /\ ready[n][p] /\ peerTip[n][p] > Height(chain[n])
  <2>. DEFINE s == [NoSync EXCEPT !.peer = p, !.mode = 1]
  <2>1. sync' = [sync EXCEPT ![n] = s] /\ wire' = SendTo(wire, n, p, GetMsg(Height(chain[n]) + 1))
    BY <1>2, Zenon DEF MaybeSync
  <2>2. s = [peer |-> p, mode |-> 1, got |-> 0, cand |-> << >>]
    BY SyncBegins
  <2>. HIDE DEF s
  <2>3. s.peer = p
    BY <2>2
  <2>4. Height(chain[n]) + 1 \in Nat /\ up[n][p]
    BY <1>2, ChainFacts DEF RequestInv
  <2>5. Sends(wire, wire', n, p, 1, 0)
    BY <2>1, <2>4, SendToGet
  <2>6. (IF s.peer = p THEN 1 ELSE 0) + 0 = (IF sync[n].peer = p THEN 1 ELSE 0) + 1
    BY <1>2, <2>3, NodeAssumption
  <2>. QED BY <1>2, <2>1, <2>3, <2>5, <2>6, SyncOwnBalanced
<1>. QED BY <1>1, <1>2

\* The M_GETBLOCKS handler answers once.
LEMMA GetBlocksBalanced ==
    ASSUME HandlerInv, LinkInv, NEW n \in Node, NEW p \in Node, NEW start \in Nat,
           HandleGetBlocks(n, p, start)
    PROVE  Balanced(n, p, 1, 0)
<1>1. Served(chain[n], start) \in Seq(Nat)
  BY ServedType
<1>2. sync' = sync /\ wire' = SendTo(wire, n, p, BlocksMsg(Served(chain[n], start)))
  BY DEF HandleGetBlocks
<1>3. PICK r \in Nat : Sends(wire, wire', n, p, 0, r) /\ (up[n][p] => r = 1)
  BY <1>1, <1>2, SendToAnswer
<1>4. Whole(n, p) => r = 1
  BY <1>3 DEF Whole
<1>. QED BY <1>2, <1>3, <1>4, SyncSameBalanced

\* handle_blocks: the sync ends and nothing more is asked, or it goes on and
\* asks once more.
LEMMA BlocksBalanced ==
    ASSUME HandlerInv, LinkInv, NEW n \in Node, NEW p \in Node, NEW v \in Seq(Nat),
           HandleBlocks(n, p, v), Whole(n, p) => sync[n].peer = p
    PROVE  Balanced(n, p, 0, 1)
<1>1. CASE sync[n].peer # p /\ UNCHANGED <<chain, sync, wire>>
  <2>1. Sends(wire, wire', n, p, 0, 0) /\ ~Whole(n, p)
    BY <1>1, SendsNothing DEF HandlerInv
  <2>2. /\ \A q \in Node : q # n => sync'[q] = sync[q]
        /\ \A q \in Node : q # p => (sync'[n].peer = q <=> sync[n].peer = q)
        /\ 0 \in Nat
    BY <1>1
  <2>. QED BY <2>1, <2>2, Zenon DEF Balanced
<1>2. ASSUME sync[n].peer = p, sync' = [sync EXCEPT ![n] = NoSync],
             Sends(wire, wire', n, p, 0, 0)
      PROVE  Balanced(n, p, 0, 1)
  <2>1. NoSync.peer = NoPeer /\ NoPeer # p
    BY NodeAssumption DEF NoSync
  <2>2. (IF NoSync.peer = p THEN 1 ELSE 0) + 1 = (IF sync[n].peer = p THEN 1 ELSE 0) + 0
    BY <1>2, <2>1
  <2>. QED BY <1>2, <2>1, <2>2, SyncOwnBalanced
<1>3. ASSUME sync[n].peer = p, NEW s, sync' = [sync EXCEPT ![n] = s], s.peer = p,
             NEW k \in Nat, wire' = SendTo(wire, n, p, GetMsg(k))
      PROVE  Balanced(n, p, 0, 1)
  <2>1. PICK g \in Nat : Sends(wire, wire', n, p, g, 0) /\ (up[n][p] => g = 1)
    BY <1>3, SendToGet
  <2>2. Whole(n, p) => (IF s.peer = p THEN 1 ELSE 0) + 1 = (IF sync[n].peer = p THEN 1 ELSE 0) + g
    BY <1>3, <2>1 DEF Whole
  <2>. QED BY <1>3, <2>1, <2>2, SyncOwnBalanced
<1>4. CASE sync[n].peer = p /\ sync[n].mode = 1 /\ ExtendFrom(n, p, v)
  <2>1. PICK c \in Seq(Nat), k \in Nat :
           /\ Height(c) \in Nat
           /\ \/ sync' = [sync EXCEPT ![n].mode = 2, ![n].cand = << >>] /\ wire' = SendTo(wire, n, p, GetMsg(0))
              \/ sync' = [sync EXCEPT ![n] = NoSync] /\ wire' = Broadcast(wire, n, TipMsg(Height(c)), NoPeer)
              \/ sync' = [sync EXCEPT ![n].got = @ + k] /\ wire' = SendTo(wire, n, p, GetMsg(Height(c) + 1))
              \/ sync' = [sync EXCEPT ![n] = NoSync] /\ UNCHANGED wire
    <3>. DEFINE okc == OkCount(chain[n], v)
                c == chain[n] \o SubSeq(v, 1, okc)
    <3>1. chain[n] \in Seq(Nat) /\ IsPath(tree, chain[n]) /\ Len(chain[n]) \in Nat \ {0}
      BY ChainFacts
    <3>2. okc \in 0 .. Len(v) /\ c \in Seq(Nat) /\ Len(c) = Len(chain[n]) + okc
      BY <3>1, OkCountPath, Zenon
    <3>3. \/ sync' = [sync EXCEPT ![n].mode = 2, ![n].cand = << >>] /\ wire' = SendTo(wire, n, p, GetMsg(0))
          \/ sync' = [sync EXCEPT ![n] = NoSync] /\ wire' = Broadcast(wire, n, TipMsg(Height(c)), NoPeer)
          \/ sync' = [sync EXCEPT ![n].got = @ + okc] /\ wire' = SendTo(wire, n, p, GetMsg(Height(c) + 1))
          \/ sync' = [sync EXCEPT ![n] = NoSync] /\ UNCHANGED wire
      BY <1>4, Zenon DEF ExtendFrom
    <3>. HIDE DEF okc, c
    <3>4. okc \in Nat
      BY <3>2
    <3>5. Height(c) \in Nat
      BY <3>1, <3>2, <3>4 DEF Height
    <3>. QED BY <3>2, <3>3, <3>4, <3>5, Zenon
  <2>2. CASE sync' = [sync EXCEPT ![n].mode = 2, ![n].cand = << >>] /\ wire' = SendTo(wire, n, p, GetMsg(0))
    <3>. DEFINE s == [sync[n] EXCEPT !.mode = 2, !.cand = << >>]
    <3>1. sync' = [sync EXCEPT ![n] = s] /\ s.peer = p /\ 0 \in Nat
      BY <1>4, <2>2 DEF HandlerInv, SyncState
    <3>. HIDE DEF s
    <3>. QED BY <1>3, <1>4, <2>2, <3>1
  <2>3. CASE sync' = [sync EXCEPT ![n] = NoSync] /\ wire' = Broadcast(wire, n, TipMsg(Height(c)), NoPeer)
    <3>1. TipMsg(Height(c)) \in Quiet
      BY <2>1, MsgKinds, EmptySeq
    <3>2. Sends(wire, wire', n, p, 0, 0)
      BY <2>3, <3>1, BroadcastSends DEF HandlerInv
    <3>. QED BY <1>2, <1>4, <2>3, <3>2
  <2>4. CASE sync' = [sync EXCEPT ![n].got = @ + k] /\ wire' = SendTo(wire, n, p, GetMsg(Height(c) + 1))
    <3>. DEFINE s == [sync[n] EXCEPT !.got = @ + k]
    <3>1. sync' = [sync EXCEPT ![n] = s] /\ s.peer = p /\ Height(c) + 1 \in Nat
      BY <1>4, <2>1, <2>4 DEF HandlerInv, SyncState
    <3>. HIDE DEF s
    <3>. QED BY <1>3, <1>4, <2>4, <3>1
  <2>5. CASE sync' = [sync EXCEPT ![n] = NoSync] /\ UNCHANGED wire
    <3>1. Sends(wire, wire', n, p, 0, 0)
      BY <2>5, SendsNothing DEF HandlerInv
    <3>. QED BY <1>2, <1>4, <2>5, <3>1
  <2>. QED BY <2>1, <2>2, <2>3, <2>4, <2>5
<1>5. CASE sync[n].peer = p /\ sync[n].mode = 2 /\ DownloadAll(n, p, v)
  <2>. DEFINE cand == sync[n].cand \o v
  <2>1. /\ cand \in Seq(Nat) /\ Len(cand) \in Nat
    BY ConcatProperties DEF HandlerInv, SyncState
  <2>2. \/ sync' = [sync EXCEPT ![n] = NoSync] /\ UNCHANGED wire
        \/ sync' = [sync EXCEPT ![n].cand = cand] /\ wire' = SendTo(wire, n, p, GetMsg(Len(cand)))
        \/ /\ sync' = [sync EXCEPT ![n] = NoSync] /\ CanReplace(chain[n], cand)
           /\ wire' = Broadcast(wire, n, TipMsg(Height(cand)), NoPeer)
    BY <1>5, Zenon DEF DownloadAll
  <2>. HIDE DEF cand
  <2>3. CASE sync' = [sync EXCEPT ![n] = NoSync] /\ UNCHANGED wire
    <3>1. Sends(wire, wire', n, p, 0, 0)
      BY <2>3, SendsNothing DEF HandlerInv
    <3>. QED BY <1>2, <1>5, <2>3, <3>1
  <2>4. CASE sync' = [sync EXCEPT ![n].cand = cand] /\ wire' = SendTo(wire, n, p, GetMsg(Len(cand)))
    <3>. DEFINE s == [sync[n] EXCEPT !.cand = cand]
    <3>1. sync' = [sync EXCEPT ![n] = s] /\ s.peer = p
      BY <1>5, <2>4 DEF HandlerInv, SyncState
    <3>. HIDE DEF s
    <3>. QED BY <1>3, <1>5, <2>1, <2>4, <3>1
  <2>5. CASE /\ sync' = [sync EXCEPT ![n] = NoSync] /\ CanReplace(chain[n], cand)
             /\ wire' = Broadcast(wire, n, TipMsg(Height(cand)), NoPeer)
    <3>1. Height(cand) \in Nat
      BY <2>1, <2>5, EmptySeq DEF CanReplace, IsPath, Height
    <3>2. TipMsg(Height(cand)) \in Quiet
      BY <3>1, MsgKinds, EmptySeq
    <3>3. Sends(wire, wire', n, p, 0, 0)
      BY <2>5, <3>2, BroadcastSends DEF HandlerInv
    <3>. QED BY <1>2, <1>5, <2>5, <3>3
  <2>. QED BY <2>2, <2>3, <2>4, <2>5
<1>. QED BY <1>1, <1>4, <1>5 DEF HandleBlocks

\* The M_BLOCK handler appends and announces, or asks as maybe_sync does.
LEMMA BlockBalanced ==
    ASSUME HandlerInv, LinkInv, RequestInv, NEW n \in Node, NEW p \in Node, NEW b \in Nat,
           HandleBlock(n, p, b)
    PROVE  Balanced(n, p, 0, 0)
<1>1. CASE UNCHANGED <<sync, wire>>
  <2>1. Sends(wire, wire', n, p, 0, 0)
    BY <1>1, SendsNothing DEF HandlerInv
  <2>. QED BY <1>1, <2>1, SyncSameBalanced
<1>2. CASE wire' = Broadcast(wire, n, TipMsg(Len(chain[n])), p) /\ UNCHANGED sync
  <2>1. TipMsg(Len(chain[n])) \in Quiet
    BY ChainFacts, MsgKinds, EmptySeq
  <2>2. Sends(wire, wire', n, p, 0, 0)
    BY <1>2, <2>1, BroadcastSends DEF HandlerInv
  <2>. QED BY <1>2, <2>2, SyncSameBalanced
<1>3. CASE MaybeSync(n, p, wire)
  BY <1>3, MaybeSyncBalanced
<1>. QED BY <1>1, <1>2, <1>3 DEF HandleBlock

---------------------------------------------------------------------------
(* The steps and the requests *)

\* What is counted of the events is a number.
LEMMA EventLoadType ==
    ASSUME LinkInv, NEW n \in Node, NEW S
    PROVE  events[n] \in Seq(Event) /\ Count(events[n], S) \in Nat
<1>1. events[n] \in Seq(Event)
  BY DEF LinkInv
<1>. QED BY <1>1, CountType

\* The event that is handled, and the requests and answers it holds.
LEMMA HandleBalanced ==
    ASSUME SyncInv, RequestInv, ~EarlyTimeout, NEW n \in Node, Handle(n),
           NEW e \in Event, e = Head(events[n])
    PROVE  Balanced(n, e.peer, IF e \in GetsFrom(e.peer) THEN 1 ELSE 0,
                               IF e \in AnswersFrom(e.peer) THEN 1 ELSE 0)
<1>. DEFINE p == e.peer
            m == e.msg
            k == IF e \in GetsFrom(e.peer) THEN 1 ELSE 0
            l == IF e \in AnswersFrom(e.peer) THEN 1 ELSE 0
<1>1. events[n] \in Seq(Event) /\ events[n] # << >>
  BY DEF SyncInv, LinkInv, Handle
<1>2. e \in Event
  OBVIOUS
<1>3. \/ m.type = "READY" /\ HandleReady(n, p)
      \/ m.type = "GONE" /\ HandleGone(n, p)
      \/ m.type = "TIP" /\ HandleTip(n, p)
      \/ m.type = "GET_BLOCKS" /\ HandleGetBlocks(n, p, m.start)
      \/ m.type = "BLOCKS" /\ HandleBlocks(n, p, m.blocks)
      \/ m.type = "BLOCK" /\ HandleBlock(n, p, m.block)
  BY Zenon DEF Handle
<1>4. \A S : Count(events[n], S) = Count(Tail(events[n]), S) + (IF e \in S THEN 1 ELSE 0)
  BY <1>1, CountTail
<1>5. \A S : Count(events[n], S) \in Nat /\ Count(Tail(events[n]), S) \in Nat
  <2>1. Tail(events[n]) \in Seq(Event)
    BY <1>1, HeadTailProperties
  <2>. QED BY <1>1, <2>1, CountType
<1>6. p \in Node /\ m \in Msg \cup {ReadyEv, GoneEv} /\ e = [peer |-> p, msg |-> m]
  BY <1>2 DEF Event
<1>7. HandlerInv /\ LinkInv
  BY DEF SyncInv
<1>8. /\ k = IF m.type = "GET_BLOCKS" THEN 1 ELSE 0
      /\ l = IF m.type = "BLOCKS" THEN 1 ELSE 0
  BY <1>2 DEF GetsFrom, AnswersFrom
<1>. HIDE DEF k, l
<1>9. ReadyEv.type = "READY" /\ GoneEv.type = "GONE"
  BY DEF ReadyEv, GoneEv
<1>10. m.type \notin {"READY", "GONE"} => m \in Msg
  BY <1>6, <1>9
<1>11. Balanced(n, p, k, l)
  <2>. HIDE DEF p, m
  <2>1. CASE m.type = "READY" /\ HandleReady(n, p)
    <3>1. k = 0 /\ l = 0
      BY <1>8, <2>1
    <3>. QED BY <1>6, <1>7, <2>1, <3>1, ReadyBalanced
  <2>2. CASE m.type = "GONE" /\ HandleGone(n, p)
    <3>1. k = 0 /\ l = 0
      BY <1>8, <2>2
    <3>2. m = GoneEv
      BY <1>6, <1>9, <2>2, MsgRead
    <3>3. e \in GoneFrom(p)
      BY <1>6, <3>2 DEF GoneFrom
    <3>4. Count(events[n], GoneFrom(p)) # 0
      <4>1. /\ Count(events[n], GoneFrom(p)) = Count(Tail(events[n]), GoneFrom(p)) + 1
            /\ Count(Tail(events[n]), GoneFrom(p)) \in Nat
        BY <1>4, <1>5, <3>3
      <4>. QED BY <4>1
    <3>5. ~Whole(n, p)
      BY <1>6, <3>4 DEF RequestInv, Whole
    <3>. QED BY <1>6, <1>7, <2>2, <3>1, <3>5, GoneBalanced
  <2>3. CASE m.type = "TIP" /\ HandleTip(n, p)
    <3>1. k = 0 /\ l = 0
      BY <1>8, <2>3
    <3>. QED BY <1>6, <1>7, <2>3, <3>1, MaybeSyncBalanced DEF HandleTip
  <2>4. CASE m.type = "GET_BLOCKS" /\ HandleGetBlocks(n, p, m.start)
    <3>1. k = 1 /\ l = 0
      BY <1>8, <2>4
    <3>2. m.start \in Nat
      BY <1>10, <2>4, MsgRead
    <3>. QED BY <1>6, <1>7, <2>4, <3>1, <3>2, GetBlocksBalanced
  <2>5. CASE m.type = "BLOCKS" /\ HandleBlocks(n, p, m.blocks)
    <3>1. k = 0 /\ l = 1
      BY <1>8, <2>5
    <3>2. m.blocks \in Seq(Nat)
      BY <1>10, <2>5, MsgRead
    <3>3. e \in AnswersFrom(p)
      BY <1>2, <1>6, <2>5 DEF AnswersFrom
    <3>4. ASSUME Whole(n, p) PROVE sync[n].peer = p
      <4>1. UnderWay(n, p) = Asking(n, p)
        BY <1>6, <3>4 DEF RequestInv
      <4>2. /\ Count(events[n], AnswersFrom(p)) = Count(Tail(events[n]), AnswersFrom(p)) + 1
            /\ Count(Tail(events[n]), AnswersFrom(p)) \in Nat
        BY <1>4, <1>5, <3>3
      <4>3. /\ Count(wire[n][p], Gets) \in Nat /\ Count(wire[p][n], Answers) \in Nat
            /\ Count(events[p], GetsFrom(n)) \in Nat
        BY <1>6, <1>7, LoadType, EventLoadType DEF HandlerInv
      <4>4. UnderWay(n, p) # 0
        BY <4>2, <4>3 DEF UnderWay
      <4>. QED BY <4>1, <4>4 DEF Asking
    <3>. QED BY <1>6, <1>7, <2>5, <3>1, <3>2, <3>4, BlocksBalanced
  <2>6. CASE m.type = "BLOCK" /\ HandleBlock(n, p, m.block)
    <3>1. k = 0 /\ l = 0
      BY <1>8, <2>6
    <3>2. m.block \in Nat
      BY <1>10, <2>6, MsgRead
    <3>. QED BY <1>6, <1>7, <2>6, <3>1, <3>2, BlockBalanced
  <2>. QED BY <1>3, <2>1, <2>2, <2>3, <2>4, <2>5, <2>6 DEF p, m
<1>. QED BY <1>11, Zenon DEF k, l, p

\* A handler takes its event out of the queue, and puts in what it sends.
LEMMA HandleRequests ==
    ASSUME SyncInv, RequestInv, NEW n \in Node, Handle(n)
    PROVE  RequestInv'
<1>1. HandlerInv /\ LinkInv
  BY DEF SyncInv
<1>2. events[n] \in Seq(Event) /\ events[n] # << >> /\ events \in [Node -> Seq(Event)]
  BY <1>1 DEF LinkInv, Handle
<1>. PICK e \in Event : e = Head(events[n])
  BY <1>2, HeadTailProperties
<1>3. up' = up /\ ready' = ready /\ events' = [events EXCEPT ![n] = Tail(@)]
  BY Zenon DEF Handle, links
<1>4. /\ events'[n] = Tail(events[n])
      /\ \A q \in Node : q # n => events'[q] = events[q]
  BY <1>2, <1>3
<1>5. ASSUME NEW S
      PROVE  /\ Count(events[n], S) = Count(events'[n], S) + (IF e \in S THEN 1 ELSE 0)
             /\ Count(events'[n], S) \in Nat
  <2>1. Tail(events[n]) \in Seq(Event)
    BY <1>2, HeadTailProperties
  <2>2. Count(Tail(events[n]), S) \in Nat
    BY <2>1, CountType
  <2>3. Count(events[n], S) = Count(Tail(events[n]), S) + (IF e \in S THEN 1 ELSE 0)
    BY <1>2, CountTail
  <2>. QED BY <1>4, <2>2, <2>3
<1>6. \A a, b \in Node : ready'[a][b] => up'[a][b]
  BY <1>3 DEF RequestInv
<1>7. ASSUME NEW a \in Node, NEW b \in Node, Count(events'[a], GoneFrom(b)) # 0
      PROVE  ~up'[a][b]
  <2>1. Count(events[a], GoneFrom(b)) # 0
    <3>1. CASE a = n
      <4>1. /\ Count(events[n], GoneFrom(b))
                 = Count(events'[n], GoneFrom(b)) + (IF e \in GoneFrom(b) THEN 1 ELSE 0)
            /\ Count(events'[n], GoneFrom(b)) \in Nat
        BY <1>5
      <4>2. Count(events'[n], GoneFrom(b)) # 0
        BY <1>7, <3>1
      <4>3. Count(events[n], GoneFrom(b)) # 0
        BY <4>1, <4>2
      <4>. QED BY <3>1, <4>3
    <3>2. CASE a # n
      BY <1>4, <1>7, <3>2
    <3>. QED BY <3>1, <3>2
  <2>. QED BY <1>3, <2>1 DEF RequestInv
<1>8. ASSUME ~EarlyTimeout, NEW a \in Node, NEW b \in Node, Whole(a, b)'
      PROVE  UnderWay(a, b)' = Asking(a, b)'
  <2>. DEFINE p == e.peer
              k == IF e \in GetsFrom(e.peer) THEN 1 ELSE 0
              l == IF e \in AnswersFrom(e.peer) THEN 1 ELSE 0
  <2>1. Balanced(n, p, k, l)
    BY <1>8, HandleBalanced
  <2>2. p \in Node
    BY DEF Event
  <2>3. PICK g \in Nat, r \in Nat :
           /\ Sends(wire, wire', n, p, g, r)
           /\ \A q \in Node : q # n => sync'[q] = sync[q]
           /\ \A q \in Node : q # p => (sync'[n].peer = q <=> sync[n].peer = q)
           /\ Whole(n, p) => r = k /\ Asking(n, p)' + l = Asking(n, p) + g
    BY <2>1, Zenon DEF Balanced
  <2>4. /\ Count(events[n], GetsFrom(p)) = Count(events'[n], GetsFrom(p)) + k
        /\ Count(events[n], AnswersFrom(p)) = Count(events'[n], AnswersFrom(p)) + l
    BY <1>5
  <2>5. ASSUME NEW q \in Node, q # p
        PROVE  /\ Count(events'[n], GetsFrom(q)) = Count(events[n], GetsFrom(q))
               /\ Count(events'[n], AnswersFrom(q)) = Count(events[n], AnswersFrom(q))
    <3>1. e \notin GetsFrom(q) /\ e \notin AnswersFrom(q)
      BY <2>5 DEF GetsFrom, AnswersFrom
    <3>2. Count(events[n], GetsFrom(q)) = Count(events'[n], GetsFrom(q)) + 0
          /\ Count(events'[n], GetsFrom(q)) \in Nat
      BY <1>5, <3>1
    <3>3. Count(events[n], AnswersFrom(q)) = Count(events'[n], AnswersFrom(q)) + 0
          /\ Count(events'[n], AnswersFrom(q)) \in Nat
      BY <1>5, <3>1
    <3>. QED BY <3>2, <3>3
  <2>6. k \in Nat /\ l \in Nat
    OBVIOUS
  <2>7. /\ Count(events'[n], GetsFrom(p)) \in Nat /\ Count(events'[n], AnswersFrom(p)) \in Nat
    BY <1>5
  <2>. HIDE DEF p, k, l
  <2>8. /\ Count(wire'[a][b], Gets) = Count(wire[a][b], Gets) + (IF a = n /\ b = p THEN g ELSE 0)
        /\ Count(wire'[b][a], Answers) = Count(wire[b][a], Answers) + (IF b = n /\ a = p THEN r ELSE 0)
        /\ Count(wire'[a][b], Ends) = Count(wire[a][b], Ends)
        /\ Count(wire'[b][a], Ends) = Count(wire[b][a], Ends)
    BY <2>3 DEF Sends
  <2>9. Whole(a, b) /\ a # b
    BY <1>1, <1>3, <1>8, <2>8 DEF Whole, LinkInv
  <2>10. UnderWay(a, b) = Asking(a, b)
    BY <1>8, <2>9 DEF RequestInv
  <2>11. /\ Count(wire[a][b], Gets) \in Nat /\ Count(wire[b][a], Answers) \in Nat
         /\ Count(events[b], GetsFrom(a)) \in Nat /\ Count(events[a], AnswersFrom(b)) \in Nat
    BY <1>1, LoadType, EventLoadType DEF HandlerInv
  <2>12. CASE a = n /\ b = p
    <3>1. Asking(a, b)' + l = Asking(a, b) + g
      <4>1. Whole(n, p)
        BY <2>9, <2>12
      <4>2. Asking(n, p)' + l = Asking(n, p) + g
        BY <2>3, <4>1
      <4>. QED BY <2>12, <4>2 DEF Asking
    <3>2. events'[b] = events[b]
      BY <1>4, <2>9, <2>12
    <3>3. Count(events[a], AnswersFrom(b)) = Count(events'[a], AnswersFrom(b)) + l
          /\ Count(events'[a], AnswersFrom(b)) \in Nat
      BY <2>4, <2>7, <2>12
    <3>4. /\ Count(wire'[a][b], Gets) = Count(wire[a][b], Gets) + g
          /\ Count(wire'[b][a], Answers) = Count(wire[b][a], Answers)
      BY <2>8, <2>9, <2>11, <2>12
    <3>5. UnderWay(a, b)' + l = UnderWay(a, b) + g
      BY <2>6, <2>11, <3>2, <3>3, <3>4 DEF UnderWay
    <3>6. Asking(a, b)' \in Nat /\ UnderWay(a, b)' \in Nat
      BY <2>3, <2>11, <3>2, <3>3, <3>4 DEF Asking, UnderWay
    <3>. QED BY <2>3, <2>6, <2>10, <3>1, <3>5, <3>6
  <2>13. CASE a = p /\ b = n
    <3>1. Whole(n, p)
      BY <2>9, <2>13 DEF Whole
    <3>2. r = k
      BY <2>3, <3>1
    <3>3. events'[a] = events[a] /\ sync'[a] = sync[a]
      BY <1>4, <2>3, <2>9, <2>13
    <3>4. Count(events[b], GetsFrom(a)) = Count(events'[b], GetsFrom(a)) + k
          /\ Count(events'[b], GetsFrom(a)) \in Nat
      BY <2>4, <2>7, <2>13
    <3>5. /\ Count(wire'[a][b], Gets) = Count(wire[a][b], Gets)
          /\ Count(wire'[b][a], Answers) = Count(wire[b][a], Answers) + k
      BY <2>8, <2>9, <2>11, <2>13, <3>2
    <3>6. UnderWay(a, b)' = UnderWay(a, b)
      BY <2>6, <2>11, <3>3, <3>4, <3>5 DEF UnderWay
    <3>7. Asking(a, b)' = Asking(a, b)
      BY <3>3 DEF Asking
    <3>. QED BY <2>10, <3>6, <3>7
  <2>14. CASE ~(a = n /\ b = p) /\ ~(a = p /\ b = n)
    <3>1. /\ Count(wire'[a][b], Gets) = Count(wire[a][b], Gets)
          /\ Count(wire'[b][a], Answers) = Count(wire[b][a], Answers)
      BY <2>8, <2>11, <2>14
    <3>2. Count(events'[b], GetsFrom(a)) = Count(events[b], GetsFrom(a))
      <4>1. CASE b # n
        BY <1>4, <4>1
      <4>2. CASE b = n
        BY <2>5, <2>14, <4>2
      <4>. QED BY <4>1, <4>2
    <3>3. Count(events'[a], AnswersFrom(b)) = Count(events[a], AnswersFrom(b))
      <4>1. CASE a # n
        BY <1>4, <4>1
      <4>2. CASE a = n
        BY <2>5, <2>14, <4>2
      <4>. QED BY <4>1, <4>2
    <3>4. Asking(a, b)' = Asking(a, b)
      BY <2>3, <2>14 DEF Asking
    <3>5. UnderWay(a, b)' = UnderWay(a, b)
      BY <3>1, <3>2, <3>3 DEF UnderWay
    <3>. QED BY <2>10, <3>4, <3>5
  <2>. QED BY <2>12, <2>13, <2>14
<1>. QED BY <1>6, <1>7, <1>8 DEF RequestInv

\* The threads that announce and broadcast send tips and blocks only.
LEMMA BroadcastRequests ==
    ASSUME SyncInv, RequestInv, NEW n \in Node,
           \/ Relay(n) \/ BroadcastMined(n) \/ Announce(n) \/ Mine(n) \/ SubmitWork(n)
    PROVE  RequestInv'
<1>1. HandlerInv /\ LinkInv /\ wire \in Queues
  BY DEF SyncInv, HandlerInv
<1>2. UNCHANGED <<sync, up, ready, events>>
  BY DEF Relay, BroadcastMined, Announce, Mine, SubmitWork, links
<1>3. Height(chain[n]) \in Nat /\ Len(chain[n]) \in Nat /\ Len(tree) + 1 \in Nat
  BY <1>1, ChainFacts DEF HandlerInv
<1>4. ASSUME NEW m \in Quiet, NEW x, wire' = Broadcast(wire, n, m, x)
      PROVE  Sends(wire, wire', n, n, 0, 0)
  BY <1>1, <1>4, BroadcastSends
<1>5. Sends(wire, wire', n, n, 0, 0)
  <2>1. CASE Relay(n)
    <3>1. relay[n] \in Nat \X Node
      BY <1>1, <2>1 DEF HandlerInv, Relay
    <3>2. BlockMsg(relay[n][1]) \in Quiet
      BY <3>1, MsgKinds, EmptySeq
    <3>. QED BY <1>4, <2>1, <3>2 DEF Relay
  <2>2. CASE BroadcastMined(n)
    <3>1. minerOut[n] \in Seq(Nat) /\ minerOut[n] # << >>
      BY <1>1, <2>2 DEF LinkInv, BroadcastMined
    <3>2. minerOut[n][1] \in Nat
      BY <3>1, EmptySeq
    <3>3. BlockMsg(minerOut[n][1]) \in Quiet
      BY <3>2, MsgKinds, EmptySeq
    <3>. QED BY <1>4, <2>2, <3>3 DEF BroadcastMined
  <2>3. CASE Announce(n)
    <3>1. TipMsg(Height(chain[n])) \in Quiet
      BY <1>3, MsgKinds, EmptySeq
    <3>. QED BY <1>4, <2>3, <3>1 DEF Announce
  <2>4. CASE Mine(n)
    <3>1. TipMsg(Len(chain[n])) \in Quiet
      BY <1>3, MsgKinds, EmptySeq
    <3>. QED BY <1>4, <2>4, <3>1 DEF Mine
  <2>5. CASE SubmitWork(n)
    <3>. DEFINE w == Broadcast(wire, n, TipMsg(Len(chain[n])), NoPeer)
    <3>1. TipMsg(Len(chain[n])) \in Quiet /\ BlockMsg(Len(tree) + 1) \in Quiet
      BY <1>3, MsgKinds, EmptySeq
    <3>2. w \in Queues /\ Sends(wire, w, n, n, 0, 0)
      BY <1>1, <3>1, BroadcastType, BroadcastSends DEF Quiet
    <3>3. wire' = Broadcast(w, n, BlockMsg(Len(tree) + 1), NoPeer)
      BY <2>5 DEF SubmitWork
    <3>. HIDE DEF w
    <3>4. Sends(w, wire', n, n, 0, 0)
      BY <3>1, <3>2, <3>3, BroadcastSends
    <3>. QED BY <1>1, <3>2, <3>4, SendsTwice
  <2>. QED BY <2>1, <2>2, <2>3, <2>4, <2>5
<1>. QED BY <1>2, <1>5, QuietStep

\* The periodic thread gives up only when nothing is under way, so not on a
\* whole link.
LEMMA TimeoutRequests ==
    ASSUME SyncInv, RequestInv, NEW n \in Node, SyncTimeout(n)
    PROVE  RequestInv'
<1>1. HandlerInv /\ LinkInv /\ sync \in [Node -> SyncState]
  BY DEF SyncInv, HandlerInv
<1>2. /\ up' = up /\ ready' = ready /\ wire' = wire /\ events' = events
      /\ sync' = [sync EXCEPT ![n] = NoSync]
  BY DEF SyncTimeout, links
<1>3. ASSUME ~EarlyTimeout, NEW a \in Node, NEW b \in Node, Whole(a, b)'
      PROVE  UnderWay(a, b)' = Asking(a, b)'
  <2>1. Whole(a, b) /\ UnderWay(a, b)' = UnderWay(a, b)
    BY <1>2, <1>3 DEF Whole, UnderWay
  <2>2. UnderWay(a, b) = Asking(a, b)
    BY <1>3, <2>1 DEF RequestInv
  <2>3. CASE a # n
    <3>1. Asking(a, b)' = Asking(a, b)
      BY <1>1, <1>2, <2>3 DEF Asking
    <3>. QED BY <2>1, <2>2, <3>1
  <2>4. CASE a = n
    <3>1. Asking(a, b)' = 0
      BY <1>1, <1>2, <2>4, NodeAssumption DEF Asking, NoSync
    <3>2. sync[n].peer # b
      <4>. SUFFICES ASSUME sync[n].peer = b PROVE FALSE
        OBVIOUS
      <4>1. Requests(n, b) = 0
        BY <1>3 DEF SyncTimeout
      <4>2. UnderWay(a, b) = 0
        BY <1>1, <2>4, <4>1, RequestsCounted
      <4>. QED BY <2>2, <2>4, <4>2 DEF Asking
    <3>3. Asking(a, b) = 0
      BY <2>4, <3>2 DEF Asking
    <3>. QED BY <2>1, <2>2, <3>1, <3>3
  <2>. QED BY <2>3, <2>4
<1>. QED BY <1>2, <1>3 DEF RequestInv

\* A new link carries nothing but HELLO, and both ends have handled all that
\* they had read on the last one, its end included: neither has a sync there.
LEMMA ConnectRequests ==
    ASSUME SyncInv, RequestInv, NEW n \in Node, NEW p \in Node, Connect(n, p)
    PROVE  RequestInv'
<1>1. /\ HandlerInv /\ LinkInv /\ wire \in Queues
      /\ up \in [Node -> [Node -> BOOLEAN]]
  BY DEF SyncInv, HandlerInv, LinkInv
<1>2. /\ n # p /\ ~up[n][p] /\ ~up[p][n] /\ events[n] = << >> /\ events[p] = << >>
      /\ sync' = sync /\ ready' = ready /\ events' = events
      /\ up' = [up EXCEPT ![n][p] = TRUE, ![p][n] = TRUE]
      /\ wire' = [wire EXCEPT ![n][p] = <<HelloMsg>>, ![p][n] = <<HelloMsg>>]
  BY DEF Connect
<1>3. /\ wire'[n][p] = <<HelloMsg>> /\ wire'[p][n] = <<HelloMsg>>
      /\ \A a, b \in Node : ~(a = n /\ b = p) /\ ~(a = p /\ b = n)
                             => wire'[a][b] = wire[a][b] /\ up'[a][b] = up[a][b]
  BY <1>1, <1>2 DEF Queues
<1>4. \A S : Count(events[n], S) = 0 /\ Count(events[p], S) = 0
  <2>1. ASSUME NEW S PROVE Count(<< >>, S) = 0
    <3>1. {i \in DOMAIN << >> : << >>[i] \in S} = {}
      OBVIOUS
    <3>. QED BY <3>1, FS_EmptySet DEF Count
  <2>. QED BY <1>2, <2>1
<1>5. ASSUME NEW S, HelloMsg \notin S PROVE Count(<<HelloMsg>>, S) = 0
  <2>1. <<HelloMsg>> \in Seq({HelloMsg})
    OBVIOUS
  <2>2. \A i \in DOMAIN <<HelloMsg>> : <<HelloMsg>>[i] \notin S
    BY <1>5
  <2>. QED BY <2>1, <2>2, CountType
<1>6. HelloMsg \notin Gets /\ HelloMsg \notin Answers
  <2>1. 0 \in Nat /\ << >> \in Seq(Nat)
    OBVIOUS
  <2>. QED BY <2>1, MsgKinds DEF Quiet
<1>7. \A a, b \in Node : ready'[a][b] => up'[a][b]
  BY <1>1, <1>2 DEF RequestInv
<1>8. ASSUME NEW a \in Node, NEW b \in Node, Count(events'[a], GoneFrom(b)) # 0
      PROVE  ~up'[a][b]
  <2>1. a # n /\ a # p
    BY <1>2, <1>4, <1>8
  <2>. QED BY <1>2, <1>3, <1>8, <2>1 DEF RequestInv
<1>9. ASSUME NEW a \in Node, NEW b \in Node, (a = n /\ b = p) \/ (a = p /\ b = n)
      PROVE  UnderWay(a, b)' = Asking(a, b)'
  <2>1. (a = n /\ b = p) \/ (a = p /\ b = n)
    BY <1>9
  <2>2. /\ Count(wire'[a][b], Gets) = 0 /\ Count(wire'[b][a], Answers) = 0
    BY <1>3, <1>5, <1>6, <2>1
  <2>3. Count(events'[a], AnswersFrom(b)) = 0 /\ Count(events'[b], GetsFrom(a)) = 0
    BY <1>2, <1>4, <2>1
  <2>4. sync[a].peer # b
    <3>1. ~up[a][b] /\ events[a] = << >>
      BY <1>2, <2>1
    <3>2. ~ready[a][b]
      BY <3>1 DEF RequestInv
    <3>3. DOMAIN events[a] = {}
      BY <3>1
    <3>. QED BY <3>2, <3>3 DEF SyncInv, SyncPeerAlive
  <2>5. Asking(a, b)' = 0
    BY <1>2, <2>4 DEF Asking
  <2>6. UnderWay(a, b)' = ((0 + 0) + 0) + 0
    BY <2>2, <2>3, Zenon DEF UnderWay
  <2>. QED BY <2>5, <2>6
<1>10. ASSUME ~EarlyTimeout, NEW a \in Node, NEW b \in Node, Whole(a, b)',
              ~(a = n /\ b = p), ~(a = p /\ b = n)
       PROVE  UnderWay(a, b)' = Asking(a, b)'
  <2>1. ~(a = n /\ b = p) /\ ~(a = p /\ b = n)
    BY <1>10, Zenon
  <2>2. /\ wire'[a][b] = wire[a][b] /\ up'[a][b] = up[a][b]
        /\ wire'[b][a] = wire[b][a] /\ up'[b][a] = up[b][a]
    BY <1>3, <2>1
  <2>3. Whole(a, b) /\ UnderWay(a, b)' = UnderWay(a, b) /\ Asking(a, b)' = Asking(a, b)
    BY <1>2, <1>10, <2>2 DEF Whole, UnderWay, Asking
  <2>. QED BY <1>10, <2>3 DEF RequestInv
<1>11. ASSUME ~EarlyTimeout, NEW a \in Node, NEW b \in Node, Whole(a, b)'
       PROVE  UnderWay(a, b)' = Asking(a, b)'
  <2>1. CASE a = n /\ b = p
    BY <1>9, <2>1, Zenon
  <2>2. CASE a = p /\ b = n
    BY <1>9, <2>2, Zenon
  <2>3. CASE ~(a = n /\ b = p) /\ ~(a = p /\ b = n)
    BY <1>10, <1>11, <2>3
  <2>. QED BY <2>1, <2>2, <2>3
<1>. QED BY <1>7, <1>8, <1>11 DEF RequestInv

\* The end of the connection is behind what still gets through.
LEMMA CutEnds ==
    ASSUME NEW q \in Seq(Msg), NEW k \in 0 .. Len(q)
    PROVE  Count(Cut(q, k), Ends) # 0
<1>. DEFINE h == SubSeq(q, 1, k)
<1>1. h \in Seq(Msg)
  <2>1. \A i \in 1 .. k : q[i] \in Msg
    OBVIOUS
  <2>. QED BY <2>1, SubSeqProperties
<1>. HIDE DEF h
<1>2. Eof \in Msg
  BY DEF Eof, Msg
<1>3. Cut(q, k) \in Seq(Msg) /\ DOMAIN Cut(q, k) = 1 .. Len(h) + 1 /\ Len(h) \in Nat
      /\ Cut(q, k)[Len(h) + 1] = Eof
  <2>1. Cut(q, k) = h \o <<Eof>>
    BY Zenon DEF Cut, h
  <2>2. h \o <<Eof>> = Append(h, Eof)
    BY <1>1, <1>2, AppendIsConcat
  <2>. QED BY <1>1, <1>2, <2>1, <2>2, AppendProperties, LenProperties
<1>4. Len(h) + 1 \in DOMAIN Cut(q, k) /\ Cut(q, k)[Len(h) + 1] \in Ends
  BY <1>3 DEF Ends
<1>. QED BY <1>3, <1>4, CountType

\* A link that fails is whole no more.
LEMMA LinkFailsRequests ==
    ASSUME SyncInv, RequestInv, NEW n \in Node, NEW p \in Node, LinkFails(n, p)
    PROVE  RequestInv'
<1>1. HandlerInv /\ LinkInv /\ wire \in Queues
  BY DEF SyncInv, HandlerInv
<1>2. UNCHANGED <<sync, up, ready, events>>
  BY DEF LinkFails, links
<1>3. PICK k \in 0 .. Len(wire[n][p]), l \in 0 .. Len(wire[p][n]) :
         wire' = [wire EXCEPT ![n][p] = Cut(@, k), ![p][n] = Cut(@, l)]
  BY DEF LinkFails
<1>4. n # p
  BY <1>1 DEF LinkFails, LinkInv
<1>5. wire' = [wire EXCEPT ![n][p] = Cut(wire[n][p], k), ![p][n] = Cut(wire[p][n], l)]
  BY <1>1, <1>3, <1>4 DEF Queues
<1>6. /\ wire'[n][p] = Cut(wire[n][p], k) /\ wire'[p][n] = Cut(wire[p][n], l)
      /\ \A a, b \in Node : ~(a = n /\ b = p) /\ ~(a = p /\ b = n)
                             => wire'[a][b] = wire[a][b]
  BY <1>1, <1>4, <1>5 DEF Queues
<1>7. wire[n][p] \in Seq(Msg)
  BY <1>1 DEF Queues
<1>8. Count(wire'[n][p], Ends) # 0
  BY <1>6, <1>7, CutEnds
<1>9. ASSUME ~EarlyTimeout, NEW a \in Node, NEW b \in Node, Whole(a, b)'
      PROVE  UnderWay(a, b)' = Asking(a, b)'
  <2>1. ~(a = n /\ b = p) /\ ~(a = p /\ b = n)
    BY <1>8, <1>9 DEF Whole
  <2>2. wire'[a][b] = wire[a][b] /\ wire'[b][a] = wire[b][a]
    BY <1>6, <2>1
  <2>3. Whole(a, b) /\ UnderWay(a, b)' = UnderWay(a, b) /\ Asking(a, b)' = Asking(a, b)
    BY <1>2, <1>9, <2>2 DEF Whole, UnderWay, Asking
  <2>. QED BY <1>9, <2>3 DEF RequestInv
<1>. QED BY <1>2, <1>9 DEF RequestInv

\* A node that crashes has no link; the others' links to each other are as
\* they were.
LEMMA CrashRequests ==
    ASSUME SyncInv, RequestInv, NEW n \in Node, Crash(n)
    PROVE  RequestInv'
<1>1. /\ HandlerInv /\ LinkInv /\ wire \in Queues /\ sync \in [Node -> SyncState]
      /\ events \in [Node -> Seq(Event)]
      /\ up \in [Node -> [Node -> BOOLEAN]] /\ ready \in [Node -> [Node -> BOOLEAN]]
  BY DEF SyncInv, HandlerInv, LinkInv
<1>2. /\ sync' = [sync EXCEPT ![n] = NoSync]
      /\ up' = [up EXCEPT ![n] = [p \in Node |-> FALSE]]
      /\ ready' = [ready EXCEPT ![n] = [p \in Node |-> FALSE]]
      /\ events' = [events EXCEPT ![n] = << >>]
  BY DEF Crash
<1>3. \A a, b \in Node : a # n /\ b # n => wire'[a][b] = wire[a][b]
  <2>. DEFINE M == Max({Len(wire[n][p]) : p \in Node})
  <2>1. PICK k \in [Node -> 0 .. M] :
                 wire' = [a \in Node |-> [b \in Node |->
                         CASE b = n -> << >>
                           [] a = n /\ up[b][n] -> Cut(wire[n][b], k[b])
                           [] OTHER -> wire[a][b]]]
    BY Zenon DEF Crash
  <2>. QED BY <2>1
<1>4. \A a, b \in Node : ready'[a][b] => up'[a][b]
  BY <1>1, <1>2 DEF RequestInv
<1>5. ASSUME NEW a \in Node, NEW b \in Node, Count(events'[a], GoneFrom(b)) # 0
      PROVE  ~up'[a][b]
  <2>1. CASE a = n
    BY <1>1, <1>2, <2>1
  <2>2. CASE a # n
    <3>1. events'[a] = events[a] /\ up'[a] = up[a]
      BY <1>1, <1>2, <2>2
    <3>. QED BY <1>5, <3>1 DEF RequestInv
  <2>. QED BY <2>1, <2>2
<1>6. ASSUME ~EarlyTimeout, NEW a \in Node, NEW b \in Node, Whole(a, b)'
      PROVE  UnderWay(a, b)' = Asking(a, b)'
  <2>1. a # n /\ b # n
    BY <1>1, <1>2, <1>6 DEF Whole
  <2>2. /\ wire'[a][b] = wire[a][b] /\ wire'[b][a] = wire[b][a]
        /\ up'[a] = up[a] /\ up'[b] = up[b] /\ sync'[a] = sync[a]
        /\ events'[a] = events[a] /\ events'[b] = events[b]
    BY <1>1, <1>2, <1>3, <2>1
  <2>3. Whole(a, b) /\ UnderWay(a, b)' = UnderWay(a, b) /\ Asking(a, b)' = Asking(a, b)
    BY <1>6, <2>2 DEF Whole, UnderWay, Asking
  <2>. QED BY <1>6, <2>3 DEF RequestInv
<1>. QED BY <1>4, <1>5, <1>6 DEF RequestInv

\* A frame that is read is still under way: it goes from the wire to the
\* events.  The end of the connection takes the link down.
LEMMA ReadRequests ==
    ASSUME SyncInv, RequestInv, NEW n \in Node, NEW p \in Node, Read(n, p)
    PROVE  RequestInv'
<1>1. /\ HandlerInv /\ LinkInv /\ wire \in Queues /\ events \in [Node -> Seq(Event)]
      /\ up \in [Node -> [Node -> BOOLEAN]] /\ ready \in [Node -> [Node -> BOOLEAN]]
  BY DEF SyncInv, HandlerInv, LinkInv
<1>2. wire[p][n] \in Seq(Msg) /\ wire[p][n] # << >> /\ events[n] \in Seq(Event)
  BY <1>1 DEF Queues, Read
<1>. PICK m \in Msg : m = Head(wire[p][n])
  BY <1>2, HeadTailProperties
<1>. DEFINE ev == CASE m.type = "HELLO" -> <<[peer |-> p, msg |-> ReadyEv]>>
                    [] m.type = "EOF" -> IF ready[n][p] THEN <<[peer |-> p, msg |-> GoneEv]>>
                                         ELSE << >>
                    [] OTHER -> <<[peer |-> p, msg |-> m]>>
            e == [peer |-> p, msg |-> IF m.type = "HELLO" THEN ReadyEv
                                      ELSE IF m.type = "EOF" THEN GoneEv ELSE m]
<1>3. /\ events' = [events EXCEPT ![n] = @ \o ev]
      /\ ready' = [ready EXCEPT ![n][p] = (@ \/ m.type = "HELLO") /\ m.type # "EOF"]
      /\ up' = [up EXCEPT ![n][p] = @ /\ m.type # "EOF"]
      /\ wire' = [wire EXCEPT ![p][n] = Tail(@)]
      /\ sync' = sync /\ up[n][p]
  BY Zenon DEF Read
<1>4. ev = <<e>> \/ (ev = << >> /\ m.type = "EOF")
  <2>1. CASE m.type = "HELLO"
    BY <2>1
  <2>2. CASE m.type = "EOF"
    BY <2>2
  <2>3. CASE m.type # "HELLO" /\ m.type # "EOF"
    BY <2>3
  <2>. QED BY <2>1, <2>2, <2>3
<1>5. /\ e \in Event /\ e.peer = p
      /\ e \in GetsFrom(p) <=> m \in Gets
      /\ e \in AnswersFrom(p) <=> m \in Answers
      /\ e \in GoneFrom(p) <=> m.type = "EOF"
      /\ m \in Ends <=> m.type = "EOF"
  <2>1. /\ ReadyEv.type = "READY" /\ GoneEv.type = "GONE" /\ m.type # "GONE" /\ m.type # "READY"
    BY MsgRead DEF ReadyEv, GoneEv
  <2>2. e.peer = p /\ e.msg = IF m.type = "HELLO" THEN ReadyEv
                              ELSE IF m.type = "EOF" THEN GoneEv ELSE m
    OBVIOUS
  <2>3. e.msg \in Msg \cup {ReadyEv, GoneEv} /\ e = [peer |-> p, msg |-> e.msg]
    BY <2>2
  <2>. HIDE DEF e
  <2>4. e \in Event
    BY <2>3 DEF Event
  <2>5. e \in GetsFrom(p) <=> m \in Gets
    BY <2>1, <2>2, <2>4 DEF GetsFrom, Gets
  <2>6. e \in AnswersFrom(p) <=> m \in Answers
    BY <2>1, <2>2, <2>4 DEF AnswersFrom, Answers
  <2>7. e \in GoneFrom(p) <=> m.type = "EOF"
    <3>1. e \in GoneFrom(p) <=> e.msg = GoneEv
      BY <2>3 DEF GoneFrom
    <3>2. e.msg = GoneEv <=> m.type = "EOF"
      BY <2>1, <2>2
    <3>. QED BY <3>1, <3>2
  <2>8. m \in Ends <=> m.type = "EOF"
    BY DEF Ends, Eof, Msg
  <2>. QED BY <2>2, <2>4, <2>5, <2>6, <2>7, <2>8
<1>. HIDE DEF ev, e
<1>6. /\ events'[n] = Append(events[n], e) \/ (events'[n] = events[n] /\ m.type = "EOF")
      /\ \A q \in Node : q # n => events'[q] = events[q]
  <2>1. events'[n] = events[n] \o ev /\ \A q \in Node : q # n => events'[q] = events[q]
    BY <1>1, <1>3
  <2>2. events[n] \o <<e>> = Append(events[n], e) /\ events[n] \o << >> = events[n]
    BY <1>2, <1>5, AppendIsConcat, ConcatEmptySeq
  <2>. QED BY <1>4, <2>1, <2>2
<1>7. ASSUME NEW S
      PROVE  /\ m.type # "EOF" \/ e \notin S =>
                   Count(events'[n], S) = Count(events[n], S) + (IF e \in S THEN 1 ELSE 0)
             /\ Count(events[n], S) \in Nat
  <2>1. Count(Append(events[n], e), S) = Count(events[n], S) + (IF e \in S THEN 1 ELSE 0)
    BY <1>2, <1>5, CountAppend
  <2>2. Count(events[n], S) \in Nat
    BY <1>2, CountType
  <2>3. CASE events'[n] = Append(events[n], e)
    BY <2>1, <2>2, <2>3
  <2>4. CASE events'[n] = events[n] /\ m.type = "EOF"
    BY <2>2, <2>4
  <2>. QED BY <1>6, <2>3, <2>4
<1>8. ASSUME NEW S
      PROVE  /\ Count(wire[p][n], S) = Count(wire'[p][n], S) + (IF m \in S THEN 1 ELSE 0)
             /\ Count(wire'[p][n], S) \in Nat
  <2>1. Tail(wire[p][n]) \in Seq(Msg) /\ wire'[p][n] = Tail(wire[p][n])
    BY <1>1, <1>2, <1>3, HeadTailProperties DEF Queues
  <2>2. Count(wire[p][n], S) = Count(Tail(wire[p][n]), S) + (IF m \in S THEN 1 ELSE 0)
    BY <1>2, CountTail
  <2>3. Count(Tail(wire[p][n]), S) \in Nat
    BY <2>1, CountType
  <2>. QED BY <2>1, <2>2, <2>3
<1>9. /\ \A a, b \in Node : ~(a = p /\ b = n) => wire'[a][b] = wire[a][b]
      /\ \A a, b \in Node : ~(a = n /\ b = p) => up'[a][b] = up[a][b] /\ ready'[a][b] = ready[a][b]
      /\ up'[n][p] <=> m.type # "EOF"
      /\ ready'[n][p] => m.type # "EOF"
      /\ n # p
  <2>1. n # p
    BY <1>1, <1>3 DEF LinkInv
  <2>. QED BY <1>1, <1>3, <2>1 DEF Queues
<1>10. \A a, b \in Node : ready'[a][b] => up'[a][b]
  BY <1>9 DEF RequestInv
<1>11. ASSUME NEW a \in Node, NEW b \in Node, Count(events'[a], GoneFrom(b)) # 0
       PROVE  ~up'[a][b]
  <2>1. CASE a # n
    BY <1>6, <1>9, <1>11, <2>1 DEF RequestInv
  <2>2. CASE a = n /\ b = p /\ m.type = "EOF"
    BY <1>9, <2>2
  <2>3. CASE a = n /\ ~(b = p /\ m.type = "EOF")
    <3>1. e \notin GoneFrom(b)
      <4>1. CASE b = p
        BY <1>5, <2>3, <4>1
      <4>2. CASE b # p
        BY <1>5, <4>2 DEF GoneFrom
      <4>. QED BY <4>1, <4>2
    <3>2. Count(events'[n], GoneFrom(b)) = Count(events[n], GoneFrom(b)) + 0
          /\ Count(events[n], GoneFrom(b)) \in Nat
      BY <1>7, <3>1
    <3>3. Count(events[n], GoneFrom(b)) # 0
      BY <1>11, <2>3, <3>2
    <3>4. ~up[n][b]
      BY <3>3 DEF RequestInv
    <3>. QED BY <1>3, <1>9, <2>3, <3>4
  <2>. QED BY <2>1, <2>2, <2>3
<1>12. ASSUME ~EarlyTimeout, NEW a \in Node, NEW b \in Node, Whole(a, b)'
       PROVE  UnderWay(a, b)' = Asking(a, b)'
  <2>1. Asking(a, b)' = Asking(a, b)
    BY <1>3 DEF Asking
  <2>2. ASSUME (a = n /\ b = p) \/ (a = p /\ b = n)
        PROVE  /\ m.type # "EOF" /\ Whole(a, b) /\ m \notin Ends
    <3>1. m.type # "EOF" /\ m \notin Ends
      BY <1>5, <1>9, <1>12, <2>2 DEF Whole
    <3>2. Count(wire[p][n], Ends) = Count(wire'[p][n], Ends) + 0 /\ Count(wire'[p][n], Ends) \in Nat
      BY <1>8, <3>1
    <3>3. Count(wire'[p][n], Ends) = 0 /\ Count(wire'[n][p], Ends) = 0 /\ up'[p][n]
      BY <1>12, <2>2 DEF Whole
    <3>4. Count(wire[p][n], Ends) = 0 /\ Count(wire[n][p], Ends) = 0 /\ up[p][n] /\ up[n][p]
      <4>1. Count(wire[p][n], Ends) = 0
        BY <3>2, <3>3
      <4>2. wire'[n][p] = wire[n][p] /\ up'[p][n] = up[p][n] /\ up[n][p]
        BY <1>3, <1>9
      <4>. QED BY <3>3, <4>1, <4>2
    <3>. QED BY <2>2, <3>1, <3>4 DEF Whole
  <2>3. /\ Count(wire[a][b], Gets) \in Nat /\ Count(wire[b][a], Answers) \in Nat
        /\ Count(events[b], GetsFrom(a)) \in Nat /\ Count(events[a], AnswersFrom(b)) \in Nat
    BY <1>1, LoadType, EventLoadType
  <2>4. CASE a = n /\ b = p
    <3>1. Whole(a, b) /\ m.type # "EOF"
      BY <2>2, <2>4, Zenon
    <3>2. /\ Count(wire[b][a], Answers) = Count(wire'[b][a], Answers) + (IF m \in Answers THEN 1 ELSE 0)
          /\ Count(wire'[b][a], Answers) \in Nat
      BY <1>8, <2>4
    <3>3. Count(events'[a], AnswersFrom(b)) = Count(events[a], AnswersFrom(b)) + (IF m \in Answers THEN 1 ELSE 0)
      BY <1>5, <1>7, <2>4, <3>1
    <3>4. wire'[a][b] = wire[a][b] /\ events'[b] = events[b]
      BY <1>6, <1>9, <2>4
    <3>5. UnderWay(a, b)' = UnderWay(a, b)
      BY <2>3, <3>2, <3>3, <3>4 DEF UnderWay
    <3>. QED BY <1>12, <2>1, <3>1, <3>5 DEF RequestInv
  <2>5. CASE a = p /\ b = n
    <3>1. Whole(a, b) /\ m.type # "EOF"
      BY <2>2, <2>5, Zenon
    <3>2. /\ Count(wire[a][b], Gets) = Count(wire'[a][b], Gets) + (IF m \in Gets THEN 1 ELSE 0)
          /\ Count(wire'[a][b], Gets) \in Nat
      BY <1>8, <2>5
    <3>3. Count(events'[b], GetsFrom(a)) = Count(events[b], GetsFrom(a)) + (IF m \in Gets THEN 1 ELSE 0)
      BY <1>5, <1>7, <2>5, <3>1
    <3>4. wire'[b][a] = wire[b][a] /\ events'[a] = events[a]
      BY <1>6, <1>9, <2>5
    <3>5. UnderWay(a, b)' = UnderWay(a, b)
      BY <2>3, <3>2, <3>3, <3>4 DEF UnderWay
    <3>. QED BY <1>12, <2>1, <3>1, <3>5 DEF RequestInv
  <2>6. CASE ~(a = n /\ b = p) /\ ~(a = p /\ b = n)
    <3>1. /\ wire'[a][b] = wire[a][b] /\ wire'[b][a] = wire[b][a]
          /\ up'[a][b] = up[a][b] /\ up'[b][a] = up[b][a]
      BY <1>9, <2>6
    <3>2. ASSUME NEW q \in Node, q # p
          PROVE  /\ Count(events'[n], GetsFrom(q)) = Count(events[n], GetsFrom(q))
                 /\ Count(events'[n], AnswersFrom(q)) = Count(events[n], AnswersFrom(q))
      <4>1. e \notin GetsFrom(q) /\ e \notin AnswersFrom(q)
        BY <1>5, <3>2 DEF GetsFrom, AnswersFrom
      <4>2. Count(events'[n], GetsFrom(q)) = Count(events[n], GetsFrom(q)) + 0
            /\ Count(events[n], GetsFrom(q)) \in Nat
        BY <1>7, <4>1
      <4>3. Count(events'[n], AnswersFrom(q)) = Count(events[n], AnswersFrom(q)) + 0
            /\ Count(events[n], AnswersFrom(q)) \in Nat
        BY <1>7, <4>1
      <4>. QED BY <4>2, <4>3
    <3>3. Count(events'[b], GetsFrom(a)) = Count(events[b], GetsFrom(a))
      <4>1. CASE b # n
        BY <1>6, <4>1
      <4>2. CASE b = n
        BY <2>6, <3>2, <4>2
      <4>. QED BY <4>1, <4>2
    <3>4. Count(events'[a], AnswersFrom(b)) = Count(events[a], AnswersFrom(b))
      <4>1. CASE a # n
        BY <1>6, <4>1
      <4>2. CASE a = n
        BY <2>6, <3>2, <4>2
      <4>. QED BY <4>1, <4>2
    <3>5. Whole(a, b) /\ UnderWay(a, b)' = UnderWay(a, b)
      BY <1>12, <3>1, <3>3, <3>4 DEF Whole, UnderWay
    <3>. QED BY <1>12, <2>1, <3>5 DEF RequestInv
  <2>. QED BY <2>4, <2>5, <2>6
<1>. QED BY <1>10, <1>11, <1>12 DEF RequestInv

\* The network starts without links, requests and syncs.
LEMMA InitRequests == Init => RequestInv
<1>. SUFFICES ASSUME Init PROVE RequestInv
  OBVIOUS
<1>1. \A n, p \in Node : ~up[n][p] /\ ~ready[n][p]
  BY DEF Init
<1>. QED BY <1>1 DEF RequestInv, Whole

\* Every step keeps the account of the requests.
LEMMA NextRequests == SyncInv /\ RequestInv /\ [Next]_vars => RequestInv'
<1>. SUFFICES ASSUME SyncInv, RequestInv, [Next]_vars PROVE RequestInv'
  OBVIOUS
<1>1. ASSUME NEW n \in Node, NEW p \in Node, Read(n, p) \/ Connect(n, p) \/ LinkFails(n, p)
      PROVE  RequestInv'
  BY <1>1, ReadRequests, ConnectRequests, LinkFailsRequests
<1>2. ASSUME NEW n \in Node, Handle(n) \/ Crash(n) \/ SyncTimeout(n)
      PROVE  RequestInv'
  BY <1>2, HandleRequests, CrashRequests, TimeoutRequests
<1>3. ASSUME NEW n \in Node,
             \/ Relay(n) \/ BroadcastMined(n) \/ Announce(n) \/ Mine(n) \/ SubmitWork(n)
      PROVE  RequestInv'
  BY <1>3, BroadcastRequests
<1>4. CASE UNCHANGED vars
  <2>1. sync' = sync /\ up' = up /\ ready' = ready /\ wire' = wire /\ events' = events
    BY <1>4 DEF vars, links
  <2>. QED BY <2>1 DEF RequestInv, Whole, UnderWay, Asking
<1>. QED BY <1>1, <1>2, <1>3, <1>4 DEF Next

\* Unless a timeout fires although an answer is coming, a sync over a link
\* that works has exactly one request or answer under way, whatever fails,
\* crashes and reconnects: handle_blocks never takes the answer to an earlier
\* request for the one it waits for.
THEOREM OneRequestTheorem == Spec => [](~EarlyTimeout => OneRequest)
<1>1. SyncInv /\ RequestInv => (~EarlyTimeout => OneRequest)
  BY RequestsOne
<1>2. Spec => []RequestInv
  BY InitRequests, NextRequests, SyncInvHolds, PTL DEF Spec
<1>. QED BY <1>1, <1>2, SyncInvHolds, PTL

=============================================================================
