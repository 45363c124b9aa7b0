--------------------------- MODULE ThreadsProofs ----------------------------
(***************************************************************************)
(* The threads of a node never wait for each other in a circle, and        *)
(* nothing is torn down under a thread that runs.  What a thread has yet   *)
(* to do in its turn is read by an automaton whose states say which        *)
(* mutexes it holds; the invariant is that the owners of the mutexes are   *)
(* the threads whose automaton says so.                                    *)
(***************************************************************************)
EXTENDS Threads, Integers, SequenceTheorems, TLAPS

Op == [op: {"acquire", "release"}, mutex: Mutex]

---------------------------------------------------------------------------
(* The automaton *)

Phase == {"free", "app", "p2p", "both"}

\* One operation: app is taken with nothing held, p2p with nothing or with
\* app, and what is taken last is released first.
Goto(x, o, y) ==
    \/ x = "free" /\ o = Acq("app") /\ y = "app"
    \/ x = "free" /\ o = Acq("p2p") /\ y = "p2p"
    \/ x = "app"  /\ o = Acq("p2p") /\ y = "both"
    \/ x = "both" /\ o = Rel("p2p") /\ y = "app"
    \/ x = "p2p"  /\ o = Rel("p2p") /\ y = "free"
    \/ x = "app"  /\ o = Rel("app") /\ y = "free"

\* ph is the run of the automaton over s from x to z.
RunOf(ph, s, x, z) ==
    /\ ph \in [1 .. Len(s) + 1 -> Phase]
    /\ ph[1] = x /\ ph[Len(s) + 1] = z
    /\ \A i \in 1 .. Len(s) : Goto(ph[i], s[i], ph[i + 1])

Runs(s, x, z) == \E ph : RunOf(ph, s, x, z)

\* Nothing to do, and one operation.
LEMMA RunsEmpty ==
    ASSUME NEW x \in Phase, NEW z
    PROVE  Runs(<< >>, x, z) <=> x = z
<1>1. ASSUME x = z PROVE Runs(<< >>, x, z)
  <2>. DEFINE ph == [i \in 1 .. 1 |-> x]
  <2>1. RunOf(ph, << >>, x, z)
    BY <1>1 DEF RunOf
  <2>. QED BY <2>1 DEF Runs
<1>2. ASSUME Runs(<< >>, x, z) PROVE x = z
  BY <1>2 DEF Runs, RunOf
<1>. QED BY <1>1, <1>2

\* One operation.
LEMMA RunsOne ==
    ASSUME NEW x \in Phase, NEW z \in Phase, NEW o, Goto(x, o, z)
    PROVE  Runs(<<o>>, x, z)
<1>. DEFINE ph == [i \in 1 .. 2 |-> IF i = 1 THEN x ELSE z]
<1>1. ph \in [1 .. Len(<<o>>) + 1 -> Phase] /\ ph[1] = x /\ ph[Len(<<o>>) + 1] = z
  OBVIOUS
<1>2. \A i \in 1 .. Len(<<o>>) : Goto(ph[i], <<o>>[i], ph[i + 1])
  <2>1. 1 .. Len(<<o>>) = {1} /\ <<o>>[1] = o /\ ph[1] = x /\ ph[1 + 1] = z
    OBVIOUS
  <2>. QED BY <2>1
<1>3. RunOf(ph, <<o>>, x, z)
  BY <1>1, <1>2 DEF RunOf
<1>. QED BY <1>3 DEF Runs

\* One list of operations after another.
LEMMA RunsConcat ==
    ASSUME NEW s \in Seq(Op), NEW t \in Seq(Op), NEW x, NEW y, NEW z,
           Runs(s, x, y), Runs(t, y, z)
    PROVE  Runs(s \o t, x, z)
<1>1. PICK f : RunOf(f, s, x, y)
  BY DEF Runs
<1>2. PICK g : RunOf(g, t, y, z)
  BY DEF Runs
<1>. DEFINE u == s \o t
            h == [i \in 1 .. Len(s) + Len(t) + 1 |->
                     IF i <= Len(s) THEN f[i] ELSE g[i - Len(s)]]
<1>3. Len(s) \in Nat /\ Len(t) \in Nat
  OBVIOUS
<1>4. /\ u \in Seq(Op) /\ Len(u) = Len(s) + Len(t)
      /\ \A i \in 1 .. Len(s) + Len(t) : u[i] = IF i <= Len(s) THEN s[i] ELSE t[i - Len(s)]
  BY ConcatProperties
<1>. HIDE DEF u
<1>5. h \in [1 .. Len(u) + 1 -> Phase]
  BY <1>1, <1>2, <1>3, <1>4 DEF RunOf
<1>6. f[Len(s) + 1] = g[1] /\ f[1] = x /\ g[Len(t) + 1] = z /\ f[Len(s) + 1] = y /\ g[1] = y
  BY <1>1, <1>2 DEF RunOf
<1>7. h[1] = x /\ h[Len(u) + 1] = z
  <2>1. h[1] = x
    BY <1>3, <1>6
  <2>2. h[Len(u) + 1] = g[Len(t) + 1]
    BY <1>3, <1>4
  <2>. QED BY <1>6, <2>1, <2>2
<1>8. ASSUME NEW i \in 1 .. Len(u) PROVE Goto(h[i], u[i], h[i + 1])
  <2>0. i \in Nat /\ 1 <= i /\ i <= Len(s) + Len(t)
    BY <1>3, <1>4
  <2>1. CASE i < Len(s)
    <3>1. i \in 1 .. Len(s) /\ h[i] = f[i] /\ h[i + 1] = f[i + 1]
      BY <1>3, <2>0, <2>1
    <3>2. u[i] = s[i]
      BY <1>3, <1>4, <2>0, <2>1
    <3>. QED BY <1>1, <3>1, <3>2 DEF RunOf
  <2>2. CASE i = Len(s)
    <3>1. i \in 1 .. Len(s) /\ h[i] = f[i] /\ h[i + 1] = g[1]
      BY <1>3, <2>0, <2>2
    <3>2. u[i] = s[i]
      BY <1>3, <1>4, <2>0, <2>2
    <3>. QED BY <1>1, <1>6, <2>2, <3>1, <3>2 DEF RunOf
  <2>3. CASE i > Len(s)
    <3>. DEFINE j == i - Len(s)
    <3>1. j \in 1 .. Len(t) /\ h[i] = g[j] /\ h[i + 1] = g[j + 1]
      BY <1>3, <2>0, <2>3
    <3>2. u[i] = t[j]
      BY <1>3, <1>4, <2>0, <2>3
    <3>. QED BY <1>2, <3>1, <3>2 DEF RunOf
  <2>. QED BY <1>3, <2>0, <2>1, <2>2, <2>3
<1>9. RunOf(h, u, x, z)
  BY <1>5, <1>7, <1>8 DEF RunOf
<1>. QED BY <1>9 DEF Runs, u

\* The first operation, and the rest.
LEMMA RunsStep ==
    ASSUME NEW s \in Seq(Op), NEW x, NEW z, s # << >>, Runs(s, x, z)
    PROVE  /\ Head(s) \in Op /\ Tail(s) \in Seq(Op)
           /\ \E y \in Phase : Goto(x, Head(s), y) /\ Runs(Tail(s), y, z)
<1>1. PICK f : RunOf(f, s, x, z)
  BY DEF Runs
<1>2. /\ Head(s) \in Op /\ Tail(s) \in Seq(Op) /\ Len(Tail(s)) = Len(s) - 1
      /\ \A i \in 1 .. Len(Tail(s)) : Tail(s)[i] = s[i + 1]
  BY HeadTailProperties
<1>3. Len(s) \in Nat /\ Len(s) >= 1 /\ Head(s) = s[1]
  BY EmptySeq
<1>. DEFINE g == [i \in 1 .. Len(s) |-> f[i + 1]]
<1>4. Goto(x, Head(s), f[2]) /\ f[2] \in Phase
  <2>1. 1 \in 1 .. Len(s) /\ 2 \in 1 .. Len(s) + 1 /\ 1 + 1 = 2
    BY <1>3
  <2>. QED BY <1>1, <1>3, <2>1 DEF RunOf
<1>5. RunOf(g, Tail(s), f[2], z)
  <2>1. g \in [1 .. Len(Tail(s)) + 1 -> Phase] /\ g[1] = f[2] /\ g[Len(Tail(s)) + 1] = z
    BY <1>1, <1>2, <1>3 DEF RunOf
  <2>2. ASSUME NEW i \in 1 .. Len(Tail(s)) PROVE Goto(g[i], Tail(s)[i], g[i + 1])
    <3>1. i + 1 \in 1 .. Len(s) /\ i \in 1 .. Len(s) /\ i + 1 + 1 = (i + 1) + 1
      BY <1>2, <1>3
    <3>2. Goto(f[i + 1], s[i + 1], f[(i + 1) + 1])
      BY <1>1, <3>1 DEF RunOf
    <3>3. g[i] = f[i + 1] /\ g[i + 1] = f[(i + 1) + 1] /\ Tail(s)[i] = s[i + 1]
      BY <1>2, <3>1
    <3>. QED BY <3>2, <3>3
  <2>. QED BY <2>1, <2>2 DEF RunOf
<1>. QED BY <1>2, <1>4, <1>5 DEF Runs

---------------------------------------------------------------------------
(* The turns *)

\* A list of operations that begins and ends with nothing held.
Balanced == {s \in Seq(Op) : Runs(s, "free", "free")}

\* The sections the turns are made of, and turns made of turns.
LEMMA Sections ==
    /\ << >> \in Balanced
    /\ P2PCall \in Balanced
    /\ Locked("app", << >>) \in Balanced
    /\ Locked("app", P2PCall) \in Balanced
<1>. USE DEF Phase
<1>1. << >> \in Seq(Op) /\ \A x \in Phase : Runs(<< >>, x, x)
  BY RunsEmpty
<1>2. \A m \in Mutex : <<Acq(m)>> \in Seq(Op) /\ <<Rel(m)>> \in Seq(Op)
  BY DEF Acq, Rel, Op
<1>3. /\ Runs(<<Acq("app")>>, "free", "app") /\ Runs(<<Acq("p2p")>>, "free", "p2p")
      /\ Runs(<<Acq("p2p")>>, "app", "both") /\ Runs(<<Rel("p2p")>>, "both", "app")
      /\ Runs(<<Rel("p2p")>>, "p2p", "free") /\ Runs(<<Rel("app")>>, "app", "free")
  BY RunsOne DEF Goto
<1>4. "app" \in Mutex /\ "p2p" \in Mutex
  BY DEF Mutex
<1>5. ASSUME NEW m \in Mutex, NEW body \in Seq(Op), NEW x \in Phase, NEW y \in Phase,
             Runs(<<Acq(m)>>, x, y), Runs(body, y, y), Runs(<<Rel(m)>>, y, x)
      PROVE  Locked(m, body) \in Seq(Op) /\ Runs(Locked(m, body), x, x)
  <2>1. <<Acq(m)>> \o body \in Seq(Op) /\ Runs(<<Acq(m)>> \o body, x, y)
    BY <1>2, <1>5, RunsConcat, ConcatProperties
  <2>2. (<<Acq(m)>> \o body) \o <<Rel(m)>> \in Seq(Op) /\ Runs((<<Acq(m)>> \o body) \o <<Rel(m)>>, x, x)
    BY <1>2, <1>5, <2>1, RunsConcat, ConcatProperties
  <2>. QED BY <2>2, Zenon DEF Locked
<1>6. P2PCall \in Seq(Op) /\ Runs(P2PCall, "free", "free") /\ Runs(P2PCall, "app", "app")
  BY <1>1, <1>3, <1>4, <1>5 DEF P2PCall
<1>7. Locked("app", << >>) \in Seq(Op) /\ Runs(Locked("app", << >>), "free", "free")
  BY <1>1, <1>3, <1>4, <1>5
<1>8. Locked("app", P2PCall) \in Seq(Op) /\ Runs(Locked("app", P2PCall), "free", "free")
  BY <1>3, <1>4, <1>5, <1>6
<1>. QED BY <1>1, <1>6, <1>7, <1>8 DEF Balanced

\* One balanced list after another.
LEMMA BalancedConcat ==
    ASSUME NEW s \in Balanced, NEW t \in Balanced
    PROVE  s \o t \in Balanced
BY RunsConcat, ConcatProperties DEF Balanced

\* Every turn of every loop takes the mutexes in the order app, p2p, never
\* one it has, and gives back all it took.
LEMMA TurnsBalanced ==
    /\ NetTurns \subseteq Balanced
    /\ MinerTurns \subseteq Balanced
    /\ PeriodicTurns \subseteq Balanced
    /\ RpcTurns \subseteq Balanced
<1>. DEFINE A == Locked("app", << >>)
            AP == Locked("app", P2PCall)
            P == P2PCall
<1>1. << >> \in Balanced /\ P \in Balanced /\ A \in Balanced /\ AP \in Balanced
  BY Sections
<1>2. NetTurns = {P \o P \o h : h \in {<< >>} \cup {A, AP, AP \o P}}
  BY Zenon DEF NetTurns, Handlers
<1>3. MinerTurns = {A, A \o AP \o P}
  BY Zenon DEF MinerTurns
<1>4. PeriodicTurns = {A, AP \o A, AP \o AP \o A}
  BY Zenon DEF PeriodicTurns
<1>5. RpcTurns = {<< >>, A, AP}
  BY Zenon DEF RpcTurns
<1>. HIDE DEF A, AP, P
<1>6. AP \o P \in Balanced /\ P \o P \in Balanced /\ A \o AP \in Balanced /\ AP \o A \in Balanced
      /\ AP \o AP \in Balanced
  BY <1>1, BalancedConcat
<1>7. NetTurns \subseteq Balanced
  <2>1. ASSUME NEW h \in {<< >>} \cup {A, AP, AP \o P} PROVE P \o P \o h \in Balanced
    <3>1. h \in Balanced
      BY <1>1, <1>6
    <3>. QED BY <1>6, <3>1, BalancedConcat
  <2>. QED BY <1>2, <2>1
<1>8. A \o AP \o P \in Balanced /\ AP \o AP \o A \in Balanced
  BY <1>1, <1>6, BalancedConcat
<1>. QED BY <1>1, <1>3, <1>4, <1>5, <1>6, <1>7, <1>8

---------------------------------------------------------------------------
(* The invariant *)

MainAt == {"p2p_start", "rpc_start", "serve", "rpc_join", "p2p_join", "p2p_clear",
           "unwind", "returned", "aborted"}

\* The mutexes thread t holds, as the automaton has them.
PhaseOf(ow, t) ==
    IF ow["app"] = t THEN IF ow["p2p"] = t THEN "both" ELSE "app"
                     ELSE IF ow["p2p"] = t THEN "p2p" ELSE "free"

ThreadTypes ==
    /\ main \in MainAt
    /\ state \in [Worker -> {"none", "run", "ended"}]
    /\ prog \in [Thread -> Seq(Op)]
    /\ owner \in [Mutex -> Thread \cup {Nobody}]
    /\ rpc \in [at: {"top", "accept", "recv", "handle"}, chunks: Nat, listening: BOOLEAN]
    /\ flags \in [app: BOOLEAN, p2p: BOOLEAN, rpc: BOOLEAN]
    /\ left \in Nat

\* The owners of the mutexes are the threads that have yet to release them.
LocksInv == \A t \in Thread : Runs(prog[t], PhaseOf(owner, t), "free")

\* Who has anything to do: a worker that runs, the RPC thread in a request,
\* the main thread when it clears the peers.
IdleInv ==
    /\ \A t \in Worker : state[t] # "run" => prog[t] = << >>
    /\ rpc.at # "handle" => prog["rpc"] = << >>
    /\ main # "p2p_clear" => prog["main"] = << >>

\* What has started and ended when the main thread is where it is, and what
\* of App is left: a network thread that was not stopped keeps p2p, and so
\* what is declared before it, from being destroyed.
StageInv ==
    /\ main = "p2p_start" => \A t \in Worker : state[t] = "none"
    /\ main = "rpc_start" => \A t \in {"rpc", "miner", "periodic"} : state[t] = "none"
    /\ main \in {"p2p_join", "p2p_clear"} => state["rpc"] = "ended"
    /\ main = "p2p_clear" => state["net"] = "ended"
    /\ main = "unwind" => \A t \in {"rpc", "miner", "periodic"} : state[t] # "run"
    /\ main \in {"returned", "aborted"} => \A t \in Worker : state[t] # "run"
    /\ main \in {"rpc_start", "unwind"} /\ state["net"] = "run" => flags.p2p
    /\ main \notin {"unwind", "returned", "aborted"} => left = 10
    /\ main = "unwind" => left \in 1 .. 10
    /\ main = "unwind" /\ state["net"] = "run" => left >= 5

ThreadsInv == ThreadTypes /\ LocksInv /\ IdleInv /\ StageInv

---------------------------------------------------------------------------
\* The members of App: p2p is the fifth, cand and work_cache are the last.
LEMMA Members ==
    /\ Len(AppMembers) = 10 /\ DOMAIN AppMembers = 1 .. 10
    /\ AppMembers[5] = "p2p"
    /\ \A i \in 1 .. 10 : /\ i > 5 => AppMembers[i] # "p2p"
                          /\ i > 8 => AppMembers[i] \in {"cand", "work_cache"}
                          /\ i \in 6 .. 8 => AppMembers[i] \in {"rpc", "webroot", "rpc_peers"}
BY DEF AppMembers

\* A thread with nothing left to do holds no mutex.
LEMMA IdleIsFree ==
    ASSUME ThreadsInv, NEW t \in Thread, prog[t] = << >>
    PROVE  PhaseOf(owner, t) = "free"
<1>1. PhaseOf(owner, t) \in Phase
  BY DEF PhaseOf, Phase
<1>2. Runs(<< >>, PhaseOf(owner, t), "free")
  BY DEF ThreadsInv, LocksInv
<1>. QED BY <1>1, <1>2, RunsEmpty

\* A thread with something to do: its next operation.
LEMMA NextOp ==
    ASSUME ThreadsInv, NEW t \in Thread, prog[t] # << >>
    PROVE  /\ Head(prog[t]) \in Op /\ Tail(prog[t]) \in Seq(Op)
           /\ \E y \in Phase : /\ Goto(PhaseOf(owner, t), Head(prog[t]), y)
                               /\ Runs(Tail(prog[t]), y, "free")
<1>1. prog[t] \in Seq(Op) /\ Runs(prog[t], PhaseOf(owner, t), "free")
  BY DEF ThreadsInv, ThreadTypes, LocksInv
<1>. QED BY <1>1, RunsStep

\* A thread that starts a turn.
LEMMA TurnInv ==
    ASSUME ThreadsInv, NEW t \in Thread, prog[t] = << >>, NEW turn \in Balanced,
           prog' = [prog EXCEPT ![t] = turn], owner' = owner
    PROVE  prog' \in [Thread -> Seq(Op)] /\ owner' \in [Mutex -> Thread \cup {Nobody}] /\ LocksInv'
<1>1. prog \in [Thread -> Seq(Op)] /\ turn \in Seq(Op) /\ Runs(turn, "free", "free")
  BY DEF ThreadsInv, ThreadTypes, Balanced
<1>2. PhaseOf(owner, t) = "free"
  BY IdleIsFree
<1>3. ASSUME NEW u \in Thread PROVE Runs(prog'[u], PhaseOf(owner', u), "free")
  <2>1. CASE u = t
    BY <1>1, <1>2, <2>1
  <2>2. CASE u # t
    BY <1>1, <2>2 DEF ThreadsInv, LocksInv
  <2>. QED BY <2>1, <2>2
<1>. QED BY <1>1, <1>3 DEF ThreadsInv, ThreadTypes, LocksInv

\* A mutex is taken or given back.
LEMMA AcquireInv ==
    ASSUME ThreadsInv, NEW t \in Thread, Acquire(t) \/ Release(t)
    PROVE  ThreadsInv'
<1>. DEFINE o == Head(prog[t])
            m == o.mutex
            who == IF o.op = "acquire" THEN t ELSE Nobody
<1>1. prog[t] # << >> /\ ((o.op = "acquire" /\ owner[m] = Nobody) \/ o.op = "release")
  BY DEF Acquire, Release
<1>2. /\ owner' = [owner EXCEPT ![m] = who] /\ prog' = [prog EXCEPT ![t] = Tail(@)]
      /\ main' = main /\ state' = state /\ rpc' = rpc /\ flags' = flags /\ left' = left
  BY DEF Acquire, Release
<1>3. o \in Op /\ Tail(prog[t]) \in Seq(Op)
  BY <1>1, NextOp
<1>4. PICK y \in Phase : Goto(PhaseOf(owner, t), o, y) /\ Runs(Tail(prog[t]), y, "free")
  BY <1>1, NextOp
<1>. HIDE DEF o
<1>5. /\ prog \in [Thread -> Seq(Op)] /\ owner \in [Mutex -> Thread \cup {Nobody}]
      /\ m \in Mutex /\ t # Nobody
  BY <1>3, NobodyAssumption DEF ThreadsInv, ThreadTypes, Op
<1>6. o.op = "release" => owner[m] = t
  BY <1>4 DEF Goto, PhaseOf, Acq, Rel
<1>7. PhaseOf(owner', t) = y
  BY <1>1, <1>2, <1>4, <1>5 DEF Goto, PhaseOf, Acq, Rel, Mutex
<1>8. ASSUME NEW u \in Thread, u # t PROVE PhaseOf(owner', u) = PhaseOf(owner, u)
  BY <1>1, <1>2, <1>5, <1>6, <1>8, NobodyAssumption DEF PhaseOf, Mutex
<1>9. ASSUME NEW u \in Thread PROVE Runs(prog'[u], PhaseOf(owner', u), "free")
  <2>1. CASE u = t
    BY <1>2, <1>4, <1>5, <1>7, <2>1
  <2>2. CASE u # t
    BY <1>2, <1>5, <1>8, <2>2 DEF ThreadsInv, LocksInv
  <2>. QED BY <2>1, <2>2
<1>10. ThreadTypes'
  BY <1>2, <1>3, <1>5 DEF ThreadsInv, ThreadTypes
<1>11. IdleInv'
  <2>1. ASSUME NEW u \in Thread, prog[u] = << >> PROVE prog'[u] = << >>
    BY <1>1, <1>2, <1>5, <2>1 DEF o
  <2>. QED BY <1>2, <2>1 DEF ThreadsInv, IdleInv, Thread, Worker
<1>12. StageInv'
  BY <1>2 DEF ThreadsInv, StageInv
<1>. QED BY <1>9, <1>10, <1>11, <1>12 DEF ThreadsInv, LocksInv

\* A turn of the network, miner or periodic thread begins, or its loop ends.
LEMMA LoopInv ==
    ASSUME ThreadsInv, NEW t \in Worker, Loop(t)
    PROVE  ThreadsInv'
<1>1. /\ t \in {"net", "miner", "periodic"} /\ state[t] = "run" /\ prog[t] = << >>
      /\ main' = main /\ owner' = owner /\ rpc' = rpc /\ t \in Thread
      /\ flags' = flags /\ left' = left
  BY DEF Loop, Worker, Thread
<1>2. CASE Goes(t)
  <2>1. PICK turn \in Turns(t) : prog' = [prog EXCEPT ![t] = turn]
    BY <1>2 DEF Loop
  <2>2. state' = state
    BY <1>2 DEF Loop
  <2>3. turn \in Balanced
    BY <1>1, <2>1, TurnsBalanced DEF Turns
  <2>4. prog' \in [Thread -> Seq(Op)] /\ owner' \in [Mutex -> Thread \cup {Nobody}] /\ LocksInv'
    BY <1>1, <2>1, <2>3, TurnInv
  <2>5. \A u \in Thread : u # t => prog'[u] = prog[u]
    BY <2>1 DEF ThreadsInv, ThreadTypes
  <2>6. IdleInv'
    BY <1>1, <2>2, <2>5 DEF ThreadsInv, IdleInv, Worker, Thread
  <2>7. ThreadTypes' /\ StageInv'
    BY <1>1, <2>2, <2>4 DEF ThreadsInv, ThreadTypes, StageInv
  <2>. QED BY <2>4, <2>6, <2>7 DEF ThreadsInv
<1>3. CASE ~Goes(t)
  <2>1. state' = [state EXCEPT ![t] = "ended"] /\ prog' = prog
    BY <1>3 DEF Loop
  <2>2. ThreadTypes' /\ LocksInv'
    BY <1>1, <2>1 DEF ThreadsInv, ThreadTypes, LocksInv
  <2>3. IdleInv'
    BY <1>1, <2>1 DEF ThreadsInv, ThreadTypes, IdleInv
  <2>4. StageInv'
    BY <1>1, <2>1 DEF ThreadsInv, ThreadTypes, StageInv, Worker
  <2>. QED BY <2>2, <2>3, <2>4 DEF ThreadsInv
<1>. QED BY <1>2, <1>3

\* The RPC thread: RpcServer::loop and handle.
LEMMA RpcInv ==
    ASSUME ThreadsInv, ClientConnects \/ RpcTop \/ RpcAccept \/ RpcRecv \/ RpcSend
    PROVE  ThreadsInv'
<1>0. /\ main' = main /\ owner' = owner /\ "rpc" \in Thread /\ "rpc" \in Worker
      /\ flags' = flags /\ left' = left
      /\ ThreadTypes /\ LocksInv /\ IdleInv /\ StageInv
  BY DEF ClientConnects, RpcTop, RpcAccept, RpcRecv, RpcSend, Thread, Worker, ThreadsInv
<1>1. CASE ClientConnects
  <2>1. state' = state /\ prog' = prog /\ rpc' = rpc
    BY <1>1 DEF ClientConnects
  <2>. QED BY <1>0, <2>1 DEF ThreadsInv, ThreadTypes, LocksInv, IdleInv, StageInv
<1>2. CASE RpcTop
  <2>1. prog' = prog /\ rpc.at = "top" /\ state["rpc"] = "run"
    BY <1>2 DEF RpcTop
  <2>2. CASE flags.rpc
    <3>1. rpc' = [rpc EXCEPT !.at = "accept"] /\ state' = state
      BY <1>2, <2>2 DEF RpcTop
    <3>2. ThreadTypes' /\ rpc'.at = "accept"
      BY <1>0, <2>1, <3>1 DEF ThreadTypes
    <3>. QED BY <1>0, <2>1, <3>1, <3>2 DEF ThreadsInv, LocksInv, IdleInv, StageInv
  <2>3. CASE ~flags.rpc
    <3>1. rpc' = rpc /\ state' = [state EXCEPT !["rpc"] = "ended"]
      BY <1>2, <2>3 DEF RpcTop
    <3>2. ThreadTypes' /\ LocksInv'
      BY <1>0, <2>1, <3>1 DEF ThreadTypes, LocksInv
    <3>3. IdleInv' /\ StageInv'
      BY <1>0, <2>1, <3>1 DEF ThreadTypes, IdleInv, StageInv, Worker
    <3>. QED BY <3>2, <3>3 DEF ThreadsInv
  <2>. QED BY <2>2, <2>3
<1>3. CASE RpcAccept \/ RpcSend
  <2>1. prog' = prog /\ state' = state /\ prog["rpc"] = << >>
    BY <1>0, <1>3 DEF RpcAccept, RpcSend, IdleInv
  <2>2. ThreadTypes'
    <3>. DEFINE R == [at: {"top", "accept", "recv", "handle"}, chunks: Nat, listening: BOOLEAN]
    <3>1. rpc \in R
      BY <1>0 DEF ThreadTypes
    <3>2. CASE rpc' = [rpc EXCEPT !.at = "recv", !.chunks = 0]
      <4>1. rpc' = [at |-> "recv", chunks |-> 0, listening |-> rpc.listening]
        BY <3>1, <3>2
      <4>2. rpc' \in R
        BY <3>1, <4>1
      <4>. QED BY <1>0, <2>1, <4>2 DEF ThreadTypes
    <3>3. CASE rpc' = [rpc EXCEPT !.at = "top"]
      BY <1>0, <2>1, <3>3 DEF ThreadTypes
    <3>. QED BY <1>3, <3>2, <3>3 DEF RpcAccept, RpcSend
  <2>. QED BY <1>0, <2>1, <2>2 DEF ThreadsInv, LocksInv, IdleInv, StageInv
<1>4. CASE RpcRecv
  <2>1. state' = state /\ rpc.at = "recv" /\ prog["rpc"] = << >>
    BY <1>0, <1>4 DEF RpcRecv, IdleInv
  <2>2. CASE prog' = prog
    <3>1. ThreadTypes'
      <4>1. \/ rpc' = [rpc EXCEPT !.chunks = @ + 1]
            \/ rpc' = [rpc EXCEPT !.at = "top"]
            \/ rpc' = [rpc EXCEPT !.at = "handle"]
        BY <1>4 DEF RpcRecv
      <4>. QED BY <1>0, <2>1, <2>2, <4>1 DEF ThreadTypes
    <3>. QED BY <1>0, <2>1, <2>2, <3>1 DEF ThreadsInv, LocksInv, IdleInv, StageInv
  <2>3. CASE /\ rpc' = [rpc EXCEPT !.at = "handle"]
             /\ \E turn \in RpcTurns : prog' = [prog EXCEPT !["rpc"] = turn]
    <3>1. PICK turn \in RpcTurns : prog' = [prog EXCEPT !["rpc"] = turn]
      BY <2>3
    <3>2. turn \in Balanced
      BY TurnsBalanced
    <3>3. prog' \in [Thread -> Seq(Op)] /\ owner' \in [Mutex -> Thread \cup {Nobody}] /\ LocksInv'
      BY <1>0, <2>1, <3>1, <3>2, TurnInv
    <3>4. ThreadTypes' /\ rpc'.at = "handle"
      BY <1>0, <2>1, <2>3, <3>3 DEF ThreadTypes
    <3>5. \A u \in Thread : u # "rpc" => prog'[u] = prog[u]
      BY <1>0, <3>1 DEF ThreadTypes
    <3>6. state["rpc"] = "run"
      BY <1>4 DEF RpcRecv
    <3>7. IdleInv'
      BY <1>0, <2>1, <3>4, <3>5, <3>6 DEF IdleInv, Worker, Thread
    <3>. QED BY <1>0, <2>1, <3>3, <3>4, <3>7 DEF ThreadsInv, StageInv
  <2>. QED BY <1>4, <2>2, <2>3 DEF RpcRecv
<1>. QED BY <1>1, <1>2, <1>3, <1>4

\* The main thread: node_run starts what there is to start.
LEMMA StartInv ==
    ASSUME ThreadsInv, P2PStart \/ RpcStart
    PROVE  ThreadsInv'
<1>0. ThreadTypes /\ LocksInv /\ IdleInv /\ StageInv
  BY DEF ThreadsInv
<1>1. CASE P2PStart
  <2>1. /\ main = "p2p_start" /\ prog' = prog /\ owner' = owner /\ rpc' = rpc /\ left' = left
        /\ \/ main' = "rpc_start" /\ flags' = [flags EXCEPT !.p2p = TRUE]
              /\ state' = [state EXCEPT !["net"] = "run"]
           \/ main' = "unwind" /\ flags' = flags /\ state' = state
    BY <1>1 DEF P2PStart
  <2>2. ThreadTypes' /\ LocksInv' /\ (main' = "rpc_start" => flags'.p2p)
    BY <1>0, <2>1 DEF ThreadTypes, LocksInv, MainAt
  <2>3. IdleInv' /\ StageInv'
    BY <1>0, <2>1, <2>2 DEF ThreadTypes, IdleInv, StageInv, Worker
  <2>. QED BY <2>2, <2>3 DEF ThreadsInv
<1>2. CASE RpcStart /\ main' = "serve"
  <2>1. /\ main = "rpc_start" /\ prog' = prog /\ owner' = owner /\ left' = left
        /\ rpc' = [rpc EXCEPT !.listening = TRUE] /\ flags' = [flags EXCEPT !.rpc = TRUE]
        /\ state' = [state EXCEPT !["rpc"] = "run", !["miner"] = "run", !["periodic"] = "run"]
    BY <1>2 DEF RpcStart
  <2>2. ThreadTypes' /\ rpc'.at = rpc.at
    BY <1>0, <1>2, <2>1 DEF ThreadTypes, MainAt
  <2>3. LocksInv'
    BY <1>0, <2>1 DEF LocksInv
  <2>4. IdleInv' /\ StageInv'
    BY <1>0, <1>2, <2>1, <2>2 DEF ThreadTypes, IdleInv, StageInv, Worker
  <2>. QED BY <2>2, <2>3, <2>4 DEF ThreadsInv
<1>3. CASE RpcStart /\ main' = "unwind"
  <2>1. /\ main = "rpc_start" /\ rpc' = rpc /\ state' = state /\ prog' = prog /\ owner' = owner
        /\ flags' = flags /\ left' = left
    BY <1>3 DEF RpcStart
  <2>. QED BY <1>0, <1>3, <2>1 DEF ThreadsInv, ThreadTypes, LocksInv, IdleInv, StageInv, MainAt
<1>. QED BY <1>1, <1>2, <1>3 DEF RpcStart

\* node_run shuts down: Ctrl+C, the stops and the joins.
LEMMA StopInv ==
    ASSUME ThreadsInv, CtrlC \/ RpcStop \/ P2PStop \/ P2PClear \/ Return
    PROVE  ThreadsInv'
<1>0. ThreadTypes /\ LocksInv /\ IdleInv /\ StageInv
  BY DEF ThreadsInv
<1>1. CASE CtrlC \/ P2PStop \/ Return
  <2>1. state' = state /\ prog' = prog /\ owner' = owner /\ rpc' = rpc /\ left' = left
    BY <1>1 DEF CtrlC, P2PStop, Return
  <2>2. ThreadTypes' /\ LocksInv'
    BY <1>0, <1>1, <2>1 DEF CtrlC, P2PStop, Return, ThreadTypes, LocksInv, MainAt
  <2>3. IdleInv' /\ StageInv'
    BY <1>0, <1>1, <2>1 DEF CtrlC, P2PStop, Return, ThreadTypes, IdleInv, StageInv, Worker
  <2>. QED BY <2>2, <2>3 DEF ThreadsInv
<1>2. CASE RpcStop
  <2>1. /\ main = "serve" /\ main' = "rpc_join" /\ state' = state /\ prog' = prog /\ owner' = owner
        /\ rpc' = [rpc EXCEPT !.listening = FALSE] /\ flags' = [flags EXCEPT !.rpc = FALSE]
        /\ left' = left
    BY <1>2 DEF RpcStop
  <2>2. ThreadTypes' /\ rpc'.at = rpc.at
    BY <1>0, <2>1 DEF ThreadTypes, MainAt
  <2>. QED BY <1>0, <2>1, <2>2 DEF ThreadsInv, LocksInv, IdleInv, StageInv
<1>3. CASE P2PClear
  <2>1. /\ main = "p2p_join" /\ main' = "p2p_clear" /\ state["net"] = "ended"
        /\ prog' = [prog EXCEPT !["main"] = P2PCall]
        /\ state' = state /\ owner' = owner /\ rpc' = rpc /\ "main" \in Thread
        /\ flags' = flags /\ left' = left
    BY <1>3 DEF P2PClear, Thread
  <2>2. prog["main"] = << >>
    BY <1>0, <2>1 DEF IdleInv
  <2>3. prog' \in [Thread -> Seq(Op)] /\ owner' \in [Mutex -> Thread \cup {Nobody}] /\ LocksInv'
    BY <2>1, <2>2, Sections, TurnInv
  <2>4. ThreadTypes'
    BY <1>0, <2>1, <2>3 DEF ThreadTypes, MainAt
  <2>5. IdleInv' /\ StageInv'
    BY <1>0, <2>1 DEF ThreadTypes, IdleInv, StageInv, Worker, Thread
  <2>. QED BY <2>3, <2>4, <2>5 DEF ThreadsInv
<1>. QED BY <1>1, <1>2, <1>3

\* node_run has returned: a member of App goes, or the process.
LEMMA DestroyInv ==
    ASSUME ThreadsInv, Destroy
    PROVE  ThreadsInv'
<1>0. ThreadTypes /\ LocksInv /\ IdleInv /\ StageInv
  BY DEF ThreadsInv
<1>. DEFINE ends == AppMembers[left] \in {"p2p", "rpc"} /\ flags[AppMembers[left]]
<1>1. main = "unwind" /\ left \in 1 .. 10 /\ rpc' = rpc /\ flags' = flags
  BY <1>0 DEF Destroy, StageInv
<1>2. CASE ends
  <2>1. /\ main' = "aborted" /\ left' = left
        /\ state' = [t \in Worker |-> IF state[t] = "run" THEN "ended" ELSE state[t]]
        /\ prog' = [t \in Thread |-> << >>]
        /\ owner' = [m \in Mutex |-> Nobody]
    BY <1>2 DEF Destroy
  <2>2. \A t \in Thread : prog'[t] = << >>
    BY <2>1
  <2>3. \A t \in Thread : PhaseOf(owner', t) = "free"
    BY <2>1, NobodyAssumption DEF PhaseOf, Mutex
  <2>4. Runs(<< >>, "free", "free")
    BY RunsEmpty DEF Phase
  <2>5. LocksInv'
    BY <2>2, <2>3, <2>4 DEF LocksInv
  <2>6. ThreadTypes'
    <3>1. << >> \in Seq(Op)
      OBVIOUS
    <3>. QED BY <1>0, <1>1, <2>1, <3>1 DEF ThreadTypes, MainAt
  <2>7. IdleInv' /\ StageInv'
    BY <1>0, <2>1, <2>2 DEF ThreadTypes, IdleInv, StageInv, Worker, Thread
  <2>. QED BY <2>5, <2>6, <2>7 DEF ThreadsInv
<1>3. CASE ~ends
  <2>1. /\ left' = left - 1 /\ main' = IF left = 1 THEN "returned" ELSE main
        /\ state' = state /\ prog' = prog /\ owner' = owner
    BY <1>3 DEF Destroy
  <2>2. state["net"] = "run" => left > 5
    BY <1>0, <1>1, <1>3, Members DEF StageInv
  <2>3. ThreadTypes' /\ LocksInv' /\ IdleInv'
    BY <1>0, <1>1, <2>1 DEF ThreadTypes, LocksInv, IdleInv, MainAt
  <2>4. StageInv'
    <3>1. CASE left = 1
      BY <1>0, <1>1, <2>1, <2>2, <3>1 DEF ThreadTypes, StageInv, Worker
    <3>2. CASE left # 1
      BY <1>0, <1>1, <2>1, <2>2, <3>2 DEF ThreadTypes, StageInv, Worker
    <3>. QED BY <3>1, <3>2
  <2>. QED BY <2>3, <2>4 DEF ThreadsInv
<1>. QED BY <1>2, <1>3

---------------------------------------------------------------------------
(* Theorems *)

\* The process starts with the invariant, and every step keeps it.
LEMMA InitInv == Init => ThreadsInv
<1>. SUFFICES ASSUME Init PROVE ThreadsInv
  OBVIOUS
<1>. USE DEF Init
<1>1. << >> \in Seq(Op) /\ Runs(<< >>, "free", "free")
  BY RunsEmpty DEF Phase
<1>2. ThreadTypes
  BY <1>1, Members DEF ThreadTypes, MainAt
<1>3. \A t \in Thread : PhaseOf(owner, t) = "free" /\ prog[t] = << >>
  BY NobodyAssumption DEF PhaseOf, Mutex
<1>4. LocksInv
  BY <1>1, <1>3 DEF LocksInv
<1>5. IdleInv /\ StageInv
  BY <1>3, Members DEF IdleInv, StageInv, Worker, Thread
<1>. QED BY <1>2, <1>4, <1>5 DEF ThreadsInv

\* Every step of every thread keeps it.
LEMMA NextInv == ThreadsInv /\ [Next]_vars => ThreadsInv'
<1>. SUFFICES ASSUME ThreadsInv, [Next]_vars PROVE ThreadsInv'
  OBVIOUS
<1>1. ASSUME NEW t \in Thread, Acquire(t) \/ Release(t) PROVE ThreadsInv'
  BY <1>1, AcquireInv
<1>2. ASSUME NEW t \in Worker, Loop(t) PROVE ThreadsInv'
  BY <1>2, LoopInv
<1>3. CASE ClientConnects \/ RpcTop \/ RpcAccept \/ RpcRecv \/ RpcSend
  BY <1>3, RpcInv
<1>4. CASE P2PStart \/ RpcStart \/ CtrlC \/ RpcStop \/ P2PStop \/ P2PClear \/ Return
  BY <1>4, StartInv, StopInv
<1>5. CASE Destroy
  BY <1>5, DestroyInv
<1>6. CASE Ended \/ UNCHANGED vars
  <2>1. /\ main' = main /\ state' = state /\ prog' = prog /\ owner' = owner /\ rpc' = rpc
        /\ flags' = flags /\ left' = left
    BY <1>6 DEF Ended, vars
  <2>. QED BY <2>1 DEF ThreadsInv, ThreadTypes, LocksInv, IdleInv, StageInv
<1>. QED BY <1>1, <1>2, <1>3, <1>4, <1>5, <1>6 DEF Next

\* ThreadsInv holds whatever the threads, the clients and Ctrl+C do.
THEOREM ThreadsInvHolds == Spec => []ThreadsInv
BY InitInv, NextInv, PTL DEF Spec

\* Nothing that a thread uses is taken from it: the peers are cleared when the
\* network thread has ended, App is destroyed when all have; and when the RPC
\* port is taken and the network thread goes on, ~thread ends the process
\* before anything declared ahead of the network is destroyed.
THEOREM TeardownTheorem == Spec => []TeardownSafe
<1>1. ASSUME ThreadsInv PROVE TeardownSafe
  <2>1. StageInv /\ ThreadTypes
    BY <1>1 DEF ThreadsInv
  <2>2. main = "p2p_clear" => state["net"] = "ended"
    BY <2>1 DEF StageInv
  <2>3. ASSUME NEW t \in Worker, NEW i \in DOMAIN AppMembers,
               state[t] = "run", AppMembers[i] \in Uses(t), ~(i <= left)
        PROVE  StartFailed /\ AppMembers[i] \in {"cand", "work_cache"}
    <3>1. i \in 1 .. 10
      BY Members
    <3>2. main = "unwind" /\ t = "net" /\ flags.p2p /\ left >= 5
      BY <2>1, <2>3, <3>1 DEF StageInv, ThreadTypes, Worker
    <3>3. i > 5
      BY <2>1, <2>3, <3>1, <3>2 DEF ThreadTypes
    <3>4. Uses("net") = {"mtx", "chain", "pool", "db", "p2p", "cand", "work_cache"}
      BY DEF Uses
    <3>5. AppMembers[i] \notin {"rpc", "webroot", "rpc_peers"}
      BY <2>3, <3>2, <3>4
    <3>6. i > 8
      BY <3>1, <3>3, <3>5, Members
    <3>. QED BY <3>1, <3>2, <3>6, Members DEF StartFailed
  <2>. QED BY <2>2, <2>3 DEF TeardownSafe
<1>. QED BY <1>1, ThreadsInvHolds, PTL

\* Whoever waits for a mutex: its owner is a thread that has yet to release it.
LEMMA WaitsForMutex ==
    ASSUME ThreadsInv, NEW t \in Thread, NEW m \in Mutex,
           prog[t] # << >>, Head(prog[t]).op = "acquire", Head(prog[t]).mutex = m
    PROVE  /\ PhaseOf(owner, t) = "free" \/ (PhaseOf(owner, t) = "app" /\ m = "p2p")
           /\ owner[m] # t
<1>1. PICK y \in Phase : Goto(PhaseOf(owner, t), Head(prog[t]), y)
  BY NextOp
<1>2. PhaseOf(owner, t) = "free" \/ (PhaseOf(owner, t) = "app" /\ m = "p2p")
  BY <1>1 DEF Goto, Acq, Rel
<1>3. owner[m] # t
  BY <1>2 DEF PhaseOf, Mutex
<1>. QED BY <1>2, <1>3

\* "Lock order app->net is safe": no threads wait for each other in a circle.
\* A thread that holds p2p wants nothing; one that holds app wants at most
\* p2p; and a thread that joins another holds nothing.
THEOREM NoCircularWaitTheorem == Spec => []NoCircularWait
<1>1. ASSUME ThreadsInv PROVE NoCircularWait
  <2>. SUFFICES ASSUME NEW S \in SUBSET Thread, S # {},
                       \A t \in S : \E u \in S : WaitsFor(t, u)
                PROVE  FALSE
    BY DEF NoCircularWait
  <2>0. IdleInv /\ ThreadTypes
    BY <1>1 DEF ThreadsInv
  <2>. DEFINE Wants(t, m) == prog[t] # << >> /\ Head(prog[t]).op = "acquire"
                             /\ Head(prog[t]).mutex = m
  \* A member of S waits for a mutex, or is the main thread with nothing to do.
  <2>1. ASSUME NEW t \in S
        PROVE  \/ \E m \in Mutex : Wants(t, m) /\ owner[m] \in S
               \/ t = "main" /\ prog[t] = << >> /\ \E u \in S : u \in Worker
    <3>1. PICK u \in S : WaitsFor(t, u)
      OBVIOUS
    <3>2. CASE /\ prog[t] # << >> /\ Head(prog[t]).op = "acquire"
               /\ owner[Head(prog[t]).mutex] = u
      <4>1. Head(prog[t]) \in Op
        BY <1>1, <3>2, NextOp
      <4>2. Head(prog[t]).mutex \in Mutex
        BY <4>1 DEF Op
      <4>. QED BY <3>2, <4>2
    <3>3. CASE /\ t = "main" /\ u \in Worker /\ state[u] # "ended"
               /\ \/ main = "rpc_join" /\ u = "rpc"
                  \/ main = "p2p_join" /\ u = "net"
                  \/ main = "p2p_clear" /\ prog["main"] = << >> /\ u \in {"miner", "periodic"}
      BY <2>0, <3>3 DEF IdleInv
    <3>. QED BY <3>1, <3>2, <3>3 DEF WaitsFor
  <2>. HIDE DEF Wants
  \* So some member waits for a mutex that a member owns.
  <2>2. PICK t \in S, m \in Mutex : Wants(t, m) /\ owner[m] \in S
    <3>1. PICK a \in S : TRUE
      OBVIOUS
    <3>2. CASE \E m \in Mutex : Wants(a, m) /\ owner[m] \in S
      BY <3>2
    <3>3. CASE \E u \in S : u \in Worker
      <4>1. PICK u \in S : u \in Worker
        BY <3>3
      <4>2. u # "main"
        BY <4>1 DEF Worker
      <4>. QED BY <2>1, <4>1, <4>2
    <3>. QED BY <2>1, <3>2, <3>3
  \* Its owner holds something, so it waits for a mutex too: for p2p.
  <2>3. ASSUME NEW u \in S, NEW k \in Mutex, owner[k] = u
        PROVE  k = "app" /\ Wants(u, "p2p") /\ owner["p2p"] \in S
    <3>1. u \in Thread /\ PhaseOf(owner, u) # "free"
      BY <2>3 DEF PhaseOf, Mutex
    <3>2. prog[u] # << >>
      BY <1>1, <3>1, IdleIsFree
    <3>3. PICK j \in Mutex : Wants(u, j) /\ owner[j] \in S
      BY <2>1, <3>2
    <3>4. PhaseOf(owner, u) = "app" /\ j = "p2p"
      BY <1>1, <3>1, <3>3, WaitsForMutex DEF Wants
    <3>5. k = "app"
      BY <2>3, <3>4 DEF PhaseOf, Mutex
    <3>. QED BY <3>3, <3>4, <3>5
  \* But who owns p2p would have to own it as app.
  <2>4. owner["p2p"] \in S
    BY <2>2, <2>3
  <2>5. "p2p" \in Mutex
    BY DEF Mutex
  <2>6. "p2p" = "app"
    BY <2>3, <2>4, <2>5
  <2>. QED BY <2>6
<1>. QED BY <1>1, ThreadsInvHolds, PTL

=============================================================================
