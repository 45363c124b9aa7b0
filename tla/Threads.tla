------------------------------ MODULE Threads -------------------------------
(***************************************************************************)
(* The threads of one node process from start to shutdown: node_run of     *)
(* src/node_impl.h, the loops of the network, RPC, miner and periodic      *)
(* threads, the two mutexes (App::mtx and P2P::mtx), and start and stop of *)
(* P2P (src/net.h) and RpcServer (src/rpc.h).  What the critical sections  *)
(* do is the subject of Node and Sync; here a turn of a loop is the list   *)
(* of mutex operations it makes.  Between two of them a thread may sleep,  *)
(* wait in select or search for a nonce for as long as it likes.           *)
(***************************************************************************)
EXTENDS Naturals, Sequences

CONSTANTS
    Nobody,      \* a mutex without owner
    Backlog,     \* 16: connections that wait in the RPC listener
    MaxChunks    \* what a request may have: 1 MB of header, 4 MB of body

ASSUME ThreadsAssumption == Backlog \in Nat /\ MaxChunks \in Nat \ {0}

Worker == {"net", "rpc", "miner", "periodic"}
Thread == Worker \cup {"main"}
Mutex == {"app", "p2p"}

ASSUME NobodyAssumption == Nobody \notin Thread

\* Mutant of AppMembers: the network comes before what its handlers use.
AppMembersNetFirst ==
    <<"p2p", "mtx", "chain", "pool", "db", "rpc", "webroot", "rpc_peers", "cand", "work_cache">>

\* The members of App that have to be destroyed and that threads use, as they
\* are declared; the last goes first.
AppMembers ==
    <<"mtx", "chain", "pool", "db", "p2p", "rpc", "webroot", "rpc_peers", "cand", "work_cache">>

VARIABLES
    main,     \* where node_run is
    state,    \* state[t]: "none" before, "run", "ended" for each worker
    prog,     \* prog[t]: the operations thread t has yet to make in this turn
    owner,    \* owner[m]: who holds mutex m
    flags,    \* App::running, P2P::running, RpcServer::running
    rpc,      \* the RPC thread: where it is, chunks received, listener open
    clients,  \* connections waiting to be accepted
    left      \* the members of App still there: the first so many

vars == <<main, state, prog, owner, flags, rpc, clients, left>>

---------------------------------------------------------------------------
(* Turns of the loops *)

Acq(m) == [op |-> "acquire", mutex |-> m]
Rel(m) == [op |-> "release", mutex |-> m]

Locked(m, body) == <<Acq(m)>> \o body \o <<Rel(m)>>

\* send_to, broadcast, peer_tip, peer_label, ready_count.
P2PCall == Locked("p2p", << >>)

\* A handler under App::mtx: with and without calls of P2P, and then, for a
\* transaction or block that was accepted, the relay without App::mtx.
Handlers == {Locked("app", << >>), Locked("app", P2PCall),
             Locked("app", P2PCall) \o P2PCall}

\* Mutant of NetTurns: the callbacks are made before P2P::mtx is released.
NetTurnsLocked ==
    {P2PCall \o Locked("p2p", h) : h \in {<< >>} \cup Handlers}

\* P2P::loop: the fd sets, select without the mutex, sockets read and
\* written; then, without the mutex, the callbacks (here, at most one).
NetTurns ==
    {P2PCall \o P2PCall \o h : h \in {<< >>} \cup Handlers}

\* miner_thread: nothing to mine, or given up; mined and connected.
MinerTurns ==
    {Locked("app", << >>), Locked("app", << >>) \o Locked("app", P2PCall) \o P2PCall}

\* periodic_thread: the timeout, after nothing, an announcement, or that and
\* a status line.
PeriodicTurns ==
    LET timeout == Locked("app", << >>)
        say == Locked("app", P2PCall)
    IN  {timeout, say \o timeout, say \o say \o timeout}

\* handle_rpc: pages, /help and /nodes answer without a mutex.
RpcTurns == {<< >>, Locked("app", << >>), Locked("app", P2PCall)}

---------------------------------------------------------------------------
Init ==
    /\ main = "p2p_start"
    /\ state = [t \in Worker |-> "none"]
    /\ prog = [t \in Thread |-> << >>]
    /\ owner = [m \in Mutex |-> Nobody]
    /\ flags = [app |-> TRUE, p2p |-> FALSE, rpc |-> FALSE]
    /\ rpc = [at |-> "top", chunks |-> 0, listening |-> FALSE]
    /\ clients = 0
    /\ left = Len(AppMembers)

---------------------------------------------------------------------------
(* Mutexes *)

Acquire(t) ==
    /\ prog[t] # << >> /\ Head(prog[t]).op = "acquire" /\ owner[Head(prog[t]).mutex] = Nobody
    /\ owner' = [owner EXCEPT ![Head(prog[t]).mutex] = t]
    /\ prog' = [prog EXCEPT ![t] = Tail(@)]
    /\ UNCHANGED <<main, state, flags, rpc, clients, left>>

Release(t) ==
    /\ prog[t] # << >> /\ Head(prog[t]).op = "release"
    /\ owner' = [owner EXCEPT ![Head(prog[t]).mutex] = Nobody]
    /\ prog' = [prog EXCEPT ![t] = Tail(@)]
    /\ UNCHANGED <<main, state, flags, rpc, clients, left>>

---------------------------------------------------------------------------
(* The network, miner and periodic threads *)

Turns(t) ==
    CASE t = "net" -> NetTurns [] t = "miner" -> MinerTurns [] t = "periodic" -> PeriodicTurns
Goes(t) == IF t = "net" THEN flags.p2p ELSE flags.app

\* The loop condition is looked at when a turn is over.
Loop(t) ==
    /\ t # "rpc" /\ state[t] = "run" /\ prog[t] = << >>
    /\ IF Goes(t)
       THEN /\ \E turn \in Turns(t) : prog' = [prog EXCEPT ![t] = turn]
            /\ UNCHANGED state
       ELSE /\ state' = [state EXCEPT ![t] = "ended"]
            /\ UNCHANGED prog
    /\ UNCHANGED <<main, owner, flags, rpc, clients, left>>

---------------------------------------------------------------------------
(* The RPC thread: one connection after the other *)

\* A client's connection is completed by the listener's queue.
ClientConnects ==
    /\ rpc.listening /\ clients < Backlog
    /\ clients' = clients + 1
    /\ UNCHANGED <<main, state, prog, owner, flags, rpc, left>>

\* RpcServer::loop looks at running and calls accept, which blocks.
RpcTop ==
    /\ state["rpc"] = "run" /\ rpc.at = "top"
    /\ IF flags.rpc THEN rpc' = [rpc EXCEPT !.at = "accept"] /\ UNCHANGED state
       ELSE state' = [state EXCEPT !["rpc"] = "ended"] /\ UNCHANGED rpc
    /\ UNCHANGED <<main, prog, owner, flags, clients, left>>

\* accept returns a connection, or fails because the listener is closed.
RpcAccept ==
    /\ state["rpc"] = "run" /\ rpc.at = "accept"
    /\ \/ /\ rpc.listening /\ clients > 0
          /\ clients' = clients - 1
          /\ rpc' = [rpc EXCEPT !.at = "recv", !.chunks = 0]
       \/ /\ ~rpc.listening
          /\ rpc' = [rpc EXCEPT !.at = "top"]
          /\ UNCHANGED clients
    /\ UNCHANGED <<main, state, prog, owner, flags, left>>

\* Mutant of RpcRecv: the size of a request is not limited.
RpcRecvNoLimit ==
    /\ state["rpc"] = "run" /\ rpc.at = "recv"
    /\ rpc' \in {[rpc EXCEPT !.chunks = 1 - @], [rpc EXCEPT !.at = "top"]}
    /\ UNCHANGED <<main, state, prog, owner, flags, clients, left>>

\* handle, receiving: the client sends a little, however slowly, as long as
\* the limits allow; or it is silent for 5 s, closes, sends too much or what
\* is no request, and is dropped; or the request is complete.
RpcRecv ==
    /\ state["rpc"] = "run" /\ rpc.at = "recv"
    /\ \/ /\ rpc.chunks < MaxChunks
          /\ rpc' = [rpc EXCEPT !.chunks = @ + 1]
          /\ UNCHANGED prog
       \/ /\ rpc' = [rpc EXCEPT !.at = "top"]
          /\ UNCHANGED prog
       \/ /\ rpc.chunks > 0
          /\ rpc' = [rpc EXCEPT !.at = "handle"]
          /\ \E turn \in RpcTurns : prog' = [prog EXCEPT !["rpc"] = turn]
    /\ UNCHANGED <<main, state, owner, flags, clients, left>>

\* handle, sending: the answer is taken, or the send times out.
RpcSend ==
    /\ state["rpc"] = "run" /\ rpc.at = "handle" /\ prog["rpc"] = << >>
    /\ rpc' = [rpc EXCEPT !.at = "top"]
    /\ UNCHANGED <<main, state, prog, owner, flags, clients, left>>

---------------------------------------------------------------------------
(* The main thread: node_run *)

\* P2P::start: the thread runs, or the port is taken and node_run returns.
P2PStart ==
    /\ main = "p2p_start"
    /\ \/ /\ main' = "rpc_start"
          /\ flags' = [flags EXCEPT !.p2p = TRUE]
          /\ state' = [state EXCEPT !["net"] = "run"]
       \/ /\ main' = "unwind"
          /\ UNCHANGED <<flags, state>>
    /\ UNCHANGED <<prog, owner, rpc, clients, left>>

\* RpcServer::start, after which the miner and periodic threads start.  If the
\* port is taken node_run returns and the network thread goes on.
RpcStart ==
    /\ main = "rpc_start"
    /\ \/ /\ main' = "serve"
          /\ flags' = [flags EXCEPT !.rpc = TRUE]
          /\ rpc' = [rpc EXCEPT !.listening = TRUE]
          /\ state' = [state EXCEPT !["rpc"] = "run", !["miner"] = "run", !["periodic"] = "run"]
       \/ /\ main' = "unwind"
          /\ UNCHANGED <<flags, rpc, state>>
    /\ UNCHANGED <<prog, owner, clients, left>>

\* Ctrl+C: ctrl_handler.
CtrlC ==
    /\ main = "serve" /\ flags.app
    /\ flags' = [flags EXCEPT !.app = FALSE]
    /\ UNCHANGED <<main, state, prog, owner, rpc, clients, left>>

\* Mutant of RpcStop: the listener is closed after the join.
RpcStopJoinFirst ==
    /\ main = "serve" /\ ~flags.app
    /\ main' = "rpc_join"
    /\ flags' = [flags EXCEPT !.rpc = FALSE]
    /\ UNCHANGED <<state, prog, owner, rpc, clients, left>>

\* RpcServer::stop up to its join: closing the listener wakes accept.
RpcStop ==
    /\ main = "serve" /\ ~flags.app
    /\ main' = "rpc_join"
    /\ flags' = [flags EXCEPT !.rpc = FALSE]
    /\ rpc' = [rpc EXCEPT !.listening = FALSE]
    /\ clients' = 0
    /\ UNCHANGED <<state, prog, owner, left>>

\* Its join, and P2P::stop up to its own.
P2PStop ==
    /\ main = "rpc_join" /\ state["rpc"] = "ended"
    /\ main' = "p2p_join"
    /\ flags' = [flags EXCEPT !.p2p = FALSE]
    /\ UNCHANGED <<state, prog, owner, rpc, clients, left>>

\* The join of P2P::stop, after which the peers are closed under P2P::mtx.
P2PClear ==
    /\ main = "p2p_join" /\ state["net"] = "ended"
    /\ main' = "p2p_clear"
    /\ prog' = [prog EXCEPT !["main"] = P2PCall]
    /\ UNCHANGED <<state, owner, flags, rpc, clients, left>>

\* tm.join and tp.join; node_run returns.
Return ==
    /\ main = "p2p_clear" /\ prog["main"] = << >>
    /\ state["miner"] = "ended" /\ state["periodic"] = "ended"
    /\ main' = "unwind"
    /\ UNCHANGED <<state, prog, owner, flags, rpc, clients, left>>

\* ~App, one member at a time.  A P2P or RpcServer that was started and not
\* stopped has a joinable thread: ~thread ends the process.
Destroy ==
    /\ main = "unwind"
    /\ LET member == AppMembers[left]
       IN  IF member \in {"p2p", "rpc"} /\ flags[member]
           THEN /\ main' = "aborted"
                /\ state' = [t \in Worker |-> IF state[t] = "run" THEN "ended" ELSE state[t]]
                /\ prog' = [t \in Thread |-> << >>]
                /\ owner' = [m \in Mutex |-> Nobody]
                /\ UNCHANGED left
           ELSE /\ left' = left - 1
                /\ main' = IF left = 1 THEN "returned" ELSE main
                /\ UNCHANGED <<state, prog, owner>>
    /\ UNCHANGED <<flags, rpc, clients>>

\* The process has ended.
Ended == main \in {"returned", "aborted"} /\ UNCHANGED vars

Next ==
    \/ \E t \in Thread : Acquire(t) \/ Release(t)
    \/ \E t \in Worker : Loop(t)
    \/ ClientConnects \/ RpcTop \/ RpcAccept \/ RpcRecv \/ RpcSend
    \/ P2PStart \/ RpcStart \/ CtrlC \/ RpcStop \/ P2PStop \/ P2PClear \/ Return
    \/ Destroy
    \/ Ended

Spec == Init /\ [][Next]_vars

\* Threads are scheduled, waits end (select, sleep, receive and send have
\* timeouts, the search looks at running), and a mutex that is free again and
\* again is got in the end: every section is short and each loop waits outside
\* the mutexes.  Clients and Ctrl+C come or do not come.
Fairness ==
    /\ \A t \in Thread : SF_vars(Acquire(t)) /\ WF_vars(Release(t))
    /\ \A t \in Worker : WF_vars(Loop(t))
    /\ WF_vars(RpcTop) /\ WF_vars(RpcAccept) /\ WF_vars(RpcRecv) /\ WF_vars(RpcSend)
    /\ WF_vars(P2PStart) /\ WF_vars(RpcStart) /\ WF_vars(RpcStop) /\ WF_vars(P2PStop)
    /\ WF_vars(P2PClear) /\ WF_vars(Return) /\ WF_vars(Destroy)

FairSpec == Spec /\ Fairness

---------------------------------------------------------------------------
(* Properties *)

\* Thread t cannot go on before u does: u holds the mutex t wants, or is the
\* thread that main joins.
WaitsFor(t, u) ==
    \/ /\ prog[t] # << >> /\ Head(prog[t]).op = "acquire"
       /\ owner[Head(prog[t]).mutex] = u
    \/ /\ t = "main" /\ u \in Worker /\ state[u] # "ended"
       /\ \/ main = "rpc_join" /\ u = "rpc"
          \/ main = "p2p_join" /\ u = "net"
          \/ main = "p2p_clear" /\ prog["main"] = << >> /\ u \in {"miner", "periodic"}

\* "Lock order app->net is safe": no threads ever wait for each other in a
\* circle, a thread that waits for itself included, nor during shutdown.
NoCircularWait ==
    ~ \E S \in SUBSET Thread : S # {} /\ \A t \in S : \E u \in S : WaitsFor(t, u)

\* The members of App that the turns of thread t use.
Uses(t) ==
    CASE t = "net" -> {"mtx", "chain", "pool", "db", "p2p", "cand", "work_cache"}
      [] t = "rpc" -> {AppMembers[i] : i \in DOMAIN AppMembers} \ {"cand"}
      [] t = "miner" -> {"mtx", "chain", "pool", "db", "p2p", "work_cache"}
      [] t = "periodic" -> {"mtx", "chain", "pool", "p2p", "cand"}

\* node_run has returned without P2P::stop: the RPC port was taken.
StartFailed == main = "unwind" /\ flags.p2p

\* "Only this thread ever adds/removes peers, so the map is stable across the
\* unlocked wait", and nothing else a thread uses is taken away while it runs:
\* the peers are cleared when the network thread has ended, and App goes when
\* all have.  A start that fails destroys App under the network thread; what
\* holds then is that the process ends before the chain, the pool, the
\* database and the peers go.  cand and work_cache, which are declared after
\* the network, do go first, and not under App::mtx.
TeardownSafe ==
    /\ main = "p2p_clear" => state["net"] = "ended"
    /\ \A t \in Worker, i \in DOMAIN AppMembers :
          state[t] = "run" /\ AppMembers[i] \in Uses(t) =>
              i <= left \/ (StartFailed /\ AppMembers[i] \in {"cand", "work_cache"})

\* Ctrl+C ends the process, whatever the threads, the miner's search and a
\* client that sends slowly are at.
ShutdownEnds == ~flags.app ~> main = "returned"

\* "One request per connection, handled sequentially": no client holds the
\* server for ever.
RpcReturns == rpc.at = "recv" ~> rpc.at = "top"

=============================================================================
