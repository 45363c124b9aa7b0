------------------------------- MODULE Links --------------------------------
(***************************************************************************)
(* The TCP links between nodes: class P2P of src/net.h without what the    *)
(* frames after HELLO mean (module Sync).  A node dials every target for   *)
(* which it has no peer entry, again and again; it accepts whatever comes  *)
(* in; both ends queue a HELLO, and each end decides by itself, from the   *)
(* HELLO it reads, whether the link is the one of the two to keep.         *)
(*                                                                         *)
(* A node is its listen port.  A connection has a dialler's end and an     *)
(* acceptor's end, which live and die apart: an end is the Peer entry of   *)
(* its node.  Marking an entry dead and erasing it happen in one critical  *)
(* section and are one step.                                               *)
(***************************************************************************)
EXTENDS Naturals, Sequences, FiniteSets

CONSTANTS
    Node,       \* listen ports
    Targets,    \* Targets[n]: the nodes that n dials (--peers)
    NetId,      \* NetId[n]: the network n belongs to
    Slot,       \* bound of the model: connections of one dialler to one target
    MaxFaults   \* bound of the model: failures, stops and oversized frames

ASSUME PortAssumption == Node \subseteq Nat
\* A node does not list itself, and nobody can be reached at port 0, to which
\* connect fails at once.
ASSUME TargetsAssumption ==
    Targets \in [Node -> SUBSET Node] /\ \A n \in Node : n \notin Targets[n] /\ 0 \notin Targets[n]
ASSUME NetIdAssumption == NetId \in [Node -> Nat]
ASSUME LinkBoundsAssumption == IsFiniteSet(Slot) /\ MaxFaults \in Nat

VARIABLES
    conn,    \* conn[c]: the connection c, or NoConn
    alive,   \* alive[n]: the process of n runs
    faults   \* failures so far

vars == <<conn, alive, faults>>

Side == {"dial", "acc"}
Other(s) == IF s = "dial" THEN "acc" ELSE "dial"

\* The connections there can be: dialler, target, slot.
Conn == {c \in Node \X Node \X Slot : c[2] \in Targets[c[1]]}
Owner(c, s) == IF s = "dial" THEN c[1] ELSE c[2]
Far(c, s) == Owner(c, Other(s))

\* An end: "absent" until accept returns it, "connecting" until connect is
\* through, "open", "ready" once HELLO is read; then "closed", or "dup" if it
\* was closed with dedup_drop.  q[s] is what end s has yet to read.
EndState == {"absent", "connecting", "open", "ready", "closed", "dup"}
Frame == {"HELLO", "BIG", "EOF"}

NoConn == [st |-> [s \in Side |-> "closed"], q |-> [s \in Side |-> << >>]]

Over(state) == state \in {"closed", "dup"}
Live(c, s) == conn[c].st[s] \in {"connecting", "open", "ready"}

Init ==
    /\ conn = [c \in Conn |-> NoConn]
    /\ alive = [n \in Node |-> TRUE]
    /\ faults = 0

---------------------------------------------------------------------------
(* Making a connection *)

\* Mutant of HaveEntry: only an entry that is ready counts.
HaveEntryReady(n, t) == \E k \in Slot : conn[<<n, t, k>>].st["dial"] = "ready"

\* try_connect_targets finds an entry for the target that is not dead.
HaveEntry(n, t) == \E k \in Slot : Live(<<n, t, k>>, "dial")

\* try_connect_targets, every 2 s, for target t: a non-blocking connect.
Dial(n, t) ==
    /\ alive[n] /\ t \in Targets[n] /\ ~HaveEntry(n, t)
    /\ \E k \in Slot :
          /\ conn[<<n, t, k>>] = NoConn
          /\ conn' = [conn EXCEPT ![<<n, t, k>>].st =
                         [s \in Side |-> IF s = "dial" THEN "connecting" ELSE "absent"]]
    /\ UNCHANGED <<alive, faults>>

\* select reports the socket writable without an error: HELLO is queued.
\* The target's TCP stack answers, whether accept has been called or not.
Established(c) ==
    /\ conn[c].st["dial"] = "connecting" /\ alive[c[2]]
    /\ conn' = [conn EXCEPT ![c].st["dial"] = "open", ![c].q["acc"] = Append(@, "HELLO")]
    /\ UNCHANGED <<alive, faults>>

\* select reports an error: nobody listens there.
Refused(c) ==
    /\ conn[c].st["dial"] = "connecting" /\ ~alive[c[2]]
    /\ conn' = [conn EXCEPT ![c] = NoConn]
    /\ UNCHANGED <<alive, faults>>

\* accept returns the connection: a new entry, with HELLO queued.  The other
\* end may be gone by now.
Accept(c) ==
    /\ conn[c].st["acc"] = "absent" /\ alive[c[2]]
    /\ conn' = [conn EXCEPT ![c].st["acc"] = "open",
                            ![c].q["dial"] = IF Over(conn[c].st["dial"]) THEN @ ELSE Append(@, "HELLO")]
    /\ UNCHANGED <<alive, faults>>

---------------------------------------------------------------------------
(* Reading *)

\* Mutants of Redundant: the direction of the link is not looked at; every
\* link is kept; each side keeps the link it has dialled.
RedundantByPort(c, s) == ~(Owner(c, s) < Far(c, s))
RedundantNever(c, s) == FALSE
RedundantOwnDial(c, s) == s = "acc"

\* parse_frames, M_HELLO: the lower port is the canonical dialler, and the
\* link is not dialled by it.  A HELLO with port 0 is never redundant.
Redundant(c, s) ==
    LET shouldDial == Owner(c, s) < Far(c, s)
        isOutbound == s = "dial"
    IN  Far(c, s) # 0 /\ shouldDial # isOutbound

\* End s of c is closed as final, "closed" or "dup".  The other end reads the
\* end of the stream after what it has not read yet; if s had unread data the
\* close is a reset, and the other end may lose that.
Close(c, s, final) ==
    LET st == [conn[c].st EXCEPT ![s] = final]
        rest == {conn[c].q[Other(s)]} \cup (IF Len(conn[c].q[s]) > 1 THEN {<< >>} ELSE {})
    IN  IF Over(st[Other(s)]) THEN conn' = [conn EXCEPT ![c] = NoConn]
        ELSE \E q \in rest :
                conn' = [conn EXCEPT ![c] = [st |-> st,
                            q |-> [x \in Side |-> IF x = s THEN << >> ELSE Append(q, "EOF")]]]

\* Mutant of Read: a HELLO on a second link ends the one in use, not this one.
ReadNewest(c, s) ==
    /\ conn[c].st[s] \in {"open", "ready"} /\ conn[c].q[s] # << >>
    /\ LET f == Head(conn[c].q[s])
           foreign == NetId[Owner(c, s)] # NetId[Far(c, s)]
           older == {d \in Conn \ {c} : \E x \in Side : /\ Owner(d, x) = Owner(c, s) /\ Far(d, x) = Far(c, s)
                                                        /\ conn[d].st[x] = "ready"}
       IN  \/ f = "HELLO" /\ (foreign \/ (older = {} /\ Redundant(c, s))) /\ Close(c, s, "closed")
           \/ /\ f = "HELLO" /\ ~foreign /\ (older # {} \/ ~Redundant(c, s))
              /\ conn' = [d \in Conn |->
                            CASE d = c -> [conn[c] EXCEPT !.st[s] = "ready", !.q[s] = Tail(@)]
                              [] d \in older -> NoConn
                              [] OTHER -> conn[d]]
           \/ f \in {"BIG", "EOF"} /\ Close(c, s, "closed")
    /\ UNCHANGED <<alive, faults>>

\* recv and parse_frames on the next frame.  If the end of the stream has come
\* by then, the entry is dead and what came before it is not parsed.
Read(c, s) ==
    /\ conn[c].st[s] \in {"open", "ready"} /\ conn[c].q[s] # << >>
    /\ LET f == Head(conn[c].q[s])
           foreign == NetId[Owner(c, s)] # NetId[Far(c, s)]
       IN  \/ f = "HELLO" /\ foreign /\ Close(c, s, "closed")
           \/ f = "HELLO" /\ ~foreign /\ Redundant(c, s) /\ Close(c, s, "dup")
           \/ /\ f = "HELLO" /\ ~foreign /\ ~Redundant(c, s)
              /\ conn' = [conn EXCEPT ![c].st[s] = "ready", ![c].q[s] = Tail(@)]
           \/ f = "BIG" /\ Close(c, s, "closed")   \* more than 8 MB
           \/ (\E i \in DOMAIN conn[c].q[s] : conn[c].q[s][i] = "EOF") /\ Close(c, s, "closed")
    /\ UNCHANGED <<alive, faults>>

---------------------------------------------------------------------------
(* Failures *)

\* A ready node sends a frame of more than 8 MB: 200 large blocks, say.
SendBig(c, s) ==
    /\ conn[c].st[s] = "ready" /\ ~Over(conn[c].st[Other(s)]) /\ faults < MaxFaults
    /\ conn' = [conn EXCEPT ![c].q[Other(s)] = Append(@, "BIG")]
    /\ faults' = faults + 1
    /\ UNCHANGED alive

\* The connection breaks; each end that is there sees it after some of the
\* frames under way.
Breaks(c) ==
    /\ conn[c].st["acc"] \in {"open", "ready"} /\ conn[c].st["dial"] \in {"open", "ready"}
    /\ faults < MaxFaults
    /\ \E k \in 0 .. Len(conn[c].q["dial"]), l \in 0 .. Len(conn[c].q["acc"]) :
          conn' = [conn EXCEPT ![c].q = [s \in Side |->
                      SubSeq(@[s], 1, IF s = "dial" THEN k ELSE l) \o <<"EOF">>]]
    /\ faults' = faults + 1
    /\ UNCHANGED alive

\* The process of n ends (P2P::stop, or a crash).  Its ends are closed, and
\* connections it has not accepted are refused or reset.
Stop(n) ==
    /\ alive[n] /\ faults < MaxFaults
    /\ alive' = [alive EXCEPT ![n] = FALSE]
    /\ faults' = faults + 1
    /\ conn' = [c \in Conn |->
                  IF n \notin {c[1], c[2]} THEN conn[c]
                  ELSE LET s == IF c[1] = n THEN "dial" ELSE "acc"
                           far == conn[c].st[Other(s)]
                       IN  CASE Over(far) \/ (s = "acc" /\ far = "connecting") -> NoConn
                             [] OTHER -> [st |-> [x \in Side |-> IF x = s THEN "closed" ELSE far],
                                          q |-> [x \in Side |-> IF x = s THEN << >>
                                                                ELSE Append(conn[c].q[x], "EOF")]]]

\* P2P::start.
Start(n) ==
    /\ ~alive[n]
    /\ alive' = [alive EXCEPT ![n] = TRUE]
    /\ UNCHANGED <<conn, faults>>

Next ==
    \/ \E n, t \in Node : Dial(n, t)
    \/ \E c \in Conn : Established(c) \/ Refused(c) \/ Accept(c) \/ Breaks(c)
    \/ \E c \in Conn, s \in Side : Read(c, s) \/ SendBig(c, s)
    \/ \E n \in Node : Stop(n) \/ Start(n)

Spec == Init /\ [][Next]_vars

\* The network thread's loop runs as long as its process; a node that ends is
\* started again.
Fairness ==
    /\ \A n, t \in Node : WF_vars(Dial(n, t))
    /\ \A c \in Conn : WF_vars(Established(c)) /\ WF_vars(Refused(c)) /\ WF_vars(Accept(c))
    /\ \A c \in Conn, s \in Side : WF_vars(Read(c, s))
    /\ \A n \in Node : WF_vars(Start(n))

FairSpec == Spec /\ Fairness

---------------------------------------------------------------------------
(* Properties *)

\* "Keep exactly one, chosen deterministically so both sides agree": a link
\* that one end has dropped as redundant is not in use at the other end.
BothSidesAgree ==
    \A c \in Conn, s \in Side : conn[c].st[s] = "dup" => conn[c].st[Other(s)] # "ready"

\* The links between n and p that n uses, and not only because it has yet to
\* read the frame that will end them.
InUse(n, p) ==
    {c \in Conn : \E s \in Side :
        /\ Owner(c, s) = n /\ Far(c, s) = p
        /\ conn[c].st[s] = "ready" /\ conn[c].q[s] = << >>}

\* "One dedup'd link per peer pair": whatever was dialled, accepted, broken
\* and restarted, a node never uses two links to the same peer at a time.
OneLinkPerPair == \A n, p \in Node : Cardinality(InUse(n, p)) <= 1

\* The pair has the link that both sides use.
Linked(n, p) == Cardinality(InUse(n, p) \cap InUse(p, n)) = 1

\* Once failures stop, every pair whose lower port lists the higher one has a
\* link and keeps it, although the higher port goes on dialling.
LinksSettle ==
    \A n, p \in Node :
        n < p /\ p \in Targets[n] /\ NetId[n] = NetId[p] => <>[]Linked(n, p)

\* The link that a pair uses is lost only through a failure: connections that
\* are dialled, greeted and dropped beside it leave it alone.
LinkKept ==
    [][\A n, p \in Node : Linked(n, p) => Linked(n, p)' \/ faults' # faults]_vars

=============================================================================
